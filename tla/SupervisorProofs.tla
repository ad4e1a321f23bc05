-------------------------- MODULE SupervisorProofs --------------------------
(***************************************************************************)
(* Proofs about Supervisor for any number of supervisors, process ids,     *)
(* update jobs, versions and thresholds, and any number of crashes.        *)
(***************************************************************************)
EXTENDS MCSupervisor, TLAPS

USE SupervisorConstants

-----------------------------------------------------------------------------
\* The delay table and what a saturating counter can hold.
LEMMA DelayTableFacts ==
    /\ Len(DelayTable) = 5
    /\ \A i \in 1 .. 5 : DelayTable[i] \in Nat
<1>1. Len(DelayTable) = 5
  BY DEF DelayTable
<1>2. ASSUME NEW i \in 1 .. 5 PROVE DelayTable[i] \in Nat
  <2>1. i = 1 \/ i = 2 \/ i = 3 \/ i = 4 \/ i = 5
    BY <1>2
  <2> QED BY <2>1 DEF DelayTable
<1> QED BY <1>1, <1>2

\* BackoffStep (backoff.go) is total on every attempt count the tracker can hold.
LEMMA BackoffStepType ==
    ASSUME NEW n \in Nat
    PROVE  BackoffStep(n) \in Nat
<1>1. CASE n = 0
  BY <1>1 DEF BackoffStep
<1>2. CASE n # 0
  <2>1. (IF n > Len(DelayTable) THEN Len(DelayTable) ELSE n) \in 1 .. 5
    BY <1>2, DelayTableFacts
  <2> QED BY <2>1, <1>2, DelayTableFacts DEF BackoffStep
<1> QED BY <1>1, <1>2

\* A counter that stops at its cap stays within it.
LEMMA BumpType ==
    ASSUME NEW cap \in Nat, NEW n \in 0 .. cap
    PROVE  Bump(n, cap) \in 0 .. cap
BY DEF Bump

-----------------------------------------------------------------------------
\* Whoever is past Bootstrap's lock call holds the lock: the fact behind
\* OneSupervisor, preserved by every step of every supervisor and of manage.sh.
RunnerHoldsLock == \A s \in Sups : pc[s] \notin {"off", "boot"} => lock = s

\* Until commands of manage.sh meet, the one under way knows every supervisor there is:
\* none before it launches one and when it is about to remove the file, its own else.
Alone(S) == \A s \in Sups \ S : pc[s] \in {"off", "cleanup3"}

ScriptKnows(m) ==
    /\ script[m].at \in {"clear", "launch", "remove"} => Alone({})
    /\ script[m].at \in {"name", "print", "watch", "kill", "await"} =>
            script[m].sup \in Sups /\ Alone({script[m].sup})

OneCommand == \A m, n \in Scripts : script[m] # Idle /\ script[n] # Idle => m = n

ScriptInv == ~crossed => OneCommand /\ \A m \in Scripts : ScriptKnows(m)

\* The part of the type of the state that the lock depends on.
LockTypes ==
    /\ pc \in [Sups -> Labels]
    /\ pidFile \in Sups \cup {None}
    /\ script \in [Scripts -> [at : Steps, sup : Sups \cup {None}]]
    /\ crossed \in BOOLEAN
    /\ \A m \in Scripts : script[m].at = "idle" => script[m] = Idle

LockInv == LockTypes /\ RunnerHoldsLock /\ PidFileNamesSupervisor /\ ScriptInv

LEMMA LockInvInit == Init => LockInv
<1> SUFFICES ASSUME Init PROVE LockInv
  OBVIOUS
<1>1. LockTypes
  BY DEF Init, LockTypes, Labels, Steps, Idle
<1>2. RunnerHoldsLock /\ PidFileNamesSupervisor
  BY DEF Init, RunnerHoldsLock, PidFileNamesSupervisor, Named
<1>3. ScriptInv
  BY DEF Init, ScriptInv, ScriptKnows, OneCommand, Idle
<1> QED BY <1>1, <1>2, <1>3 DEF LockInv

\* A step of a supervisor changes where it is, and the lock and the PID file with it.
MovesOne(s) ==
    /\ \A t \in Sups \ {s} : pc'[t] = pc[t]
    /\ pc' \in [Sups -> Labels]
    /\ UNCHANGED manage
    /\ \/ pc[s] = "boot" /\ pc'[s] = "locked" /\ lock = None /\ lock' = s /\ pidFile' = pidFile
       \/ pc[s] = "boot" /\ pc'[s] = "off" /\ UNCHANGED <<lock, pidFile>>
       \/ pc[s] = "locked" /\ pc'[s] = "top" /\ pidFile' = s /\ UNCHANGED lock
       \/ pc[s] = "locked" /\ pc'[s] = "off" /\ pidFile' \in {pidFile, s} /\ lock' = None
       \/ /\ pc[s] \notin {"off", "boot", "locked", "cleanup3"} /\ pc'[s] \notin {"off", "boot"}
          /\ UNCHANGED <<lock, pidFile>>
       \/ pc'[s] = pc[s] /\ UNCHANGED <<lock, pidFile>>
       \/ pc[s] = "cleanup2" /\ pc'[s] = "cleanup3" /\ pidFile' \in {None, pidFile} /\ UNCHANGED lock
       \/ pc[s] = "cleanup3" /\ pc'[s] = "off" /\ lock' = None /\ UNCHANGED pidFile
       \/ pc'[s] = "off" /\ lock' = (IF lock = s THEN None ELSE lock) /\ UNCHANGED pidFile

LEMMA MoveKeepsLock ==
    ASSUME LockInv, NEW s \in Sups, MovesOne(s), pc[s] # "off"
    PROVE  LockInv'
<1> USE DEF manage
<1>1. LockTypes'
  BY DEF LockInv, LockTypes, MovesOne
<1>2. RunnerHoldsLock'
  BY DEF LockInv, LockTypes, MovesOne, RunnerHoldsLock
<1>3. ScriptInv'
  <2>1. ASSUME NEW S, Alone(S), s \in S \/ pc[s] = "cleanup3" PROVE Alone(S)'
    BY <2>1 DEF Alone, MovesOne
  <2>2. ASSUME NEW S, Alone(S) PROVE s \in S \/ pc[s] = "cleanup3"
    BY <2>2 DEF Alone
  <2>3. ASSUME ~crossed, NEW m \in Scripts PROVE ScriptKnows(m)'
    <3>1. ScriptKnows(m) /\ script' = script
      BY <2>3 DEF LockInv, ScriptInv, MovesOne
    <3> QED BY <2>1, <2>2, <3>1 DEF ScriptKnows
  <2> QED BY <2>3 DEF LockInv, ScriptInv, OneCommand, MovesOne
<1>4. PidFileNamesSupervisor'
  BY DEF LockInv, LockTypes, MovesOne, RunnerHoldsLock, PidFileNamesSupervisor, Named, Printing
<1> QED BY <1>1, <1>2, <1>3, <1>4 DEF LockInv

\* Every step of a supervisor on its own, and its end, is such a move.
LEMMA SupervisorMoves ==
    ASSUME LockTypes, NEW s \in Sups, Boot(s) \/ Loop(s) \/ Signal(s) \/ SupervisorCrash(s)
    PROVE  MovesOne(s) /\ pc[s] # "off"
<1> USE DEF LockTypes, MovesOne, Labels, Goto, files, supVars, tally, update, manage
<1>1. CASE Boot(s)
  <2>1. CASE AcquireLock(s)
    BY <2>1 DEF AcquireLock, Flock
  <2>2. CASE LockHeldByOther(s)
    BY <2>2 DEF LockHeldByOther, Exits
  <2>3. CASE WriteSupervisorPid(s)
    BY <2>3 DEF WriteSupervisorPid
  <2>4. CASE PidWriteFails(s)
    BY <2>4 DEF PidWriteFails, Exits
  <2> QED BY <1>1, <2>1, <2>2, <2>3, <2>4 DEF Boot
<1>2. CASE Start(s)
  BY <1>2 DEF Start, Spawn, WriteChildPid, ChildPidWriteFails, StartFails, StopAtTop
<1>3. CASE Exit(s)
  BY <1>3 DEF Exit, WaitChild, ExitWithoutRollback, RestoreOk, RestoreFails, Reschedule, Wake, StopAsleep
<1>4. CASE Stop(s)
  BY <1>4 DEF Stop, StopChild, KillChild, Stopped, RemoveChildPid, RemoveSupervisorPid, ReleaseLock, Exits
<1>5. CASE Signal(s)
  BY <1>5 DEF Signal, Cancelled
<1>6. CASE SupervisorCrash(s)
  BY <1>6 DEF SupervisorCrash, Dies, Exits
<1> QED BY <1>1, <1>2, <1>3, <1>4, <1>5, <1>6 DEF Loop

\* A new process has no lock; it meets manage.sh if a command is under way.
LEMMA LaunchKeepsLock ==
    ASSUME LockInv, NEW s \in Sups, Launch(s)
    PROVE  LockInv'
<1> USE DEF Launch, Launched, Goto, files, supVars, tally, update
<1>1. LockTypes' /\ RunnerHoldsLock' /\ PidFileNamesSupervisor'
  BY DEF LockInv, LockTypes, Labels, RunnerHoldsLock, PidFileNamesSupervisor, Named, Printing, Idle
<1>2. ScriptInv'
  <2> SUFFICES ASSUME ~crossed' PROVE \A m \in Scripts : script[m] = Idle
    BY DEF ScriptInv, OneCommand, ScriptKnows, Idle
  <2> QED BY DEF UnderWay
<1> QED BY <1>1, <1>2 DEF LockInv

\* What the step of a command of manage.sh leaves to show about the others.
LEMMA CommandAlone ==
    ASSUME LockInv, NEW m \in Scripts, script[m] # Idle, ~crossed
    PROVE  ScriptKnows(m) /\ \A n \in Scripts \ {m} : script[n] = Idle
BY DEF LockInv, ScriptInv, OneCommand

\* It is enough to look at the command that moves.
LEMMA CommandMoves ==
    ASSUME LockInv, NEW m \in Scripts, crossed' \in BOOLEAN, crossed => crossed',
           NEW st \in [at : Steps, sup : Sups \cup {None}], st.at = "idle" => st = Idle,
           script' = [script EXCEPT ![m] = st],
           pc' \in [Sups -> Labels], pidFile' \in Sups \cup {None}, RunnerHoldsLock',
           ~crossed' => \A n \in Scripts \ {m} : script[n] = Idle,
           ~crossed' => ScriptKnows(m)',
           ~crossed' /\ st.at # "print" => \A s \in Sups : Named(s)'
    PROVE  LockInv'
<1>1. script'[m] = st /\ \A n \in Scripts \ {m} : script'[n] = script[n]
  BY DEF LockInv, LockTypes
<1>2. LockTypes'
  BY <1>1 DEF LockInv, LockTypes
<1>3. PidFileNamesSupervisor'
  BY <1>1 DEF PidFileNamesSupervisor, Printing
<1>4. ScriptInv'
  <2> SUFFICES ASSUME ~crossed' PROVE OneCommand' /\ \A n \in Scripts : ScriptKnows(n)'
    BY DEF ScriptInv
  <2>1. OneCommand'
    BY <1>1 DEF OneCommand, Idle
  <2>2. ASSUME NEW n \in Scripts \ {m} PROVE ScriptKnows(n)'
    BY <1>1 DEF ScriptKnows, Idle
  <2> QED BY <2>1, <2>2
<1> QED BY <1>2, <1>3, <1>4 DEF LockInv

LEMMA ManageStartKeepsLock ==
    ASSUME LockInv, NEW m \in Scripts, ManageStart(m)
    PROVE  LockInv'
<1> USE DEF files, supVars, tally, update, manage
<1>0. LockTypes /\ RunnerHoldsLock /\ (~crossed => PidFileNamesSupervisor) /\ None \notin Sups
  BY DEF LockInv
<1>1. CASE StartReads(m)
  <2> DEFINE st == [at |-> "clear", sup |-> pidFile]
  <2>1. /\ script' = [script EXCEPT ![m] = st] /\ st \in [at : Steps, sup : Sups \cup {None}]
        /\ crossed' = (crossed \/ Meets) /\ UNCHANGED <<lock, pc, pidFile>> /\ ~Running(pidFile)
    BY <1>0, <1>1 DEF StartReads, At, LockTypes, Steps
  <2>2. ASSUME ~crossed' PROVE /\ \A n \in Scripts : script[n] = Idle
                               /\ \A s \in Sups : Named(s) /\ ~Starting(s)
    <3>1. ~crossed /\ ~Meets
      BY <2>1, <2>2
    <3>2. (\A n \in Scripts : script[n] = Idle) /\ \A s \in Sups : ~Starting(s)
      BY <3>1 DEF Meets, UnderWay
    <3>3. ~Printing
      BY <3>2 DEF Printing, Idle
    <3> QED BY <1>0, <3>1, <3>2, <3>3 DEF PidFileNamesSupervisor
  <2>3. ~crossed' => Alone({})
    BY <1>0, <2>1, <2>2 DEF Alone, Named, Starting, Running
  <2>4. ~crossed' => ScriptKnows(m)' /\ \A s \in Sups : Named(s)'
    BY <1>0, <2>1, <2>2, <2>3 DEF ScriptKnows, Alone, Named, LockTypes
  <2>5. RunnerHoldsLock' /\ crossed' \in BOOLEAN
    BY <1>0, <2>1 DEF RunnerHoldsLock, LockTypes
  <2> HIDE DEF st
  <2>6. st.at # "idle"
    BY DEF st
  <2> QED BY <1>0, <2>1, <2>2, <2>4, <2>5, <2>6, CommandMoves DEF LockTypes
<1>2. CASE StartClears(m)
  <2> DEFINE st == [at |-> "launch", sup |-> None]
  <2>1. /\ script' = [script EXCEPT ![m] = st] /\ st \in [at : Steps, sup : Sups \cup {None}]
        /\ UNCHANGED <<crossed, lock, pc>> /\ pidFile' \in {None, pidFile} /\ script[m].at = "clear"
    BY <1>0, <1>2 DEF StartClears, At, LockTypes, Steps
  <2>2. script[m] # Idle /\ st.at # "idle"
    BY <2>1 DEF Idle
  <2>3. ~crossed' => ScriptKnows(m) /\ \A n \in Scripts \ {m} : script[n] = Idle
    BY <2>1, <2>2, CommandAlone
  <2>4. ~crossed' => ScriptKnows(m)' /\ \A s \in Sups : Named(s)'
    BY <1>0, <2>1, <2>3 DEF ScriptKnows, Alone, Named, LockTypes
  <2>5. RunnerHoldsLock'
    BY <1>0, <2>1 DEF RunnerHoldsLock
  <2> HIDE DEF st
  <2> QED BY <1>0, <2>1, <2>2, <2>3, <2>4, <2>5, CommandMoves DEF LockTypes
<1>3. ASSUME NEW s \in Sups, StartLaunches(m, s) PROVE LockInv'
  <2> DEFINE st == [at |-> "name", sup |-> s]
  <2>1. /\ script' = [script EXCEPT ![m] = st] /\ st \in [at : Steps, sup : Sups \cup {None}]
        /\ UNCHANGED <<crossed, lock, pidFile>> /\ script[m].at = "launch"
        /\ pc' = [pc EXCEPT ![s] = "boot"]
    BY <1>0, <1>3 DEF StartLaunches, Launched, Goto, At, LockTypes, Steps
  <2>2. script[m] # Idle /\ st.at # "idle"
    BY <2>1 DEF Idle
  <2>3. ~crossed' => ScriptKnows(m) /\ \A n \in Scripts \ {m} : script[n] = Idle
    BY <2>1, <2>2, CommandAlone
  <2>4. ~crossed' => ScriptKnows(m)' /\ \A t \in Sups : Named(t)'
    BY <1>0, <2>1, <2>3 DEF ScriptKnows, Alone, Named, LockTypes
  <2>5. RunnerHoldsLock' /\ pc' \in [Sups -> Labels]
    BY <1>0, <2>1 DEF RunnerHoldsLock, LockTypes, Labels
  <2> HIDE DEF st
  <2> QED BY <1>0, <2>1, <2>2, <2>3, <2>4, <2>5, CommandMoves DEF LockTypes
<1>4. CASE StartTruncates(m)
  <2> DEFINE st == [at |-> "print", sup |-> script[m].sup]
  <2>1. /\ script' = [script EXCEPT ![m] = st] /\ st \in [at : Steps, sup : Sups \cup {None}]
        /\ UNCHANGED <<crossed, lock, pc>> /\ pidFile' = None /\ script[m].at = "name"
    BY <1>0, <1>4 DEF StartTruncates, At, LockTypes, Steps
  <2>2. script[m] # Idle /\ st.at # "idle" /\ st.at = "print"
    BY <2>1 DEF Idle
  <2>3. ~crossed' => ScriptKnows(m) /\ \A n \in Scripts \ {m} : script[n] = Idle
    BY <2>1, <2>2, CommandAlone
  <2>4. ~crossed' => ScriptKnows(m)'
    BY <1>0, <2>1, <2>3 DEF ScriptKnows, Alone, LockTypes
  <2>5. RunnerHoldsLock'
    BY <1>0, <2>1 DEF RunnerHoldsLock
  <2> HIDE DEF st
  <2> QED BY <1>0, <2>1, <2>2, <2>3, <2>4, <2>5, CommandMoves DEF LockTypes
<1>5. CASE StartPrints(m)
  <2> DEFINE st == [at |-> "watch", sup |-> script[m].sup]
  <2>1. /\ script' = [script EXCEPT ![m] = st] /\ st \in [at : Steps, sup : Sups \cup {None}]
        /\ UNCHANGED <<crossed, lock, pc>> /\ pidFile' = script[m].sup /\ script[m].at = "print"
    BY <1>0, <1>5 DEF StartPrints, At, LockTypes, Steps
  <2>2. script[m] # Idle /\ st.at # "idle"
    BY <2>1 DEF Idle
  <2>3. ~crossed' => ScriptKnows(m) /\ \A n \in Scripts \ {m} : script[n] = Idle
    BY <2>1, <2>2, CommandAlone
  <2>4. ~crossed' => ScriptKnows(m)' /\ \A s \in Sups : Named(s)'
    BY <1>0, <2>1, <2>3 DEF ScriptKnows, Alone, Named, LockTypes
  <2>5. RunnerHoldsLock' /\ pidFile' \in Sups \cup {None}
    BY <1>0, <2>1 DEF RunnerHoldsLock, LockTypes
  <2> HIDE DEF st
  <2> QED BY <1>0, <2>1, <2>2, <2>3, <2>4, <2>5, CommandMoves DEF LockTypes
<1>6. CASE StartWatches(m)
  <2>1. /\ script' = [script EXCEPT ![m] = Idle] /\ Idle \in [at : Steps, sup : Sups \cup {None}]
        /\ UNCHANGED <<crossed, lock, pc>> /\ script[m].at = "watch"
        /\ pidFile' = (IF Running(script[m].sup) THEN pidFile ELSE None)
    BY <1>0, <1>6 DEF StartWatches, Done, LockTypes, Steps, Idle
  <2>2. script[m] # Idle /\ script'[m].at = "idle"
    BY <1>0, <2>1 DEF Idle, LockTypes
  <2>3. ~crossed' => ScriptKnows(m) /\ \A n \in Scripts \ {m} : script[n] = Idle
    BY <2>1, <2>2, CommandAlone
  <2>4. ~crossed' => ScriptKnows(m)'
    BY <2>2 DEF ScriptKnows
  <2>5. ~crossed => ~Printing
    BY <2>1, <2>3 DEF Printing, Idle
  <2>6. ~crossed' => \A s \in Sups : Named(s)'
    BY <1>0, <2>1, <2>3, <2>5 DEF ScriptKnows, Alone, Named, Running, PidFileNamesSupervisor, LockTypes
  <2>7. RunnerHoldsLock' /\ pidFile' \in Sups \cup {None}
    BY <1>0, <2>1 DEF RunnerHoldsLock, LockTypes
  <2> QED BY <1>0, <2>1, <2>2, <2>3, <2>4, <2>6, <2>7, CommandMoves DEF LockTypes
<1> QED BY <1>1, <1>2, <1>3, <1>4, <1>5, <1>6 DEF ManageStart

LEMMA ManageStopKeepsLock ==
    ASSUME LockInv, NEW m \in Scripts, ManageStop(m)
    PROVE  LockInv'
<1> USE DEF files, supVars, tally, update, manage
<1>0. LockTypes /\ RunnerHoldsLock /\ (~crossed => PidFileNamesSupervisor) /\ None \notin Sups
  BY DEF LockInv
<1>a. ASSUME script[m].at # "idle", script[m].at # "print", ~crossed
      PROVE  /\ ScriptKnows(m) /\ \A n \in Scripts \ {m} : script[n] = Idle
             /\ \A s \in Sups : Named(s)
  <2>1. ScriptKnows(m) /\ \A n \in Scripts \ {m} : script[n] = Idle
    BY <1>a, CommandAlone DEF Idle
  <2>2. ~Printing
    BY <1>a, <2>1 DEF Printing, Idle
  <2> QED BY <1>0, <1>a, <2>1, <2>2 DEF PidFileNamesSupervisor
<1>1. CASE StopReads(m)
  <2> DEFINE st == IF Running(pidFile) THEN [at |-> "kill", sup |-> pidFile] ELSE [at |-> "remove", sup |-> None]
  <2>1. /\ script' = [script EXCEPT ![m] = st] /\ st \in [at : Steps, sup : Sups \cup {None}] /\ st.at # "idle"
        /\ crossed' = (crossed \/ Meets) /\ UNCHANGED <<lock, pc, pidFile>> /\ st.at # "print"
    BY <1>0, <1>1 DEF StopReads, At, LockTypes, Steps
  <2>2. ASSUME ~crossed' PROVE /\ \A n \in Scripts : script[n] = Idle
                               /\ \A s \in Sups : Named(s) /\ ~Starting(s)
    <3>1. ~crossed /\ ~Meets
      BY <2>1, <2>2
    <3>2. (\A n \in Scripts : script[n] = Idle) /\ \A s \in Sups : ~Starting(s)
      BY <3>1 DEF Meets, UnderWay
    <3>3. ~Printing
      BY <3>2 DEF Printing, Idle
    <3> QED BY <1>0, <3>1, <3>2, <3>3 DEF PidFileNamesSupervisor
  <2>3. ASSUME ~crossed' PROVE ScriptKnows(m)'
    <3>1. CASE Running(pidFile)
      <4>1. script'[m] = [at |-> "kill", sup |-> pidFile] /\ pidFile \in Sups
        BY <1>0, <2>1, <3>1 DEF LockTypes, Running
      <4>2. Alone({pidFile})'
        BY <1>0, <2>1, <2>2, <2>3 DEF Alone, Named, Starting
      <4> HIDE DEF st
      <4>3. script'[m].at = "kill" /\ script'[m].sup = pidFile
        BY <4>1
      <4>4. Alone({script[m].sup})'
        BY <2>1, <4>2, <4>3 DEF Alone
      <4> QED BY <4>1, <4>3, <4>4, <2>1 DEF ScriptKnows
    <3>2. CASE ~Running(pidFile)
      <4>1. script'[m] = [at |-> "remove", sup |-> None]
        BY <1>0, <2>1, <3>2 DEF LockTypes
      <4>2. Alone({})'
        BY <1>0, <2>1, <2>2, <2>3, <3>2 DEF Alone, Named, Starting, Running
      <4> QED BY <4>1, <4>2, <2>3 DEF ScriptKnows
    <3> QED BY <3>1, <3>2
  <2>4. ~crossed' => \A s \in Sups : Named(s)'
    BY <2>1, <2>2 DEF Named
  <2>5. RunnerHoldsLock' /\ crossed' \in BOOLEAN
    BY <1>0, <2>1 DEF RunnerHoldsLock, LockTypes
  <2> HIDE DEF st
  <2> QED BY <1>0, <2>1, <2>2, <2>3, <2>4, <2>5, CommandMoves DEF LockTypes
<1>2. CASE StopSignals(m)
  <2> DEFINE s == script[m].sup
             st == [at |-> "await", sup |-> s]
  <2>1. /\ script' = [script EXCEPT ![m] = st] /\ st \in [at : Steps, sup : Sups \cup {None}]
        /\ UNCHANGED <<crossed, pidFile>> /\ script[m].at = "kill"
    BY <1>0, <1>2 DEF StopSignals, At, LockTypes, Steps
  <2>2. \/ UNCHANGED <<lock, pc>>
        \/ pc' = [pc EXCEPT ![s] = "off"] /\ lock' = (IF lock = s THEN None ELSE lock)
    BY <1>2 DEF StopSignals, Dies, Exits, Goto
  <2>3. ~crossed => ScriptKnows(m) /\ (\A n \in Scripts \ {m} : script[n] = Idle) /\ \A t \in Sups : Named(t)
    BY <1>a, <2>1
  <2>4. ~crossed' => ScriptKnows(m)' /\ \A t \in Sups : Named(t)'
    BY <1>0, <2>1, <2>2, <2>3 DEF ScriptKnows, Alone, Named, LockTypes
  <2>5. RunnerHoldsLock' /\ pc' \in [Sups -> Labels] /\ st.at # "idle"
    BY <1>0, <2>2 DEF RunnerHoldsLock, LockTypes, Labels
  <2> HIDE DEF st
  <2> QED BY <1>0, <2>1, <2>3, <2>4, <2>5, CommandMoves DEF LockTypes
<1>3. CASE StopMisses(m)
  <2>1. /\ script' = [script EXCEPT ![m] = Idle] /\ Idle \in [at : Steps, sup : Sups \cup {None}]
        /\ UNCHANGED <<crossed, lock, pc, pidFile>> /\ script[m].at = "kill"
    BY <1>0, <1>3 DEF StopMisses, Done, LockTypes, Steps, Idle
  <2>2. ~crossed => (\A n \in Scripts \ {m} : script[n] = Idle) /\ \A t \in Sups : Named(t)
    BY <1>a, <2>1
  <2>3. script'[m].at = "idle"
    BY <1>0, <2>1 DEF Idle, LockTypes
  <2>4. ScriptKnows(m)' /\ RunnerHoldsLock'
    BY <1>0, <2>1, <2>3 DEF ScriptKnows, RunnerHoldsLock
  <2>5. ~crossed' => \A t \in Sups : Named(t)'
    BY <2>1, <2>2 DEF Named
  <2> QED BY <1>0, <2>1, <2>2, <2>4, <2>5, CommandMoves DEF LockTypes
<1>4. CASE StopSees(m)
  <2> DEFINE st == [at |-> "remove", sup |-> None]
  <2>1. /\ script' = [script EXCEPT ![m] = st] /\ st \in [at : Steps, sup : Sups \cup {None}]
        /\ UNCHANGED <<crossed, lock, pc, pidFile>> /\ script[m].at = "await" /\ pc[script[m].sup] = "off"
    BY <1>0, <1>4 DEF StopSees, At, LockTypes, Steps
  <2>2. ~crossed => ScriptKnows(m) /\ (\A n \in Scripts \ {m} : script[n] = Idle) /\ \A t \in Sups : Named(t)
    BY <1>a, <2>1
  <2>3. ~crossed' => ScriptKnows(m)' /\ \A t \in Sups : Named(t)'
    BY <1>0, <2>1, <2>2 DEF ScriptKnows, Alone, Named, LockTypes
  <2>4. RunnerHoldsLock' /\ st.at # "idle"
    BY <1>0, <2>1 DEF RunnerHoldsLock
  <2> HIDE DEF st
  <2> QED BY <1>0, <2>1, <2>2, <2>3, <2>4, CommandMoves DEF LockTypes
<1>5. CASE StopForces(m)
  <2> DEFINE s == script[m].sup
             st == [at |-> "remove", sup |-> None]
  <2>1. /\ script' = [script EXCEPT ![m] = st] /\ st \in [at : Steps, sup : Sups \cup {None}]
        /\ UNCHANGED <<crossed, pidFile>> /\ script[m].at = "await"
    BY <1>0, <1>5 DEF StopForces, At, LockTypes, Steps
  <2>2. pc' = [pc EXCEPT ![s] = "off"] /\ lock' = (IF lock = s THEN None ELSE lock)
    BY <1>5 DEF StopForces, Dies, Exits, Goto
  <2>3. ~crossed => ScriptKnows(m) /\ (\A n \in Scripts \ {m} : script[n] = Idle) /\ \A t \in Sups : Named(t)
    BY <1>a, <2>1
  <2>4. ~crossed' => ScriptKnows(m)' /\ \A t \in Sups : Named(t)'
    BY <1>0, <2>1, <2>2, <2>3 DEF ScriptKnows, Alone, Named, LockTypes
  <2>5. RunnerHoldsLock' /\ pc' \in [Sups -> Labels] /\ st.at # "idle"
    BY <1>0, <2>2 DEF RunnerHoldsLock, LockTypes, Labels
  <2> HIDE DEF st
  <2> QED BY <1>0, <2>1, <2>3, <2>4, <2>5, CommandMoves DEF LockTypes
<1>6. CASE StopRemoves(m)
  <2>1. /\ script' = [script EXCEPT ![m] = Idle] /\ Idle \in [at : Steps, sup : Sups \cup {None}]
        /\ UNCHANGED <<crossed, lock, pc>> /\ script[m].at = "remove" /\ pidFile' = None
    BY <1>0, <1>6 DEF StopRemoves, Done, LockTypes, Steps, Idle
  <2>2. ~crossed => ScriptKnows(m) /\ \A n \in Scripts \ {m} : script[n] = Idle
    BY <1>a, <2>1
  <2>3. script'[m].at = "idle"
    BY <1>0, <2>1 DEF Idle, LockTypes
  <2>4. ScriptKnows(m)' /\ RunnerHoldsLock'
    BY <1>0, <2>1, <2>3 DEF ScriptKnows, RunnerHoldsLock
  <2>5. ~crossed' => \A t \in Sups : Named(t)'
    BY <2>1, <2>2 DEF ScriptKnows, Alone, Named
  <2> QED BY <1>0, <2>1, <2>2, <2>4, <2>5, CommandMoves DEF LockTypes
<1> QED BY <1>1, <1>2, <1>3, <1>4, <1>5, <1>6 DEF ManageStop

LEMMA LockInvStep == LockInv /\ [Next]_vars => LockInv'
<1> SUFFICES ASSUME LockInv, [Next]_vars PROVE LockInv'
  OBVIOUS
<1>1. ASSUME NEW s \in Sups, Boot(s) \/ Loop(s) \/ Signal(s) \/ SupervisorCrash(s) PROVE LockInv'
  BY <1>1, SupervisorMoves, MoveKeepsLock DEF LockInv
<1>2. ASSUME NEW s \in Sups, Launch(s) PROVE LockInv'
  BY <1>2, LaunchKeepsLock
<1>3. ASSUME NEW m \in Scripts, ManageStart(m) \/ ManageStop(m) PROVE LockInv'
  BY <1>3, ManageStartKeepsLock, ManageStopKeepsLock
<1>4. CASE UNCHANGED <<lock, pidFile, pc, manage>>
  BY <1>4 DEF manage, LockInv, LockTypes, RunnerHoldsLock, PidFileNamesSupervisor, Named, Printing, ScriptInv,
     ScriptKnows, OneCommand, Alone, Idle
<1>5. ASSUME NEW p \in Pids, ChildExits(p) \/ ChildConfirms(p) PROVE LockInv'
  BY <1>4, <1>5 DEF ChildExits, ChildConfirms, files, supVars
<1>6. ASSUME NEW p \in Pids, NEW v \in Versions, NEW h \in Handoffs \cup {Garbled}, ChildUpdates(p, v, h) PROVE LockInv'
  BY <1>4, <1>6 DEF ChildUpdates, files, supVars
<1>7. CASE Tick
  BY <1>4, <1>7 DEF Tick, files, supVars
<1>8. CASE UNCHANGED vars
  BY <1>4, <1>8 DEF vars, files, supVars
<1> QED
  BY <1>1, <1>2, <1>3, <1>5, <1>6, <1>7, <1>8 DEF Next, Environment

\* The invariant of the lock holds of every run.
LEMMA LockHeld == Spec => []LockInv
BY LockInvInit, LockInvStep, PTL DEF Spec

\* Two supervisors are never past the lock (Bootstrap, flock), for every number of
\* supervisors and crashes.
THEOREM LockSafety == Spec => []OneSupervisor
<1>1. LockInv => OneSupervisor
  BY DEF LockInv, RunnerHoldsLock, OneSupervisor
<1> QED BY <1>1, LockHeld, PTL

\* The PID file names the supervisor that is past the lock, up to the last step of its
\* clean-up (Bootstrap, cleanupFinal), for any number of supervisors and of commands of
\* manage.sh, as long as those do not meet each other or a launch.
THEOREM PidFileNamed == Spec => []PidFileNamesSupervisor
<1>1. LockInv => PidFileNamesSupervisor
  BY DEF LockInv
<1> QED BY <1>1, LockHeld, PTL

-----------------------------------------------------------------------------
\* Helpers of handleHandoffAfterExit and of the backoff have the types TypeOK needs.
LEMMA HelperTypes ==
    ASSUME TypeOK, NEW s \in Sups
    PROVE  /\ HandoffJob \in Jobs \cup {None}
           /\ FastFailAfter(s) \in 0 .. FastFailThreshold
           /\ UptimeCap \in Nat
<1>1. HandoffJob \in Jobs \cup {None}
  BY DEF HandoffJob, Handoffs
<1>2. FastFailAfter(s) \in 0 .. FastFailThreshold
  BY DEF FastFailAfter, TypeOK, Bump
<1>3. UptimeCap \in Nat
  BY DEF UptimeCap
<1> QED BY <1>1, <1>2, <1>3

\* Every way the backoff is advanced keeps its attempts and its delay well typed.
LEMMA RescheduleType ==
    ASSUME TypeOK, NEW s \in Sups, NEW fresh \in BOOLEAN, Reschedule(s, fresh)
    PROVE  /\ attempts' \in [Sups -> 0 .. Len(DelayTable)]
           /\ delay' \in [Sups -> Nat]
           /\ pc' \in [Sups -> Labels]
<1> DEFINE base == IF fresh \/ uptime[child[s]] > StableAfter THEN 0 ELSE attempts[s]
<1>1. base \in 0 .. 5
  BY DelayTableFacts DEF TypeOK
<1>2. Bump(base, Len(DelayTable)) \in 0 .. 5
  BY <1>1, DelayTableFacts, BumpType
<1>3. attempts' = [attempts EXCEPT ![s] = Bump(base, Len(DelayTable))]
  BY DEF Reschedule
<1> HIDE DEF base
<1>4. attempts' \in [Sups -> 0 .. Len(DelayTable)] /\ attempts'[s] \in Nat
  BY <1>2, <1>3, DelayTableFacts DEF TypeOK
<1>5. BackoffStep(attempts'[s]) \in Nat
  BY <1>4, BackoffStepType
<1> QED
  BY <1>4, <1>5 DEF Reschedule, Goto, TypeOK, Labels

LEMMA TypeInit == Init => TypeOK
<1>1. Idle \in [at : Steps, sup : Sups \cup {None}]
  BY DEF Idle, Steps
<1>2. 0 \in 0 .. Len(DelayTable) /\ UptimeCap \in Nat
  BY DelayTableFacts DEF UptimeCap
<1>3. Init => script \in [Scripts -> [at : Steps, sup : Sups \cup {None}]]
  BY <1>1 DEF Init
<1>4. Init => uptime \in [Pids -> 0 .. UptimeCap] /\ attempts \in [Sups -> 0 .. Len(DelayTable)]
  BY <1>2 DEF Init
<1>5. Init => pc \in [Sups -> Labels] /\ proc \in [Pids -> {"free", "alive", "zombie", "reaped"}]
  BY DEF Init, Labels
<1>6. Init => /\ term \in [Sups -> BOOLEAN] /\ child \in [Sups -> Pids \cup {None}] /\ delay \in [Sups -> Nat]
              /\ fastFail \in [Sups -> 0 .. FastFailThreshold] /\ lastJob \in [Sups -> Jobs \cup {None}]
  BY DEF Init
<1>7. Init => /\ lock \in Sups \cup {None} /\ pidFile \in Sups \cup {None} /\ childPidFile \in Pids \cup {None}
              /\ handoff \in Handoffs \cup {None, Garbled} /\ age \in 0 .. RestartTimeout
              /\ installed \in Versions /\ crashes \in 0 .. MaxCrashes /\ crossed \in BOOLEAN
  <2>1. 0 \in 0 .. RestartTimeout /\ 0 \in 0 .. MaxCrashes
    OBVIOUS
  <2> QED BY <2>1 DEF Init
<1> QED BY <1>3, <1>4, <1>5, <1>6, <1>7 DEF TypeOK

\* The commands of manage.sh keep the types.
LEMMA ManageStartTypes == ASSUME TypeOK, NEW m \in Scripts, ManageStart(m) PROVE TypeOK'
<1> USE DEF files, supVars, tally, update, manage, At, Done
<1>1. script[m].sup \in Sups \cup {None} /\ Idle \in [at : Steps, sup : Sups \cup {None}]
  BY DEF TypeOK, Idle, Steps
<1>2. CASE StartReads(m)
  <2>1. crossed' \in BOOLEAN
    BY <1>2 DEF StartReads, TypeOK, Meets, UnderWay
  <2> QED BY <1>2, <2>1 DEF StartReads, TypeOK, Steps
<1>3. CASE StartClears(m)
  BY <1>3 DEF StartClears, TypeOK, Steps
<1>4. ASSUME NEW s \in Sups, StartLaunches(m, s) PROVE TypeOK'
  BY <1>4 DEF StartLaunches, Launched, Goto, TypeOK, Steps, Labels
<1>5. CASE StartTruncates(m) \/ StartPrints(m)
  <2>1. script' \in [Scripts -> [at : Steps, sup : Sups \cup {None}]]
    <3>1. \E st \in [at : Steps, sup : Sups \cup {None}] : script' = [script EXCEPT ![m] = st]
      BY <1>1, <1>5 DEF StartTruncates, StartPrints, Steps
    <3> QED BY <3>1 DEF TypeOK
  <2>2. pidFile' \in Sups \cup {None}
    BY <1>1, <1>5 DEF StartTruncates, StartPrints, TypeOK
  <2> QED BY <1>5, <2>1, <2>2 DEF StartTruncates, StartPrints, TypeOK
<1>6. CASE StartWatches(m)
  BY <1>1, <1>6 DEF StartWatches, TypeOK
<1> QED BY <1>2, <1>3, <1>4, <1>5, <1>6 DEF ManageStart

LEMMA ManageStopTypes == ASSUME TypeOK, NEW m \in Scripts, ManageStop(m) PROVE TypeOK'
<1> USE DEF files, supVars, tally, update, manage, At, Done
<1>1. script[m].sup \in Sups \cup {None} /\ Idle \in [at : Steps, sup : Sups \cup {None}]
  BY DEF TypeOK, Idle, Steps
<1> DEFINE s == script[m].sup
<1>2. ASSUME Exits(s)
      PROVE  /\ pc' \in [Sups -> Labels] /\ term' \in [Sups -> BOOLEAN] /\ child' \in [Sups -> Pids \cup {None}]
             /\ attempts' \in [Sups -> 0 .. Len(DelayTable)] /\ delay' \in [Sups -> Nat]
             /\ fastFail' \in [Sups -> 0 .. FastFailThreshold] /\ lastJob' \in [Sups -> Jobs \cup {None}]
  <2>1. 0 \in 0 .. Len(DelayTable) /\ 0 \in 0 .. FastFailThreshold
    BY DelayTableFacts
  <2> HIDE DEF s
  <2> QED BY <1>2, <2>1 DEF TypeOK, Labels, Goto, Exits
<1>3. CASE StopReads(m)
  <2>1. crossed' \in BOOLEAN
    BY <1>3 DEF StopReads, TypeOK, Meets, UnderWay
  <2>2. script' \in [Scripts -> [at : Steps, sup : Sups \cup {None}]]
    <3>1. \E st \in [at : Steps, sup : Sups \cup {None}] : script' = [script EXCEPT ![m] = st]
      BY <1>3 DEF StopReads, TypeOK, Steps
    <3> QED BY <3>1 DEF TypeOK
  <2> QED BY <1>3, <2>1, <2>2 DEF StopReads, TypeOK
<1>4. CASE StopSignals(m)
  <2>1. script' \in [Scripts -> [at : Steps, sup : Sups \cup {None}]]
    BY <1>1, <1>4 DEF StopSignals, TypeOK, Steps
  <2>2. CASE Dies(s)
    BY <1>2, <1>4, <2>1, <2>2 DEF StopSignals, Dies, TypeOK
  <2>3. CASE Cancelled(s) /\ UNCHANGED <<lock, pc, child, tally>>
    BY <1>4, <2>1, <2>3 DEF StopSignals, Cancelled, TypeOK
  <2> QED BY <1>4, <2>2, <2>3 DEF StopSignals
<1>5. CASE StopMisses(m) \/ StopRemoves(m)
  <2>1. script' \in [Scripts -> [at : Steps, sup : Sups \cup {None}]]
    BY <1>1, <1>5 DEF StopMisses, StopRemoves, TypeOK
  <2>2. CASE StopMisses(m)
    BY <2>1, <2>2 DEF StopMisses, TypeOK
  <2>3. CASE StopRemoves(m)
    BY <2>1, <2>3 DEF StopRemoves, TypeOK
  <2> QED BY <1>5, <2>2, <2>3
<1>6. CASE StopSees(m)
  BY <1>6 DEF StopSees, TypeOK, Steps
<1>7. CASE StopForces(m)
  <2>1. Orphaned(s) \in [Pids -> {"free", "alive", "zombie", "reaped"}]
    BY DEF Orphaned, TypeOK
  <2>2. script' \in [Scripts -> [at : Steps, sup : Sups \cup {None}]]
    BY <1>7 DEF StopForces, TypeOK, Steps
  <2>3. proc' \in [Pids -> {"free", "alive", "zombie", "reaped"}]
    BY <1>7, <2>1 DEF StopForces
  <2>4. crashes' \in 0 .. MaxCrashes /\ UNCHANGED <<files, uptime, update, crossed>> /\ Dies(s)
    BY <1>7 DEF StopForces, TypeOK
  <2> QED BY <1>2, <2>2, <2>3, <2>4 DEF Dies, TypeOK
<1> QED BY <1>3, <1>4, <1>5, <1>6, <1>7 DEF ManageStop

LEMMA TypeStep == TypeOK /\ [Next]_vars => TypeOK'
<1> SUFFICES ASSUME TypeOK, [Next]_vars PROVE TypeOK'
  OBVIOUS
<1> USE DEF files, supVars, tally, update, manage
<1>0. 0 \in 0 .. Len(DelayTable) /\ 0 \in 0 .. FastFailThreshold
  BY DelayTableFacts
<1>a. ASSUME NEW s \in Sups, Exits(s)
      PROVE  /\ pc' \in [Sups -> Labels] /\ term' \in [Sups -> BOOLEAN] /\ child' \in [Sups -> Pids \cup {None}]
             /\ attempts' \in [Sups -> 0 .. Len(DelayTable)] /\ delay' \in [Sups -> Nat]
             /\ fastFail' \in [Sups -> 0 .. FastFailThreshold] /\ lastJob' \in [Sups -> Jobs \cup {None}]
  BY <1>0, <1>a DEF TypeOK, Labels, Goto, Exits
<1>1. ASSUME NEW s \in Sups, Boot(s) PROVE TypeOK'
  <2>1. CASE AcquireLock(s)
    BY <2>1 DEF TypeOK, Labels, Goto, AcquireLock, Flock
  <2>2. CASE WriteSupervisorPid(s)
    BY <2>2 DEF TypeOK, Labels, Goto, WriteSupervisorPid
  <2>3. CASE PidWriteFails(s) \/ LockHeldByOther(s)
    BY <1>a, <2>3 DEF TypeOK, PidWriteFails, LockHeldByOther
  <2> QED BY <1>1, <2>1, <2>2, <2>3 DEF Boot
<1>2. ASSUME NEW s \in Sups, Start(s) PROVE TypeOK'
  <2>1. CASE StartFails(s)
    <3>1. Bump(attempts[s], Len(DelayTable)) \in 0 .. Len(DelayTable)
      BY BumpType, DelayTableFacts DEF TypeOK
    <3>2. attempts' \in [Sups -> 0 .. Len(DelayTable)] /\ attempts'[s] \in Nat
      BY <2>1, <3>1, DelayTableFacts DEF TypeOK, StartFails
    <3>3. BackoffStep(attempts'[s]) \in Nat
      BY <3>2, BackoffStepType
    <3> QED BY <2>1, <3>2, <3>3 DEF StartFails, TypeOK, Labels, Goto
  <2>2. CASE \E p \in Pids : Spawn(s, p)
    <3>1. PICK p \in Pids : Spawn(s, p)
      BY <2>2
    <3>2. UptimeCap \in Nat
      BY HelperTypes
    <3> QED BY SMTT(20), <3>1, <3>2 DEF Spawn, TypeOK, Labels, Goto
  <2>3. CASE WriteChildPid(s) \/ ChildPidWriteFails(s) \/ StopAtTop(s)
    <3>1. CASE WriteChildPid(s)
      BY <3>1 DEF WriteChildPid, TypeOK, Labels, Goto
    <3>2. CASE ChildPidWriteFails(s) \/ StopAtTop(s)
      BY <3>2 DEF ChildPidWriteFails, StopAtTop, TypeOK, Labels, Goto
    <3> QED BY <2>3, <3>1, <3>2
  <2> QED BY <1>2, <2>1, <2>2, <2>3 DEF Start
<1>3. ASSUME NEW s \in Sups, Exit(s) PROVE TypeOK'
  <2>1. CASE WaitChild(s)
    BY <2>1 DEF WaitChild, TypeOK
  <2>2. CASE ExitWithoutRollback(s) \/ RestoreFails(s)
    <3>1. Reschedule(s, FALSE)
      BY <2>2 DEF ExitWithoutRollback, RestoreFails
    <3>2. /\ attempts' \in [Sups -> 0 .. Len(DelayTable)]
          /\ delay' \in [Sups -> Nat]
          /\ pc' \in [Sups -> Labels]
      BY <3>1, RescheduleType
    <3>5. HandoffJob \in Jobs \cup {None} /\ FastFailAfter(s) \in 0 .. FastFailThreshold
      BY HelperTypes
    <3>6. lastJob' = [lastJob EXCEPT ![s] = HandoffJob]
      BY <2>2 DEF ExitWithoutRollback, RestoreFails
    <3>7. fastFail' = [fastFail EXCEPT ![s] = FastFailAfter(s)] \/ fastFail' = [fastFail EXCEPT ![s] = 0]
      BY <2>2 DEF ExitWithoutRollback, RestoreFails
    <3>8. \E n \in 0 .. FastFailThreshold : fastFail' = [fastFail EXCEPT ![s] = n]
      BY <3>5, <3>7
    <3>3. /\ lastJob' \in [Sups -> Jobs \cup {None}]
          /\ fastFail' \in [Sups -> 0 .. FastFailThreshold]
      <4>1. lastJob' \in [Sups -> Jobs \cup {None}]
        BY <3>5, <3>6 DEF TypeOK
      <4>2. fastFail' \in [Sups -> 0 .. FastFailThreshold]
        BY <3>8 DEF TypeOK
      <4> QED BY <4>1, <4>2
    <3>4. proc' \in [Pids -> {"free", "alive", "zombie", "reaped"}] /\ child' \in [Sups -> Pids \cup {None}]
      BY <2>2 DEF ExitWithoutRollback, RestoreFails, FreeChild, TypeOK
    <3> QED BY <2>2, <3>2, <3>3, <3>4 DEF ExitWithoutRollback, RestoreFails, TypeOK
  <2>3. CASE RestoreOk(s)
    <3>1. Reschedule(s, TRUE)
      BY <2>3 DEF RestoreOk
    <3>2. /\ attempts' \in [Sups -> 0 .. Len(DelayTable)]
          /\ delay' \in [Sups -> Nat]
          /\ pc' \in [Sups -> Labels]
      BY <3>1, RescheduleType
    <3>3. /\ lastJob' \in [Sups -> Jobs \cup {None}]
          /\ fastFail' \in [Sups -> 0 .. FastFailThreshold]
      BY <2>3, HelperTypes DEF RestoreOk, TypeOK
    <3>4. proc' \in [Pids -> {"free", "alive", "zombie", "reaped"}] /\ child' \in [Sups -> Pids \cup {None}]
      BY <2>3 DEF RestoreOk, FreeChild, TypeOK
    <3>5. installed' \in Versions
      BY <2>3 DEF RestoreOk, MustRollback, Handoffs
    <3> QED BY <2>3, <3>2, <3>3, <3>4, <3>5 DEF RestoreOk, TypeOK
  <2>4. CASE Wake(s) \/ StopAsleep(s)
    BY <2>4 DEF Wake, StopAsleep, TypeOK, Labels, Goto
  <2> QED BY <1>3, <2>1, <2>2, <2>3, <2>4 DEF Exit
<1>4. ASSUME NEW s \in Sups, Stop(s) PROVE TypeOK'
  <2>1. CASE StopChild(s) \/ KillChild(s)
    BY <2>1 DEF StopChild, KillChild, TypeOK, Labels, Goto
  <2>2. CASE Stopped(s)
    BY <2>2 DEF Stopped, FreeChild, TypeOK, Labels, Goto
  <2>3. CASE RemoveChildPid(s) \/ RemoveSupervisorPid(s)
    BY <2>3 DEF RemoveChildPid, RemoveSupervisorPid, TypeOK, Labels, Goto
  <2>4. CASE ReleaseLock(s)
    BY <1>a, <2>4 DEF ReleaseLock, TypeOK
  <2> QED BY <1>4, <2>1, <2>2, <2>3, <2>4 DEF Stop
<1>5. ASSUME Environment PROVE TypeOK'
  <2>1. ASSUME NEW s \in Sups, Signal(s) \/ Launch(s) PROVE TypeOK'
    <3>1. CASE Signal(s)
      BY <3>1 DEF Signal, Cancelled, TypeOK
    <3>2. CASE Launch(s)
      BY <3>2 DEF Launch, Launched, TypeOK, Labels, Goto, UnderWay
    <3> QED BY <2>1, <3>1, <3>2
  <2>2. ASSUME NEW s \in Sups, SupervisorCrash(s) PROVE TypeOK'
    <3>1. Orphaned(s) \in [Pids -> {"free", "alive", "zombie", "reaped"}]
      BY DEF Orphaned, TypeOK
    <3>2. proc' \in [Pids -> {"free", "alive", "zombie", "reaped"}] /\ crashes' \in 0 .. MaxCrashes
      BY <2>2, <3>1 DEF SupervisorCrash, TypeOK
    <3> QED BY <1>a, <2>2, <3>2 DEF SupervisorCrash, Dies, TypeOK
  <2>6. ASSUME NEW m \in Scripts, ManageStart(m) PROVE TypeOK'
    BY <2>6, ManageStartTypes
  <2>7. ASSUME NEW m \in Scripts, ManageStop(m) PROVE TypeOK'
    BY <2>7, ManageStopTypes
  <2>3. ASSUME NEW p \in Pids, ChildExits(p) \/ ChildConfirms(p) PROVE TypeOK'
    <3>1. CASE ChildExits(p)
      BY <3>1 DEF ChildExits, TypeOK
    <3>2. CASE ChildConfirms(p)
      BY <3>2 DEF ChildConfirms, TypeOK
    <3> QED BY <2>3, <3>1, <3>2
  <2>4. ASSUME NEW p \in Pids, NEW v \in Versions, NEW h \in Handoffs \cup {Garbled}, ChildUpdates(p, v, h)
        PROVE  TypeOK'
    BY <2>4 DEF ChildUpdates, TypeOK
  <2>5. CASE Tick
    <3>1. UptimeCap \in Nat
      BY DEF UptimeCap
    <3>2. uptime' \in [Pids -> 0 .. UptimeCap]
      BY <2>5, <3>1, BumpType DEF Tick, TypeOK
    <3>3. age' \in 0 .. RestartTimeout
      BY <2>5, BumpType DEF Tick, TypeOK
    <3> QED BY <2>5, <3>2, <3>3 DEF Tick, TypeOK
  <2> QED BY <1>5, <2>1, <2>2, <2>3, <2>4, <2>5, <2>6, <2>7 DEF Environment
<1>6. CASE UNCHANGED vars
  BY <1>6 DEF vars, TypeOK
<1> QED
  BY <1>1, <1>2, <1>3, <1>4, <1>5, <1>6 DEF Next, Loop

\* Every variable of the supervisor keeps its type and every saturating counter its
\* cap: the attempt count stays inside the delay table, the fast-fail count at or
\* below the threshold, and what a rollback installs is a version.
THEOREM TypeCorrect == Spec => []TypeOK
BY TypeInit, TypeStep, PTL DEF Spec

-----------------------------------------------------------------------------
\* NoStrayChild is inductive next to the lock: since at most one supervisor runs, the
\* process a step frees or abandons is the only one that exists.
ChildInv == TypeOK /\ LockInv /\ NoStrayChild

LEMMA ChildInvStep == ChildInv /\ [Next]_vars => NoStrayChild'
<1> SUFFICES ASSUME ChildInv, [Next]_vars, crashes' = 0,
                    NEW p \in Pids, proc'[p] # "free"
             PROVE  \E s \in Sups : child'[s] = p /\ pc'[s] \in {"started", "wait", "stopping"}
  BY DEF NoStrayChild
<1> DEFINE Owned == \E s \in Sups : child'[s] = p /\ pc'[s] \in {"started", "wait", "stopping"}
<1>0. crashes = 0
  <2>1. crashes' = crashes \/ crashes' = crashes + 1
    <3>1. ASSUME NEW s \in Sups, Boot(s) \/ Loop(s) PROVE crashes' = crashes
      BY <3>1 DEF Boot, Loop, Start, Exit, Stop, AcquireLock, LockHeldByOther, WriteSupervisorPid, PidWriteFails,
         Spawn, WriteChildPid, ChildPidWriteFails, StartFails, StopAtTop, WaitChild, ExitWithoutRollback, RestoreOk,
         RestoreFails, Wake, StopAsleep, StopChild, KillChild, Stopped, RemoveChildPid, RemoveSupervisorPid, ReleaseLock
    <3>2. ASSUME NEW m \in Scripts, ManageStart(m) \/ ManageStop(m) PROVE crashes' = crashes \/ crashes' = crashes + 1
      BY <3>2 DEF ManageStart, ManageStop, StartReads, StartClears, StartLaunches, StartTruncates, StartPrints,
         StartWatches, StopReads, StopSignals, StopMisses, StopSees, StopForces, StopRemoves
    <3>3. ASSUME NEW s \in Sups, Launch(s) \/ Signal(s) \/ SupervisorCrash(s)
          PROVE  crashes' = crashes \/ crashes' = crashes + 1
      BY <3>3 DEF Launch, Signal, SupervisorCrash
    <3> QED BY <3>1, <3>2, <3>3 DEF Next, Environment, vars, ChildExits, ChildUpdates, ChildConfirms, Tick
  <2>2. crashes \in Nat
    BY DEF ChildInv, TypeOK
  <2> QED BY <2>1, <2>2
<1>1. \A q \in Pids : proc[q] # "free" =>
         \E s \in Sups : child[s] = q /\ pc[s] \in {"started", "wait", "stopping"}
  BY <1>0 DEF ChildInv, NoStrayChild
<1>2. \A s, t \in Sups : pc[s] \notin {"off", "boot"} /\ pc[t] \notin {"off", "boot"} => s = t
  BY DEF ChildInv, LockInv, RunnerHoldsLock
<1>3. /\ DOMAIN pc = Sups /\ DOMAIN child = Sups /\ DOMAIN proc = Pids
      /\ pc = [s \in Sups |-> pc[s]] /\ child = [s \in Sups |-> child[s]] /\ proc = [q \in Pids |-> proc[q]]
  BY DEF ChildInv, TypeOK
<1> USE DEF files, supVars, tally, update, Goto
<1>4. ASSUME NEW s \in Sups, Boot(s) PROVE Owned
  BY <1>1, <1>3, <1>4 DEF Boot, AcquireLock, Flock, LockHeldByOther, WriteSupervisorPid, PidWriteFails, Exits
<1>5. ASSUME NEW s \in Sups, Start(s) PROVE Owned
  <2>1. CASE \E q \in Pids : Spawn(s, q)
    <3>1. PICK q \in Pids : Spawn(s, q)
      BY <2>1
    <3>2. \A r \in Pids : proc[r] = "free"
      BY <1>1, <1>2, <3>1 DEF Spawn
    <3>3. p = q
      BY <1>3, <3>1, <3>2 DEF Spawn
    <3>4. child'[s] = q /\ pc'[s] = "started"
      BY <1>3, <3>1 DEF Spawn
    <3> QED BY <3>3, <3>4
  <2>2. CASE WriteChildPid(s) \/ ChildPidWriteFails(s) \/ StartFails(s) \/ StopAtTop(s)
    BY <1>1, <1>2, <1>3, <2>2 DEF WriteChildPid, ChildPidWriteFails, StartFails, StopAtTop
  <2> QED BY <1>5, <2>1, <2>2 DEF Start
<1>6. ASSUME NEW s \in Sups, Exit(s) PROVE Owned
  BY <1>1, <1>2, <1>3, <1>6 DEF Exit, WaitChild, ExitWithoutRollback, RestoreOk, RestoreFails, Reschedule, Wake,
     StopAsleep, FreeChild, Reaped
<1>7. ASSUME NEW s \in Sups, Stop(s) PROVE Owned
  BY <1>1, <1>2, <1>3, <1>7 DEF Stop, StopChild, KillChild, Stopped, RemoveChildPid, RemoveSupervisorPid,
     ReleaseLock, FreeChild, Reaped, Exits
<1>8. CASE Environment
  <2>1. ASSUME NEW s \in Sups, Launch(s) \/ Signal(s) \/ SupervisorCrash(s) PROVE Owned
    BY <1>0, <1>1, <1>3, <2>1 DEF Launch, Launched, Signal, SupervisorCrash
  <2>2. ASSUME NEW m \in Scripts, ManageStart(m) PROVE Owned
    BY <1>1, <1>3, <2>2 DEF ManageStart, StartReads, StartClears, StartLaunches, Launched, StartTruncates, StartPrints,
       StartWatches
  <2>3. ASSUME NEW m \in Scripts, ManageStop(m) PROVE Owned
    <3>1. CASE StopSignals(m)
      <4>1. CASE Starting(script[m].sup)
        BY <1>1, <1>3, <3>1, <4>1 DEF StopSignals, Starting, Dies, Exits
      <4>2. CASE ~Starting(script[m].sup)
        BY <1>1, <3>1, <4>2 DEF StopSignals
      <4> QED BY <4>1, <4>2
    <3> QED BY <1>0, <1>1, <1>3, <2>3, <3>1 DEF ManageStop, StopReads, StopMisses, StopSees, StopForces, StopRemoves
  <2> QED BY <1>1, <1>3, <1>8, <2>1, <2>2, <2>3 DEF Environment, ChildExits, Parent, ChildUpdates, ChildConfirms, Tick
<1>9. CASE UNCHANGED vars
  BY <1>1, <1>9 DEF vars
<1> QED BY <1>4, <1>5, <1>6, <1>7, <1>8, <1>9 DEF Next, Loop

\* No exit path of Run leaves a child behind: without a crash of the supervisor every
\* live or unreaped phantom-lancer belongs to a supervisor that will wait for it.
THEOREM ChildSafety == Spec => []NoStrayChild
<1>1. Init => NoStrayChild
  BY DEF Init, NoStrayChild
<1>2. Init => ChildInv
  BY <1>1, TypeInit, LockInvInit DEF ChildInv
<1>3. ChildInv /\ [Next]_vars => ChildInv'
  BY TypeStep, LockInvStep, ChildInvStep DEF ChildInv
<1>4. ChildInv => NoStrayChild
  BY DEF ChildInv
<1> QED BY <1>2, <1>3, <1>4, PTL DEF Spec

\* handleHandoffAfterExit never replaces the binary under a live process it manages.
THEOREM RestoreSafety == Spec => RestoreOnlyBetweenChildren
<1>1. ChildInv /\ [Next]_vars =>
        [\A s \in Sups : RestoreOk(s) /\ crashes = 0 => \A p \in Pids : proc[p] # "alive"]_vars
  <2> SUFFICES ASSUME ChildInv, NEW s \in Sups, RestoreOk(s), crashes = 0, NEW p \in Pids
               PROVE  proc[p] # "alive"
    OBVIOUS
  <2>1. pc[s] = "wait" /\ proc[child[s]] = "reaped"
    BY DEF RestoreOk, Reaped
  <2>2. ASSUME proc[p] = "alive" PROVE FALSE
    <3>1. PICK t \in Sups : child[t] = p /\ pc[t] \in {"started", "wait", "stopping"}
      BY <2>2 DEF ChildInv, NoStrayChild
    <3>2. t = s
      BY <2>1, <3>1 DEF ChildInv, LockInv, RunnerHoldsLock
    <3> QED BY <2>1, <2>2, <3>1, <3>2
  <2> QED BY <2>2
<1>2. Init => ChildInv
  BY TypeInit, LockInvInit DEF ChildInv, Init, NoStrayChild
<1>3. ChildInv /\ [Next]_vars => ChildInv'
  BY TypeStep, LockInvStep, ChildInvStep DEF ChildInv
<1> QED BY <1>1, <1>2, <1>3, PTL DEF Spec, RestoreOnlyBetweenChildren

-----------------------------------------------------------------------------
\* The fast-fail counter against the boots that ended.

Boots == [job : Jobs \cup {None}, short : BOOLEAN]
Window == FastFailThreshold - 1     \* how many ended boots can matter

\* The last k boots were short and all under the handoff of job j.
LastShort(seq, j, k) ==
    /\ k <= Len(seq)
    /\ \A i \in Len(seq) - k + 1 .. Len(seq) : seq[i].short /\ seq[i].job = j

\* The counter has reached k under job j exactly when the last k boots say so, for
\* every k that the next decision can depend on.
CountsBoots(s) ==
    /\ boots[s] \in Seq(Boots) /\ Len(boots[s]) <= Window
    /\ \A j \in Jobs, k \in 1 .. Window :
            lastJob[s] = j /\ fastFail[s] >= k <=> LastShort(boots[s], j, k)

\* A process that has not passed Bootstrap's lock yet has counted nothing.
Active(s) == pc[s] \notin {"off", "boot"}

BootsInv ==
    /\ boots \in [Sups -> Seq(Boots)]
    /\ \A s \in Sups : IF Active(s) THEN CountsBoots(s) ELSE lastJob[s] = None

\* A boot is added to those remembered, and the oldest forgotten when there are enough.
LEMMA RememberOne ==
    ASSUME NEW seq \in Seq(Boots), Len(seq) <= Window, NEW b \in Boots,
           NEW new, new = IF Len(Append(seq, b)) < FastFailThreshold THEN Append(seq, b) ELSE Tail(Append(seq, b))
    PROVE  /\ new \in Seq(Boots) /\ Len(new) <= Window
           /\ \A j \in Jobs, k \in 1 .. Window :
                LastShort(new, j, k) <=> /\ b.short /\ b.job = j
                                         /\ k = 1 \/ LastShort(seq, j, k - 1)
<1> DEFINE all == Append(seq, b)
<1>1. /\ all \in Seq(Boots) /\ Len(all) = Len(seq) + 1 /\ all[Len(seq) + 1] = b
      /\ \A i \in 1 .. Len(seq) : all[i] = seq[i]
      /\ Len(seq) \in Nat
  OBVIOUS
<1>2. CASE Len(all) < FastFailThreshold
  <2>1. new = all
    BY <1>2
  <2> HIDE DEF all
  <2>2. ASSUME NEW j \in Jobs, NEW k \in 1 .. Window
        PROVE  LastShort(new, j, k) <=> b.short /\ b.job = j /\ (k = 1 \/ LastShort(seq, j, k - 1))
    BY <1>1, <2>1 DEF LastShort
  <2> QED BY <1>1, <1>2, <2>1, <2>2 DEF Window
<1>3. CASE Len(all) >= FastFailThreshold
  <2>1. new = Tail(all) /\ Len(seq) = Window
    BY <1>1, <1>3 DEF Window
  <2>2. new \in Seq(Boots) /\ Len(new) = Len(seq) /\ \A i \in 1 .. Len(seq) : new[i] = all[i + 1]
    BY <1>1, <2>1
  <2> HIDE DEF all
  <2>3. ASSUME NEW j \in Jobs, NEW k \in 1 .. Window
        PROVE  LastShort(new, j, k) <=> b.short /\ b.job = j /\ (k = 1 \/ LastShort(seq, j, k - 1))
    <3> DEFINE n == Len(seq)
    <3>1. new[n] = b /\ k \in 1 .. n /\ n \in Nat
      BY <1>1, <2>1, <2>2
    <3>2. ASSUME LastShort(new, j, k) PROVE b.short /\ b.job = j /\ (k = 1 \/ LastShort(seq, j, k - 1))
      <4>1. \A i \in n - k + 1 .. n : new[i].short /\ new[i].job = j
        BY <2>2, <3>2 DEF LastShort
      <4>2. \A i \in n - (k - 1) + 1 .. n : seq[i] = new[i - 1] /\ i - 1 \in n - k + 1 .. n
        BY <1>1, <2>2, <3>1
      <4>3. b.short /\ b.job = j
        BY <3>1, <4>1
      <4>4. k - 1 <= Len(seq) /\ \A i \in n - (k - 1) + 1 .. n : seq[i].short /\ seq[i].job = j
        <5>1. ASSUME NEW i \in n - (k - 1) + 1 .. n PROVE seq[i].short /\ seq[i].job = j
          <6>1. seq[i] = new[i - 1] /\ i - 1 \in n - k + 1 .. n
            BY <4>2
          <6> HIDE DEF n
          <6>2. new[i - 1].short /\ new[i - 1].job = j
            BY <4>1, <6>1
          <6> QED BY <6>1, <6>2
        <5> QED BY <3>1, <5>1
      <4> QED BY <4>3, <4>4 DEF LastShort
    <3>3. ASSUME b.short, b.job = j, k = 1 \/ LastShort(seq, j, k - 1) PROVE LastShort(new, j, k)
      <4>1. \A i \in n - k + 1 .. n - 1 : new[i] = seq[i + 1] /\ i + 1 \in n - (k - 1) + 1 .. n
        BY <1>1, <2>2, <3>1
      <4>2. \A i \in n - k + 1 .. n - 1 : new[i].short /\ new[i].job = j
        BY <3>1, <3>3, <4>1 DEF LastShort
      <4> QED BY SMTT(20), <2>2, <3>1, <3>3, <4>2 DEF LastShort
    <3> QED BY <3>2, <3>3
  <2> QED BY <2>1, <2>2, <2>3
<1> QED BY <1>1, <1>2, <1>3 DEF Window

\* handleHandoffAfterExit counts: the counter reaches k when this boot was short and the
\* k - 1 before it were, under the same handoff.
LEMMA CountAfter ==
    ASSUME TypeOK, NEW s \in Sups, CountsBoots(s), child[s] # None
    PROVE  /\ ThisBoot(s) \in Boots /\ ThisBoot(s).job = HandoffJob
           /\ \A j \in Jobs, k \in 1 .. FastFailThreshold :
                HandoffJob = j /\ FastFailAfter(s) >= k <=>
                    /\ ThisBoot(s).short /\ ThisBoot(s).job = j
                    /\ k = 1 \/ LastShort(boots[s], j, k - 1)
<1>1. /\ HandoffJob \in Jobs \cup {None} /\ uptime[child[s]] \in Nat /\ fastFail[s] \in 0 .. FastFailThreshold
      /\ lastJob[s] \in Jobs \cup {None}
  BY HelperTypes DEF TypeOK, UptimeCap
<1>2. ThisBoot(s) = [job |-> HandoffJob, short |-> uptime[child[s]] < FastFailMaxUptime]
  BY DEF ThisBoot
<1>3. ThisBoot(s) \in Boots /\ ThisBoot(s).job = HandoffJob
      /\ (ThisBoot(s).short <=> uptime[child[s]] < FastFailMaxUptime)
  <2>1. (uptime[child[s]] < FastFailMaxUptime) \in BOOLEAN
    BY <1>1
  <2>2. ThisBoot(s).job = HandoffJob /\ ThisBoot(s).short = (uptime[child[s]] < FastFailMaxUptime)
    BY <1>2
  <2>3. ThisBoot(s) \in Boots
    <3>1. \A job \in Jobs \cup {None}, short \in BOOLEAN : [job |-> job, short |-> short] \in Boots
      BY DEF Boots
    <3> QED BY <1>1, <1>2, <2>1, <3>1, Zenon
  <2> QED BY <2>1, <2>2, <2>3
<1>4. ASSUME NEW j \in Jobs, NEW k \in 1 .. FastFailThreshold, HandoffJob = j, uptime[child[s]] < FastFailMaxUptime
      PROVE  FastFailAfter(s) >= k <=> k = 1 \/ LastShort(boots[s], j, k - 1)
  <2>1. k = 1 \/ (k - 1 \in 1 .. Window /\ k - 1 \in Nat)
    BY DEF Window
  <2>2. k # 1 => (lastJob[s] = j /\ fastFail[s] >= k - 1 <=> LastShort(boots[s], j, k - 1))
    BY <2>1 DEF CountsBoots
  <2>3. FastFailAfter(s) = Bump(IF j = lastJob[s] THEN fastFail[s] ELSE 0, FastFailThreshold)
    BY <1>4 DEF FastFailAfter
  <2> QED BY <1>1, <2>1, <2>2, <2>3 DEF Bump
<1>5. ~(uptime[child[s]] < FastFailMaxUptime) => FastFailAfter(s) = 0
  BY DEF FastFailAfter
<1> QED BY <1>3, <1>4, <1>5

\* So the decision to roll back follows the boots.
LEMMA RollbackFollowsBoots ==
    ASSUME TypeOK, NEW s \in Sups, CountsBoots(s), child[s] # None
    PROVE  MustRollback(s) <=> /\ handoff \in Handoffs /\ handoff.backup # None
                               /\ ShortUnderThisHandoff(s) \/ age >= RestartTimeout
<1> SUFFICES ASSUME handoff \in Handoffs
             PROVE  FastFailAfter(s) >= FastFailThreshold <=> ShortUnderThisHandoff(s)
  BY DEF MustRollback, Expired
<1> DEFINE all == Append(boots[s], ThisBoot(s))
           n == Len(boots[s])
<1>1. HandoffJob \in Jobs /\ ThisBoot(s) \in Boots /\ ThisBoot(s).job = HandoffJob
  BY CountAfter DEF Handoffs, HandoffJob
<1>2. /\ n \in Nat /\ n <= Window /\ Len(all) = n + 1 /\ DOMAIN all = 1 .. n + 1
      /\ all[n + 1] = ThisBoot(s) /\ \A i \in 1 .. n : all[i] = boots[s][i]
  BY <1>1 DEF CountsBoots
<1>3. FastFailAfter(s) >= FastFailThreshold <=>
          ThisBoot(s).short /\ (Window = 0 \/ LastShort(boots[s], HandoffJob, Window))
  <2>1. FastFailThreshold \in 1 .. FastFailThreshold /\ (FastFailThreshold = 1 <=> Window = 0)
    BY DEF Window
  <2> QED BY <1>1, <2>1, CountAfter DEF Window
<1>4. ShortUnderThisHandoff(s) <=>
          n = Window /\ \A i \in 1 .. n + 1 : all[i].short /\ all[i].job = HandoffJob
  <2> HIDE DEF n
  <2>1. ShortUnderThisHandoff(s) <=>
            Len(all) >= FastFailThreshold /\ \A i \in DOMAIN all : all[i].short /\ all[i].job = HandoffJob
    BY DEF ShortUnderThisHandoff
  <2> HIDE DEF all
  <2> QED BY <1>2, <2>1 DEF Window
<1> HIDE DEF all
<1>5. Window = 0 \/ LastShort(boots[s], HandoffJob, Window) <=>
          n = Window /\ \A i \in 1 .. n : boots[s][i].short /\ boots[s][i].job = HandoffJob
  BY <1>2 DEF LastShort, Window
<1> HIDE DEF n
<1> QED BY <1>1, <1>2, <1>3, <1>4, <1>5

\* The history follows the steps of Supervisor.
LEMMA HistoryFollows == [MCNext]_mcVars => [Next]_vars
BY DEF MCNext, Next, Boot, Loop, Exit, mcVars, vars

\* A supervisor whose counter and history a step leaves alone.
LEMMA CountsKept ==
    ASSUME NEW t \in Sups, CountsBoots(t),
           boots'[t] = boots[t], lastJob'[t] = lastJob[t], fastFail'[t] = fastFail[t]
    PROVE  CountsBoots(t)'
BY DEF CountsBoots, LastShort

\* A lock taken or a backup restored: the count begins anew.
LEMMA CountsAnew ==
    ASSUME NEW s \in Sups, boots'[s] = <<>>, lastJob'[s] = None \/ fastFail'[s] = 0
    PROVE  CountsBoots(s)'
<1>1. boots'[s] \in Seq(Boots) /\ Len(boots'[s]) = 0 /\ Window \in Nat
  BY DEF Window
<1>2. ASSUME NEW j \in Jobs, NEW k \in 1 .. Window
      PROVE  ~(lastJob'[s] = j /\ fastFail'[s] >= k) /\ ~LastShort(boots'[s], j, k)
  BY <1>1, <1>2 DEF LastShort
<1> QED BY <1>1, <1>2 DEF CountsBoots, LastShort

\* A boot that ends without a restored backup is counted and remembered.
LEMMA CountsOne ==
    ASSUME TypeOK, BootsInv, NEW s \in Sups, ExitWithoutRollback(s) \/ RestoreFails(s), Remember(s)
    PROVE  CountsBoots(s)'
<1>0. Active(s)
  BY DEF Active, ExitWithoutRollback, RestoreFails
<1>1. /\ child[s] # None /\ lastJob'[s] = HandoffJob
      /\ handoff \in Handoffs => fastFail'[s] = FastFailAfter(s)
  BY DEF ExitWithoutRollback, RestoreFails, Reaped, MustRollback, TypeOK
<1>2. CountsBoots(s) /\ ThisBoot(s) \in Boots
  BY <1>0, <1>1, CountAfter DEF BootsInv
<1> DEFINE all == Append(boots[s], ThisBoot(s))
<1>3. boots'[s] = IF Len(all) < FastFailThreshold THEN all ELSE Tail(all)
  BY DEF Remember, BootsInv
<1>4. /\ boots'[s] \in Seq(Boots) /\ Len(boots'[s]) <= Window
      /\ \A j \in Jobs, k \in 1 .. Window :
            LastShort(boots'[s], j, k) <=> /\ ThisBoot(s).short /\ ThisBoot(s).job = j
                                           /\ k = 1 \/ LastShort(boots[s], j, k - 1)
  BY <1>2, <1>3, RememberOne DEF CountsBoots
<1>5. ASSUME NEW j \in Jobs, NEW k \in 1 .. Window
      PROVE  lastJob'[s] = j /\ fastFail'[s] >= k <=> LastShort(boots'[s], j, k)
  <2>1. k \in 1 .. FastFailThreshold
    BY DEF Window
  <2>2. HandoffJob = j /\ FastFailAfter(s) >= k <=> LastShort(boots'[s], j, k)
    BY <1>1, <1>2, <1>4, <2>1, CountAfter
  <2>3. HandoffJob = j => handoff \in Handoffs
    BY DEF HandoffJob
  <2> QED BY <1>1, <2>2, <2>3
<1> QED BY <1>4, <1>5 DEF CountsBoots, LastShort

\* A step that counts nothing: each supervisor keeps its counter, or ends.
CountsNothing ==
    /\ boots' = boots
    /\ \A t \in Sups : \/ pc'[t] = "off" /\ lastJob'[t] = None
                       \/ (Active(t)' <=> Active(t)) /\ lastJob'[t] = lastJob[t] /\ fastFail'[t] = fastFail[t]

LEMMA NothingCounted == ASSUME TypeOK, BootsInv, CountsNothing PROVE BootsInv'
<1> SUFFICES ASSUME NEW t \in Sups PROVE IF Active(t)' THEN CountsBoots(t)' ELSE lastJob'[t] = None
  BY DEF BootsInv, CountsNothing
<1>1. CASE pc'[t] = "off" /\ lastJob'[t] = None
  BY <1>1 DEF Active
<1>2. CASE (Active(t)' <=> Active(t)) /\ lastJob'[t] = lastJob[t] /\ fastFail'[t] = fastFail[t]
  BY <1>2, CountsKept DEF BootsInv, CountsNothing
<1> QED BY <1>1, <1>2 DEF CountsNothing

\* The steps that only MCNext's first three disjuncts do not cover count nothing.
LEMMA SupervisorCountsNothing ==
    ASSUME TypeOK, NEW s \in Sups, boots' = boots,
           \/ LockHeldByOther(s) \/ WriteSupervisorPid(s) \/ PidWriteFails(s)
           \/ Start(s) \/ WaitChild(s) \/ Wake(s) \/ StopAsleep(s) \/ Stop(s)
    PROVE  CountsNothing
<1> USE DEF TypeOK, CountsNothing, Active, Goto, Exits, tally, supVars
<1>1. CASE LockHeldByOther(s) \/ WriteSupervisorPid(s) \/ PidWriteFails(s)
  BY <1>1 DEF LockHeldByOther, WriteSupervisorPid, PidWriteFails
<1>2. CASE Start(s) \/ WaitChild(s) \/ Wake(s) \/ StopAsleep(s)
  BY <1>2 DEF Start, Spawn, WriteChildPid, ChildPidWriteFails, StartFails, StopAtTop, WaitChild, Wake, StopAsleep
<1>3. CASE Stop(s)
  BY <1>3 DEF Stop, StopChild, KillChild, Stopped, RemoveChildPid, RemoveSupervisorPid, ReleaseLock
<1> QED BY <1>1, <1>2, <1>3

LEMMA EnvironmentCountsNothing ==
    ASSUME TypeOK, boots' = boots, Environment
    PROVE  CountsNothing
<1> USE DEF TypeOK, CountsNothing, Active, Goto, Exits, Dies, tally, supVars
<1>1. ASSUME NEW s \in Sups, Launch(s) \/ Signal(s) \/ SupervisorCrash(s) PROVE CountsNothing
  BY <1>1 DEF Launch, Launched, Signal, SupervisorCrash
<1>2. ASSUME NEW m \in Scripts, ManageStart(m) PROVE CountsNothing
  BY <1>2 DEF ManageStart, StartReads, StartClears, StartLaunches, Launched, StartTruncates, StartPrints, StartWatches
<1>3. ASSUME NEW m \in Scripts, ManageStop(m) PROVE CountsNothing
  BY <1>3 DEF ManageStop, StopReads, StopSignals, StopMisses, StopSees, StopForces, StopRemoves
<1>4. ASSUME NEW p \in Pids, ChildExits(p) \/ ChildConfirms(p) PROVE CountsNothing
  BY <1>4 DEF ChildExits, ChildConfirms
<1>5. ASSUME NEW p \in Pids, NEW v \in Versions, NEW h \in Handoffs \cup {Garbled}, ChildUpdates(p, v, h)
      PROVE  CountsNothing
  BY <1>5 DEF ChildUpdates
<1>6. CASE Tick
  BY <1>6 DEF Tick
<1> QED BY <1>1, <1>2, <1>3, <1>4, <1>5, <1>6 DEF Environment

\* The counter agrees with the boots through every step of every supervisor.
LEMMA BootsStep == ASSUME TypeOK, BootsInv, [MCNext]_mcVars PROVE BootsInv'
<1> USE DEF tally, supVars, vars, mcVars, Active
<1>1. DOMAIN fastFail = Sups /\ DOMAIN lastJob = Sups /\ DOMAIN boots = Sups /\ DOMAIN pc = Sups
  BY DEF TypeOK, BootsInv
<1>2. ASSUME NEW s \in Sups, boots' = [boots EXCEPT ![s] = boots'[s]], CountsBoots(s)', Active(s)',
             \A t \in Sups \ {s} : lastJob'[t] = lastJob[t] /\ fastFail'[t] = fastFail[t] /\ pc'[t] = pc[t]
      PROVE  BootsInv'
  <2>1. ASSUME NEW t \in Sups \ {s} PROVE IF Active(t)' THEN CountsBoots(t)' ELSE lastJob'[t] = None
    BY <1>1, <1>2, CountsKept DEF BootsInv
  <2>2. boots'[s] \in Seq(Boots)
    BY <1>2 DEF CountsBoots
  <2> QED BY <1>1, <1>2, <2>1, <2>2 DEF BootsInv
<1>4. ASSUME NEW s \in Sups, AcquireLock(s), boots' = [boots EXCEPT ![s] = <<>>] PROVE BootsInv'
  <2>1. lastJob'[s] = None /\ boots'[s] = <<>>
    BY <1>1, <1>4 DEF AcquireLock, BootsInv
  <2>2. CountsBoots(s)'
    BY <2>1, CountsAnew
  <2> QED BY <1>1, <1>2, <1>4, <2>2 DEF AcquireLock, Goto
<1>5. ASSUME NEW s \in Sups, ExitWithoutRollback(s) \/ RestoreFails(s), Remember(s) PROVE BootsInv'
  <2>1. CountsBoots(s)' /\ boots' = [boots EXCEPT ![s] = boots'[s]]
    BY <1>1, <1>5, CountsOne DEF Remember
  <2> QED BY <1>1, <1>2, <1>5, <2>1 DEF ExitWithoutRollback, RestoreFails, Reschedule, Goto
<1>6. ASSUME NEW s \in Sups, RestoreOk(s), boots' = [boots EXCEPT ![s] = <<>>] PROVE BootsInv'
  <2>1. CountsBoots(s)'
    BY <1>1, <1>6, CountsAnew DEF RestoreOk
  <2> QED BY <1>1, <1>2, <1>6, <2>1 DEF RestoreOk, Reschedule, Goto
<1>7. ASSUME NEW s \in Sups, UNCHANGED <<boots, streak>>,
             \/ LockHeldByOther(s) \/ WriteSupervisorPid(s) \/ PidWriteFails(s)
             \/ Start(s) \/ WaitChild(s) \/ Wake(s) \/ StopAsleep(s) \/ Stop(s)
      PROVE  BootsInv'
  BY <1>7, SupervisorCountsNothing, NothingCounted
<1>8. CASE Environment /\ UNCHANGED <<boots, streak>>
  BY <1>8, EnvironmentCountsNothing, NothingCounted
<1>9. CASE UNCHANGED mcVars
  BY <1>9, NothingCounted DEF CountsNothing
<1> QED BY <1>4, <1>5, <1>6, <1>7, <1>8, <1>9 DEF MCNext

\* Run goes to sleep after a boot only through handleHandoffAfterExit.
LEMMA SleepsAfterExit ==
    ASSUME TypeOK, MCNext, NEW s \in Sups, pc[s] = "wait", pc'[s] = "sleep"
    PROVE  ExitWithoutRollback(s) \/ RestoreOk(s) \/ RestoreFails(s)
<1> USE DEF supVars, Goto
<1>1. DOMAIN pc = Sups
  BY DEF TypeOK
<1>2. ASSUME NEW t \in Sups, AcquireLock(t) \/ LockHeldByOther(t) \/ WriteSupervisorPid(t) \/ PidWriteFails(t) \/ Start(t)
      PROVE  FALSE
  BY <1>1, <1>2 DEF AcquireLock, LockHeldByOther, WriteSupervisorPid, PidWriteFails, Exits, Start, Spawn, WriteChildPid,
     ChildPidWriteFails, StartFails, StopAtTop
<1>3. ASSUME NEW t \in Sups, WaitChild(t) \/ Wake(t) \/ StopAsleep(t) \/ Stop(t) PROVE FALSE
  BY <1>1, <1>3 DEF WaitChild, Wake, StopAsleep, Stop, StopChild, KillChild, Stopped, RemoveChildPid,
     RemoveSupervisorPid, ReleaseLock, Exits
<1>4. ASSUME Environment PROVE FALSE
  <2>1. ASSUME NEW t \in Sups, Launch(t) \/ Signal(t) \/ SupervisorCrash(t) PROVE FALSE
    BY <1>1, <2>1 DEF Launch, Launched, Signal, SupervisorCrash, Dies, Exits
  <2>2. ASSUME NEW m \in Scripts, ManageStart(m) PROVE FALSE
    BY <1>1, <2>2 DEF ManageStart, StartReads, StartClears, StartLaunches, Launched, StartTruncates, StartPrints, StartWatches
  <2>3. ASSUME NEW m \in Scripts, ManageStop(m) PROVE FALSE
    BY <1>1, <2>3 DEF ManageStop, StopReads, StopSignals, StopMisses, StopSees, StopForces, StopRemoves, Dies, Exits
  <2> QED BY <1>1, <1>4, <2>1, <2>2, <2>3 DEF Environment, ChildExits, ChildConfirms, ChildUpdates, Tick
<1>5. ASSUME NEW t \in Sups, ExitWithoutRollback(t) \/ RestoreOk(t) \/ RestoreFails(t) PROVE t = s
  BY <1>1, <1>5 DEF ExitWithoutRollback, RestoreOk, RestoreFails, Reschedule
<1> QED BY <1>2, <1>3, <1>4, <1>5 DEF MCNext

\* handleHandoffAfterExit rolls back exactly when the handoff names a backup and has
\* expired, or when the boot that ended and as many before it as the threshold asks for
\* were short and under this handoff: for every threshold, over any number of
\* supervisors, handoffs, failed restores and crashes.
THEOREM RollbackWhenDue == MCSpec => RollbackExactlyWhenDue
<1>1. MCInit => TypeOK /\ BootsInv
  <2> SUFFICES ASSUME MCInit PROVE BootsInv
    BY TypeInit DEF MCInit
  <2>1. boots = [s \in Sups |-> <<>>] /\ \A s \in Sups : boots[s] = <<>> /\ lastJob[s] = None
    BY DEF MCInit, Init
  <2>2. \A s \in Sups : pc[s] = "off"
    BY DEF MCInit, Init
  <2>3. boots \in [Sups -> Seq(Boots)]
    BY <2>1
  <2> QED BY <2>1, <2>2, <2>3 DEF BootsInv, Active
<1>2. TypeOK /\ BootsInv /\ [MCNext]_mcVars => TypeOK' /\ BootsInv'
  BY TypeStep, BootsStep, HistoryFollows
<1>3. TypeOK /\ BootsInv /\ [MCNext]_mcVars =>
        [\A s \in Sups :
            pc[s] = "wait" /\ pc'[s] = "sleep" =>
                (RestoreOk(s) \/ RestoreFails(s) <=>
                    /\ handoff \in Handoffs /\ handoff.backup # None
                    /\ ShortUnderThisHandoff(s) \/ age >= RestartTimeout)]_mcVars
  <2> SUFFICES ASSUME TypeOK, BootsInv, MCNext, NEW s \in Sups, pc[s] = "wait", pc'[s] = "sleep"
               PROVE  RestoreOk(s) \/ RestoreFails(s) <=>
                        /\ handoff \in Handoffs /\ handoff.backup # None
                        /\ ShortUnderThisHandoff(s) \/ age >= RestartTimeout
    OBVIOUS
  <2>1. ExitWithoutRollback(s) \/ RestoreOk(s) \/ RestoreFails(s)
    BY SleepsAfterExit
  <2>2. child[s] # None /\ (RestoreOk(s) \/ RestoreFails(s) <=> MustRollback(s))
    BY <2>1 DEF ExitWithoutRollback, RestoreOk, RestoreFails, Reaped
  <2> QED BY <2>2, RollbackFollowsBoots DEF BootsInv, Active
<1> QED BY <1>1, <1>2, <1>3, PTL DEF MCSpec, RollbackExactlyWhenDue
=============================================================================
