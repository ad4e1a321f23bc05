-------------------------- MODULE MarketScanProofs --------------------------
(***************************************************************************)
(* What holds of the market scan for any number of scans, rounds, agents'  *)
(* jobs, trade dates, troubles and restarts.                               *)
(***************************************************************************)
EXTENDS MarketScan, FiniteSetTheorems, TLAPS

USE ScanConstants

Late      == {"researching", "drafting"}                    \* past the preparation
Busy      == {"read", "prefilter", "enrich", "start", "save"}    \* the worker has a copy
Advancing == {"advance", "save"}                                 \* the ticker has one

\* Whoever works on a scan works on one that is there, and so do the agents.
Placed ==
    /\ worker.at # "idle" => worker.run \in Runs /\ row[worker.run].status # "absent"
    /\ worker.at \in Busy => worker.copy.status \in Active
    /\ tick.at \in {"launch"} \cup Advancing => tick.run \in Runs /\ row[tick.run].status # "absent"
    /\ tick.at \in Advancing => tick.copy.status \in Late
    /\ starter.at = "create" => rounds < MaxRounds
    /\ \A r \in launched : row[r].status # "absent"
    /\ \A r \in Runs : round[r] <= rounds /\ (round[r] = 0 <=> row[r].status = "absent")
    /\ \A d \in Researches : research[d].of # 0 =>
            research[d].round # 0 /\ research[d].round <= round[research[d].of]
    /\ \A g \in Generations : generation[g].of # 0 =>
            generation[g].round # 0 /\ generation[g].round <= round[generation[g].of]

TypeInv == TypeOK /\ Placed

\* An undisturbed scan stands where its worker or the ticker believes it stands.
WorkerFollows ==
    worker.at \in Busy /\ worker.run \notin disturbed =>
        /\ row[worker.run].status \in Preparing /\ worker.copy.status \in Preparing
        /\ worker.at = "save" => worker.copy.research = row[worker.run].research

TickFollows ==
    tick.at \in Advancing /\ tick.run \notin disturbed =>
        /\ row[tick.run].status \in Late
        /\ tick.copy.research = row[tick.run].research
        /\ tick.at = "advance" => row[tick.run] = tick.copy /\ tick.copy.wait # "later"
        /\ tick.at = "save" =>
            /\ tick.copy.wait = "none"
            /\ \/ tick.copy.status = row[tick.run].status /\ tick.copy.count = row[tick.run].count
                  /\ row[tick.run].wait = "due"
               \/ tick.copy.status = "drafting" /\ row[tick.run].status = "researching" /\ tick.copy.count = 0

\* Nothing becomes active while a start computes the coverage.
StarterAlone == starter.at = "create" => ActiveRuns \subseteq disturbed

FollowInv == WorkerFollows /\ TickFollows /\ StarterAlone /\ OneActive

WorkerSaving(r) == worker.at = "save" /\ worker.run = r
TickSaving(r, status) == tick.at = "save" /\ tick.run = r /\ tick.copy.status = status

\* Where a scan is while its discovery, or its generation, is at work.
ResearchHome(r, d) ==
    /\ row[r].research = d
    /\ \/ row[r].status = "researching" /\ ~TickSaving(r, "drafting")
       \/ row[r].status \in Preparing /\ WorkerSaving(r)
GenerationHome(r, g) ==
    IF tick.at = "save" /\ tick.run = r
    THEN tick.copy.status = "drafting" /\ tick.copy.generation = g
    ELSE row[r].status = "drafting" /\ row[r].generation = g

ResearchAtWork ==
    \A d \in Researches : research[d].state = "running" =>
        \E r \in Runs : research[d].of = r /\ (r \in disturbed \/ ResearchHome(r, d))
GenerationAtWork ==
    \A g \in Generations : generation[g].state = "running" =>
        \E r \in Runs : generation[g].of = r /\ (r \in disturbed \/ GenerationHome(r, g))
QuietInv == ResearchAtWork /\ GenerationAtWork

\* What the attempts of a scan's round have cost so far: a restart may have lost one.
If(b) == IF b THEN 1 ELSE 0
Researched(r) == Cardinality(Attempts(research, r))
Generated(r) == Cardinality(Attempts(generation, r))
ResearchLimit(r) ==
    IF row[r].status \in Preparing THEN If(WorkerSaving(r))
    ELSE IF row[r].status = "researching" THEN row[r].count + If(row[r].wait = "none" \/ TickSaving(r, "researching"))
    ELSE 1 + MaxRetries
GenerationLimit(r) ==
    IF row[r].status \in Preparing \cup {"researching"} THEN If(TickSaving(r, "drafting"))
    ELSE IF row[r].status = "drafting" THEN row[r].count + If(row[r].wait = "none" \/ TickSaving(r, "drafting"))
    ELSE 1 + MaxRetries
CountInv ==
    \A r \in Runs \ disturbed :
        /\ Researched(r) <= restarts + ResearchLimit(r)
        /\ Generated(r) <= restarts + GenerationLimit(r)

\* No date is after today, and the settings know of every automatic scan.
DatesPast ==
    /\ config.scanned <= today /\ starter.copy.scanned <= today /\ patch.copy.scanned <= today
    /\ worker.copy.date <= today /\ tick.copy.date <= today
    /\ \A a \in Settlers : settling[a].date <= today /\ settling[a].copy.scanned <= today
    /\ \A r \in Runs : row[r].date <= today /\ autoOn[r] <= today
\* A claim that was not undone is in the settings, and no undisturbed scan ends with an older date.
ClaimHeld(date) ==
    /\ date <= config.scanned
    /\ \A r \in Runs \ disturbed : row[r].status \in Late => date <= row[r].date
    /\ worker.at \in {"enrich", "start", "save"} /\ worker.run \notin disturbed => date <= worker.copy.date
    /\ tick.at \in Advancing /\ tick.run \notin disturbed => date <= tick.copy.date
    /\ settling["tick"].date # 0 /\ settling["tick"].run \notin disturbed => date <= settling["tick"].date
    /\ tick.at \in {"start", "wait"} => date < today
ClaimKnown == \A s \in Runs : autoOn[s] \in undone \/ ClaimHeld(autoOn[s])
\* The worker records no date, and the ticker's turn is over while it changes the settings.
SettlingInv ==
    /\ settling["worker"].date = 0
    /\ tick.at # "idle" => settling["tick"] = Settled
    /\ \A a \in Settlers : settling[a].at = "idle" => settling[a] = Settled
DateInv ==
    /\ DatesPast /\ ClaimKnown /\ OneAutoPerDate
    /\ starter.at = "create" /\ starter.auto => tick.at = "wait"
-----------------------------------------------------------------------------
\* Types.

\* What is absent, idle or unused has its type.
LEMMA ConstantTypes ==
    /\ Absent \in Rows /\ IdleWorker \in Workers /\ IdleWorker \in Ticks
    /\ Unused \in ResearchRows /\ Unused \in GenerationRows
    /\ IdleStarter.copy \in Configs /\ IdlePatch.copy \in Configs /\ NoConfig \in Configs
    /\ Settled \in Settlings
<1>1. Absent \in Rows
  BY DEF Absent, Rows, MaxRetries
<1>2. NoConfig \in Configs
  BY DEF NoConfig, Configs
<1> QED BY <1>1, <1>2
        DEF IdleWorker, Workers, Ticks, Unused, ResearchRows, GenerationRows, IdleStarter, IdlePatch, Settled, Settlings

\* A failure leaves a row that waits for its next try or has failed, and keeps the rest.
LEMMA FailedRow ==
    ASSUME NEW copy \in Rows, NEW retryable \in BOOLEAN
    PROVE  /\ Failed(copy, retryable) \in Rows
           /\ Failed(copy, retryable).research = copy.research
           /\ Failed(copy, retryable).generation = copy.generation
           /\ Failed(copy, retryable).date = copy.date
           /\ \/ Failed(copy, retryable).status = "failed"
              \/ /\ Failed(copy, retryable).status = copy.status
                 /\ Failed(copy, retryable).wait = "later"
                 /\ Failed(copy, retryable).count = copy.count + 1
<1>1. CASE retryable /\ copy.count < MaxRetries
  <2>1. Failed(copy, retryable) = [copy EXCEPT !.count = copy.count + 1, !.wait = "later"]
    BY <1>1 DEF Failed
  <2>2. copy.count + 1 \in 0..MaxRetries
    BY <1>1 DEF Rows, MaxRetries
  <2> QED BY <2>1, <2>2 DEF Rows
<1>2. CASE ~(retryable /\ copy.count < MaxRetries)
  <2>1. Failed(copy, retryable) = [copy EXCEPT !.status = "failed", !.wait = "none"]
    BY <1>2 DEF Failed
  <2> QED BY <2>1 DEF Rows, Ended
<1> QED BY <1>1, <1>2

\* There is room for another fault, or for two.
LEMMA FaultsBounded ==
    ASSUME TypeOK
    PROVE  /\ Trouble => losses + 1 \in 0..MaxTroubles
           /\ Faults + patches + 1 < MaxTroubles => losses + 2 \in 0..MaxTroubles
<1>1. losses \in Nat /\ lates \in Nat /\ restarts \in Nat /\ patches \in Nat /\ MaxTroubles \in Nat
  BY DEF TypeOK
<1> QED BY <1>1 DEF Trouble, Faults

\* A row is written or the scan is disturbed.
LEMMA WriteRow ==
    ASSUME TypeOK, NEW r \in Runs, NEW new \in Rows, Write(r, new)
    PROVE  /\ row' \in [Runs -> Rows] /\ disturbed \subseteq disturbed' /\ disturbed' \subseteq disturbed \cup {r}
           /\ losses' \in 0..MaxTroubles
           /\ \A s \in Runs \ {r} : row'[s] = row[s]
           /\ \/ row'[r] = new /\ disturbed' = disturbed
              \/ row' = row /\ r \in disturbed'
BY DEF TypeOK, Write, Trouble, Faults

\* The change of the settings that follows the write of a row.
LEMMA SettlesTypes ==
    ASSUME TypeOK, NEW a \in Settlers, NEW r \in Runs, NEW date \in 0..MaxDay, Settles(a, r, date)
    PROVE  settling' \in [Settlers -> Settlings]
<1>1. [Settled EXCEPT !.at = "read", !.run = r, !.date = date] \in Settlings
  <2>1. r \in 0..MaxRuns
    BY DEF Runs
  <2>2. \A s \in Settlings : [s EXCEPT !.at = "read", !.run = r, !.date = date] \in Settlings
    BY <2>1 DEF Settlings
  <2> QED BY <2>2, ConstantTypes
<1> QED BY <1>1 DEF TypeOK, Settles

\* What a save of the settings leaves.
LEMMA SavedTypes ==
    ASSUME TypeOK, NEW seen, NEW new \in Configs, NEW excused \in BOOLEAN, SaveSettings(seen, new, excused)
    PROVE  config' \in Configs /\ undone' \subseteq 0..MaxDay
<1>1. new.scanned \in 0..MaxDay /\ config.scanned \in 0..MaxDay /\ undone \subseteq 0..MaxDay
  BY DEF TypeOK, Configs
<1>2. (new.scanned + 1) .. config.scanned \subseteq 0..MaxDay
  BY <1>1
<1> QED BY <1>1, <1>2 DEF SaveSettings

\* The worker gives its flag back (finishOpportunityMarketScanWorker).
LEMMA WorkerEndsTypes ==
    ASSUME TypeOK, WorkerDone
    PROVE  worker' = IdleWorker /\ worker' \in Workers /\ lates' \in 0..MaxLates
BY ConstantTypes DEF TypeOK, WorkerDone

\* An agent's job is created for a scan that is there.
LEMMA FreshJob ==
    ASSUME TypeOK, NEW r \in Runs, NEW state \in {"running", "orphaned"}
    PROVE  Job(r, state) \in ResearchRows /\ Job(r, state) \in GenerationRows
BY DEF TypeOK, Job, Runs, ResearchRows, GenerationRows

\* A new round replaces the row of its scan and, of the others, only ids that no one reads again.
LEMMA NewRoundRows ==
    ASSUME TypeOK, NEW r \in Runs, NEW date \in 0..MaxDay, row' = WithNewRound(r, date)
    PROVE  /\ row' \in [Runs -> Rows]
           /\ \A s \in Runs \ {r} : row'[s].status = row[s].status
           /\ row'[r].status = "pending"
<1>1. [Absent EXCEPT !.status = "pending", !.date = date] \in Rows
  BY ConstantTypes DEF Rows, Active, Preparing
<1>2. ASSUME NEW s \in Runs PROVE Over(s) \in Rows /\ Over(s).status = row[s].status
  BY ConstantTypes DEF TypeOK, Over, Rows, Absent
<1>3. [Absent EXCEPT !.status = "pending", !.date = date].status = "pending"
  BY DEF Absent
<1> QED BY <1>1, <1>2, <1>3 DEF TypeOK, WithNewRound

\* Ids of jobs are used again or kept as they are.
LEMMA ReusedRows ==
    ASSUME TypeOK, ReuseJobs
    PROVE  /\ research' \in [Researches -> ResearchRows] /\ generation' \in [Generations -> GenerationRows]
           /\ \A d \in Researches : research'[d] = research[d] \/ research'[d] = Unused
           /\ \A g \in Generations : generation'[g] = generation[g] \/ generation'[g] = Unused
BY ConstantTypes DEF TypeOK, ReuseJobs, Reused

\* The ticker's steps, by what they do to the row.

\* The ticker ends its turn without a write.
TickPasses == TickRefused \/ TickLaunches \/ TickWaits

ResearchOver == tick.copy.status = "researching" => ResearchState # "running"
GenerationOver == tick.copy.status = "drafting" => GenerationState # "running"

\* It puts the scan off or gives it up.
TickGivesUp(retryable) ==
    /\ tick.at = "advance" /\ ResearchOver /\ GenerationOver
    /\ TickEnds(Failed(tick.copy, retryable))
    /\ Settles("tick", tick.run, 0) \/ UNCHANGED settling
    /\ UNCHANGED <<jobs, launched>>

\* It ends the scan.
TickDone(status) ==
    /\ tick.at = "advance" /\ ResearchOver /\ GenerationOver
    /\ TickFinishes(status)

TickGenerates(g, next) ==
    /\ tick.at = "advance" /\ ResearchOver /\ GenerationOver
    /\ Generate(g, next)
    /\ next = [tick.copy EXCEPT !.status = "drafting", !.count = next.count, !.wait = "none"]
    /\ \/ tick.copy.status = "researching" /\ next.count = 0
       \/ tick.copy.status = "drafting" /\ next.count = tick.copy.count /\ tick.copy.wait = "due"

\* Every step of the ticker is one of these kinds: most of its branches fail, finish or draft alike.
LEMMA TickKinds ==
    ASSUME TypeInv, TickSteps
    PROVE  \/ TickPasses \/ TickStarts \/ TickWantsScan \/ TickCannotRead \/ TickSaves \/ TickRecovers
           \/ \E retryable \in BOOLEAN : TickGivesUp(retryable)
           \/ \E status \in {"completed", "partial"} : TickDone(status)
           \/ \E r \in Runs : TickReads(r)
           \/ \E d \in Researches : TickRepeatsResearch(d)
           \/ \E g \in Generations : \E next \in Rows : TickGenerates(g, next)
<1> USE DEF At, ResearchOver, GenerationOver
<1>1. CASE TickPutsOffResearch \/ TickCannotRepeat \/ TickCannotDraft \/ TickCannotRecover
  <2>1. \E retryable \in BOOLEAN : TickGivesUp(retryable)
    BY <1>1 DEF TickGivesUp, TickFails, TickPutsOff, TickPutsOffResearch, TickCannotRepeat, TickCannotDraft, TickCannotRecover
  <2> QED BY <2>1
<1>2. CASE TickFindsNone \/ TickCompletes
  <2>1. \E status \in {"completed", "partial"} : TickDone(status)
    BY <1>2 DEF TickDone, TickFindsNone, TickCompletes, Pending
  <2> QED BY <2>1
<1>3. CASE TickPutsOffDraft
  <2>1. TickGivesUp(TRUE) \/ TickDone("partial")
    BY <1>3 DEF TickPutsOffDraft, TickPutsOff, TickGivesUp, TickDone
  <2> QED BY <2>1
<1>4. ASSUME NEW g \in Generations, TickDrafts(g) PROVE \E next \in Rows : TickGenerates(g, next)
  <2> DEFINE next == [tick.copy EXCEPT !.status = "drafting", !.count = 0, !.wait = "none"]
  <2>0. tick.copy \in Rows
    BY DEF TypeInv, TypeOK, Ticks
  <2>1. next \in Rows /\ next.count = 0
    <3>1. 0 \in 0..MaxRetries /\ "drafting" \in {"absent"} \cup Active \cup Ended
      BY DEF Active, MaxRetries
    <3> QED BY <2>0, <3>1 DEF Rows
  <2>2. TickGenerates(g, next)
    BY <1>4, <2>1 DEF TickDrafts, TickGenerates
  <2> QED BY <2>1, <2>2
<1>5. ASSUME NEW g \in Generations, TickRepeatsDraft(g) PROVE \E next \in Rows : TickGenerates(g, next)
  <2> DEFINE next == Repeated(tick.copy)
  <2>1. /\ next \in Rows /\ next.count = tick.copy.count
        /\ next = [tick.copy EXCEPT !.status = "drafting", !.count = next.count, !.wait = "none"]
    <3>1. tick.copy \in Rows /\ tick.copy.status = "drafting"
      BY <1>5 DEF TypeInv, TypeOK, Ticks, TickRepeatsDraft
    <3> QED BY <3>1 DEF Rows, Repeated
  <2>2. TickGenerates(g, next)
    BY <1>5, <2>1 DEF TickRepeatsDraft, TickGenerates
  <2> QED BY <2>1, <2>2
<1> QED BY <1>1, <1>2, <1>3, <1>4, <1>5 DEF TickSteps, TickPasses

\* What the steps that begin a round of a scan have in common.
BeginsRound(r, date) ==
    /\ row' = WithNewRound(r, date)
    /\ ReuseJobs
    /\ round' = [round EXCEPT ![r] = round[r] + 1]
    /\ rounds' = rounds + 1
    /\ rounds < MaxRounds
    /\ launched' = launched \cup {r}
    /\ UNCHANGED <<disturbed, worker, settling, patch, ticking, today, patches, lates, restarts>>

\* A discovery or a generation belongs to a scan, or to none yet.
LEMMA JobTypes ==
    ASSUME TypeOK
    PROVE  /\ \A d \in Researches : research[d].of \in Runs \cup {0} /\ research[d].round \in 0..MaxRounds
           /\ \A g \in Generations : generation[g].of \in Runs \cup {0} /\ generation[g].round \in 0..MaxRounds
<1>1. ASSUME NEW d \in Researches PROVE research[d].of \in Runs \cup {0} /\ research[d].round \in 0..MaxRounds
  <2>1. research[d] \in ResearchRows
    BY DEF TypeOK
  <2> QED BY <2>1 DEF ResearchRows, Runs
<1>2. ASSUME NEW g \in Generations
      PROVE  generation[g].of \in Runs \cup {0} /\ generation[g].round \in 0..MaxRounds
  <2>1. generation[g] \in GenerationRows
    BY DEF TypeOK
  <2> QED BY <2>1 DEF GenerationRows, Runs
<1> QED BY <1>1, <1>2

\* A round of a scan begins with types kept and every job in a round its scan has had.
LEMMA RoundTypes ==
    ASSUME TypeInv, NEW r \in Runs, NEW date \in 0..MaxDay, BeginsRound(r, date)
    PROVE  /\ row' \in [Runs -> Rows] /\ round' \in [Runs -> 0..MaxRounds]
           /\ research' \in [Researches -> ResearchRows] /\ generation' \in [Generations -> GenerationRows]
           /\ rounds' \in 0..MaxRounds /\ launched' \subseteq Runs
           /\ \A s \in Runs : row[s].status # "absent" => row'[s].status # "absent"
           /\ \A s \in launched' : row'[s].status # "absent"
           /\ \A s \in Runs : round'[s] <= rounds' /\ (round'[s] = 0 <=> row'[s].status = "absent")
           /\ \A d \in Researches : research'[d].of # 0 =>
                  research'[d].round # 0 /\ research'[d].round <= round'[research'[d].of]
           /\ \A g \in Generations : generation'[g].of # 0 =>
                  generation'[g].round # 0 /\ generation'[g].round <= round'[generation'[g].of]
<1> USE DEF BeginsRound
<1>1. TypeOK /\ Placed
  BY DEF TypeInv
<1>2. /\ row' \in [Runs -> Rows] /\ \A s \in Runs \ {r} : row'[s].status = row[s].status
      /\ row'[r].status = "pending"
  BY <1>1, NewRoundRows
<1>3. /\ research' \in [Researches -> ResearchRows] /\ generation' \in [Generations -> GenerationRows]
      /\ \A d \in Researches : research'[d] = research[d] \/ research'[d].of = 0
      /\ \A g \in Generations : generation'[g] = generation[g] \/ generation'[g].of = 0
  BY <1>1, ReusedRows DEF Unused
<1>10. /\ \A d \in Researches : research[d].of \in Runs \cup {0} /\ research[d].round \in 0..MaxRounds
       /\ \A g \in Generations : generation[g].of \in Runs \cup {0} /\ generation[g].round \in 0..MaxRounds
  BY <1>1, JobTypes
<1>4. round \in [Runs -> 0..MaxRounds] /\ rounds \in 0..MaxRounds /\ launched \subseteq Runs
  BY <1>1 DEF TypeOK
<1>5. /\ round' \in [Runs -> 0..MaxRounds] /\ rounds' \in 0..MaxRounds /\ round'[r] = round[r] + 1
      /\ \A s \in Runs : round[s] <= round'[s] /\ round'[s] <= rounds'
      /\ \A s \in Runs \ {r} : round'[s] = round[s]
  BY <1>1, <1>4 DEF Placed
<1>6. \A d \in Researches : research'[d].of # 0 =>
          research'[d].round # 0 /\ research'[d].round <= round'[research'[d].of]
  <2> SUFFICES ASSUME NEW d \in Researches, research'[d].of # 0
               PROVE  research'[d].round # 0 /\ research'[d].round <= round'[research'[d].of]
    OBVIOUS
  <2>1. research'[d] = research[d] /\ research[d].of \in Runs /\ research[d].round \in 0..MaxRounds
    BY <1>3, <1>10
  <2> QED BY <1>1, <1>4, <1>5, <2>1 DEF Placed
<1>7. \A g \in Generations : generation'[g].of # 0 =>
          generation'[g].round # 0 /\ generation'[g].round <= round'[generation'[g].of]
  <2> SUFFICES ASSUME NEW g \in Generations, generation'[g].of # 0
               PROVE  generation'[g].round # 0 /\ generation'[g].round <= round'[generation'[g].of]
    OBVIOUS
  <2>1. generation'[g] = generation[g] /\ generation[g].of \in Runs /\ generation[g].round \in 0..MaxRounds
    BY <1>3, <1>10
  <2> QED BY <1>1, <1>4, <1>5, <2>1 DEF Placed
<1>8. \A s \in Runs : round'[s] = 0 <=> row'[s].status = "absent"
  BY <1>1, <1>2, <1>4, <1>5 DEF Placed
<1>9. /\ \A s \in Runs : row[s].status # "absent" => row'[s].status # "absent"
      /\ \A s \in launched' : row'[s].status # "absent"
  BY <1>1, <1>2, <1>4 DEF Placed
<1> QED BY <1>2, <1>3, <1>4, <1>5, <1>6, <1>7, <1>8, <1>9

\* A start that creates a scan begins a round of it on today's date.
LEMMA CreateBegins ==
    ASSUME TypeInv, NEW r \in Runs, StartCreates(r)
    PROVE  BeginsRound(r, today) /\ today \in 0..MaxDay
<1>1. TypeOK /\ Placed
  BY DEF TypeInv
<1>2. round[r] = 0 /\ rounds < MaxRounds
  BY <1>1 DEF StartCreates, StarterDone, Placed, Absent
<1> QED BY <1>1, <1>2 DEF StartCreates, StarterDone, BeginsRound, owner, TypeOK

\* The owner's retry begins a round on the date the scan had.
LEMMA RetryBegins ==
    ASSUME TypeInv, NEW r \in Runs, OwnerRetries(r)
    PROVE  BeginsRound(r, row[r].date) /\ row[r].date \in 0..MaxDay
BY DEF TypeInv, TypeOK, Rows, OwnerRetries, BeginsRound, owner

\* Starts and retries keep the types.
LEMMA StarterTypes ==
    ASSUME TypeInv, StarterSteps \/ OwnerStarts \/ TickStarts \/ \E r \in Runs : OwnerRetries(r)
    PROVE  TypeInv'
<1>1. TypeOK /\ Placed
  BY DEF TypeInv
<1>2. CASE OwnerStarts \/ TickStarts
  <2> USE DEF OwnerStarts, TickStarts, StartReads, jobs, owner
  <2>1. tick' \in Ticks /\ (tick' = tick \/ tick'.at = "wait")
    BY <1>1, <1>2 DEF TypeOK, Ticks
  <2>4. starter' \in [at : {"idle", "create"}, auto : BOOLEAN, copy : Configs]
    <3>1. config \in Configs
      BY <1>1 DEF TypeOK
    <3>2. PICK auto \in BOOLEAN : starter' = [at |-> "create", auto |-> auto, copy |-> config]
      BY <1>2
    <3> QED BY <3>1, <3>2
  <2>5. UNCHANGED <<row, research, generation, launched, worker, config, settling, patch, ticking, today, round, autoOn,
                    disturbed, undone, rounds, losses, lates, patches, restarts>>
    BY <1>2
  <2>2. TypeOK'
    BY <1>1, <2>1, <2>4, <2>5 DEF TypeOK
  <2>3. Placed'
    BY <1>1, <1>2, <2>1 DEF Placed, Advancing
  <2> QED BY <2>2, <2>3 DEF TypeInv
<1>3. CASE StartRefused
  BY <1>1, <1>3, ConstantTypes
     DEF StartRefused, StarterDone, TypeInv, TypeOK, Placed, jobs, owner, IdleStarter, IdleWorker, Advancing
<1>4. ASSUME NEW r \in Runs, StartCreates(r) PROVE TypeInv'
  <2>1. BeginsRound(r, today) /\ today \in 0..MaxDay
    BY <1>4, CreateBegins
  <2>2. Claimed(starter.copy, starter.auto) \in Configs
    BY <1>1, <2>1 DEF TypeOK, Claimed, Configs
  <2>3. losses' \in 0..MaxTroubles /\ autoOn' \in [Runs -> 0..MaxDay]
    <3>1. losses' = losses \/ (Trouble /\ losses' = losses + 1)
      BY <1>4 DEF StartCreates, SaveSettings
    <3>2. losses \in 0..MaxTroubles
      BY <1>1 DEF TypeOK
    <3>3. autoOn' = [autoOn EXCEPT ![r] = IF starter.auto THEN today ELSE 0]
      BY <1>4 DEF StartCreates
    <3>4. autoOn' \in [Runs -> 0..MaxDay]
      BY <1>1, <2>1, <3>3 DEF TypeOK
    <3> QED BY <1>1, <3>1, <3>2, <3>4, FaultsBounded
  <2>8. config' \in Configs /\ undone' \subseteq 0..MaxDay
    <3>1. CASE SaveSettings(starter.copy, Claimed(starter.copy, starter.auto), FALSE)
      BY <1>1, <2>2, <3>1, SavedTypes
    <3>2. CASE config' = config /\ undone' = IF starter.auto THEN undone \cup {today} ELSE undone
      BY <1>1, <2>1, <3>2 DEF TypeOK
    <3> QED BY <1>4, <3>1, <3>2 DEF StartCreates
  <2>4. /\ starter' = IdleStarter /\ tick' \in {tick, IdleWorker} /\ starter'.copy \in Configs
        /\ tick' \in Ticks
    BY <1>1, <1>4, ConstantTypes DEF StartCreates, StarterDone, TypeOK
  <2>5. UNCHANGED <<disturbed, worker, settling, patch, ticking, today, patches, lates, restarts>>
    BY <2>1 DEF BeginsRound
  <2>6. TypeOK'
    BY <1>1, <2>1, <2>3, <2>4, <2>5, <2>8, RoundTypes DEF TypeOK, IdleStarter
  <2>7. Placed'
    BY <1>1, <2>1, <2>4, <2>5, RoundTypes DEF Placed, IdleStarter, IdleWorker, Advancing
  <2> QED BY <2>6, <2>7 DEF TypeInv
<1>5. ASSUME NEW r \in Runs, OwnerRetries(r) PROVE TypeInv'
  <2>1. BeginsRound(r, row[r].date) /\ row[r].date \in 0..MaxDay
    BY <1>5, RetryBegins
  <2>2. /\ UNCHANGED <<disturbed, worker, settling, patch, ticking, today, patches, lates, restarts>>
        /\ UNCHANGED <<tick, starter, config, autoOn, undone, losses>> /\ starter.at = "idle"
    BY <1>5, <2>1 DEF BeginsRound, OwnerRetries, MayStart
  <2>3. TypeOK'
    BY <1>1, <2>1, <2>2, RoundTypes DEF TypeOK
  <2>4. Placed'
    BY <1>1, <2>1, <2>2, RoundTypes DEF Placed
  <2> QED BY <2>3, <2>4 DEF TypeInv
<1> QED BY <1>2, <1>3, <1>4, <1>5 DEF StarterSteps

\* A job of a scan that is there, or one that was there before.
JobKept(job, j) ==
    \/ job'[j].of = job[j].of /\ job'[j].round = job[j].round
    \/ job'[j].of \in Runs /\ job'[j].round = round[job'[j].of] /\ row[job'[j].of].status # "absent"

\* Steps that begin no round keep everybody at a scan that is there.
LEMMA StillPlaced ==
    ASSUME TypeInv, TypeOK',
           \A s \in Runs : row'[s].status = "absent" <=> row[s].status = "absent",
           \A s \in launched' : row[s].status # "absent",
           worker'.at # "idle" => /\ worker'.run \in Runs /\ row[worker'.run].status # "absent"
                                  /\ worker'.at \in Busy => worker'.copy.status \in Active,
           tick'.at \in {"launch"} \cup Advancing => tick'.run \in Runs /\ row[tick'.run].status # "absent",
           tick'.at \in Advancing => tick'.copy.status \in Late,
           starter' = starter \/ starter'.at = "idle", UNCHANGED <<round, rounds>>,
           \A d \in Researches : JobKept(research, d), \A g \in Generations : JobKept(generation, g)
    PROVE  TypeInv'
<1>1. Placed /\ TypeOK
  BY DEF TypeInv
<1>2. /\ round \in [Runs -> 0..MaxRounds] /\ launched' \subseteq Runs
      /\ research \in [Researches -> ResearchRows] /\ generation \in [Generations -> GenerationRows]
  BY <1>1 DEF TypeOK
<1>3. /\ \A d \in Researches : research'[d].of # 0 =>
             research'[d].round # 0 /\ research'[d].round <= round[research'[d].of]
      /\ \A g \in Generations : generation'[g].of # 0 =>
             generation'[g].round # 0 /\ generation'[g].round <= round[generation'[g].of]
  BY <1>1, <1>2 DEF Placed, JobKept
<1>4. \A s \in Runs : round'[s] <= rounds' /\ (round'[s] = 0 <=> row'[s].status = "absent")
  BY <1>1, <1>2 DEF Placed
<1>5. \A s \in launched' : row'[s].status # "absent"
  BY <1>2
<1>6. /\ worker'.at # "idle" => worker'.run \in Runs /\ row'[worker'.run].status # "absent"
      /\ worker'.at \in Busy => worker'.copy.status \in Active
      /\ tick'.at \in {"launch"} \cup Advancing => tick'.run \in Runs /\ row'[tick'.run].status # "absent"
      /\ starter'.at = "create" => rounds' < MaxRounds
  BY <1>1 DEF Placed, Busy
<1>7. Placed'
  BY <1>3, <1>4, <1>5, <1>6 DEF Placed
<1> QED BY <1>7 DEF TypeInv

\* A step that touches no discovery and no generation keeps each.
LEMMA SameJobs ==
    ASSUME UNCHANGED jobs
    PROVE  (\A d \in Researches : JobKept(research, d)) /\ \A g \in Generations : JobKept(generation, g)
BY DEF jobs, JobKept

\* A discovery or a generation is created for a scan that is there.
LEMMA JobCreated ==
    ASSUME TypeInv, NEW r \in Runs, row[r].status # "absent", NEW state \in {"running", "orphaned"}
    PROVE  /\ \A d \in Researches : research' = [research EXCEPT ![d] = Job(r, state)] =>
                  /\ research' \in [Researches -> ResearchRows]
                  /\ \A e \in Researches : JobKept(research, e)
           /\ \A g \in Generations : generation' = [generation EXCEPT ![g] = Job(r, state)] =>
                  /\ generation' \in [Generations -> GenerationRows]
                  /\ \A e \in Generations : JobKept(generation, e)
<1>1. TypeOK /\ Job(r, state) \in ResearchRows /\ Job(r, state) \in GenerationRows
  BY FreshJob DEF TypeInv
<1>2. Job(r, state).of = r /\ Job(r, state).round = round[r]
  BY DEF Job
<1> QED BY <1>1, <1>2 DEF TypeOK, JobKept

\* Rows with another job.
LEMMA RowWithJob ==
    ASSUME NEW copy \in Rows
    PROVE  /\ \A d \in Researches : [copy EXCEPT !.research = d] \in Rows
           /\ \A g \in Generations : [copy EXCEPT !.generation = g] \in Rows
           /\ Repeated(copy) = [copy EXCEPT !.wait = "none"] /\ Repeated(copy) \in Rows
<1>1. Researches \subseteq 0..MaxResearches /\ Generations \subseteq 0..MaxGenerations
  BY DEF Researches, Generations
<1>2. \A d \in 0..MaxResearches : [copy EXCEPT !.research = d] \in Rows
  BY DEF Rows
<1>3. \A g \in 0..MaxGenerations : [copy EXCEPT !.generation = g] \in Rows
  BY DEF Rows
<1>4. [copy EXCEPT !.wait = "none"] \in Rows
  BY DEF Rows
<1> QED BY <1>1, <1>2, <1>3, <1>4 DEF Repeated

\* A discovery is created, with its id in the row or in vain.
LEMMA DiscoverTypes ==
    ASSUME TypeInv, NEW r \in Runs, row[r].status # "absent", NEW d \in Researches,
           NEW after \in Rows, after.status # "absent", Discover(r, d) \/ DiscoverInVain(r, d, after)
    PROVE  /\ row' \in [Runs -> Rows] /\ research' \in [Researches -> ResearchRows]
           /\ disturbed' \subseteq Runs /\ losses' \in 0..MaxTroubles /\ UNCHANGED generation
           /\ \A s \in Runs : row'[s].status = "absent" <=> row[s].status = "absent"
           /\ \A e \in Researches : JobKept(research, e)
           /\ \A g \in Generations : JobKept(generation, g)
<1>1. TypeOK
  BY DEF TypeInv
<1>2. \E state \in {"running", "orphaned"} : research' = [research EXCEPT ![d] = Job(r, state)]
  BY DEF Discover, DiscoverInVain
<1>3. UNCHANGED generation /\ disturbed' \subseteq Runs /\ losses' \in 0..MaxTroubles
  BY <1>1 DEF Discover, DiscoverInVain, TypeOK, Trouble, Faults
<1>4. /\ row' \in [Runs -> Rows]
      /\ \A s \in Runs : row'[s].status = "absent" <=> row[s].status = "absent"
  <2>1. CASE Discover(r, d)
    <3>1. row' = [row EXCEPT ![r] = [row[r] EXCEPT !.research = d]]
      BY <2>1 DEF Discover
    <3>2. row[r] \in Rows /\ [row[r] EXCEPT !.research = d] \in Rows /\ [row[r] EXCEPT !.research = d].status = row[r].status
      <4>1. row[r] \in Rows
        BY <1>1 DEF TypeOK
      <4>2. [row[r] EXCEPT !.research = d].status = row[r].status
        BY <4>1 DEF Rows
      <4> QED BY <4>1, <4>2, RowWithJob
    <3> QED BY <1>1, <3>1, <3>2 DEF TypeOK
  <2>2. CASE DiscoverInVain(r, d, after)
    BY <1>1, <2>2 DEF DiscoverInVain, TypeOK
  <2> QED BY <2>1, <2>2
<1>5. \A g \in Generations : JobKept(generation, g)
  BY <1>3 DEF JobKept
<1> QED BY <1>2, <1>3, <1>4, <1>5, JobCreated

\* The ticker's write of a row.
LEMMA TickWritesTypes ==
    ASSUME TypeInv, tick.at \in Advancing, NEW new \in Rows, new.status # "absent", TickEnds(new),
           UNCHANGED <<jobs, launched>>, settling' \in [Settlers -> Settlings]
    PROVE  TypeInv'
<1>1. TypeOK /\ Placed /\ tick.run \in Runs /\ row[tick.run].status # "absent"
  BY DEF TypeInv, Placed
<1>2. /\ row' \in [Runs -> Rows] /\ disturbed' \subseteq Runs /\ losses' \in 0..MaxTroubles
      /\ \A s \in Runs : row'[s].status = "absent" <=> row[s].status = "absent"
  <2>1. Write(tick.run, new)
    BY DEF TickEnds
  <2> QED BY <1>1, <2>1, WriteRow DEF TypeOK
<1>3. /\ tick' = IdleWorker /\ tick' \in Ticks
      /\ UNCHANGED <<worker, starter, config, round, rounds, autoOn, undone, owner, lates, restarts>>
  BY ConstantTypes DEF TickEnds, TickOnly
<1>4. TypeOK'
  BY <1>1, <1>2, <1>3 DEF TypeOK, jobs, owner
<1> QED BY <1>1, <1>2, <1>3, <1>4, StillPlaced, SameJobs DEF Placed, IdleWorker, Advancing

\* The ticker keeps the types.
LEMMA TickTypes == ASSUME TypeInv, TickSteps PROVE TypeInv'
<1>1. TypeOK /\ Placed
  BY DEF TypeInv
<1>2. /\ tick.copy \in Rows /\ config \in Configs
      /\ tick.at \in Advancing => tick.run \in Runs /\ row[tick.run].status # "absent" /\ tick.copy.status \in Late
  BY <1>1 DEF TypeOK, Ticks, Placed
<1>3. CASE TickPasses \/ TickWantsScan
  <2> USE DEF TickPasses, TickRefused, TickLaunches, TickWaits, TickWantsScan, TickOnly, starts, owner
  <2>1. /\ UNCHANGED <<row, research, generation, worker, config, settling, patch, ticking, today, round, autoOn,
                       disturbed, undone, rounds, losses, lates, patches, restarts, starter>>
        /\ UNCHANGED jobs /\ launched' \in {launched, launched \cup {tick.run}}
        /\ tick.at = "launch" \/ launched' = launched
    BY <1>3 DEF jobs
  <2>2. tick' \in Ticks /\ tick'.at \in {"idle", "start"}
    BY <1>3, ConstantTypes DEF Ticks, IdleWorker
  <2>3. launched' \subseteq Runs /\ \A s \in launched' : row[s].status # "absent"
    BY <1>1, <2>1 DEF Placed, TypeOK
  <2>4. TypeOK'
    BY <1>1, <2>1, <2>2, <2>3 DEF TypeOK
  <2> QED BY <1>1, <2>1, <2>2, <2>3, <2>4, StillPlaced, SameJobs DEF Placed, Advancing
<1>4. CASE TickStarts
  BY <1>4, StarterTypes
<1>5. CASE TickCannotRead
  <2>1. Failed(tick.copy, TRUE) \in Rows /\ Failed(tick.copy, TRUE).status # "absent"
    BY <1>2, <1>5, FailedRow DEF At, TickCannotRead
  <2>2. /\ row' = row \/ row' = [row EXCEPT ![tick.run] = Failed(tick.copy, TRUE)]
        /\ tick.at = "advance" /\ disturbed' \in {disturbed, disturbed \cup {tick.run}}
        /\ UNCHANGED <<research, generation, jobs, launched, config, worker, starter, round, rounds, autoOn, undone,
                       patch, ticking, today, patches, lates, restarts>>
        /\ tick' = IdleWorker /\ tick' \in Ticks
    BY <1>5, ConstantTypes DEF TickCannotRead, At, TickOnly, owner, jobs
  <2>3. /\ row' \in [Runs -> Rows] /\ losses' \in 0..MaxTroubles /\ disturbed' \subseteq Runs
        /\ settling' \in [Settlers -> Settlings]
        /\ \A s \in Runs : row'[s].status = "absent" <=> row[s].status = "absent"
    <3>1. losses' \in 0..MaxTroubles
      BY <1>1, <1>5, FaultsBounded DEF TickCannotRead
    <3>2. tick.run \in Runs /\ row[tick.run].status # "absent" /\ row \in [Runs -> Rows] /\ disturbed \subseteq Runs
      BY <1>1, <1>2, <2>2 DEF TypeOK, Advancing
    <3>3. settling' \in [Settlers -> Settlings]
      BY <1>1, <1>5, <3>2, SettlesTypes DEF TickCannotRead, Settlers
    <3> QED BY <2>1, <2>2, <3>1, <3>2, <3>3
  <2>4. TypeOK'
    BY <1>1, <2>2, <2>3 DEF TypeOK
  <2> QED BY <1>1, <2>2, <2>3, <2>4, StillPlaced, SameJobs DEF Placed, IdleWorker, Advancing
<1>6. CASE TickSaves
  BY <1>1, <1>2, <1>6, TickWritesTypes DEF TickSaves, Advancing, Late, TypeOK
<1>7. CASE TickRecovers
  <2>1. /\ generation' = [generation EXCEPT ![tick.copy.generation].state = "completed"]
        /\ UNCHANGED <<row, research, disturbed, launched, config, settling, losses, worker, starter, round, rounds,
                       autoOn, undone, patch, ticking, today, patches, lates, restarts>>
        /\ tick' = IdleWorker /\ tick' \in Ticks
    BY <1>7, ConstantTypes DEF TickRecovers, TickOnly, owner
  <2>2. /\ generation' \in [Generations -> GenerationRows]
        /\ \A g \in Generations : generation'[g].of = generation[g].of /\ generation'[g].round = generation[g].round
    <3>1. generation \in [Generations -> GenerationRows]
      BY <1>1 DEF TypeOK
    <3>2. \A g \in Generations : generation'[g] = generation[g] \/ generation'[g] = [generation[g] EXCEPT !.state = "completed"]
      BY <2>1, <3>1
    <3>3. \A j \in GenerationRows : /\ [j EXCEPT !.state = "completed"] \in GenerationRows
                                    /\ [j EXCEPT !.state = "completed"].of = j.of
                                    /\ [j EXCEPT !.state = "completed"].round = j.round
      BY DEF GenerationRows
    <3> QED BY <2>1, <3>1, <3>2, <3>3
  <2>3. TypeOK'
    BY <1>1, <2>1, <2>2 DEF TypeOK
  <2> QED BY <1>1, <2>1, <2>2, <2>3, StillPlaced DEF Placed, IdleWorker, Advancing, JobKept
<1>8. ASSUME NEW retryable \in BOOLEAN, TickGivesUp(retryable) PROVE TypeInv'
  <2>1. Failed(tick.copy, retryable) \in Rows /\ Failed(tick.copy, retryable).status # "absent"
    BY <1>2, <1>8, FailedRow DEF TickGivesUp, Advancing, Late
  <2>2. settling' \in [Settlers -> Settlings]
    BY <1>1, <1>2, <1>8, SettlesTypes DEF TickGivesUp, Advancing, Settlers, TypeOK
  <2> QED BY <1>2, <1>8, <2>1, <2>2, TickWritesTypes DEF TickGivesUp, Advancing
<1>9. ASSUME NEW status \in {"completed", "partial"}, TickDone(status) PROVE TypeInv'
  <2>1. /\ [tick.copy EXCEPT !.status = status] \in Rows
        /\ [tick.copy EXCEPT !.status = status].status # "absent"
    BY <1>2 DEF Rows, Ended
  <2>2. settling' \in [Settlers -> Settlings]
    <3>1. tick.run \in Runs /\ tick.copy.date \in 0..MaxDay
      BY <1>2, <1>9 DEF TickDone, Advancing, Rows
    <3> QED BY <1>1, <1>9, <3>1, SettlesTypes DEF TickDone, TickFinishes, Settlers
  <2> QED BY <1>9, <2>1, <2>2, TickWritesTypes DEF TickDone, TickFinishes, Advancing
<1>10. ASSUME NEW r \in Runs, TickReads(r) PROVE TypeInv'
  <2>1. row[r] \in Rows /\ row[r].status \in Active
    BY <1>1, <1>10 DEF TickReads, Newest, ActiveRuns, TypeOK
  <2>2. /\ tick' \in Ticks
        /\ tick'.at \in {"launch"} \cup Advancing => tick'.run = r
        /\ tick'.at \in Advancing => tick'.copy.status \in Late
    <3>1. CASE row[r].status \in Preparing
      <4>1. tick' = [IdleWorker EXCEPT !.at = "launch", !.run = r] /\ r \in 0..MaxRuns
        BY <1>10, <3>1 DEF TickReads, Runs
      <4> QED BY <4>1, ConstantTypes DEF Ticks, IdleWorker, Advancing
    <3>2. CASE row[r].status \notin Preparing
      <4>1. tick' = [at |-> "advance", run |-> r, copy |-> row[r]] /\ r \in 0..MaxRuns /\ row[r].status \in Late
        BY <1>10, <2>1, <3>2 DEF TickReads, Runs, Active, Late
      <4> QED BY <2>1, <4>1 DEF Ticks, Advancing
    <3> QED BY <3>1, <3>2
  <2>3. UNCHANGED <<row, jobs, disturbed, launched, config, settling, losses, worker, starter, round, rounds, autoOn,
                    undone, owner, lates, restarts>>
    BY <1>10 DEF TickReads, TickOnly
  <2>4. TypeOK'
    BY <1>1, <2>2, <2>3 DEF TypeOK, jobs, owner
  <2> QED BY <1>1, <2>1, <2>2, <2>3, <2>4, StillPlaced, SameJobs DEF Placed, Active, Preparing
<1>11. ASSUME NEW d \in Researches, TickRepeatsResearch(d) PROVE TypeInv'
  <2> DEFINE copy == [Repeated(tick.copy) EXCEPT !.research = d]
             after == Failed(tick.copy, FALSE)
  <2>1. copy \in Rows /\ copy.status = tick.copy.status
    BY <1>2, RowWithJob DEF Rows
  <2>2. after \in Rows /\ after.status # "absent" /\ tick.at = "advance"
    BY <1>2, <1>11, FailedRow DEF TickRepeatsResearch, At, Advancing, Late
  <2>3. /\ Discover(tick.run, d) \/ DiscoverInVain(tick.run, d, after)
        /\ tick' = IdleWorker \/ tick' = [tick EXCEPT !.at = "save", !.copy = copy]
        /\ UNCHANGED <<launched, config, worker, starter, round, rounds, autoOn, undone, owner, lates, restarts>>
    BY <1>11 DEF TickRepeatsResearch, TickOnly
  <2>8. settling' \in [Settlers -> Settlings]
    <3>1. UNCHANGED settling \/ Settles("tick", tick.run, 0)
      BY <1>11 DEF TickRepeatsResearch
    <3>2. tick.run \in Runs /\ settling \in [Settlers -> Settlings] /\ 0 \in 0..MaxDay /\ "tick" \in Settlers
      BY <1>1, <1>2, <2>2 DEF Advancing, Settlers, TypeOK
    <3> QED BY <1>1, <3>1, <3>2, SettlesTypes
  <2> HIDE DEF copy, after
  <2>4. tick' \in Ticks
    BY <1>1, <2>1, <2>3, ConstantTypes DEF TypeOK, Ticks
  <2>5. /\ tick'.at \in {"launch"} \cup Advancing => tick'.run = tick.run
        /\ tick'.at \in Advancing => tick'.copy.status \in Late
    <3>1. tick \in Ticks /\ tick.copy.status \in Late
      BY <1>1, <1>2, <2>2 DEF TypeOK, Advancing
    <3>2. CASE tick' = IdleWorker
      BY <3>2 DEF IdleWorker, Advancing
    <3>3. CASE tick' = [tick EXCEPT !.at = "save", !.copy = copy]
      BY <2>1, <3>1, <3>3 DEF Ticks
    <3> QED BY <2>3, <3>2, <3>3
  <2>6. /\ row' \in [Runs -> Rows] /\ research' \in [Researches -> ResearchRows]
        /\ disturbed' \subseteq Runs /\ losses' \in 0..MaxTroubles /\ UNCHANGED generation
        /\ \A s \in Runs : row'[s].status = "absent" <=> row[s].status = "absent"
        /\ \A e \in Researches : JobKept(research, e)
        /\ \A g \in Generations : JobKept(generation, g)
    BY <1>2, <2>2, <2>3, DiscoverTypes DEF Advancing
  <2>7. TypeOK'
    BY <1>1, <2>3, <2>4, <2>6, <2>8 DEF TypeOK, owner
  <2> QED BY <1>1, <1>2, <2>2, <2>3, <2>5, <2>6, <2>7, StillPlaced DEF Placed, Advancing
<1>12. ASSUME NEW g \in Generations, NEW next \in Rows, TickGenerates(g, next) PROVE TypeInv'
  <2> DEFINE copy == [next EXCEPT !.generation = g]
  <2>1. copy \in Rows /\ copy.status = "drafting" /\ tick.at = "advance"
    <3>1. next.status = "drafting"
      BY <1>2, <1>12 DEF TickGenerates, Rows
    <3> QED BY <1>12, <3>1 DEF TickGenerates, Rows, Generations
  <2>2. /\ generation' = [generation EXCEPT ![g] = Job(tick.run, "running")]
        /\ tick' = [tick EXCEPT !.at = "save", !.copy = copy]
        /\ UNCHANGED <<row, research, disturbed, launched, config, settling, losses, worker, starter, round, rounds,
                       autoOn, undone, owner, lates, restarts>>
    BY <1>12 DEF TickGenerates, Generate, TickOnly
  <2> HIDE DEF copy
  <2>3. tick' \in Ticks /\ tick'.run = tick.run /\ tick'.copy.status \in Late
    BY <1>1, <2>1, <2>2 DEF TypeOK, Ticks, Late
  <2>4. /\ generation' \in [Generations -> GenerationRows]
        /\ \A e \in Generations : JobKept(generation, e)
    BY <1>2, <2>1, <2>2, JobCreated DEF Advancing
  <2>5. \A d \in Researches : JobKept(research, d)
    BY <2>2 DEF JobKept
  <2>6. TypeOK'
    BY <1>1, <2>2, <2>3, <2>4 DEF TypeOK, owner
  <2> QED BY <1>1, <1>2, <2>1, <2>2, <2>3, <2>4, <2>5, <2>6, StillPlaced DEF Placed, Advancing
<1> QED BY <1>3, <1>4, <1>5, <1>6, <1>7, <1>8, <1>9, <1>10, <1>11, <1>12, TickKinds

\* The worker's write of a row: it ends, or goes on with the copy it has written.
LEMMA WorkerWritesTypes ==
    ASSUME TypeInv, worker.at \in Busy, NEW new \in Rows, new.status \in Active \cup Ended, UNCHANGED jobs,
           settling' \in [Settlers -> Settlings],
           \/ WorkerEnds(new)
           \/ new.status \in Active /\ \E next \in Busy : WorkerGoesOn(next, new)
    PROVE  TypeInv'
<1>1. TypeOK /\ Placed /\ worker \in Workers /\ worker.run \in Runs /\ row[worker.run].status # "absent"
  BY DEF TypeInv, Placed, Busy, TypeOK
<1>2. Write(worker.run, new) /\ lates' \in 0..MaxLates
  BY <1>1, WorkerEndsTypes DEF WorkerEnds, WorkerGoesOn, TypeOK
<1>3. /\ row' \in [Runs -> Rows] /\ disturbed' \subseteq Runs /\ losses' \in 0..MaxTroubles
      /\ \A s \in Runs : row'[s].status = "absent" <=> row[s].status = "absent"
  <2>1. new.status # "absent"
    BY DEF Active, Preparing, Ended
  <2> QED BY <1>1, <1>2, <2>1, WriteRow DEF TypeOK
<1>4. /\ worker' \in Workers
      /\ worker'.at # "idle" => worker'.run = worker.run /\ worker'.copy.status \in Active
  <2>1. CASE WorkerEnds(new)
    BY <1>1, <2>1, WorkerEndsTypes DEF WorkerEnds, IdleWorker
  <2>2. ASSUME NEW next \in Busy, WorkerGoesOn(next, new), new.status \in Active
        PROVE  worker' \in Workers /\ worker'.run = worker.run /\ worker'.copy.status \in Active
    BY <1>1, <2>2 DEF WorkerGoesOn, Workers, Busy
  <2> QED BY <2>1, <2>2
<1>5. UNCHANGED <<launched, tick, starter, config, round, rounds, autoOn, undone, patch, ticking, today, patches,
                  restarts>>
  BY DEF WorkerEnds, WorkerGoesOn, WorkerOnly, starts, owner
<1>6. TypeOK'
  BY <1>1, <1>2, <1>3, <1>4, <1>5 DEF TypeOK, jobs
<1> QED BY <1>1, <1>3, <1>4, <1>5, <1>6, StillPlaced, SameJobs DEF Placed, Busy

\* The worker keeps the types.
LEMMA WorkerTypes ==
    ASSUME TypeInv,
           \/ WorkerDefers \/ WorkerReads \/ WorkerPrefilters \/ (\E r \in Runs : WorkerTakes(r))
           \/ \E d \in Researches : WorkerSteps(d)
    PROVE  TypeInv'
<1>1. TypeOK /\ Placed /\ worker \in Workers /\ worker.copy \in Rows
  BY DEF TypeInv, TypeOK, Workers
<1>2. /\ worker.at # "idle" => worker.run \in Runs /\ row[worker.run].status # "absent"
      /\ worker.at \in Busy => worker.copy.status \in Active
  BY <1>1 DEF Placed
<1>3. ASSUME NEW r \in Runs, WorkerTakes(r) PROVE TypeInv'
  <2>1. /\ launched' \subseteq launched /\ row[r].status # "absent"
        /\ UNCHANGED <<row, research, generation, jobs, disturbed, tick, starter, config, round, rounds, autoOn, undone,
                       settling, patch, ticking, today, patches, losses, lates, restarts>>
    BY <1>1, <1>3 DEF WorkerTakes, Placed, jobs, starts, owner
  <2>2. worker' = worker \/ worker' = [IdleWorker EXCEPT !.at = "slot", !.run = r]
    BY <1>3 DEF WorkerTakes
  <2>3. worker' \in Workers /\ (worker' = worker \/ (worker'.at = "slot" /\ worker'.run = r))
    <3>1. r \in 0..MaxRuns /\ IdleWorker \in Workers
      BY ConstantTypes DEF Runs
    <3>2. CASE worker' = [IdleWorker EXCEPT !.at = "slot", !.run = r]
      BY <3>1, <3>2 DEF Workers
    <3> QED BY <1>1, <2>2, <3>2
  <2>4. TypeOK'
    BY <1>1, <2>1, <2>3 DEF TypeOK
  <2> QED BY <1>1, <2>1, <2>3, <2>4, StillPlaced, SameJobs DEF Placed, Busy
<1>4. CASE WorkerDefers
  <2> DEFINE new == [row[worker.run] EXCEPT !.status = "pending", !.wait = "later"]
  <2>1. worker.run \in Runs /\ row[worker.run] \in Rows /\ row[worker.run].status # "absent"
    BY <1>1, <1>2, <1>4 DEF WorkerDefers, TypeOK
  <2>2. new \in Rows /\ new.status = "pending"
    BY <2>1 DEF Rows, Active, Preparing
  <2>3. row' = [row EXCEPT ![worker.run] = new]
    BY <1>4 DEF WorkerDefers
  <2> HIDE DEF new
  <2>4. /\ row' \in [Runs -> Rows] /\ disturbed' \subseteq Runs
        /\ \A s \in Runs : row'[s].status = "absent" <=> row[s].status = "absent"
    BY <1>1, <1>4, <2>1, <2>2, <2>3 DEF WorkerDefers, TypeOK
  <2>5. worker' = IdleWorker /\ worker' \in Workers /\ lates' \in 0..MaxLates
    BY <1>1, <1>4, WorkerEndsTypes DEF WorkerDefers
  <2>6. UNCHANGED <<research, generation, jobs, launched, tick, starter, config, round, rounds, autoOn, undone,
                    settling, patch, ticking, today, patches, losses, restarts>>
    BY <1>4 DEF WorkerDefers, WorkerOnly, starts, owner, jobs
  <2>7. TypeOK'
    BY <1>1, <2>4, <2>5, <2>6 DEF TypeOK
  <2> QED BY <1>1, <2>4, <2>5, <2>6, <2>7, StillPlaced, SameJobs DEF Placed, IdleWorker
<1>5. CASE WorkerReads
  <2>1. worker.run \in Runs /\ row[worker.run] \in Rows /\ row[worker.run].status # "absent"
    BY <1>1, <1>2, <1>5 DEF WorkerReads, TypeOK
  <2>2. /\ worker' \in Workers
        /\ worker'.at # "idle" => worker'.run = worker.run /\ worker'.copy.status \in Active
    BY <1>1, <1>5, <2>1, ConstantTypes DEF WorkerReads, Workers, IdleWorker
  <2>3. /\ UNCHANGED <<row, research, generation, jobs, launched, tick, starter, config, round, rounds, autoOn, undone,
                       settling, patch, ticking, today, patches, losses, lates, restarts>>
        /\ disturbed' \subseteq Runs
    BY <1>1, <1>5, <2>1 DEF WorkerReads, WorkerOnly, starts, owner, jobs, TypeOK
  <2>4. TypeOK'
    BY <1>1, <2>2, <2>3 DEF TypeOK
  <2> QED BY <1>1, <2>1, <2>2, <2>3, <2>4, StillPlaced, SameJobs DEF Placed
<1>6. CASE WorkerPrefilters
  <2> DEFINE new == [worker.copy EXCEPT !.status = "prefiltering", !.wait = "none"]
  <2>1. new \in Rows /\ new.status \in Active
    BY <1>1 DEF Rows, Active, Preparing
  <2> HIDE DEF new
  <2>2. /\ worker.at \in Busy /\ UNCHANGED jobs /\ WorkerGoesOn("prefilter", new)
        /\ settling' \in [Settlers -> Settlings]
    BY <1>1, <1>6 DEF WorkerPrefilters, WorkerGoesOn, Busy, TypeOK, new
  <2> QED BY <2>1, <2>2, WorkerWritesTypes DEF Busy
<1>7. CASE WorkerEnriches
  <2> DEFINE new == [worker.copy EXCEPT !.status = "enriching", !.date = today]
  <2>1. new \in Rows /\ new.status \in Active
    <3>1. today \in 0..MaxDay
      BY <1>1 DEF TypeOK
    <3> QED BY <1>1, <3>1 DEF Rows, Active, Preparing
  <2> HIDE DEF new
  <2>2. /\ worker.at \in Busy /\ UNCHANGED jobs /\ WorkerGoesOn("enrich", new)
        /\ settling' \in [Settlers -> Settlings]
    BY <1>1, <1>7 DEF WorkerEnriches, WorkerGoesOn, Busy, TypeOK, new
  <2> QED BY <2>1, <2>2, WorkerWritesTypes DEF Busy
<1>8. ASSUME NEW retryable \in BOOLEAN, WorkerFails(retryable) PROVE TypeInv'
  <2> DEFINE new == Failed(worker.copy, retryable)
  <2>1. worker.at \in Busy /\ UNCHANGED jobs /\ WorkerEnds(new)
    BY <1>8 DEF WorkerFails, Busy
  <2>3. settling' \in [Settlers -> Settlings]
    BY <1>1, <1>2, <1>8, <2>1, SettlesTypes DEF WorkerFails, Busy, Settlers
  <2>2. new \in Rows /\ new.status \in Active \cup Ended
    BY <1>1, <1>2, <2>1, FailedRow DEF Ended
  <2> QED BY <2>1, <2>2, <2>3, WorkerWritesTypes
<1>9. CASE WorkerSaves
  <2> DEFINE new == [worker.copy EXCEPT !.status = "researching", !.count = 0, !.wait = "none"]
  <2>1. new \in Rows /\ new.status \in Active
    <3>1. 0 \in 0..MaxRetries
      BY DEF MaxRetries
    <3> QED BY <1>1, <3>1 DEF Rows, Active
  <2> HIDE DEF new
  <2>2. worker.at \in Busy /\ UNCHANGED jobs /\ WorkerEnds(new) /\ settling' \in [Settlers -> Settlings]
    BY <1>1, <1>9 DEF WorkerSaves, Busy, TypeOK, new
  <2> QED BY <2>1, <2>2, WorkerWritesTypes
<1>10. CASE WorkerOpens
  <2>1. /\ worker.run \in Runs /\ worker.copy.status \in Active /\ worker.at = "enrich"
        /\ row[worker.run].status # "absent"
    BY <1>2, <1>10 DEF WorkerOpens, Busy
  <2>2. /\ row' \in [Runs -> Rows]
        /\ \A s \in Runs : row'[s].status = "absent" <=> row[s].status = "absent"
    BY <1>1, <1>10, <2>1 DEF WorkerOpens, TypeOK, Active, Preparing
  <2>3. worker' \in Workers /\ worker'.run = worker.run /\ worker'.copy = worker.copy
    BY <1>1, <1>10 DEF WorkerOpens, Workers
  <2>4. UNCHANGED <<research, generation, jobs, launched, tick, starter, config, round, rounds, autoOn, undone,
                    settling, patch, ticking, today, patches, disturbed, losses, lates, restarts>>
    BY <1>10 DEF WorkerOpens, WorkerOnly, starts, owner, jobs
  <2>5. TypeOK'
    BY <1>1, <2>2, <2>3, <2>4 DEF TypeOK
  <2> QED BY <1>1, <2>1, <2>2, <2>3, <2>4, <2>5, StillPlaced, SameJobs DEF Placed
<1>11. ASSUME NEW d \in Researches, WorkerStarts(d) PROVE TypeInv'
  <2> DEFINE after == Failed(worker.copy, TRUE)
  <2>1. /\ worker.run \in Runs /\ worker.copy.status \in Active /\ worker.at = "start"
        /\ row[worker.run].status # "absent"
    BY <1>2, <1>11 DEF WorkerStarts, Busy
  <2>2. after \in Rows /\ after.status # "absent"
    BY <1>1, <2>1, FailedRow DEF Active, Preparing
  <2>3. /\ Discover(worker.run, d) \/ DiscoverInVain(worker.run, d, after)
        /\ \/ worker' = [worker EXCEPT !.at = "save", !.copy = [worker.copy EXCEPT !.research = d]] /\ lates' = lates
           \/ WorkerDone
        /\ UNCHANGED <<launched, tick, starter, config, round, rounds, autoOn, undone, patch, ticking, today, patches,
                       restarts>>
    BY <1>11 DEF WorkerStarts, WorkerOnly, starts, owner
  <2>7. settling' \in [Settlers -> Settlings]
    <3>1. UNCHANGED settling \/ Settles("worker", worker.run, 0)
      BY <1>11 DEF WorkerStarts
    <3>2. settling \in [Settlers -> Settlings] /\ 0 \in 0..MaxDay /\ "worker" \in Settlers
      BY <1>1 DEF Settlers, TypeOK
    <3> QED BY <1>1, <2>1, <3>1, <3>2, SettlesTypes
  <2>4. /\ row' \in [Runs -> Rows] /\ research' \in [Researches -> ResearchRows]
        /\ disturbed' \subseteq Runs /\ losses' \in 0..MaxTroubles /\ UNCHANGED generation
        /\ \A s \in Runs : row'[s].status = "absent" <=> row[s].status = "absent"
        /\ \A e \in Researches : JobKept(research, e)
        /\ \A g \in Generations : JobKept(generation, g)
    BY <2>1, <2>2, <2>3, DiscoverTypes
  <2>5. /\ worker' \in Workers /\ lates' \in 0..MaxLates
        /\ worker'.at # "idle" => worker'.run = worker.run /\ worker'.copy.status \in Active
    <3>1. [worker.copy EXCEPT !.research = d] \in Rows /\ [worker.copy EXCEPT !.research = d].status \in Active
      BY <1>1, <2>1, RowWithJob DEF Rows
    <3>2. CASE WorkerDone
      BY <1>1, <3>2, WorkerEndsTypes DEF IdleWorker
    <3>3. CASE worker' = [worker EXCEPT !.at = "save", !.copy = [worker.copy EXCEPT !.research = d]] /\ lates' = lates
      <4> DEFINE copy == [worker.copy EXCEPT !.research = d]
      <4> HIDE DEF copy
      <4>1. worker' = [worker EXCEPT !.at = "save", !.copy = copy] /\ copy \in Rows /\ copy.status \in Active
        BY <3>1, <3>3 DEF copy
      <4> QED BY <1>1, <3>3, <4>1 DEF Workers, TypeOK
    <3> QED BY <2>3, <3>2, <3>3
  <2>6. TypeOK'
    BY <1>1, <2>3, <2>4, <2>5, <2>7 DEF TypeOK
  <2> QED BY <1>1, <2>1, <2>3, <2>4, <2>5, <2>6, StillPlaced DEF Placed
<1> QED BY <1>3, <1>4, <1>5, <1>6, <1>7, <1>8, <1>9, <1>10, <1>11 DEF WorkerSteps

\* Agents, time, the owner's settings, restarts.
LEMMA OtherTypes ==
    ASSUME TypeInv,
           \/ \E r \in Runs : RetryDue(r)
           \/ \E d \in Researches : ResearchEnds(d)
           \/ \E g \in Generations : GenerationEnds(g)
           \/ OwnerReads \/ (\E e \in BOOLEAN : OwnerSaves(e)) \/ NextDay \/ Restart
           \/ StopBackground \/ StartBackground \/ \E a \in Settlers : SettlingSteps(a)
    PROVE  TypeInv'
<1>1. TypeOK /\ Placed
  BY DEF TypeInv
<1>2. ASSUME NEW r \in Runs, RetryDue(r) PROVE TypeInv'
  <2>1. row' = [row EXCEPT ![r] = [row[r] EXCEPT !.wait = "due"]] /\ row[r] \in Rows
    BY <1>1, <1>2 DEF RetryDue, TypeOK
  <2>2. [row[r] EXCEPT !.wait = "due"] \in Rows /\ [row[r] EXCEPT !.wait = "due"].status = row[r].status
    BY <2>1 DEF Rows
  <2>3. UNCHANGED <<research, generation, jobs, launched, worker, tick, starter, config, round, rounds, autoOn, undone,
                    settling, patch, ticking, today, patches, disturbed, losses, lates, restarts>>
    BY <1>2 DEF RetryDue, starts, owner, jobs
  <2>4. row' \in [Runs -> Rows] /\ \A s \in Runs : row'[s].status = row[s].status
    BY <1>1, <2>1, <2>2 DEF TypeOK
  <2>5. TypeOK'
    BY <1>1, <2>3, <2>4 DEF TypeOK
  <2> QED BY <1>1, <2>3, <2>4, <2>5, StillPlaced, SameJobs DEF Placed
<1>3. ASSUME NEW d \in Researches, ResearchEnds(d) PROVE TypeInv'
  <2>1. /\ UNCHANGED <<row, generation, launched, worker, tick, starter, config, round, rounds, autoOn, undone,
                       settling, patch, ticking, today, patches, disturbed, lates, restarts>>
        /\ losses' \in 0..MaxTroubles
        /\ \E o \in {"completed", "failed", "orphaned"} : research' = [research EXCEPT ![d].state = o]
    BY <1>1, <1>3 DEF ResearchEnds, Recorded, AgentsOnly, starts, owner, TypeOK, Trouble, Faults
  <2>2. /\ research' \in [Researches -> ResearchRows] /\ \A e \in Researches : JobKept(research, e)
        /\ \A g \in Generations : JobKept(generation, g)
    <3>1. PICK o \in {"completed", "failed", "orphaned"} : research' = [research EXCEPT ![d].state = o]
      BY <2>1
    <3>2. research \in [Researches -> ResearchRows]
      BY <1>1 DEF TypeOK
    <3>3. \A j \in ResearchRows : /\ [j EXCEPT !.state = o] \in ResearchRows
                                  /\ [j EXCEPT !.state = o].of = j.of /\ [j EXCEPT !.state = o].round = j.round
      BY DEF ResearchRows
    <3> QED BY <2>1, <3>1, <3>2, <3>3 DEF JobKept
  <2>3. TypeOK'
    BY <1>1, <2>1, <2>2 DEF TypeOK
  <2> QED BY <1>1, <2>1, <2>2, <2>3, StillPlaced DEF Placed
<1>4. ASSUME NEW g \in Generations, GenerationEnds(g) PROVE TypeInv'
  <2>1. /\ UNCHANGED <<row, research, launched, worker, tick, starter, config, round, rounds, autoOn, undone,
                       settling, patch, ticking, today, patches, disturbed, lates, restarts>>
        /\ losses' \in 0..MaxTroubles
        /\ \E o \in {"completed", "failed", "rejected", "orphaned"} : generation' = [generation EXCEPT ![g].state = o]
    BY <1>1, <1>4 DEF GenerationEnds, Recorded, AgentsOnly, starts, owner, TypeOK, Trouble, Faults
  <2>2. /\ generation' \in [Generations -> GenerationRows] /\ \A e \in Generations : JobKept(generation, e)
        /\ \A d \in Researches : JobKept(research, d)
    <3>1. PICK o \in {"completed", "failed", "rejected", "orphaned"} : generation' = [generation EXCEPT ![g].state = o]
      BY <2>1
    <3>2. generation \in [Generations -> GenerationRows]
      BY <1>1 DEF TypeOK
    <3>3. \A j \in GenerationRows : /\ [j EXCEPT !.state = o] \in GenerationRows
                                    /\ [j EXCEPT !.state = o].of = j.of /\ [j EXCEPT !.state = o].round = j.round
      BY DEF GenerationRows
    <3> QED BY <2>1, <3>1, <3>2, <3>3 DEF JobKept
  <2>3. TypeOK'
    BY <1>1, <2>1, <2>2 DEF TypeOK
  <2> QED BY <1>1, <2>1, <2>2, <2>3, StillPlaced DEF Placed
<1>5. CASE OwnerReads
  <2>1. /\ UNCHANGED <<row, research, generation, jobs, launched, worker, tick, starter, config, round, rounds, autoOn,
                       undone, settling, ticking, today, disturbed, losses, lates, restarts>>
        /\ patches' \in 0..MaxPatches /\ patch' = [at |-> "save", copy |-> config]
    BY <1>1, <1>5 DEF OwnerReads, AgentsOnly, starts, jobs, TypeOK
  <2>2. TypeOK'
    BY <1>1, <2>1 DEF TypeOK
  <2> QED BY <1>1, <2>1, <2>2, StillPlaced, SameJobs DEF Placed
<1>6. ASSUME NEW e \in BOOLEAN, OwnerSaves(e) PROVE TypeInv'
  <2>1. /\ UNCHANGED <<row, research, generation, jobs, launched, worker, tick, starter, round, rounds, autoOn,
                       settling, today, patches, disturbed, losses, lates, restarts>>
        /\ patch' = IdlePatch /\ ticking' = (ticking \/ e)
    BY <1>6 DEF OwnerSaves, jobs
  <2>2. config' \in Configs /\ undone' \subseteq 0..MaxDay
    <3>1. [patch.copy EXCEPT !.enabled = e] \in Configs
      BY <1>1 DEF TypeOK, Configs
    <3> QED BY <1>1, <1>6, <3>1, SavedTypes DEF OwnerSaves
  <2>3. ticking' \in BOOLEAN
    BY <1>1, <2>1, Zenon
  <2>4. patch' \in [at : {"idle", "save"}, copy : Configs]
    BY <2>1, ConstantTypes DEF IdlePatch
  <2>5. TypeOK'
    BY <1>1, <2>1, <2>2, <2>3, <2>4 DEF TypeOK
  <2> QED BY <1>1, <2>1, <2>5, StillPlaced, SameJobs DEF Placed
<1>7. CASE NextDay
  <2>1. /\ UNCHANGED <<row, research, generation, jobs, launched, worker, tick, starter, config, round, rounds, autoOn,
                       undone, settling, ticking, patch, patches, disturbed, losses, lates, restarts>>
        /\ today' \in 1..MaxDay
    BY <1>1, <1>7 DEF NextDay, AgentsOnly, starts, jobs, TypeOK
  <2>2. TypeOK'
    BY <1>1, <2>1 DEF TypeOK
  <2> QED BY <1>1, <2>1, <2>2, StillPlaced, SameJobs DEF Placed
<1>8. CASE Restart
  <2>1. /\ UNCHANGED <<row, disturbed, config, round, rounds, autoOn, undone, today, losses, lates, patches>>
        /\ settling' = [a \in Settlers |-> Settled] /\ ticking' = TRUE /\ launched' = {} /\ worker' = IdleWorker /\ tick' = IdleWorker /\ starter' = IdleStarter /\ patch' = IdlePatch
        /\ restarts' \in 0..MaxTroubles
    BY <1>1, <1>8 DEF Restart, TypeOK, Trouble, Faults
  <2>2. /\ research' \in [Researches -> ResearchRows] /\ \A d \in Researches : JobKept(research, d)
        /\ generation' \in [Generations -> GenerationRows] /\ \A g \in Generations : JobKept(generation, g)
    BY <1>1, <1>8, SMTT(20) DEF Restart, Interrupted, TypeOK, JobKept, ResearchRows, GenerationRows
  <2>3. TypeOK'
    BY <1>1, <2>1, <2>2, ConstantTypes DEF TypeOK, IdleStarter, IdlePatch
  <2> QED BY <1>1, <2>1, <2>2, <2>3, StillPlaced DEF IdleWorker, IdleStarter, Advancing
<1>9. ASSUME NEW a \in Settlers, SettlingSteps(a) PROVE TypeInv'
  <2>1. /\ UNCHANGED <<row, research, generation, jobs, disturbed, launched, worker, tick, starter, round, rounds,
                       autoOn, patch, ticking, today, patches, lates, restarts>>
        /\ losses' \in 0..MaxTroubles
    BY <1>1, <1>9 DEF SettlingSteps, SettlingReads, SettlingSaves, SettlingOnly, owner, jobs, TypeOK, Trouble, Faults
  <2>2. config \in Configs /\ settling \in [Settlers -> Settlings] /\ undone \subseteq 0..MaxDay
    BY <1>1 DEF TypeOK
  <2>3. settling' \in [Settlers -> Settlings]
    <3>1. CASE settling' = [settling EXCEPT ![a] = Settled]
      BY <2>2, <3>1, ConstantTypes
    <3>2. CASE settling' = [settling EXCEPT ![a] = [settling[a] EXCEPT !.at = "save", !.copy = config]]
      <4>1. [settling[a] EXCEPT !.at = "save", !.copy = config] \in Settlings
        BY <2>2 DEF Settlings
      <4> QED BY <2>2, <3>2, <4>1
    <3>3. SettlingReads(a) => \/ settling' = [settling EXCEPT ![a] = Settled]
                             \/ settling' = [settling EXCEPT ![a] = [settling[a] EXCEPT !.at = "save", !.copy = config]]
      BY <2>2 DEF SettlingReads
    <3> QED BY <1>9, <3>1, <3>2, <3>3 DEF SettlingSteps, SettlingSaves
  <2>4. config' \in Configs /\ undone' \subseteq 0..MaxDay
    <3>1. CASE UNCHANGED <<config, undone>>
      BY <2>2, <3>1
    <3>2. CASE SaveSettings(settling[a].copy, Settlement(a), settling[a].date # 0 /\ settling[a].run \in disturbed)
      <4>1. Settlement(a) \in Configs
        BY <2>2 DEF Settlement, Settlings, Configs
      <4> QED BY <1>1, <3>2, <4>1, SavedTypes
    <3> QED BY <1>9, <3>1, <3>2 DEF SettlingSteps, SettlingReads, SettlingSaves
  <2>5. TypeOK'
    BY <1>1, <2>1, <2>3, <2>4 DEF TypeOK
  <2> QED BY <1>1, <2>1, <2>5, StillPlaced, SameJobs DEF Placed
<1>10. CASE StartBackground
  <2>1. /\ UNCHANGED <<row, research, generation, jobs, launched, worker, tick, starter, config, round, rounds, autoOn,
                       undone, settling, today, patch, patches, disturbed, losses, lates, restarts>>
        /\ ticking' = TRUE
    BY <1>10 DEF StartBackground, AgentsOnly, starts, jobs
  <2>2. TypeOK'
    BY <1>1, <2>1 DEF TypeOK
  <2> QED BY <1>1, <2>1, <2>2, StillPlaced, SameJobs DEF Placed
<1>11. CASE StopBackground
  <2>1. /\ UNCHANGED <<row, research, generation, jobs, launched, worker, config, patch, today, round, rounds, autoOn,
                       undone, patches, lates, restarts>>
        /\ ticking' = FALSE /\ settling' = [settling EXCEPT !["tick"] = Settled]
        /\ tick' = tick \/ tick' = IdleWorker
        /\ starter' = starter \/ starter' = IdleStarter
    BY <1>11 DEF StopBackground, jobs
  <2>2. losses' \in 0..MaxTroubles /\ disturbed' \subseteq Runs
    BY <1>1, <1>11 DEF StopBackground, TypeOK, Placed, Trouble, Faults, Advancing
  <2>3. tick' \in Ticks /\ starter' \in [at : {"idle", "create"}, auto : BOOLEAN, copy : Configs]
    <3>1. IdleStarter \in [at : {"idle", "create"}, auto : BOOLEAN, copy : Configs]
      BY ConstantTypes DEF IdleStarter
    <3> QED BY <1>1, <2>1, <3>1, ConstantTypes DEF TypeOK
  <2>4. settling' \in [Settlers -> Settlings]
    BY <1>1, <2>1, ConstantTypes DEF TypeOK
  <2>5. TypeOK'
    BY <1>1, <2>1, <2>2, <2>3, <2>4 DEF TypeOK
  <2> QED BY <1>1, <2>1, <2>5, StillPlaced, SameJobs DEF Placed, IdleWorker, IdleStarter, Advancing
<1> QED BY <1>2, <1>3, <1>4, <1>5, <1>6, <1>7, <1>8, <1>9, <1>10, <1>11

\* Every step keeps the types and everybody at a scan that is there.
LEMMA TypeStep == ASSUME TypeInv, [Next]_vars PROVE TypeInv'
<1>1. CASE UNCHANGED vars
  BY <1>1 DEF vars, owner, TypeInv, TypeOK, Placed
<1>2. CASE OwnerStarts \/ StarterSteps \/ \E r \in Runs : OwnerRetries(r)
  BY <1>2, StarterTypes
<1>3. CASE WorkerDefers \/ WorkerReads \/ WorkerPrefilters \/ (\E r \in Runs : WorkerTakes(r))
           \/ \E d \in Researches : WorkerSteps(d)
  BY <1>3, WorkerTypes
<1>4. CASE TickSteps
  BY <1>4, TickTypes
<1>5. CASE \/ \E r \in Runs : RetryDue(r)
           \/ \E d \in Researches : ResearchEnds(d)
           \/ \E g \in Generations : GenerationEnds(g)
           \/ OwnerReads \/ (\E e \in BOOLEAN : OwnerSaves(e)) \/ NextDay \/ Restart
           \/ StopBackground \/ StartBackground \/ \E a \in Settlers : SettlingSteps(a)
  BY <1>5, OtherTypes
<1> QED BY <1>1, <1>2, <1>3, <1>4, <1>5 DEF Next

\* They hold at the start.
LEMMA TypeInit == Init => TypeInv
<1> SUFFICES ASSUME Init PROVE TypeInv
  OBVIOUS
<1>1. TypeOK
  <2>1. \A n \in Nat : 0 \in 0..n
    OBVIOUS
  <2>2. IdleStarter \in [at : {"idle", "create"}, auto : BOOLEAN, copy : Configs]
    BY ConstantTypes DEF IdleStarter
  <2>3. IdlePatch \in [at : {"idle", "save"}, copy : Configs]
    BY ConstantTypes DEF IdlePatch
  <2>4. [enabled |-> TRUE, scanned |-> 0] \in Configs
    BY DEF Configs
  <2>5. /\ row \in [Runs -> Rows] /\ round \in [Runs -> 0..MaxRounds] /\ autoOn \in [Runs -> 0..MaxDay]
        /\ research \in [Researches -> ResearchRows] /\ generation \in [Generations -> GenerationRows]
    BY <2>1, ConstantTypes DEF Init
  <2>6. /\ rounds \in 0..MaxRounds /\ losses \in 0..MaxTroubles /\ lates \in 0..MaxLates
        /\ patches \in 0..MaxPatches /\ restarts \in 0..MaxTroubles /\ today \in 1..MaxDay
    BY <2>1 DEF Init
  <2>7. /\ worker = IdleWorker /\ tick = IdleWorker /\ starter = IdleStarter /\ patch = IdlePatch
        /\ config = [enabled |-> TRUE, scanned |-> 0] /\ launched = {} /\ disturbed = {} /\ undone = {}
        /\ settling = [a \in Settlers |-> Settled] /\ ticking = TRUE
    BY DEF Init
  <2> QED BY <2>2, <2>3, <2>4, <2>5, <2>6, <2>7, ConstantTypes DEF TypeOK
<1>2. Placed
  <2>1. /\ launched = {} /\ worker = IdleWorker /\ tick = IdleWorker /\ starter = IdleStarter /\ rounds = 0
        /\ \A r \in Runs : round[r] = 0 /\ row[r] = Absent
        /\ \A d \in Researches : research[d] = Unused
        /\ \A g \in Generations : generation[g] = Unused
    BY DEF Init
  <2> QED BY <2>1 DEF Placed, IdleWorker, IdleStarter, Unused, Absent, Busy, Advancing
<1> QED BY <1>1, <1>2 DEF TypeInv

\* Every variable keeps its type, over lost writes, late workers and restarts.
THEOREM ScanTypes == Spec => []TypeOK
<1>1. TypeInv => TypeOK
  BY DEF TypeInv
<1> QED BY <1>1, TypeInit, TypeStep, PTL DEF Spec
-----------------------------------------------------------------------------
\* One active scan.

\* A step that makes no undisturbed scan active.
LEMMA OneStays ==
    ASSUME TypeInv, StarterAlone, OneActive, starter' = starter \/ starter'.at = "idle",
           \A s \in Runs : row'[s].status \in Active /\ s \notin disturbed' =>
                               row[s].status \in Active /\ s \notin disturbed
    PROVE  StarterAlone' /\ OneActive'
BY DEF StarterAlone, OneActive, ActiveRuns

\* A step of another actor, which leaves the undisturbed scans in preparation alone.
LEMMA WorkerStays ==
    ASSUME TypeInv, WorkerFollows, worker' = worker \/ worker'.at \in {"idle", "slot"}, disturbed \subseteq disturbed',
           \A s \in Runs \ disturbed' : row[s].status \in Preparing =>
               row'[s].status \in Preparing /\ row'[s].research = row[s].research
    PROVE  WorkerFollows'
<1>1. worker.at \in Busy => worker.run \in Runs
  BY DEF TypeInv, Placed, Busy
<1> QED BY <1>1 DEF WorkerFollows, Busy

\* One that leaves the undisturbed scans past the preparation alone.
LEMMA TickStays ==
    ASSUME TypeInv, TickFollows, tick' = tick \/ tick'.at \notin Advancing, disturbed \subseteq disturbed',
           \A s \in Runs \ disturbed' : row[s].status \in Late => row'[s] = row[s]
    PROVE  TickFollows'
<1>1. tick.at \in Advancing => tick.run \in Runs
  BY DEF TypeInv, Placed
<1> QED BY <1>1 DEF TickFollows, Advancing

\* A round that begins while no undisturbed scan is active keeps one active scan.
LEMMA RoundFollows ==
    ASSUME TypeInv, FollowInv, NEW r \in Runs, NEW date \in 0..MaxDay, BeginsRound(r, date),
           ActiveRuns \subseteq disturbed, row[r].status \notin Active,
           starter'.at = "idle", tick' \in {tick, IdleWorker}
    PROVE  FollowInv'
<1>1. UNCHANGED <<disturbed, worker>>
  BY DEF BeginsRound
<1>2. \A s \in Runs \ {r} : row'[s].status = row[s].status
  <2>1. TypeOK /\ row' = WithNewRound(r, date)
    BY DEF TypeInv, BeginsRound
  <2>2. \A s \in Runs \ {r} : WithNewRound(r, date)[s].status = row[s].status
    BY DEF WithNewRound, Over, Absent
  <2> QED BY <2>1, <2>2
<1>3. \A s \in Runs \ disturbed : row[s].status \notin Active
  BY DEF ActiveRuns
<1>4. WorkerFollows'
  BY <1>1, <1>3, WorkerStays DEF FollowInv, Active
<1>5. TickFollows'
  BY <1>1, <1>3, TickStays DEF FollowInv, Active, Late, IdleWorker, Advancing
<1>6. OneActive' /\ StarterAlone'
  BY <1>1, <1>2, <1>3 DEF OneActive, StarterAlone, ActiveRuns
<1> QED BY <1>4, <1>5, <1>6 DEF FollowInv

\* Starts and retries refuse while a scan is active, or create one when none is.
LEMMA StarterFollows ==
    ASSUME TypeInv, FollowInv, StarterSteps \/ OwnerStarts \/ TickStarts \/ \E r \in Runs : OwnerRetries(r)
    PROVE  FollowInv'
<1>1. CASE OwnerStarts \/ TickStarts
  <2>1. UNCHANGED <<row, disturbed, worker>> /\ ActiveRuns = {} /\ (tick' = tick \/ tick'.at = "wait")
    BY <1>1 DEF OwnerStarts, TickStarts, StartReads, MayStart, TypeInv, TypeOK, Ticks
  <2>2. WorkerFollows' /\ TickFollows'
    BY <2>1, WorkerStays, TickStays DEF FollowInv, Advancing
  <2>3. OneActive' /\ StarterAlone'
    BY <2>1 DEF OneActive, StarterAlone, ActiveRuns
  <2> QED BY <2>2, <2>3 DEF FollowInv
<1>2. CASE StartRefused
  <2>1. UNCHANGED <<row, disturbed, worker>> /\ starter'.at = "idle" /\ tick' \in {tick, IdleWorker}
    BY <1>2 DEF StartRefused, StarterDone, IdleStarter
  <2>2. WorkerFollows' /\ TickFollows' /\ OneActive' /\ StarterAlone'
    BY <2>1, WorkerStays, TickStays, OneStays DEF FollowInv, Advancing, IdleWorker
  <2> QED BY <2>2 DEF FollowInv
<1>3. ASSUME NEW r \in Runs, StartCreates(r) PROVE FollowInv'
  <2>1. ActiveRuns \subseteq disturbed /\ row[r].status \notin Active
    BY <1>3 DEF StartCreates, StarterDone, FollowInv, StarterAlone, Absent, Active, Preparing
  <2>2. starter'.at = "idle" /\ tick' \in {tick, IdleWorker}
    BY <1>3 DEF StartCreates, StarterDone, IdleStarter
  <2> QED BY <1>3, <2>1, <2>2, CreateBegins, RoundFollows
<1>4. ASSUME NEW r \in Runs, OwnerRetries(r) PROVE FollowInv'
  <2>1. /\ ActiveRuns \subseteq disturbed /\ row[r].status \notin Active
        /\ starter'.at = "idle" /\ tick' \in {tick, IdleWorker}
    BY <1>4 DEF OwnerRetries, MayStart, Ended, Active, Preparing
  <2> QED BY <1>4, <2>1, RetryBegins, RoundFollows
<1> QED BY <1>1, <1>2, <1>3, <1>4 DEF StarterSteps

\* The worker writes its copy, with what it has changed, or ends.
LEMMA WorkerWritesFollow ==
    ASSUME TypeInv, FollowInv, worker.at \in Busy, NEW new \in Rows, Write(worker.run, new), WorkerOnly,
           \/ worker' = IdleWorker
           \/ /\ worker'.at \in {"prefilter", "enrich"} /\ worker'.run = worker.run /\ worker'.copy = new
              /\ worker.copy.status \in Preparing => new.status \in Preparing
    PROVE  FollowInv'
<1> DEFINE r == worker.run
<1>1. TypeOK /\ r \in Runs
  BY DEF TypeInv, Placed, Busy
<1>2. /\ disturbed \subseteq disturbed' /\ \A s \in Runs \ {r} : row'[s] = row[s]
      /\ \/ row'[r] = new /\ disturbed' = disturbed
         \/ row' = row /\ r \in disturbed'
  BY <1>1, WriteRow
<1>3. r \notin disturbed => row[r].status \in Preparing /\ worker.copy.status \in Preparing
  BY DEF FollowInv, WorkerFollows
<1>4. UNCHANGED <<tick, starter>>
  BY DEF WorkerOnly, starts
<1> HIDE DEF r
<1>5. TickFollows'
  <2>1. \A s \in Runs \ disturbed' : row[s].status \in Late => row'[s] = row[s]
    BY <1>2, <1>3 DEF Late, Preparing
  <2> QED BY <1>2, <1>4, <2>1, TickStays DEF FollowInv
<1>6. OneActive' /\ StarterAlone'
  BY <1>1, <1>2, <1>3, <1>4, OneStays DEF FollowInv, Active
<1>7. WorkerFollows'
  <2>1. CASE worker' = IdleWorker
    BY <2>1 DEF WorkerFollows, IdleWorker, Busy
  <2>2. CASE worker' # IdleWorker
    BY <1>2, <1>3, <2>2 DEF WorkerFollows, r
  <2> QED BY <2>1, <2>2
<1> QED BY <1>5, <1>6, <1>7 DEF FollowInv

\* The worker's steps keep its copy in line with the row.
LEMMA WorkerFollow ==
    ASSUME TypeInv, FollowInv,
           \/ WorkerDefers \/ WorkerReads \/ WorkerPrefilters \/ (\E r \in Runs : WorkerTakes(r))
           \/ \E d \in Researches : WorkerSteps(d)
    PROVE  FollowInv'
<1> DEFINE w == worker.run
<1>1. TypeOK /\ worker.copy \in Rows /\ (worker.at # "idle" => w \in Runs)
  BY DEF TypeInv, TypeOK, Placed, Workers
<1>2. /\ worker.at \in Busy /\ w \notin disturbed => row[w].status \in Preparing /\ worker.copy.status \in Preparing
      /\ \A s \in Runs \ disturbed : row[s].status \in Late => row[s].status \notin Preparing
      /\ \A s \in Runs : row[s].status \in Preparing => row[s].status \in Active
  BY DEF FollowInv, WorkerFollows, Late, Preparing, Active
<1>3. ASSUME NEW r \in Runs, WorkerTakes(r) PROVE FollowInv'
  <2>1. UNCHANGED <<row, disturbed, tick, starter>> /\ (worker' = worker \/ worker'.at = "slot")
    BY <1>3 DEF WorkerTakes, starts, IdleWorker
  <2>2. WorkerFollows' /\ TickFollows' /\ OneActive' /\ StarterAlone'
    BY <2>1, WorkerStays, TickStays, OneStays DEF FollowInv
  <2> QED BY <2>2 DEF FollowInv
<1>4. CASE WorkerDefers
  <2>1. /\ w \in Runs /\ worker' = IdleWorker /\ UNCHANGED <<tick, starter>> /\ disturbed \subseteq disturbed'
        /\ row[w].status \in Preparing \/ w \in disturbed'
        /\ row' = [row EXCEPT ![w] = [row[w] EXCEPT !.status = "pending", !.wait = "later"]]
    BY <1>1, <1>4 DEF WorkerDefers, WorkerDone, WorkerOnly, starts
  <2>2. \A s \in Runs \ {w} : row'[s] = row[s]
    BY <1>1, <2>1 DEF TypeOK
  <2>3. WorkerFollows'
    BY <2>1 DEF WorkerFollows, IdleWorker, Busy
  <2>4. TickFollows' /\ OneActive' /\ StarterAlone'
    <3>1. \A s \in Runs \ disturbed' : row[s].status \in Late => row'[s] = row[s]
      BY <1>2, <2>1, <2>2
    <3> QED BY <1>2, <2>1, <2>2, <3>1, TickStays, OneStays DEF FollowInv
  <2> QED BY <2>3, <2>4 DEF FollowInv
<1>5. CASE WorkerReads
  <2>1. /\ UNCHANGED <<row, tick, starter>> /\ disturbed \subseteq disturbed'
        /\ row[w].status \in Late => w \in disturbed'
        /\ \/ worker' = [worker EXCEPT !.at = "read", !.copy = row[w]] /\ row[w].status \in Active
           \/ worker' = IdleWorker
    BY <1>5 DEF WorkerReads, WorkerOnly, starts, Late
  <2>2. TickFollows' /\ OneActive' /\ StarterAlone'
    BY <2>1, TickStays, OneStays DEF FollowInv
  <2>3. WorkerFollows'
    <3>1. CASE worker' = IdleWorker
      BY <3>1 DEF WorkerFollows, IdleWorker, Busy
    <3>2. CASE worker' = [worker EXCEPT !.at = "read", !.copy = row[w]] /\ row[w].status \in Active
      <4>1. worker'.at = "read" /\ worker'.run = w /\ worker'.copy = row[w]
        BY <1>1, <3>2 DEF TypeOK, Workers
      <4> QED BY <2>1, <3>2, <4>1 DEF WorkerFollows, Active, Late
    <3> QED BY <2>1, <3>1, <3>2
  <2> QED BY <2>2, <2>3 DEF FollowInv
<1>6. CASE WorkerPrefilters
  <2> DEFINE new == [worker.copy EXCEPT !.status = "prefiltering", !.wait = "none"]
  <2>1. new \in Rows /\ new.status \in Preparing
    BY <1>1 DEF Rows, Active, Preparing
  <2> HIDE DEF new
  <2>2. worker.at \in Busy /\ WorkerGoesOn("prefilter", new)
    BY <1>6 DEF WorkerPrefilters, Busy, new
  <2> QED BY <1>1, <2>1, <2>2, WorkerWritesFollow DEF WorkerGoesOn, TypeOK, Workers
<1>7. CASE WorkerEnriches
  <2> DEFINE new == [worker.copy EXCEPT !.status = "enriching", !.date = today]
  <2>1. new \in Rows /\ new.status \in Preparing
    <3>1. today \in 0..MaxDay
      BY <1>1 DEF TypeOK
    <3> QED BY <1>1, <3>1 DEF Rows, Active, Preparing
  <2> HIDE DEF new
  <2>2. worker.at \in Busy /\ WorkerGoesOn("enrich", new)
    BY <1>7 DEF WorkerEnriches, Busy, new
  <2> QED BY <1>1, <2>1, <2>2, WorkerWritesFollow DEF WorkerGoesOn, TypeOK, Workers
<1>8. ASSUME NEW retryable \in BOOLEAN, WorkerFails(retryable) PROVE FollowInv'
  <2> DEFINE new == Failed(worker.copy, retryable)
  <2>1. worker.at \in Busy /\ WorkerEnds(new) /\ new \in Rows
    BY <1>1, <1>8, FailedRow DEF WorkerFails, Busy
  <2> QED BY <2>1, WorkerWritesFollow DEF WorkerEnds, WorkerDone
<1>9. CASE WorkerSaves
  <2> DEFINE new == [worker.copy EXCEPT !.status = "researching", !.count = 0, !.wait = "none"]
  <2>1. new \in Rows
    <3>1. 0 \in 0..MaxRetries
      BY DEF MaxRetries
    <3> QED BY <1>1, <3>1 DEF Rows, Active
  <2> HIDE DEF new
  <2>2. worker.at \in Busy /\ WorkerEnds(new)
    BY <1>9 DEF WorkerSaves, Busy, new
  <2> QED BY <2>1, <2>2, WorkerWritesFollow DEF WorkerEnds, WorkerDone
<1>10. CASE WorkerOpens
  <2>1. /\ row' = [row EXCEPT ![w] = worker.copy] /\ worker' = [worker EXCEPT !.at = "start"]
        /\ UNCHANGED <<tick, starter, disturbed>> /\ worker.at \in Busy
    BY <1>10 DEF WorkerOpens, WorkerOnly, starts, Busy
  <2>2. /\ w \in Runs /\ row'[w] = worker.copy /\ \A s \in Runs \ {w} : row'[s] = row[s]
        /\ worker'.at = "start" /\ worker'.run = w /\ worker'.copy = worker.copy
    BY <1>1, <2>1 DEF TypeOK, Workers, Busy
  <2>3. WorkerFollows'
    BY <1>2, <2>1, <2>2 DEF WorkerFollows
  <2>4. TickFollows' /\ OneActive' /\ StarterAlone'
    <3>1. \A s \in Runs \ disturbed' : row[s].status \in Late => row'[s] = row[s]
      BY <1>2, <2>1, <2>2
    <3> QED BY <1>2, <2>1, <2>2, <3>1, TickStays, OneStays DEF FollowInv
  <2> QED BY <2>3, <2>4 DEF FollowInv
<1>11. ASSUME NEW d \in Researches, WorkerStarts(d) PROVE FollowInv'
  <2>1. UNCHANGED <<tick, starter>> /\ worker.at \in Busy /\ w \in Runs
    BY <1>1, <1>11 DEF WorkerStarts, WorkerOnly, starts, Busy
  <2>2. CASE /\ Discover(w, d)
             /\ worker' = [worker EXCEPT !.at = "save", !.copy = [worker.copy EXCEPT !.research = d]]
    <3>1. /\ row'[w].status = row[w].status /\ row'[w].research = d /\ disturbed' = disturbed
          /\ \A s \in Runs \ {w} : row'[s] = row[s]
      BY <1>1, <2>1, <2>2 DEF Discover, TypeOK, Rows
    <3>2. worker'.at = "save" /\ worker'.run = w /\ worker'.copy.status = worker.copy.status /\ worker'.copy.research = d
      BY <1>1, <2>2 DEF TypeOK, Workers, Rows
    <3>3. WorkerFollows'
      BY <1>2, <2>1, <3>1, <3>2 DEF WorkerFollows
    <3>4. TickFollows' /\ OneActive' /\ StarterAlone'
      <4>1. \A s \in Runs \ disturbed' : row[s].status \in Late => row'[s] = row[s]
        BY <1>2, <2>1, <3>1
      <4> QED BY <2>1, <3>1, <4>1, TickStays, OneStays DEF FollowInv
    <3> QED BY <3>3, <3>4 DEF FollowInv
  <2>3. CASE DiscoverInVain(w, d, Failed(worker.copy, TRUE)) /\ WorkerDone
    <3>1. /\ disturbed' = disturbed \cup {w} /\ worker' = IdleWorker
          /\ \A s \in Runs \ {w} : row'[s] = row[s]
      BY <1>1, <2>1, <2>3 DEF DiscoverInVain, TypeOK, WorkerDone
    <3>2. WorkerFollows'
      BY <3>1 DEF WorkerFollows, IdleWorker, Busy
    <3>3. TickFollows' /\ OneActive' /\ StarterAlone'
      BY <2>1, <3>1, TickStays, OneStays DEF FollowInv
    <3> QED BY <3>2, <3>3 DEF FollowInv
  <2> QED BY <1>11, <2>2, <2>3 DEF WorkerStarts
<1> QED BY <1>3, <1>4, <1>5, <1>6, <1>7, <1>8, <1>9, <1>10, <1>11 DEF WorkerSteps

\* What TickFollows says of the copy the ticker reads and writes.
LEMMA TickWritesFollow ==
    ASSUME TypeInv, FollowInv, tick.at \in Advancing, NEW new \in Rows, Write(tick.run, new), tick' = IdleWorker,
           UNCHANGED <<worker, starter>>
    PROVE  FollowInv'
<1> DEFINE r == tick.run
<1>1. TypeOK /\ r \in Runs /\ (r \notin disturbed => row[r].status \in Late)
  BY DEF TypeInv, Placed, FollowInv, TickFollows
<1>2. /\ disturbed \subseteq disturbed' /\ \A s \in Runs \ {r} : row'[s] = row[s]
      /\ \/ row'[r] = new /\ disturbed' = disturbed
         \/ row' = row /\ r \in disturbed'
  BY <1>1, WriteRow
<1> HIDE DEF r
<1>3. WorkerFollows'
  <2>1. \A s \in Runs \ disturbed' : row[s].status \in Preparing => row'[s] = row[s]
    BY <1>1, <1>2 DEF Late, Preparing
  <2> QED BY <1>2, <2>1, WorkerStays DEF FollowInv
<1>4. TickFollows'
  BY DEF TickFollows, IdleWorker, Advancing
<1>5. OneActive' /\ StarterAlone'
  BY <1>1, <1>2, OneStays DEF FollowInv, Active, Late
<1> QED BY <1>3, <1>4, <1>5 DEF FollowInv

\* So do the ticker's.
LEMMA TickFollow == ASSUME TypeInv, FollowInv, TickSteps PROVE FollowInv'
<1> DEFINE t == tick.run
<1>1. TypeOK /\ tick.copy \in Rows /\ (tick.at \in Advancing => t \in Runs)
  BY DEF TypeInv, TypeOK, Placed, Ticks
<1>2. /\ tick.at = "advance" /\ t \notin disturbed => row[t] = tick.copy /\ row[t].status \in Late
      /\ \A s \in Runs \ disturbed : row[s].status \in Preparing => row[s].status \notin Late
      /\ \A s \in Runs : row[s].status \in Late => row[s].status \in Active
  BY DEF FollowInv, TickFollows, Late, Preparing, Active, Advancing
<1>3. CASE TickPasses \/ TickWantsScan \/ TickRecovers
  <2>1. UNCHANGED <<row, disturbed, worker, starter>>
    BY <1>3 DEF TickPasses, TickRefused, TickLaunches, TickWaits, TickWantsScan, TickRecovers, TickOnly, starts
  <2>2. tick'.at \notin Advancing
    BY <1>3 DEF TickPasses, TickRefused, TickLaunches, TickWaits, TickWantsScan, TickRecovers, IdleWorker, Advancing
  <2>3. WorkerFollows' /\ TickFollows' /\ OneActive' /\ StarterAlone'
    BY <2>1, <2>2, WorkerStays, TickStays, OneStays DEF FollowInv
  <2> QED BY <2>3 DEF FollowInv
<1>4. CASE TickStarts
  BY <1>4, StarterFollows
<1>5. CASE TickCannotRead
  <2>1. /\ UNCHANGED <<worker, starter>> /\ t \in Runs /\ disturbed \subseteq disturbed' /\ tick' = IdleWorker
        /\ tick.at = "advance"
    BY <1>1, <1>5 DEF TickCannotRead, TickOnly, At, Advancing
  <2>2. \A s \in Runs \ {t} : row'[s] = row[s]
    BY <1>1, <1>5 DEF TickCannotRead, TypeOK
  <2>3. TickFollows'
    BY <2>1 DEF TickFollows, IdleWorker, Advancing
  <2>4. WorkerFollows'
    <3>1. \A s \in Runs \ disturbed' : row[s].status \in Preparing => row'[s] = row[s]
      BY <1>2, <2>1, <2>2
    <3> QED BY <2>1, <3>1, WorkerStays DEF FollowInv
  <2>5. OneActive' /\ StarterAlone'
    BY <1>2, <2>1, <2>2, OneStays DEF FollowInv
  <2> QED BY <2>3, <2>4, <2>5 DEF FollowInv
<1>6. CASE TickSaves
  BY <1>1, <1>6, TickWritesFollow DEF TickSaves, TickEnds, TickOnly, Advancing
<1>7. ASSUME NEW retryable \in BOOLEAN, TickGivesUp(retryable) PROVE FollowInv'
  <2>1. Failed(tick.copy, retryable) \in Rows
    BY <1>1, FailedRow
  <2> QED BY <1>7, <2>1, TickWritesFollow DEF TickGivesUp, TickEnds, TickOnly, Advancing
<1>8. ASSUME NEW status \in {"completed", "partial"}, TickDone(status) PROVE FollowInv'
  <2>1. [tick.copy EXCEPT !.status = status] \in Rows
    BY <1>1 DEF Rows, Ended
  <2> QED BY <1>8, <2>1, TickWritesFollow DEF TickDone, TickFinishes, TickEnds, TickOnly, Advancing
<1>9. ASSUME NEW r \in Runs, TickReads(r) PROVE FollowInv'
  <2>1. UNCHANGED <<row, disturbed, worker, starter>>
    BY <1>9 DEF TickReads, TickOnly
  <2>2. TickFollows'
    <3>1. row[r].status \in Active /\ row[r].wait # "later"
      BY <1>9 DEF TickReads, Newest, ActiveRuns
    <3>2. CASE tick' = [IdleWorker EXCEPT !.at = "launch", !.run = r]
      BY <3>2 DEF TickFollows, IdleWorker, Advancing
    <3>3. CASE row[r].status \notin Preparing /\ tick' = [at |-> "advance", run |-> r, copy |-> row[r]]
      <4>1. tick'.at = "advance" /\ tick'.run = r /\ tick'.copy = row[r]
        BY <3>3
      <4> QED BY <2>1, <3>1, <3>3, <4>1 DEF TickFollows, Active, Late
    <3> QED BY <1>9, <3>2, <3>3 DEF TickReads
  <2>3. WorkerFollows' /\ OneActive' /\ StarterAlone'
    BY <2>1, WorkerStays, OneStays DEF FollowInv
  <2> QED BY <2>2, <2>3 DEF FollowInv
<1>10. ASSUME NEW d \in Researches, TickRepeatsResearch(d) PROVE FollowInv'
  <2>1. UNCHANGED <<worker, starter>> /\ t \in Runs /\ tick.at = "advance" /\ tick.copy.wait = "due"
    BY <1>1, <1>10 DEF TickRepeatsResearch, TickOnly, At, Advancing
  <2>2. CASE /\ Discover(t, d)
             /\ tick' = [tick EXCEPT !.at = "save", !.copy = [Repeated(tick.copy) EXCEPT !.research = d]]
    <3>1. /\ row'[t] = [row[t] EXCEPT !.research = d] /\ disturbed' = disturbed /\ row[t] \in Rows
          /\ row'[t].status = row[t].status /\ \A s \in Runs \ {t} : row'[s] = row[s]
      BY <1>1, <2>1, <2>2 DEF Discover, TypeOK, Rows
    <3>2. /\ tick'.at = "save" /\ tick'.run = t /\ tick'.copy.status = tick.copy.status
          /\ tick'.copy.count = tick.copy.count /\ tick'.copy.wait = "none" /\ tick'.copy.research = d
      BY <1>1, <2>2 DEF TypeOK, Ticks, Rows, Repeated
    <3>3. TickFollows'
      BY <1>2, <2>1, <3>1, <3>2 DEF TickFollows, Rows
    <3>4. WorkerFollows' /\ OneActive' /\ StarterAlone'
      <4>1. \A s \in Runs \ disturbed' : row[s].status \in Preparing => row'[s] = row[s]
        BY <1>2, <2>1, <3>1
      <4> QED BY <2>1, <3>1, <4>1, WorkerStays, OneStays DEF FollowInv
    <3> QED BY <3>3, <3>4 DEF FollowInv
  <2>3. CASE DiscoverInVain(t, d, Failed(tick.copy, FALSE)) /\ tick' = IdleWorker
    <3>1. disturbed' = disturbed \cup {t} /\ \A s \in Runs \ {t} : row'[s] = row[s]
      BY <1>1, <2>1, <2>3 DEF DiscoverInVain, TypeOK
    <3>2. TickFollows'
      BY <2>3 DEF TickFollows, IdleWorker, Advancing
    <3>3. WorkerFollows' /\ OneActive' /\ StarterAlone'
      BY <2>1, <3>1, WorkerStays, OneStays DEF FollowInv
    <3> QED BY <3>2, <3>3 DEF FollowInv
  <2> QED BY <1>10, <2>2, <2>3 DEF TickRepeatsResearch
<1>11. ASSUME NEW g \in Generations, NEW next \in Rows, TickGenerates(g, next) PROVE FollowInv'
  <2>1. /\ UNCHANGED <<row, disturbed, worker, starter>> /\ t \in Runs /\ tick.at = "advance"
        /\ tick' = [tick EXCEPT !.at = "save", !.copy = [next EXCEPT !.generation = g]]
    BY <1>1, <1>11 DEF TickGenerates, Generate, TickOnly, Advancing
  <2>2. /\ next.status = "drafting" /\ next.wait = "none" /\ next.research = tick.copy.research
        /\ \/ tick.copy.status = "researching" /\ next.count = 0
           \/ tick.copy.status = "drafting" /\ next.count = tick.copy.count /\ tick.copy.wait = "due"
    BY <1>1, <1>11 DEF TickGenerates, Rows
  <2>3. /\ tick'.at = "save" /\ tick'.run = t /\ tick'.copy.status = "drafting" /\ tick'.copy.wait = "none"
        /\ tick'.copy.research = next.research /\ tick'.copy.count = next.count
    BY <1>1, <2>1, <2>2 DEF TypeOK, Ticks, Rows
  <2>4. TickFollows'
    BY <1>2, <2>1, <2>2, <2>3 DEF TickFollows
  <2>5. WorkerFollows' /\ OneActive' /\ StarterAlone'
    BY <2>1, WorkerStays, OneStays DEF FollowInv
  <2> QED BY <2>4, <2>5 DEF FollowInv
<1> QED BY <1>3, <1>4, <1>5, <1>6, <1>7, <1>8, <1>9, <1>10, <1>11, TickKinds

\* Every step keeps worker, ticker and starter in line with the rows.
LEMMA FollowStep == ASSUME TypeInv, FollowInv, [Next]_vars PROVE FollowInv'
<1>1. CASE /\ UNCHANGED row /\ disturbed \subseteq disturbed' /\ starter' \in {starter, IdleStarter}
           /\ worker' \in {worker, IdleWorker} /\ tick' \in {tick, IdleWorker}
  <2>1. WorkerFollows' /\ TickFollows' /\ OneActive' /\ StarterAlone'
    BY <1>1, WorkerStays, TickStays, OneStays DEF FollowInv, IdleWorker, IdleStarter, Advancing
  <2> QED BY <2>1 DEF FollowInv
<1>2. ASSUME NEW r \in Runs, RetryDue(r) PROVE FollowInv'
  <2>1. /\ UNCHANGED <<disturbed, worker, tick, starter>> /\ row[r].wait = "later"
        /\ row' = [row EXCEPT ![r] = [row[r] EXCEPT !.wait = "due"]] /\ row \in [Runs -> Rows]
    BY <1>2 DEF RetryDue, starts, TypeInv, TypeOK
  <2>2. /\ \A s \in Runs : /\ row'[s].status = row[s].status /\ row'[s].research = row[s].research
                           /\ row'[s].count = row[s].count
                           /\ row'[s] = row[s] \/ row[s].wait = "later"
    BY <2>1 DEF Rows
  <2>3. TickFollows'
    <3>1. tick.at \in Advancing => tick.run \in Runs
      BY DEF TypeInv, Placed
    <3>2. ASSUME tick.at \in Advancing, tick.run \notin disturbed, row'[tick.run] # row[tick.run]
          PROVE  tick.at = "save" /\ tick.copy.status = "drafting" /\ row[tick.run].status = "researching" /\ tick.copy.count = 0
      BY <2>2, <3>1, <3>2 DEF FollowInv, TickFollows, Advancing
    <3> QED BY <2>1, <2>2, <3>1, <3>2 DEF FollowInv, TickFollows
  <2>4. WorkerFollows' /\ OneActive' /\ StarterAlone'
    BY <2>1, <2>2, WorkerStays, OneStays DEF FollowInv
  <2> QED BY <2>3, <2>4 DEF FollowInv
<1>3. CASE Restart \/ StopBackground
  <2>1. /\ UNCHANGED row /\ disturbed \subseteq disturbed' /\ starter' \in {starter, IdleStarter}
        /\ worker' \in {worker, IdleWorker} /\ tick' \in {tick, IdleWorker}
    BY <1>3 DEF Restart, StopBackground
  <2> QED BY <1>1, <2>1
<1>4. CASE \/ \E d \in Researches : ResearchEnds(d)
           \/ \E g \in Generations : GenerationEnds(g)
           \/ OwnerReads \/ (\E e \in BOOLEAN : OwnerSaves(e)) \/ NextDay \/ UNCHANGED vars
           \/ StartBackground \/ \E a \in Settlers : SettlingSteps(a)
  BY <1>1, <1>4 DEF ResearchEnds, GenerationEnds, OwnerReads, OwnerSaves, NextDay, StartBackground, SettlingSteps,
                    SettlingReads, SettlingSaves, SettlingOnly, AgentsOnly, starts, vars
<1> QED BY <1>2, <1>3, <1>4, StarterFollows, WorkerFollow, TickFollow DEF Next

\* At the start nobody holds a copy.
LEMMA FollowInit == Init => FollowInv
<1>1. Init => worker = IdleWorker /\ tick = IdleWorker /\ starter = IdleStarter /\ \A r \in Runs : row[r] = Absent
  BY DEF Init
<1> QED BY <1>1 DEF FollowInv, WorkerFollows, TickFollows, StarterAlone, OneActive, ActiveRuns, IdleWorker,
                    IdleStarter, Absent, Busy, Advancing, Active, Preparing

\* Two scans are active together only when one of them is disturbed: by a lost write, by a failing read that
\* ended it, or by a late worker.
THEOREM OneActiveScan == Spec => []OneActive
<1>1. FollowInv => OneActive
  BY DEF FollowInv
<1> QED BY <1>1, FollowInit, TypeInit, TypeStep, FollowStep, PTL DEF Spec
-----------------------------------------------------------------------------
\* No agent is left at work.

\* A step after which every job at work was at work before, and at home stays at home.
LEMMA QuietKept ==
    ASSUME QuietInv, disturbed \subseteq disturbed',
           \A d \in Researches : research'[d].state = "running" => research'[d] = research[d],
           \A g \in Generations : generation'[g].state = "running" => generation'[g] = generation[g],
           \A r \in Runs \ disturbed' : \A d \in Researches :
               research[d].state = "running" /\ research[d].of = r /\ ResearchHome(r, d) => ResearchHome(r, d)',
           \A r \in Runs \ disturbed' : \A g \in Generations :
               generation[g].state = "running" /\ generation[g].of = r /\ GenerationHome(r, g) => GenerationHome(r, g)'
    PROVE  QuietInv'
<1>1. ResearchAtWork'
  BY DEF QuietInv, ResearchAtWork
<1>2. GenerationAtWork'
  BY DEF QuietInv, GenerationAtWork
<1> QED BY <1>1, <1>2 DEF QuietInv

\* The homes of the scans a step leaves alone.
LEMMA HomesKept ==
    ASSUME NEW r \in Runs, row'[r] = row[r] \/ (row'[r].status = row[r].status /\ row'[r].research = row[r].research
                                                /\ row'[r].generation = row[r].generation),
           WorkerSaving(r) => WorkerSaving(r)',
           tick' = tick \/ (~(tick.at = "save" /\ tick.run = r) /\ ~(tick'.at = "save" /\ tick'.run = r))
    PROVE  /\ \A d \in Researches : ResearchHome(r, d) => ResearchHome(r, d)'
           /\ \A g \in Generations : GenerationHome(r, g) => GenerationHome(r, g)'
BY DEF ResearchHome, GenerationHome, TickSaving

\* An undisturbed scan with an agent at work is active.
LEMMA HomeActive ==
    ASSUME FollowInv, NEW r \in Runs \ disturbed
    PROVE  /\ \A d \in Researches : ResearchHome(r, d) => row[r].status \in Preparing \cup {"researching"}
           /\ \A g \in Generations : GenerationHome(r, g) => row[r].status \in Late
BY DEF FollowInv, TickFollows, ResearchHome, GenerationHome, Late, Advancing

\* While no undisturbed scan is active, no agent works for one.
LEMMA NoHomes ==
    ASSUME FollowInv, ActiveRuns \subseteq disturbed
    PROVE  /\ \A s \in Runs \ disturbed : \A d \in Researches : ~ResearchHome(s, d)
           /\ \A s \in Runs \ disturbed : \A g \in Generations : ~GenerationHome(s, g)
<1>1. \A s \in Runs \ disturbed : row[s].status \notin Preparing /\ row[s].status \notin Late
  BY DEF ActiveRuns, Active, Late
<1> QED BY <1>1, HomeActive DEF Late

\* A round begins with no agent at work for an undisturbed scan.
LEMMA RoundQuiet ==
    ASSUME TypeInv, FollowInv, QuietInv, NEW r \in Runs, NEW date \in 0..MaxDay, BeginsRound(r, date),
           ActiveRuns \subseteq disturbed
    PROVE  QuietInv'
<1>1. /\ disturbed' = disturbed
      /\ \A d \in Researches : research'[d] = research[d] \/ research'[d] = Unused
      /\ \A g \in Generations : generation'[g] = generation[g] \/ generation'[g] = Unused
  BY ReusedRows DEF BeginsRound, TypeInv
<1> QED BY <1>1, NoHomes, QuietKept DEF Unused

\* The worker's steps but for those that start the discovery and record it.
LEMMA WorkerQuiet ==
    ASSUME TypeInv, FollowInv, QuietInv, UNCHANGED <<research, generation, tick>>, disturbed \subseteq disturbed',
           worker.at # "save",
           \A s \in Runs \ {worker.run} : row'[s] = row[s],
           \/ row' = row
           \/ worker.run \in disturbed'
           \/ row[worker.run].status \in Preparing
    PROVE  QuietInv'
<1>1. ASSUME NEW r \in Runs \ disturbed'
      PROVE  /\ \A d \in Researches : ResearchHome(r, d) => ResearchHome(r, d)'
             /\ \A g \in Generations : GenerationHome(r, g) => GenerationHome(r, g)'
  <2>1. r \in Runs \ disturbed /\ ~WorkerSaving(r)
    BY DEF WorkerSaving
  <2>2. CASE row'[r] = row[r]
    BY <2>1, <2>2, HomesKept
  <2>3. CASE row'[r] # row[r]
    <3>1. row[r].status \in Preparing
      BY <2>3
    <3> QED BY <2>1, <3>1, HomeActive DEF ResearchHome, Preparing, Late
  <2> QED BY <2>2, <2>3
<1> QED BY <1>1, QuietKept

\* The worker keeps each agent at work at home in its scan.
LEMMA WorkerQuietly ==
    ASSUME TypeInv, FollowInv, QuietInv,
           \/ WorkerDefers \/ WorkerReads \/ WorkerPrefilters \/ (\E r \in Runs : WorkerTakes(r))
           \/ \E d \in Researches : WorkerSteps(d)
    PROVE  QuietInv'
<1> DEFINE w == worker.run
<1>1. TypeOK /\ worker \in Workers /\ worker.copy \in Rows /\ (worker.at # "idle" => w \in Runs)
  BY DEF TypeInv, TypeOK, Placed, Workers
<1>2. worker.at \in Busy => w \in disturbed \/ row[w].status \in Preparing
  BY DEF FollowInv, WorkerFollows
<1>3. CASE (\E r \in Runs : WorkerTakes(r)) \/ WorkerReads
  <2>1. CASE WorkerReads
    BY <2>1, WorkerQuiet DEF WorkerReads, WorkerOnly, jobs
  <2>2. ASSUME NEW r \in Runs, WorkerTakes(r) PROVE QuietInv'
    <3>1. UNCHANGED <<research, generation, disturbed, row, tick>> /\ (WorkerSaving(r) => worker' = worker)
      BY <2>2 DEF WorkerTakes, jobs, WorkerSaving
    <3>2. \A s \in Runs : WorkerSaving(s) => WorkerSaving(s)'
      BY <2>2 DEF WorkerTakes, WorkerSaving
    <3>3. \A s \in Runs : /\ \A d \in Researches : ResearchHome(s, d) => ResearchHome(s, d)'
                          /\ \A g \in Generations : GenerationHome(s, g) => GenerationHome(s, g)'
      BY <3>1, <3>2, HomesKept
    <3> QED BY <3>1, <3>3, QuietKept
  <2> QED BY <1>3, <2>1, <2>2
<1>4. CASE WorkerDefers \/ WorkerOpens
  BY <1>1, <1>2, <1>4, WorkerQuiet DEF WorkerDefers, WorkerOpens, WorkerOnly, jobs, Busy, TypeOK
<1>5. ASSUME worker.at \in Busy \ {"save"}, NEW new, Write(w, new), WorkerOnly, UNCHANGED jobs PROVE QuietInv'
  <2>1. /\ disturbed \subseteq disturbed' /\ \A s \in Runs \ {w} : row'[s] = row[s]
        /\ UNCHANGED <<research, generation, tick>>
    BY <1>1, <1>5 DEF Write, WorkerOnly, jobs, TypeOK
  <2> QED BY <1>2, <1>5, <2>1, WorkerQuiet
<1>6. CASE WorkerPrefilters \/ WorkerEnriches
  BY <1>5, <1>6 DEF WorkerPrefilters, WorkerEnriches, WorkerGoesOn, Busy
<1>7. ASSUME NEW retryable \in BOOLEAN, WorkerFails(retryable) PROVE QuietInv'
  BY <1>5, <1>7 DEF WorkerFails, WorkerEnds, Busy
<1>8. CASE WorkerSaves
  <2> DEFINE new == [worker.copy EXCEPT !.status = "researching", !.count = 0, !.wait = "none"]
  <2>1. /\ new \in Rows /\ new.status = "researching" /\ new.research = worker.copy.research
        /\ worker.at = "save" /\ w \in Runs
    <3>1. 0 \in 0..MaxRetries
      BY DEF MaxRetries
    <3> QED BY <1>1, <1>8, <3>1 DEF WorkerSaves, Rows, Active
  <2>2. Write(w, new) /\ UNCHANGED <<research, generation, tick>> /\ worker' = IdleWorker
    BY <1>8 DEF WorkerSaves, WorkerEnds, WorkerDone, WorkerOnly, jobs
  <2> HIDE DEF new
  <2>3. /\ disturbed \subseteq disturbed' /\ \A s \in Runs \ {w} : row'[s] = row[s]
        /\ w \in disturbed' \/ row'[w] = new
    BY <1>1, <2>1, <2>2, WriteRow
  <2>4. ASSUME NEW r \in Runs \ disturbed'
        PROVE  /\ \A d \in Researches : ResearchHome(r, d) => ResearchHome(r, d)'
               /\ \A g \in Generations : GenerationHome(r, g) => GenerationHome(r, g)'
    <3>1. r \in Runs \ disturbed
      BY <2>3
    <3>2. CASE r # w
      BY <2>2, <2>3, <3>1, <3>2, HomesKept DEF WorkerSaving
    <3>3. CASE r = w
      <4>1. /\ row[r].status \in Preparing /\ worker.copy.research = row[r].research
            /\ row'[r].status = "researching" /\ row'[r].research = row[r].research
        BY <1>1, <2>1, <2>3, <3>1, <3>3 DEF FollowInv, WorkerFollows, Busy
      <4>2. ~TickSaving(r, "drafting")'
        BY <2>2, <3>1, <4>1 DEF FollowInv, TickFollows, TickSaving, Advancing, Late, Preparing
      <4>3. \A g \in Generations : ~GenerationHome(r, g)
        BY <3>1, <4>1, HomeActive DEF Late, Preparing
      <4> QED BY <4>1, <4>2, <4>3 DEF ResearchHome
    <3> QED BY <3>2, <3>3
  <2> QED BY <2>2, <2>3, <2>4, QuietKept
<1>9. ASSUME NEW d \in Researches, WorkerStarts(d) PROVE QuietInv'
  <2>1. /\ worker.at = "start" /\ w \in Runs /\ UNCHANGED <<generation, tick>> /\ research[d] = Unused
        /\ \A s \in Runs : ~WorkerSaving(s)
    BY <1>1, <1>9 DEF WorkerStarts, WorkerOnly, Discover, DiscoverInVain, Fresh, WorkerSaving
  <2>2. /\ \A s \in Runs \ {w} : row'[s] = row[s]
        /\ \A e \in Researches \ {d} : research'[e] = research[e]
        /\ disturbed \subseteq disturbed'
    BY <1>1, <1>9, <2>1 DEF WorkerStarts, Discover, DiscoverInVain, TypeOK
  <2>3. ASSUME NEW r \in Runs \ disturbed'
        PROVE  /\ \A e \in Researches : ResearchHome(r, e) => ResearchHome(r, e)'
               /\ \A g \in Generations : GenerationHome(r, g) => GenerationHome(r, g)'
    <3>1. r \in Runs \ disturbed
      BY <2>2
    <3>2. CASE r # w
      BY <2>1, <2>2, <3>1, <3>2, HomesKept
    <3>3. CASE r = w
      BY <1>2, <2>1, <3>1, <3>3, HomeActive DEF ResearchHome, Busy, Late, Preparing
    <3> QED BY <3>2, <3>3
  <2>4. CASE DiscoverInVain(w, d, Failed(worker.copy, TRUE))
    <3>1. research'[d].state # "running"
      BY <1>1, <2>4 DEF DiscoverInVain, TypeOK, Job
    <3> QED BY <2>1, <2>2, <2>3, <3>1, QuietKept
  <2>5. ASSUME NEW r \in Runs, r = w, Discover(r, d),
               worker' = [worker EXCEPT !.at = "save", !.copy = [worker.copy EXCEPT !.research = d]]
        PROVE  QuietInv'
    <3>1. /\ research'[d].of = r /\ row'[r].research = d /\ row'[r].status = row[r].status /\ disturbed' = disturbed
      BY <1>1, <2>1, <2>5 DEF Discover, TypeOK, Rows, Job
    <3>2. WorkerSaving(r)'
      BY <1>1, <2>5 DEF WorkerSaving, Workers
    <3>3. r \in disturbed' \/ ResearchHome(r, d)'
      BY <1>2, <2>1, <2>5, <3>1, <3>2 DEF ResearchHome, Busy
    <3>4. ResearchAtWork'
      BY <2>1, <2>2, <2>3, <3>1, <3>3 DEF QuietInv, ResearchAtWork
    <3>5. GenerationAtWork'
      BY <2>1, <2>2, <2>3 DEF QuietInv, GenerationAtWork
    <3> QED BY <3>4, <3>5 DEF QuietInv
  <2> QED BY <1>9, <2>1, <2>4, <2>5 DEF WorkerStarts
<1> QED BY <1>3, <1>4, <1>6, <1>7, <1>8, <1>9 DEF WorkerSteps

\* The ticker writes a scan none of whose agents is at work.
LEMMA TickQuiet ==
    ASSUME TypeInv, FollowInv, QuietInv, tick.at = "advance", tick' = IdleWorker, disturbed \subseteq disturbed',
           UNCHANGED <<research, generation, worker>>,
           \A s \in Runs \ {tick.run} : row'[s] = row[s],
           tick.run \in disturbed' \/ (ResearchOver /\ GenerationOver)
    PROVE  QuietInv'
<1>1. ASSUME NEW r \in Runs \ disturbed'
      PROVE  /\ \A d \in Researches : research[d].state = "running" /\ ResearchHome(r, d) => ResearchHome(r, d)'
             /\ \A g \in Generations : generation[g].state = "running" /\ GenerationHome(r, g) => GenerationHome(r, g)'
  <2>1. CASE r # tick.run
    BY <2>1, HomesKept DEF IdleWorker, WorkerSaving
  <2>2. CASE r = tick.run
    <3>1. row[r] = tick.copy /\ row[r].status \in Late /\ ResearchOver /\ GenerationOver
      BY <2>2 DEF FollowInv, TickFollows, Advancing
    <3>2. /\ \A d \in Researches : research[d].state = "running" => ~ResearchHome(r, d)
          /\ \A g \in Generations : generation[g].state = "running" => ~GenerationHome(r, g)
      BY <3>1 DEF ResearchHome, GenerationHome, ResearchOver, GenerationOver, ResearchState, GenerationState,
                  Late, Preparing
    <3> QED BY <3>2
  <2> QED BY <2>1, <2>2
<1> QED BY <1>1, QuietKept

\* The ticker starts agents where the scan knows of them, and leaves none behind.
LEMMA TickQuietly == ASSUME TypeInv, FollowInv, QuietInv, TickSteps PROVE QuietInv'
<1> DEFINE t == tick.run
<1>1. TypeOK /\ tick \in Ticks /\ tick.copy \in Rows /\ (tick.at \in Advancing => t \in Runs)
  BY DEF TypeInv, TypeOK, Placed, Ticks
<1>2. tick.at = "advance" /\ t \notin disturbed => row[t] = tick.copy /\ row[t].status \in Late
  BY DEF FollowInv, TickFollows, Advancing
<1>3. ASSUME UNCHANGED <<research, disturbed, row, worker>>, tick.at # "save", tick'.at # "save",
             generation' = generation \/ TickRecovers
      PROVE  QuietInv'
  <2>1. \A g \in Generations : generation'[g].state = "running" => generation'[g] = generation[g]
    BY <1>1, <1>3 DEF TickRecovers, TypeOK, GenerationRows
  <2>2. \A s \in Runs : /\ \A d \in Researches : ResearchHome(s, d) => ResearchHome(s, d)'
                        /\ \A g \in Generations : GenerationHome(s, g) => GenerationHome(s, g)'
    BY <1>3, HomesKept DEF WorkerSaving
  <2> QED BY <1>3, <2>1, <2>2, QuietKept
<1>4. CASE TickPasses \/ TickWantsScan \/ TickRecovers
  BY <1>3, <1>4 DEF TickPasses, TickRefused, TickLaunches, TickWaits, TickWantsScan, TickRecovers, TickOnly, jobs,
                    IdleWorker, Pending, At, MayTick
<1>5. CASE TickStarts
  BY <1>1, <1>3, <1>5 DEF TickStarts, StartReads, jobs, Ticks
<1>6. ASSUME NEW r \in Runs, TickReads(r) PROVE QuietInv'
  <2>1. tick'.at # "save"
    BY <1>6 DEF TickReads, IdleWorker
  <2> QED BY <1>3, <1>6, <2>1 DEF TickReads, TickOnly, MayTick, jobs
<1>7. CASE TickCannotRead
  <2> DEFINE failed == Failed(tick.copy, TRUE)
  <2>1. /\ UNCHANGED <<research, generation, worker>> /\ t \in Runs /\ tick.at = "advance" /\ tick' = IdleWorker
        /\ disturbed \subseteq disturbed' /\ \A s \in Runs \ {t} : row'[s] = row[s]
    BY <1>1, <1>7 DEF TickCannotRead, TickOnly, jobs, At, TypeOK, Advancing
  <2>2. t \notin disturbed' => row'[t] = failed /\ failed.status # "failed"
    BY <1>1, <1>7, <2>1 DEF TickCannotRead, TypeOK
  <2>3. /\ failed.research = tick.copy.research /\ failed.generation = tick.copy.generation
        /\ failed.status # "failed" => failed.status = tick.copy.status
    BY <1>1, FailedRow
  <2> HIDE DEF failed
  <2>4. ASSUME NEW r \in Runs \ disturbed'
        PROVE  /\ \A d \in Researches : ResearchHome(r, d) => ResearchHome(r, d)'
               /\ \A g \in Generations : GenerationHome(r, g) => GenerationHome(r, g)'
    <3>1. \/ row'[r] = row[r]
          \/ row'[r].status = row[r].status /\ row'[r].research = row[r].research /\ row'[r].generation = row[r].generation
      BY <1>2, <2>1, <2>2, <2>3
    <3> QED BY <2>1, <3>1, HomesKept DEF IdleWorker, WorkerSaving
  <2> QED BY <2>1, <2>4, QuietKept
<1>8. ASSUME tick.at = "advance", ResearchOver, GenerationOver, NEW new, TickEnds(new), UNCHANGED jobs PROVE QuietInv'
  <2>1. /\ disturbed \subseteq disturbed' /\ \A s \in Runs \ {t} : row'[s] = row[s]
        /\ UNCHANGED <<research, generation, worker>> /\ tick' = IdleWorker
    BY <1>1, <1>8 DEF TickEnds, TickOnly, Write, jobs, TypeOK
  <2> QED BY <1>8, <2>1, TickQuiet
<1>9. ASSUME NEW retryable \in BOOLEAN, TickGivesUp(retryable) PROVE QuietInv'
  BY <1>8, <1>9 DEF TickGivesUp
<1>10. ASSUME NEW status \in {"completed", "partial"}, TickDone(status) PROVE QuietInv'
  BY <1>8, <1>10 DEF TickDone, TickFinishes
<1>11. CASE TickSaves
  <2>1. /\ tick.at = "save" /\ Write(t, tick.copy) /\ UNCHANGED <<research, generation, worker>> /\ tick' = IdleWorker
        /\ t \in Runs
    BY <1>1, <1>11 DEF TickSaves, TickEnds, TickOnly, jobs, Advancing
  <2>2. /\ disturbed \subseteq disturbed' /\ \A s \in Runs \ {t} : row'[s] = row[s]
        /\ t \in disturbed' \/ row'[t] = tick.copy
    BY <1>1, <2>1, WriteRow
  <2>3. ASSUME NEW r \in Runs \ disturbed'
        PROVE  /\ \A d \in Researches : ResearchHome(r, d) => ResearchHome(r, d)'
               /\ \A g \in Generations : GenerationHome(r, g) => GenerationHome(r, g)'
    <3>1. CASE r # t
      BY <2>1, <2>2, <3>1, HomesKept DEF IdleWorker, WorkerSaving
    <3>2. CASE r = t
      <4>1. row'[r] = tick.copy /\ tick.copy.status \in Late /\ row[r].status \in Late /\ tick.copy.research = row[r].research
        BY <2>1, <2>2, <3>2 DEF FollowInv, TickFollows, Advancing, TypeInv, Placed
      <4> QED BY <2>1, <3>2, <4>1 DEF ResearchHome, GenerationHome, TickSaving, IdleWorker, Late, Preparing
    <3> QED BY <3>1, <3>2
  <2> QED BY <2>1, <2>2, <2>3, QuietKept
<1>12. ASSUME NEW d \in Researches, TickRepeatsResearch(d) PROVE QuietInv'
  <2>1. /\ tick.at = "advance" /\ t \in Runs /\ UNCHANGED <<generation, worker>> /\ ResearchState = "failed"
        /\ tick.copy.status = "researching" /\ research[d] = Unused
    BY <1>1, <1>12 DEF TickRepeatsResearch, TickOnly, Discover, DiscoverInVain, Fresh, At, Advancing
  <2>2. /\ \A s \in Runs \ {t} : row'[s] = row[s]
        /\ \A e \in Researches \ {d} : research'[e] = research[e]
        /\ disturbed \subseteq disturbed' /\ (tick' = IdleWorker \/ tick'.run = t)
    BY <1>1, <1>12, <2>1 DEF TickRepeatsResearch, Discover, DiscoverInVain, TypeOK, Ticks
  <2>3. ASSUME NEW r \in Runs \ disturbed'
        PROVE  /\ \A e \in Researches : research[e].state = "running" /\ ResearchHome(r, e) => ResearchHome(r, e)'
               /\ \A g \in Generations : GenerationHome(r, g) => GenerationHome(r, g)'
    <3>1. CASE r # t
      BY <2>1, <2>2, <3>1, HomesKept DEF IdleWorker, WorkerSaving
    <3>2. CASE r = t
      BY <1>2, <2>1, <2>2, <3>2 DEF ResearchHome, GenerationHome, ResearchState
    <3> QED BY <3>1, <3>2
  <2>4. CASE DiscoverInVain(t, d, Failed(tick.copy, FALSE))
    <3>1. research'[d].state # "running"
      BY <1>1, <2>4 DEF DiscoverInVain, TypeOK, Job
    <3> QED BY <2>1, <2>2, <2>3, <3>1, QuietKept
  <2>5. ASSUME NEW r \in Runs, r = t, Discover(r, d),
               tick' = [tick EXCEPT !.at = "save", !.copy = [Repeated(tick.copy) EXCEPT !.research = d]]
        PROVE  QuietInv'
    <3>1. /\ research'[d].of = r /\ row'[r].research = d /\ row'[r].status = row[r].status /\ disturbed' = disturbed
      BY <1>1, <2>1, <2>5 DEF Discover, TypeOK, Rows, Job
    <3>2. tick'.copy.status = "researching"
      BY <1>1, <2>1, <2>5 DEF Ticks, Rows, Repeated
    <3>3. r \in disturbed' \/ ResearchHome(r, d)'
      BY <1>2, <2>1, <2>5, <3>1, <3>2 DEF ResearchHome, TickSaving
    <3>4. ResearchAtWork'
      BY <2>1, <2>2, <2>3, <3>1, <3>3 DEF QuietInv, ResearchAtWork
    <3>5. GenerationAtWork'
      BY <2>1, <2>2, <2>3 DEF QuietInv, GenerationAtWork
    <3> QED BY <3>4, <3>5 DEF QuietInv
  <2> QED BY <1>12, <2>1, <2>4, <2>5 DEF TickRepeatsResearch
<1>13. ASSUME NEW g \in Generations, NEW next \in Rows, TickGenerates(g, next) PROVE QuietInv'
  <2>1. /\ tick.at = "advance" /\ t \in Runs /\ UNCHANGED <<research, row, disturbed, worker>>
        /\ ResearchOver /\ GenerationOver /\ generation[g] = Unused
        /\ generation' = [generation EXCEPT ![g] = Job(t, "running")]
        /\ tick' = [tick EXCEPT !.at = "save", !.copy = [next EXCEPT !.generation = g]] /\ next.status = "drafting"
    BY <1>1, <1>13 DEF TickGenerates, TickOnly, Generate, Fresh, Advancing, Rows
  <2>2. /\ \A e \in Generations \ {g} : generation'[e] = generation[e]
        /\ generation'[g].of = t
    BY <1>1, <2>1 DEF TypeOK, Job
  <2>3. tick'.at = "save" /\ tick'.run = t /\ tick'.copy.status = "drafting" /\ tick'.copy.generation = g
    BY <1>1, <2>1 DEF Ticks, Rows
  <2>4. ASSUME NEW r \in Runs \ disturbed'
        PROVE  /\ \A d \in Researches : research[d].state = "running" /\ ResearchHome(r, d) => ResearchHome(r, d)'
               /\ \A e \in Generations : generation[e].state = "running" /\ GenerationHome(r, e) => GenerationHome(r, e)'
    <3>1. CASE r # t
      BY <2>1, <2>3, <3>1, HomesKept DEF WorkerSaving
    <3>2. CASE r = t
      BY <1>2, <2>1, <3>2 DEF ResearchHome, GenerationHome, ResearchOver, GenerationOver, ResearchState, GenerationState,
                              Late, Preparing
    <3> QED BY <3>1, <3>2
  <2>5. \A r \in Runs : r = t => GenerationHome(r, g)'
    BY <2>3 DEF GenerationHome
  <2>6. ResearchAtWork'
    BY <2>1, <2>4 DEF QuietInv, ResearchAtWork
  <2>7. GenerationAtWork'
    BY <2>1, <2>2, <2>4, <2>5 DEF QuietInv, GenerationAtWork
  <2> QED BY <2>6, <2>7 DEF QuietInv
<1> QED BY <1>4, <1>5, <1>6, <1>7, <1>9, <1>10, <1>11, <1>12, <1>13, TickKinds

\* Every step keeps the agents at work at home in their scans.
LEMMA QuietStep == ASSUME TypeInv, FollowInv, QuietInv, [Next]_vars PROVE QuietInv'
<1>1. TypeOK
  BY DEF TypeInv
<1>2. ASSUME UNCHANGED <<disturbed, worker, tick>>,
             \A r \in Runs : row'[r].status = row[r].status /\ row'[r].research = row[r].research
                             /\ row'[r].generation = row[r].generation,
             \A d \in Researches : research'[d].state = "running" => research'[d] = research[d],
             \A g \in Generations : generation'[g].state = "running" => generation'[g] = generation[g]
      PROVE  QuietInv'
  <2>1. \A r \in Runs : /\ \A d \in Researches : ResearchHome(r, d) => ResearchHome(r, d)'
                        /\ \A g \in Generations : GenerationHome(r, g) => GenerationHome(r, g)'
    BY <1>2, HomesKept DEF WorkerSaving
  <2> QED BY <1>2, <2>1, QuietKept
<1>3. ASSUME NEW r \in Runs, RetryDue(r) PROVE QuietInv'
  <2>1. row' = [row EXCEPT ![r] = [row[r] EXCEPT !.wait = "due"]] /\ row \in [Runs -> Rows]
    BY <1>1, <1>3 DEF RetryDue, TypeOK
  <2>2. \A s \in Runs : /\ row'[s].status = row[s].status /\ row'[s].research = row[s].research
                        /\ row'[s].generation = row[s].generation
    BY <2>1 DEF Rows
  <2> QED BY <1>2, <1>3, <2>2 DEF RetryDue, jobs
<1>4. ASSUME NEW d \in Researches, ResearchEnds(d) PROVE QuietInv'
  <2>1. \A e \in Researches : research'[e].state = "running" => research'[e] = research[e]
    BY <1>1, <1>4 DEF ResearchEnds, Recorded, TypeOK, ResearchRows
  <2> QED BY <1>2, <1>4, <2>1 DEF ResearchEnds, AgentsOnly
<1>5. ASSUME NEW g \in Generations, GenerationEnds(g) PROVE QuietInv'
  <2>1. \A e \in Generations : generation'[e].state = "running" => generation'[e] = generation[e]
    BY <1>1, <1>5 DEF GenerationEnds, Recorded, TypeOK, GenerationRows
  <2> QED BY <1>2, <1>5, <2>1 DEF GenerationEnds, AgentsOnly
<1>6. CASE Restart
  <2>1. disturbed' = disturbed /\ (\A d \in Researches : research'[d].state # "running")
    BY <1>1, <1>6 DEF Restart, TypeOK, ResearchRows
  <2>2. \A g \in Generations : generation'[g].state # "running"
    BY <1>1, <1>6 DEF Restart, Interrupted, TypeOK, GenerationRows
  <2> QED BY <2>1, <2>2 DEF QuietInv, ResearchAtWork, GenerationAtWork
<1>7. CASE \/ OwnerStarts \/ OwnerReads \/ (\E e \in BOOLEAN : OwnerSaves(e)) \/ NextDay \/ UNCHANGED vars
           \/ StartBackground \/ \E a \in Settlers : SettlingSteps(a)
  BY <1>2, <1>7 DEF OwnerStarts, StartReads, OwnerReads, OwnerSaves, NextDay, StartBackground, SettlingSteps,
                    SettlingReads, SettlingSaves, SettlingOnly, AgentsOnly, jobs, vars
<1>10. CASE StopBackground
  <2>1. /\ UNCHANGED <<row, research, generation, worker>> /\ disturbed \subseteq disturbed'
        /\ tick' = tick \/ (tick' = IdleWorker /\ (tick.at = "save" => tick.run \in disturbed'))
    BY <1>10 DEF StopBackground, jobs
  <2>2. ASSUME NEW r \in Runs \ disturbed'
        PROVE  /\ \A d \in Researches : ResearchHome(r, d) => ResearchHome(r, d)'
               /\ \A g \in Generations : GenerationHome(r, g) => GenerationHome(r, g)'
    BY <2>1, HomesKept DEF IdleWorker, WorkerSaving
  <2> QED BY <2>1, <2>2, QuietKept
<1>8. CASE StarterSteps
  <2>1. CASE StartRefused
    <3>1. UNCHANGED <<research, generation, disturbed>> /\ ActiveRuns \subseteq disturbed
      BY <2>1 DEF StartRefused, StarterDone, FollowInv, StarterAlone, jobs
    <3> QED BY <3>1, NoHomes, QuietKept
  <2>2. ASSUME NEW r \in Runs, StartCreates(r) PROVE QuietInv'
    <3>1. ActiveRuns \subseteq disturbed
      BY <2>2 DEF StartCreates, StarterDone, FollowInv, StarterAlone
    <3> QED BY <2>2, <3>1, CreateBegins, RoundQuiet
  <2> QED BY <1>8, <2>1, <2>2 DEF StarterSteps
<1>9. ASSUME NEW r \in Runs, OwnerRetries(r) PROVE QuietInv'
  <2>1. ActiveRuns \subseteq disturbed
    BY <1>9 DEF OwnerRetries, MayStart
  <2> QED BY <1>9, <2>1, RetryBegins, RoundQuiet
<1> QED BY <1>3, <1>4, <1>5, <1>6, <1>7, <1>8, <1>9, <1>10, WorkerQuietly, TickQuietly DEF Next

\* A scan that is over and was not disturbed has left no agent at work.
THEOREM ScansEndQuiet == Spec => []EndsQuiet
<1>1. Init => QuietInv
  <2>1. Init => (\A d \in Researches : research[d] = Unused) /\ \A g \in Generations : generation[g] = Unused
    BY DEF Init
  <2> QED BY <2>1 DEF QuietInv, ResearchAtWork, GenerationAtWork, Unused
<1>2. FollowInv /\ QuietInv => EndsQuiet
  BY HomeActive DEF QuietInv, ResearchAtWork, GenerationAtWork, EndsQuiet, Ended, Late, Preparing
<1> QED BY <1>1, <1>2, FollowInit, TypeInit, TypeStep, FollowStep, QuietStep, PTL DEF Spec
-----------------------------------------------------------------------------
\* One automatic scan on a date.

\* Dates are numbers.
LEMMA DateTypes ==
    ASSUME TypeOK
    PROVE  /\ today \in Nat /\ config.scanned \in Nat /\ starter.copy.scanned \in Nat /\ patch.copy.scanned \in Nat
           /\ worker.copy.date \in Nat /\ tick.copy.date \in Nat
           /\ \A a \in Settlers : settling[a].date \in Nat /\ settling[a].copy.scanned \in Nat
           /\ \A r \in Runs : row[r].date \in Nat /\ autoOn[r] \in Nat
<1>1. \A n \in 0..MaxDay : n \in Nat
  OBVIOUS
<1>2. worker.copy \in Rows /\ tick.copy \in Rows /\ config \in Configs /\ starter.copy \in Configs /\ patch.copy \in Configs
  BY DEF TypeOK, Workers, Ticks
<1>3. \A a \in Settlers : settling[a].date \in 0..MaxDay /\ settling[a].copy \in Configs
  BY DEF TypeOK, Settlings
<1> QED BY <1>1, <1>2, <1>3 DEF TypeOK, Rows, Configs

\* A change of the settings begins with a row's date or none, and ends with nothing held.
LEMMA SettlesHold ==
    ASSUME TypeOK, NEW a \in Settlers, NEW r, NEW date, Settles(a, r, date)
    PROVE  /\ settling'[a].at = "read" /\ settling'[a].run = r /\ settling'[a].date = date
           /\ settling'[a].copy = NoConfig /\ \A b \in Settlers \ {a} : settling'[b] = settling[b]
BY DEF TypeOK, Settles, Settled

\* The worker and the ticker change the settings one after the other, each after its own turn.
LEMMA SettlingStep == ASSUME TypeInv, SettlingInv, [Next]_vars PROVE SettlingInv'
<1>1. TypeOK /\ tick \in Ticks /\ settling \in [Settlers -> Settlings] /\ "worker" \in Settlers /\ "tick" \in Settlers
      /\ \A a \in Settlers : a = "worker" \/ a = "tick"
  BY DEF TypeInv, TypeOK, Settlers
<1>2. Settled.at = "idle" /\ Settled.date = 0 /\ IdleWorker.at = "idle"
  BY DEF Settled, IdleWorker
<1>3. ASSUME UNCHANGED settling, tick'.at = "idle" \/ tick.at # "idle" \/ settling["tick"].at = "idle"
      PROVE  SettlingInv'
  BY <1>1, <1>3 DEF SettlingInv
<1>4. ASSUME NEW r, Settles("worker", r, 0), UNCHANGED tick PROVE SettlingInv'
  BY <1>1, <1>4, SettlesHold DEF SettlingInv
<1>5. ASSUME NEW r, NEW date, Settles("tick", r, date), tick' = IdleWorker PROVE SettlingInv'
  BY <1>1, <1>2, <1>5, SettlesHold DEF SettlingInv
<1>6. CASE UNCHANGED vars \/ OwnerStarts \/ StarterSteps \/ TickStarts \/ (\E r \in Runs : OwnerRetries(r))
  BY <1>2, <1>3, <1>6 DEF vars, OwnerStarts, StarterSteps, StartCreates, StartRefused, StarterDone, TickStarts,
                          StartReads, OwnerRetries
<1>7. CASE \/ (\E r \in Runs : WorkerTakes(r)) \/ (\E r \in Runs : RetryDue(r)) \/ OwnerReads
           \/ (\E e \in BOOLEAN : OwnerSaves(e)) \/ NextDay \/ StartBackground
           \/ (\E d \in Researches : ResearchEnds(d)) \/ \E g \in Generations : GenerationEnds(g)
  BY <1>3, <1>7 DEF WorkerTakes, RetryDue, OwnerReads, OwnerSaves, NextDay, StartBackground, ResearchEnds,
                    GenerationEnds, AgentsOnly
<1>8. CASE WorkerDefers \/ WorkerReads \/ WorkerPrefilters \/ WorkerEnriches \/ WorkerOpens \/ WorkerSaves
  BY <1>3, <1>8 DEF WorkerDefers, WorkerReads, WorkerPrefilters, WorkerEnriches, WorkerOpens, WorkerSaves,
                    WorkerGoesOn, WorkerEnds, WorkerOnly
<1>9. CASE (\E d \in Researches : WorkerStarts(d)) \/ \E retryable \in BOOLEAN : WorkerFails(retryable)
  BY <1>3, <1>4, <1>9 DEF WorkerStarts, WorkerFails, WorkerEnds, WorkerOnly
<1>10. CASE TickSteps
  <2>1. CASE TickPasses \/ TickWantsScan \/ TickSaves \/ TickRecovers
    BY <1>2, <1>3, <2>1 DEF TickPasses, TickRefused, TickLaunches, TickWaits, TickWantsScan, TickSaves, TickRecovers,
                            TickEnds, MayTick
  <2>2. CASE TickCannotRead \/ (\E retryable \in BOOLEAN : TickGivesUp(retryable))
             \/ \E status \in {"completed", "partial"} : TickDone(status)
    BY <1>2, <1>3, <1>5, <2>2 DEF TickCannotRead, TickGivesUp, TickDone, TickFinishes, TickEnds
  <2>3. CASE (\E r \in Runs : TickReads(r)) \/ (\E d \in Researches : TickRepeatsResearch(d))
             \/ \E g \in Generations : \E next \in Rows : TickGenerates(g, next)
    BY <1>2, <1>3, <1>5, <2>3 DEF TickReads, TickRepeatsResearch, TickGenerates, Generate, At, MayTick
  <2> QED BY <1>6, <1>10, <2>1, <2>2, <2>3, TickKinds
<1>11. ASSUME NEW a \in Settlers, SettlingSteps(a) PROVE SettlingInv'
  <2>1. settling[a].at # "idle" /\ UNCHANGED tick
    BY <1>11 DEF SettlingSteps, SettlingReads, SettlingSaves, SettlingOnly
  <2>2. CASE settling' = [settling EXCEPT ![a] = Settled]
    BY <1>1, <1>2, <2>1, <2>2 DEF SettlingInv
  <2>3. CASE settling' = [settling EXCEPT ![a].at = "save", ![a].copy = config]
    <3>1. /\ settling'[a].at = "save" /\ settling'[a].date = settling[a].date
          /\ \A b \in Settlers \ {a} : settling'[b] = settling[b]
      BY <1>1, <2>3 DEF Settlings
    <3> QED BY <1>1, <1>2, <2>1, <3>1 DEF SettlingInv
  <2> QED BY <1>11, <2>2, <2>3 DEF SettlingSteps, SettlingReads, SettlingSaves
<1>12. CASE StopBackground
  <2>1. settling' = [settling EXCEPT !["tick"] = Settled]
    BY <1>12 DEF StopBackground
  <2> QED BY <1>1, <1>2, <2>1 DEF SettlingInv
<1>13. CASE Restart
  BY <1>1, <1>2, <1>13 DEF Restart, SettlingInv
<1> QED BY <1>6, <1>7, <1>8, <1>9, <1>10, <1>11, <1>12, <1>13 DEF Next, WorkerSteps

\* A save of the settings keeps the claims of dates that are not undone: those it was read after, and the others
\* as it was read.
LEMMA SavedClaims ==
    ASSUME TypeOK, NEW seen, NEW new \in Configs, NEW excused \in BOOLEAN, SaveSettings(seen, new, excused),
           config = seen /\ ~excused => new.scanned >= config.scanned
    PROVE  /\ undone \subseteq undone' /\ config' = new
           /\ \A date \in Nat \ undone' : date <= config.scanned => date <= new.scanned
<1>1. new.scanned \in Nat /\ config.scanned \in Nat
  BY DEF TypeOK, Configs
<1>2. CASE config = seen /\ ~excused
  BY <1>1, <1>2 DEF SaveSettings
<1>3. CASE ~(config = seen /\ ~excused)
  <2>1. config' = new /\ undone' = undone \cup (new.scanned + 1) .. config.scanned
    BY <1>3 DEF SaveSettings
  <2> QED BY <1>1, <2>1
<1> QED BY <1>2, <1>3

\* A step of the worker that dates its scan today, or as before, keeps what the settings know.
LEMMA WorkerKeepsDates ==
    ASSUME TypeInv, DateInv, UNCHANGED <<tick, starter, config, patch, today, autoOn, undone>>,
           \A a \in Settlers : settling'[a] = settling[a] \/ (settling'[a].date = 0 /\ settling'[a].copy = NoConfig),
           disturbed \subseteq disturbed', \A s \in Runs \ {worker.run} : row'[s] = row[s],
           row' # row => /\ row'[worker.run].date \in {row[worker.run].date, worker.copy.date, today}
                         /\ \/ worker.run \in disturbed' \/ row'[worker.run].status \notin Late
                            \/ worker.at = "save" /\ row'[worker.run].date = worker.copy.date,
           worker'.copy.date \in {worker.copy.date, row[worker.run].date, today, 0},
           worker.at # "idle" \/ worker'.copy.date \in {worker.copy.date, 0},
           worker'.at \in {"enrich", "start", "save"} =>
               /\ worker'.run = worker.run
               /\ \/ worker'.copy.date = today
                  \/ worker.at \in {"enrich", "start", "save"} /\ worker'.copy.date = worker.copy.date
    PROVE  DateInv'
<1> DEFINE w == worker.run
<1>1. TypeOK /\ (worker.at # "idle" => w \in Runs)
  BY DEF TypeInv, Placed
<1>2. \A s \in Runs : row'[s].date \in {row[s].date, worker.copy.date, today}
  BY <1>1
<1>3. DatesPast'
  BY <1>1, <1>2, DateTypes DEF DateInv, DatesPast, NoConfig
<1>4. ASSUME NEW s \in Runs, ClaimHeld(autoOn[s]) PROVE ClaimHeld(autoOn[s])'
  <2>1. autoOn[s] <= today
    BY DEF DateInv, DatesPast
  <2>2. \A r \in Runs \ disturbed' : row'[r].status \in Late => autoOn[s] <= row'[r].date
    BY <1>4 DEF ClaimHeld
  <2>3. worker'.at \in {"enrich", "start", "save"} /\ worker'.run \notin disturbed' => autoOn[s] <= worker'.copy.date
    BY <1>4, <2>1 DEF ClaimHeld
  <2>4. settling'["tick"].date # 0 => settling'["tick"] = settling["tick"]
    BY DEF Settlers
  <2> QED BY <1>4, <2>2, <2>3, <2>4 DEF ClaimHeld
<1>5. ClaimKnown'
  BY <1>4 DEF DateInv, ClaimKnown
<1>6. OneAutoPerDate' /\ (starter'.at = "create" /\ starter'.auto => tick'.at = "wait")
  BY DEF DateInv, OneAutoPerDate
<1> QED BY <1>3, <1>5, <1>6 DEF DateInv

\* Every step of the worker is of that kind.
LEMMA WorkerDates ==
    ASSUME TypeInv, FollowInv, DateInv,
           \/ WorkerDefers \/ WorkerReads \/ WorkerPrefilters \/ (\E r \in Runs : WorkerTakes(r))
           \/ \E d \in Researches : WorkerSteps(d)
    PROVE  DateInv'
<1> DEFINE w == worker.run
<1>1. TypeOK /\ worker \in Workers /\ worker.copy \in Rows /\ (worker.at # "idle" => w \in Runs)
  BY DEF TypeInv, TypeOK, Placed, Workers
<1>2. worker.at \in Busy /\ w \notin disturbed => /\ row[w].status \in Preparing /\ row[w].status \notin Late
                                                  /\ worker.copy.status \in Preparing /\ worker.copy.status \notin Late
  BY DEF FollowInv, WorkerFollows, Preparing, Late
<1>3. IdleWorker.at = "idle" /\ IdleWorker.copy.date = 0
  BY DEF IdleWorker, Absent
\* It leaves the settings alone, or is about to change them.
<1>14. ASSUME UNCHANGED settling \/ Settles("worker", w, 0)
       PROVE  \A a \in Settlers : settling'[a] = settling[a] \/ (settling'[a].date = 0 /\ settling'[a].copy = NoConfig)
  BY <1>1, <1>14, SettlesHold DEF Settlers
<1>4. ASSUME NEW r \in Runs, WorkerTakes(r) PROVE DateInv'
  <2>1. UNCHANGED <<row, disturbed, tick, starter, config, settling, patch, today, autoOn, undone>>
    BY <1>4 DEF WorkerTakes, starts, owner
  <2>2. worker' = worker \/ (worker.at = "idle" /\ worker'.at = "slot" /\ worker'.copy.date = 0)
    BY <1>4 DEF WorkerTakes, IdleWorker, Absent
  <2> QED BY <2>1, <2>2, WorkerKeepsDates
<1>5. CASE WorkerDefers
  <2>1. row' = [row EXCEPT ![w] = [row[w] EXCEPT !.status = "pending", !.wait = "later"]] /\ w \in Runs /\ worker' = IdleWorker
    BY <1>1, <1>5 DEF WorkerDefers, WorkerDone
  <2>2. row'[w].date = row[w].date /\ row'[w].status \notin Late /\ \A s \in Runs \ {w} : row'[s] = row[s]
    BY <1>1, <2>1 DEF TypeOK, Rows, Late
  <2> QED BY <1>3, <1>5, <2>1, <2>2, WorkerKeepsDates DEF WorkerDefers, WorkerOnly, starts, owner
<1>6. CASE WorkerReads
  <2>1. \/ worker' = IdleWorker
        \/ worker'.at = "read" /\ worker'.copy = row[w]
    BY <1>1, <1>6 DEF WorkerReads, Workers
  <2> QED BY <1>3, <1>6, <2>1, WorkerKeepsDates DEF WorkerReads, WorkerOnly, starts, owner
\* The worker writes its copy, which has the date of the copy or of today.
<1>7. ASSUME worker.at \in Busy, NEW new \in Rows, Write(w, new), WorkerOnly, new.date \in {worker.copy.date, today},
             UNCHANGED settling \/ Settles("worker", w, 0),
             worker.copy.status \in Preparing =>
                 new.status \notin Late \/ (worker.at = "save" /\ new.date = worker.copy.date),
             \/ worker' = IdleWorker
             \/ worker'.run = w /\ worker'.copy = new /\ (worker'.at = "prefilter" \/ new.date = today)
      PROVE  DateInv'
  <2>1. /\ disturbed \subseteq disturbed' /\ \A s \in Runs \ {w} : row'[s] = row[s]
        /\ \/ row'[w] = new /\ disturbed' = disturbed
           \/ row' = row /\ w \in disturbed'
    BY <1>1, <1>7, WriteRow DEF Busy
  <2>2. UNCHANGED <<tick, starter, config, patch, today, autoOn, undone>>
    BY <1>7 DEF WorkerOnly, starts, owner
  <2>3. row' # row => /\ row'[w].date \in {row[w].date, worker.copy.date, today}
                      /\ \/ w \in disturbed' \/ row'[w].status \notin Late
                         \/ worker.at = "save" /\ row'[w].date = worker.copy.date
    BY <1>2, <1>7, <2>1
  <2>4. /\ worker'.copy.date \in {worker.copy.date, row[w].date, today, 0}
        /\ worker'.at \in {"enrich", "start", "save"} => worker'.run = w /\ worker'.copy.date = today
        /\ worker.at # "idle"
    BY <1>3, <1>7 DEF Busy
  <2> QED BY <1>7, <1>14, <2>1, <2>2, <2>3, <2>4, WorkerKeepsDates
<1>8. CASE WorkerPrefilters
  <2> DEFINE new == [worker.copy EXCEPT !.status = "prefiltering", !.wait = "none"]
  <2>1. new \in Rows /\ new.date = worker.copy.date /\ new.status \notin Late
    BY <1>1 DEF Rows, Active, Preparing, Late
  <2> HIDE DEF new
  <2>2. worker.at \in Busy /\ WorkerGoesOn("prefilter", new)
    BY <1>8 DEF WorkerPrefilters, Busy, new
  <2>3. worker'.copy = new /\ worker'.run = w /\ worker'.at = "prefilter"
    BY <1>1, <2>2 DEF WorkerGoesOn, Workers
  <2> QED BY <1>7, <2>1, <2>2, <2>3 DEF WorkerGoesOn
<1>9. CASE WorkerEnriches
  <2> DEFINE new == [worker.copy EXCEPT !.status = "enriching", !.date = today]
  <2>1. new \in Rows /\ new.date = today /\ new.status \notin Late
    <3>1. today \in 0..MaxDay
      BY <1>1 DEF TypeOK
    <3> QED BY <1>1, <3>1 DEF Rows, Active, Preparing, Late
  <2> HIDE DEF new
  <2>2. worker.at \in Busy /\ WorkerGoesOn("enrich", new)
    BY <1>9 DEF WorkerEnriches, Busy, new
  <2>3. worker'.copy = new /\ worker'.run = w
    BY <1>1, <2>2 DEF WorkerGoesOn, Workers
  <2> QED BY <1>7, <2>1, <2>2, <2>3 DEF WorkerGoesOn
<1>10. ASSUME NEW retryable \in BOOLEAN, WorkerFails(retryable) PROVE DateInv'
  <2> DEFINE new == Failed(worker.copy, retryable)
  <2>1. worker.at \in Busy /\ WorkerEnds(new) /\ Settles("worker", w, 0)
    BY <1>10 DEF WorkerFails, Busy
  <2>2. new \in Rows /\ new.date = worker.copy.date /\ new.status \in {"failed", worker.copy.status}
    BY <1>1, FailedRow
  <2> HIDE DEF new
  <2> QED BY <1>7, <2>1, <2>2 DEF WorkerEnds, WorkerDone, Late, Preparing
<1>11. CASE WorkerSaves
  <2> DEFINE new == [worker.copy EXCEPT !.status = "researching", !.count = 0, !.wait = "none"]
  <2>1. new \in Rows /\ new.date = worker.copy.date
    <3>1. 0 \in 0..MaxRetries
      BY DEF MaxRetries
    <3> QED BY <1>1, <3>1 DEF Rows, Active
  <2> HIDE DEF new
  <2>2. worker.at = "save" /\ WorkerEnds(new) /\ UNCHANGED settling
    BY <1>11 DEF WorkerSaves, new
  <2> QED BY <1>7, <2>1, <2>2 DEF WorkerEnds, WorkerDone, Busy
<1>12. CASE WorkerOpens
  <2>1. /\ worker.at = "enrich" /\ w \in Runs /\ row' = [row EXCEPT ![w] = worker.copy] /\ disturbed' = disturbed
        /\ worker' = [worker EXCEPT !.at = "start"]
        /\ UNCHANGED <<tick, starter, config, settling, patch, today, autoOn, undone>>
    BY <1>1, <1>12 DEF WorkerOpens, WorkerOnly, starts, owner
  <2>2. /\ row'[w] = worker.copy /\ \A s \in Runs \ {w} : row'[s] = row[s]
        /\ worker'.copy = worker.copy /\ worker'.run = w
    BY <1>1, <2>1 DEF TypeOK, Workers
  <2> QED BY <1>2, <2>1, <2>2, WorkerKeepsDates DEF Busy
<1>13. ASSUME NEW d \in Researches, WorkerStarts(d) PROVE DateInv'
  <2>1. /\ worker.at = "start" /\ w \in Runs /\ UNCHANGED <<tick, starter, config, patch, today, autoOn, undone>>
        /\ \/ worker' = IdleWorker
           \/ worker' = [worker EXCEPT !.at = "save", !.copy = [worker.copy EXCEPT !.research = d]]
    BY <1>1, <1>13 DEF WorkerStarts, WorkerOnly, WorkerDone, starts, owner
  <2>4. UNCHANGED settling \/ Settles("worker", w, 0)
    BY <1>13 DEF WorkerStarts
  <2>5. worker' = IdleWorker \/ worker'.run = w
    BY <1>1, <2>1 DEF Workers
  <2>2. worker' = IdleWorker \/ worker'.copy.date = worker.copy.date
    BY <1>1, <2>1, ZenonT(40) DEF Workers, Rows
  <2>3. /\ \A s \in Runs \ {w} : row'[s] = row[s]
        /\ disturbed \subseteq disturbed'
        /\ row'[w].date \in {row[w].date, worker.copy.date}
        /\ w \in disturbed' \/ row'[w].status = row[w].status
    <3>1. CASE Discover(w, d)
      BY <1>1, <2>1, <3>1 DEF Discover, TypeOK, Rows
    <3>2. CASE DiscoverInVain(w, d, Failed(worker.copy, TRUE))
      BY <1>1, <2>1, <3>2, FailedRow DEF DiscoverInVain, TypeOK
    <3> QED BY <1>13, <3>1, <3>2 DEF WorkerStarts
  <2> QED BY <1>2, <1>3, <1>14, <2>1, <2>2, <2>3, <2>4, <2>5, WorkerKeepsDates DEF Busy
<1> QED BY <1>4, <1>5, <1>6, <1>8, <1>9, <1>10, <1>11, <1>12, <1>13 DEF WorkerSteps

\* A write of the ticker that keeps the scan's date, and has that date or none for the settings, keeps what they know.
LEMMA TickKeepsDates ==
    ASSUME TypeInv, DateInv, UNCHANGED <<worker, starter, config, patch, today, autoOn, undone>>, tick.at # "wait",
           disturbed \subseteq disturbed', \A s \in Runs \ {tick.run} : row'[s] = row[s],
           row' # row => /\ tick.at \in Advancing
                         /\ \/ row'[tick.run].date = tick.copy.date
                            \/ row'[tick.run].date = row[tick.run].date /\ row'[tick.run].status = row[tick.run].status,
           \A a \in Settlers : \/ settling'[a] = settling[a]
                               \/ /\ tick.at \in Advancing /\ settling'[a].run = tick.run
                                  /\ settling'[a].copy = NoConfig /\ settling'[a].date \in {0, tick.copy.date},
           \/ tick'.at \notin Advancing /\ tick'.copy.date = 0
           \/ tick.at \in Advancing /\ tick'.run = tick.run /\ tick'.copy.date = tick.copy.date
           \/ \E r \in Runs : row[r].status \in Late /\ tick'.run = r /\ tick'.copy.date = row[r].date,
           tick'.at \in {"start", "wait"} => config.scanned # today
    PROVE  DateInv'
<1>1. TypeOK /\ (tick.at \in Advancing => tick.run \in Runs)
  BY DEF TypeInv, Placed
<1>2. DatesPast'
  <2>1. \A s \in Runs : row'[s].date \in {row[s].date, tick.copy.date}
    BY <1>1
  <2>2. \A a \in Settlers : settling'[a].date \in {settling[a].date, 0, tick.copy.date}
                            /\ settling'[a].copy.scanned \in {settling[a].copy.scanned, 0}
    BY DEF NoConfig
  <2> QED BY <1>1, <2>1, <2>2, DateTypes DEF DateInv, DatesPast
<1>3. ASSUME NEW s \in Runs, ClaimHeld(autoOn[s]) PROVE ClaimHeld(autoOn[s])'
  <2>1. autoOn[s] <= today /\ config.scanned <= today
    BY DEF DateInv, DatesPast
  <2>2. \A r \in Runs \ disturbed' : row'[r].status \in Late => autoOn[s] <= row'[r].date
    BY <1>3 DEF ClaimHeld
  <2>3. tick'.at \in Advancing /\ tick'.run \notin disturbed' => autoOn[s] <= tick'.copy.date
    BY <1>3 DEF ClaimHeld
  <2>4. settling'["tick"].date # 0 /\ settling'["tick"].run \notin disturbed' => autoOn[s] <= settling'["tick"].date
    BY <1>3 DEF ClaimHeld, Settlers
  <2>5. tick'.at \in {"start", "wait"} => autoOn[s] < today
    BY <1>1, <1>3, <2>1, DateTypes DEF ClaimHeld
  <2> QED BY <1>3, <2>2, <2>3, <2>4, <2>5 DEF ClaimHeld
<1>4. ClaimKnown'
  BY <1>3 DEF DateInv, ClaimKnown
<1>5. OneAutoPerDate' /\ (starter'.at = "create" /\ starter'.auto => tick'.at = "wait")
  BY DEF DateInv, OneAutoPerDate
<1> QED BY <1>2, <1>4, <1>5 DEF DateInv

\* Every step of the ticker but a start is of that kind.
LEMMA TickDates ==
    ASSUME TypeInv, FollowInv, DateInv, TickSteps, ~TickStarts
    PROVE  DateInv'
<1> DEFINE t == tick.run
<1>1. TypeOK /\ tick \in Ticks /\ tick.copy \in Rows /\ (tick.at \in Advancing => t \in Runs)
  BY DEF TypeInv, TypeOK, Placed, Ticks
<1>2. IdleWorker.at = "idle" /\ IdleWorker.copy.date = 0 /\ "idle" \notin Advancing
  BY DEF IdleWorker, Absent, Advancing
\* It leaves the settings alone, or is about to change them.
<1>12. ASSUME NEW date, UNCHANGED settling \/ Settles("tick", t, date)
       PROVE  \A a \in Settlers : \/ settling'[a] = settling[a]
                                  \/ /\ settling'[a].run = t
                                     /\ settling'[a].copy = NoConfig /\ settling'[a].date = date
  BY <1>1, <1>12, SettlesHold DEF Settlers
<1>3. CASE TickPasses \/ TickWantsScan \/ TickRecovers
  <2>1. UNCHANGED <<row, disturbed, worker, starter, patch, today, autoOn, undone, config, settling>>
    BY <1>3 DEF TickPasses, TickRefused, TickLaunches, TickWaits, TickWantsScan, TickRecovers, TickOnly, starts, owner
  <2>2. /\ tick'.at \notin Advancing /\ tick'.copy.date = 0 /\ tick.at # "wait"
        /\ tick'.at \in {"start", "wait"} => config.scanned # today
    BY <1>2, <1>3 DEF TickPasses, TickRefused, TickLaunches, TickWaits, TickWantsScan, TickRecovers, IdleWorker, Absent,
                      Advancing, Pending, At, MayTick
  <2> QED BY <2>1, <2>2, TickKeepsDates
<1>4. CASE TickCannotRead
  <2>1. /\ tick.at = "advance" /\ t \in Runs /\ tick' = IdleWorker
        /\ row' = row \/ row' = [row EXCEPT ![t] = Failed(tick.copy, TRUE)]
        /\ disturbed \subseteq disturbed' /\ Settles("tick", t, 0)
        /\ UNCHANGED <<worker, starter, patch, today, autoOn, undone, config>>
    BY <1>1, <1>4 DEF TickCannotRead, TickOnly, owner, At, Advancing
  <2>2. (row' = row \/ row'[t].date = tick.copy.date) /\ \A s \in Runs \ {t} : row'[s] = row[s]
    <3>1. row \in [Runs -> Rows] /\ Failed(tick.copy, TRUE).date = tick.copy.date
      BY <1>1, FailedRow DEF TypeOK
    <3> QED BY <2>1, <3>1
  <2>3. \A a \in Settlers : \/ settling'[a] = settling[a]
                            \/ /\ settling'[a].run = t
                               /\ settling'[a].copy = NoConfig /\ settling'[a].date = 0
    BY <1>12, <2>1
  <2>4. tick.at \in Advancing /\ tick.at # "wait" /\ tick'.at \notin Advancing \cup {"start", "wait"}
        /\ tick'.copy.date = 0
    BY <1>2, <2>1 DEF Advancing
  <2>5. UNCHANGED <<worker, starter, config, patch, today, autoOn, undone>> /\ disturbed \subseteq disturbed'
    BY <2>1
  <2>6. \A s \in Runs \ {t} : row'[s] = row[s]
    BY <2>2
  <2>7. row' # row => row'[t].date = tick.copy.date
    BY <2>2
  <2> HIDE DEF t
  <2>8. \A a \in Settlers : \/ settling'[a] = settling[a]
                            \/ /\ tick.at \in Advancing /\ settling'[a].run = t
                               /\ settling'[a].copy = NoConfig /\ settling'[a].date \in {0, tick.copy.date}
    BY <2>3, <2>4
  <2> USE DEF t
  <2> QED BY <2>4, <2>5, <2>6, <2>7, <2>8, TickKeepsDates
<1>5. ASSUME tick.at \in Advancing, NEW new \in Rows, TickEnds(new), new.date = tick.copy.date,
             UNCHANGED settling \/ Settles("tick", t, 0) \/ Settles("tick", t, tick.copy.date)
      PROVE  DateInv'
  <2>1. /\ disturbed \subseteq disturbed' /\ \A s \in Runs \ {t} : row'[s] = row[s]
        /\ row'[t] = new \/ row' = row
        /\ tick' = IdleWorker /\ UNCHANGED <<worker, starter, config, patch, today, autoOn, undone>>
    BY <1>1, <1>5, WriteRow DEF TickEnds, TickOnly, owner
  <2>2. \A a \in Settlers : \/ settling'[a] = settling[a]
                            \/ /\ settling'[a].run = t /\ settling'[a].copy = NoConfig
                               /\ settling'[a].date \in {0, tick.copy.date}
    BY <1>5, <1>12
  <2>3. tick.at # "wait" /\ tick'.at \notin Advancing \cup {"start", "wait"} /\ tick'.copy.date = 0
    BY <1>2, <1>5, <2>1 DEF Advancing
  <2>4. row' # row => row'[t].date = tick.copy.date
    BY <1>5, <2>1
  <2> QED BY <1>5, <2>1, <2>2, <2>3, <2>4, TickKeepsDates
<1>6. CASE TickSaves
  BY <1>1, <1>5, <1>6 DEF TickSaves, Advancing
<1>7. ASSUME NEW retryable \in BOOLEAN, TickGivesUp(retryable) PROVE DateInv'
  <2>1. Failed(tick.copy, retryable) \in Rows /\ Failed(tick.copy, retryable).date = tick.copy.date
    BY <1>1, FailedRow
  <2> QED BY <1>5, <1>7, <2>1 DEF TickGivesUp, Advancing
<1>8. ASSUME NEW status \in {"completed", "partial"}, TickDone(status) PROVE DateInv'
  <2>1. [tick.copy EXCEPT !.status = status] \in Rows /\ [tick.copy EXCEPT !.status = status].date = tick.copy.date
    BY <1>1 DEF Rows, Ended
  <2> QED BY <1>5, <1>8, <2>1 DEF TickDone, TickFinishes, Advancing
<1>9. ASSUME NEW r \in Runs, TickReads(r) PROVE DateInv'
  <2>1. /\ UNCHANGED <<row, disturbed, worker, starter, patch, today, autoOn, undone, config, settling>>
        /\ tick.at = "idle"
    BY <1>9 DEF TickReads, TickOnly, owner, MayTick
  <2>2. \/ tick'.at = "launch" /\ tick'.copy.date = 0
        \/ tick'.at = "advance" /\ row[r].status \in Late /\ tick'.run = r /\ tick'.copy.date = row[r].date
    BY <1>9 DEF TickReads, Newest, ActiveRuns, Active, Late, IdleWorker, Absent
  <2> QED BY <2>1, <2>2, TickKeepsDates DEF Advancing
<1>10. ASSUME NEW d \in Researches, TickRepeatsResearch(d) PROVE DateInv'
  <2>1. /\ tick.at = "advance" /\ t \in Runs
        /\ UNCHANGED <<worker, starter, patch, today, autoOn, undone, config>>
        /\ UNCHANGED settling \/ Settles("tick", t, 0)
        /\ \/ tick' = IdleWorker
           \/ tick' = [tick EXCEPT !.at = "save", !.copy = [Repeated(tick.copy) EXCEPT !.research = d]]
    BY <1>1, <1>10 DEF TickRepeatsResearch, TickOnly, owner, At, Advancing
  <2>2. tick' = IdleWorker \/ (tick'.at = "save" /\ tick'.run = t /\ tick'.copy.date = tick.copy.date)
    <3> DEFINE copy == [Repeated(tick.copy) EXCEPT !.research = d]
    <3>1. copy.date = tick.copy.date
      BY <1>1 DEF Rows, Repeated
    <3> HIDE DEF copy
    <3>2. tick' = IdleWorker \/ tick' = [tick EXCEPT !.at = "save", !.copy = copy]
      BY <2>1 DEF copy
    <3> QED BY <1>1, <3>1, <3>2 DEF Ticks
  <2>3. /\ \A s \in Runs \ {t} : row'[s] = row[s]
        /\ disturbed \subseteq disturbed'
        /\ \/ row'[t].date = tick.copy.date
           \/ row'[t].date = row[t].date /\ row'[t].status = row[t].status
    <3>1. CASE Discover(t, d)
      BY <1>1, <2>1, <3>1 DEF Discover, TypeOK, Rows
    <3>2. CASE DiscoverInVain(t, d, Failed(tick.copy, FALSE))
      BY <1>1, <2>1, <3>2, FailedRow DEF DiscoverInVain, TypeOK
    <3> QED BY <1>10, <3>1, <3>2 DEF TickRepeatsResearch
  <2> QED BY <1>2, <1>12, <2>1, <2>2, <2>3, TickKeepsDates DEF Advancing
<1>11. ASSUME NEW g \in Generations, NEW next \in Rows, TickGenerates(g, next) PROVE DateInv'
  <2>1. /\ tick.at = "advance"
        /\ UNCHANGED <<row, disturbed, worker, starter, patch, today, autoOn, undone, config, settling>>
        /\ tick' = [tick EXCEPT !.at = "save", !.copy = [next EXCEPT !.generation = g]] /\ next.date = tick.copy.date
    BY <1>1, <1>11 DEF TickGenerates, Generate, TickOnly, owner, Rows
  <2>2. tick'.at = "save" /\ tick'.run = t /\ tick'.copy.date = tick.copy.date
    BY <1>1, <2>1 DEF Ticks, Rows
  <2> QED BY <2>1, <2>2, TickKeepsDates DEF Advancing
<1> QED BY <1>3, <1>4, <1>6, <1>7, <1>8, <1>9, <1>10, <1>11, TickKinds

\* A start or a retry: an automatic one claims a date that no automatic scan has.
LEMMA RoundDates ==
    ASSUME TypeInv, FollowInv, SettlingInv, DateInv, NEW r \in Runs, NEW date \in 0..MaxDay, BeginsRound(r, date),
           date <= today, ActiveRuns \subseteq disturbed, starter'.at = "idle",
           starter'.copy.scanned \in {0, starter.copy.scanned},
           undone \subseteq undone', config'.scanned \in {config.scanned, starter.copy.scanned, today},
           \A claim \in Nat \ undone' : claim <= config.scanned => claim <= config'.scanned,
           \/ /\ \A s \in Runs : autoOn'[s] \in {autoOn[s], 0}
              /\ tick' = tick
           \/ /\ tick.at = "wait" /\ tick' = IdleWorker
              /\ autoOn'[r] = today /\ \A s \in Runs \ {r} : autoOn'[s] = autoOn[s]
              /\ config'.scanned = today \/ today \in undone'
    PROVE  DateInv'
<1>1. /\ TypeOK /\ UNCHANGED <<disturbed, worker, settling, patch, today>> /\ row' = WithNewRound(r, date)
      /\ today \in Nat /\ today # 0
  BY DEF TypeInv, TypeOK, BeginsRound
<1>2. \A s \in Runs : /\ row'[s].date \in {row[s].date, date}
                      /\ row'[s].status = row[s].status \/ row'[s].status = "pending"
  BY <1>1 DEF WithNewRound, Over, Absent
<1>3. DatesPast'
  <2>1. \A s \in Runs : row'[s].date <= today /\ autoOn'[s] <= today
    BY <1>1, <1>2, DateTypes DEF DateInv, DatesPast
  <2>2. config'.scanned <= today /\ starter'.copy.scanned <= today /\ tick'.copy.date <= today
    BY <1>1, DateTypes DEF DateInv, DatesPast, IdleWorker, Absent
  <2> QED BY <1>1, <2>1, <2>2 DEF DateInv, DatesPast
\* Nobody is past the preparation of an undisturbed scan.
<1>4. /\ \A s \in Runs \ disturbed : row'[s].status \notin Late
      /\ worker.at \in Busy => worker.run \in disturbed
      /\ tick.at \in Advancing => tick.run \in disturbed
  <2>1. worker.at \in Busy => worker.run \in Runs
    BY DEF TypeInv, Placed, Busy
  <2>2. tick.at \in Advancing => tick.run \in Runs
    BY DEF TypeInv, Placed
  <2> QED BY <1>2, <2>1, <2>2 DEF FollowInv, WorkerFollows, TickFollows, ActiveRuns, Active, Late
<1>5. ClaimKnown'
  <2> SUFFICES ASSUME NEW s \in Runs, autoOn'[s] \notin undone' PROVE ClaimHeld(autoOn[s])'
    BY DEF ClaimKnown
  <2>1. autoOn'[s] \in {autoOn[s], 0, today} /\ autoOn'[s] \in Nat
    BY <1>1, DateTypes
  <2>2. CASE autoOn'[s] = 0
    <3>1. /\ config'.scanned \in Nat /\ \A u \in Runs : row'[u].date \in Nat
          /\ worker.copy.date \in Nat /\ tick'.copy.date \in Nat /\ settling["tick"].date \in Nat
      BY <1>1, <1>2, DateTypes DEF IdleWorker, Absent, Settlers
    <3> QED BY <1>1, <2>2, <3>1 DEF ClaimHeld
  <2>3. CASE autoOn'[s] = autoOn[s]
    <3>1. ClaimHeld(autoOn[s])
      BY <2>3 DEF DateInv, ClaimKnown
    <3>2. autoOn[s] <= config'.scanned
      BY <2>1, <2>3, <3>1 DEF ClaimHeld
    <3> QED BY <1>1, <1>4, <2>3, <3>1, <3>2 DEF ClaimHeld, Busy, IdleWorker, Advancing
  <2>4. CASE autoOn'[s] = today /\ tick.at = "wait" /\ tick' = IdleWorker
             /\ (config'.scanned = today \/ today \in undone')
    <3>1. settling["tick"].date = 0
      BY <2>4 DEF SettlingInv, Settled
    <3> QED BY <1>1, <1>4, <2>4, <3>1 DEF ClaimHeld, Busy, IdleWorker, Advancing
  <2> QED BY <2>2, <2>3, <2>4
<1>6. OneAutoPerDate'
  <2> SUFFICES ASSUME NEW s \in Runs, NEW u \in Runs, autoOn'[s] # 0, autoOn'[s] = autoOn'[u],
                      autoOn'[s] \notin undone'
               PROVE  s = u
    BY DEF OneAutoPerDate
  <2>1. \A v \in Runs : tick.at = "wait" /\ autoOn[v] \notin undone => autoOn[v] < today
    BY DEF DateInv, ClaimKnown, ClaimHeld
  <2>2. autoOn[s] \in Nat /\ autoOn[u] \in Nat
    BY <1>1, DateTypes
  <2> QED BY <1>1, <2>1, <2>2 DEF DateInv, OneAutoPerDate
<1>7. starter'.at = "create" /\ starter'.auto => tick'.at = "wait"
  OBVIOUS
<1> QED BY <1>3, <1>5, <1>6, <1>7 DEF DateInv

\* Starts and retries claim dates no automatic scan has.
LEMMA StarterDates ==
    ASSUME TypeInv, FollowInv, SettlingInv, DateInv, StarterSteps \/ OwnerStarts \/ TickStarts \/ \E r \in Runs : OwnerRetries(r)
    PROVE  DateInv'
<1>1. TypeOK /\ tick \in Ticks
  BY DEF TypeInv, TypeOK
<1>2. CASE OwnerStarts \/ TickStarts
  <2>1. /\ UNCHANGED <<row, disturbed, worker, config, settling, autoOn, undone, patch, today>>
        /\ starter'.copy = config
        /\ \/ ~starter'.auto /\ tick' = tick
           \/ tick.at = "start" /\ tick' = [tick EXCEPT !.at = "wait"]
    BY <1>2 DEF OwnerStarts, TickStarts, StartReads, owner
  <2>2. tick' = tick \/ (tick.at = "start" /\ tick'.at = "wait" /\ tick'.copy = tick.copy)
    BY <1>1, <2>1 DEF Ticks
  <2>3. DatesPast'
    BY <2>1, <2>2 DEF DateInv, DatesPast
  <2>4. ClaimKnown'
    <3>1. \A s \in Runs : ClaimHeld(autoOn[s]) => ClaimHeld(autoOn[s])'
      BY <2>1, <2>2 DEF ClaimHeld, Advancing
    <3> QED BY <2>1, <3>1 DEF DateInv, ClaimKnown
  <2>5. OneAutoPerDate' /\ (starter'.at = "create" /\ starter'.auto => tick'.at = "wait")
    <3>1. ~starter'.auto \/ tick'.at = "wait"
      BY <1>1, <2>1 DEF Ticks
    <3> QED BY <2>1, <3>1 DEF DateInv, OneAutoPerDate
  <2> QED BY <2>3, <2>4, <2>5 DEF DateInv
<1>3. CASE StartRefused
  <2>1. /\ UNCHANGED <<row, disturbed, worker, config, settling, autoOn, undone, patch, today>>
        /\ starter' = IdleStarter /\ tick' \in {tick, IdleWorker}
    BY <1>3 DEF StartRefused, StarterDone, owner
  <2>2. DatesPast'
    <3>1. IdleWorker.copy.date = 0 /\ IdleStarter.copy.scanned = 0
      BY DEF IdleWorker, IdleStarter, NoConfig, Absent
    <3> QED BY <1>1, <2>1, <3>1, DateTypes DEF DateInv, DatesPast
  <2>3. ClaimKnown'
    <3>1. \A s \in Runs : ClaimHeld(autoOn[s]) => ClaimHeld(autoOn[s])'
      BY <2>1 DEF ClaimHeld, IdleWorker, Advancing
    <3> QED BY <2>1, <3>1 DEF DateInv, ClaimKnown
  <2>4. OneAutoPerDate' /\ (starter'.at = "create" /\ starter'.auto => tick'.at = "wait")
    BY <2>1 DEF DateInv, OneAutoPerDate, IdleStarter
  <2> QED BY <2>2, <2>3, <2>4 DEF DateInv
<1>4. ASSUME NEW r \in Runs, StartCreates(r) PROVE DateInv'
  <2>1. BeginsRound(r, today) /\ today \in 0..MaxDay /\ today <= today
    BY <1>1, <1>4, CreateBegins DEF TypeOK
  <2>2. /\ ActiveRuns \subseteq disturbed /\ starter'.at = "idle" /\ starter'.copy.scanned = 0
        /\ starter.at = "create" /\ tick' = IF starter.auto THEN IdleWorker ELSE tick
        /\ starter.auto => tick.at = "wait"
    BY <1>4 DEF StartCreates, StarterDone, FollowInv, StarterAlone, IdleStarter, NoConfig, DateInv
  <2>3. /\ autoOn' = [autoOn EXCEPT ![r] = IF starter.auto THEN today ELSE 0]
        /\ \/ SaveSettings(starter.copy, Claimed(starter.copy, starter.auto), FALSE)
           \/ config' = config /\ undone' = IF starter.auto THEN undone \cup {today} ELSE undone
    BY <1>4 DEF StartCreates
  <2>4. IF starter.auto THEN autoOn'[r] = today /\ \A s \in Runs \ {r} : autoOn'[s] = autoOn[s]
                        ELSE \A s \in Runs : autoOn'[s] \in {autoOn[s], 0}
    BY <1>1, <2>3 DEF TypeOK
  <2>5. /\ undone \subseteq undone' /\ config'.scanned \in {config.scanned, starter.copy.scanned, today}
        /\ \A claim \in Nat \ undone' : claim <= config.scanned => claim <= config'.scanned
        /\ starter.auto => config'.scanned = today \/ today \in undone'
    <3>1. CASE SaveSettings(starter.copy, Claimed(starter.copy, starter.auto), FALSE)
      <4> DEFINE new == Claimed(starter.copy, starter.auto)
      <4>1. starter.copy \in Configs /\ config.scanned <= today /\ config.scanned \in Nat /\ today \in Nat
        BY <1>1, DateTypes DEF TypeOK, DateInv, DatesPast
      <4>2. new \in Configs /\ new.scanned = IF starter.auto THEN today ELSE starter.copy.scanned
        BY <2>1, <4>1 DEF Claimed, Configs
      <4>3. config = starter.copy => new.scanned >= config.scanned
        BY <4>1, <4>2
      <4> HIDE DEF new
      <4>4. SaveSettings(starter.copy, new, FALSE)
        BY <3>1 DEF new
      <4>5. /\ undone \subseteq undone' /\ config' = new
            /\ \A claim \in Nat \ undone' : claim <= config.scanned => claim <= new.scanned
        BY <1>1, <4>2, <4>3, <4>4, SavedClaims
      <4> QED BY <4>2, <4>5
    <3>2. CASE config' = config /\ undone' = IF starter.auto THEN undone \cup {today} ELSE undone
      BY <3>2
    <3> QED BY <2>3, <3>1, <3>2
  <2>6. starter'.copy.scanned \in {0, starter.copy.scanned}
    BY <2>2
  <2>7. \/ /\ \A s \in Runs : autoOn'[s] \in {autoOn[s], 0}
           /\ tick' = tick
        \/ /\ tick.at = "wait" /\ tick' = IdleWorker
           /\ autoOn'[r] = today /\ \A s \in Runs \ {r} : autoOn'[s] = autoOn[s]
           /\ config'.scanned = today \/ today \in undone'
    BY <2>2, <2>4, <2>5
  <2> QED BY <2>1, <2>2, <2>5, <2>6, <2>7, RoundDates
<1>5. ASSUME NEW r \in Runs, OwnerRetries(r) PROVE DateInv'
  <2>1. BeginsRound(r, row[r].date) /\ row[r].date \in 0..MaxDay /\ row[r].date <= today
    BY <1>5, RetryBegins DEF DateInv, DatesPast
  <2>2. /\ ActiveRuns \subseteq disturbed /\ starter'.at = "idle" /\ starter' = starter
        /\ UNCHANGED <<autoOn, tick, config, undone>>
    BY <1>5 DEF OwnerRetries, MayStart
  <2>3. starter'.copy.scanned \in {0, starter.copy.scanned} /\ undone \subseteq undone'
    BY <2>2
  <2>4. /\ \A s \in Runs : autoOn'[s] \in {autoOn[s], 0}
        /\ config'.scanned = config.scanned
    BY <2>2
  <2> QED BY <2>1, <2>2, <2>3, <2>4, RoundDates
<1> QED BY <1>2, <1>3, <1>4, <1>5 DEF StarterSteps

\* Every step keeps what the settings know of the automatic scans.
LEMMA DateStep == ASSUME TypeInv, FollowInv, SettlingInv, DateInv, [Next]_vars PROVE DateInv'
<1>1. TypeOK
  BY DEF TypeInv
\* No scan, no claim and no copy of the worker or the ticker changes.
<1>2. ASSUME UNCHANGED autoOn, disturbed \subseteq disturbed', undone \subseteq undone',
             worker' \in {worker, IdleWorker}, tick' \in {tick, IdleWorker}, starter' = starter \/ starter' = IdleStarter,
             starter'.at = "create" /\ starter'.auto => tick' = tick, today' \in Nat, today <= today',
             \A r \in Runs : row'[r].date = row[r].date /\ row'[r].status = row[r].status,
             config'.scanned <= today, patch'.copy.scanned \in {patch.copy.scanned, config.scanned, 0},
             \A s \in Runs : autoOn[s] \notin undone' /\ ClaimHeld(autoOn[s]) => autoOn[s] <= config'.scanned,
             \A a \in Settlers : \/ settling'[a] = settling[a] \/ settling'[a] = Settled
                                 \/ /\ settling'[a].run = settling[a].run /\ settling'[a].date = settling[a].date
                                    /\ settling'[a].copy = config
      PROVE  DateInv'
  <2>1. /\ IdleWorker.copy.date = 0 /\ IdleWorker.at = "idle" /\ IdleStarter.copy.scanned = 0 /\ IdleStarter.at = "idle"
        /\ Settled.date = 0 /\ Settled.copy.scanned = 0
    BY DEF IdleWorker, IdleStarter, Absent, Settled, NoConfig
  <2>2. config'.scanned <= today' /\ config.scanned <= today'
    <3>1. config'.scanned \in Int /\ config.scanned \in Nat /\ today \in Nat
      BY <1>1, TypeStep, DateTypes DEF TypeInv, TypeOK, Configs
    <3> QED BY <1>2, <3>1 DEF DateInv, DatesPast
  <2>3. \A a \in Settlers : settling'[a].date <= today' /\ settling'[a].copy.scanned <= today'
    BY <1>1, <1>2, <2>1, <2>2, DateTypes DEF DateInv, DatesPast
  <2>4. DatesPast'
    BY <1>1, <1>2, <2>1, <2>2, <2>3, DateTypes DEF DateInv, DatesPast
  <2>5. ASSUME NEW s \in Runs, autoOn[s] \notin undone', ClaimHeld(autoOn[s]) PROVE ClaimHeld(autoOn[s])'
    <3>1. autoOn[s] \in Nat /\ autoOn[s] <= today /\ today \in Nat
      BY <1>1, DateTypes DEF DateInv, DatesPast
    <3>2. /\ autoOn[s] <= config'.scanned
          /\ \A r \in Runs \ disturbed' : row'[r].status \in Late => autoOn[s] <= row'[r].date
      BY <1>2, <2>5, <3>1 DEF ClaimHeld
    <3>3. /\ worker'.at \in {"enrich", "start", "save"} /\ worker'.run \notin disturbed' => autoOn[s] <= worker'.copy.date
          /\ tick'.at \in Advancing /\ tick'.run \notin disturbed' => autoOn[s] <= tick'.copy.date
          /\ tick'.at \in {"start", "wait"} => autoOn[s] < today'
      BY <1>2, <2>1, <2>5, <3>1 DEF ClaimHeld, Advancing
    <3>4. settling'["tick"].date # 0 /\ settling'["tick"].run \notin disturbed' => autoOn[s] <= settling'["tick"].date
      BY <1>2, <2>1, <2>5 DEF ClaimHeld, Settlers
    <3> QED BY <1>2, <3>2, <3>3, <3>4 DEF ClaimHeld
  <2>6. ClaimKnown'
    BY <1>2, <2>5 DEF DateInv, ClaimKnown
  <2>7. OneAutoPerDate' /\ (starter'.at = "create" /\ starter'.auto => tick'.at = "wait")
    BY <1>2, <2>1 DEF DateInv, OneAutoPerDate
  <2> QED BY <2>4, <2>6, <2>7 DEF DateInv
<1>8. /\ config.scanned <= today /\ today \in Nat /\ config.scanned \in Nat
      /\ \A s \in Runs : ClaimHeld(autoOn[s]) => autoOn[s] <= config.scanned
  BY <1>1, DateTypes DEF DateInv, DatesPast, ClaimHeld
<1>3. ASSUME NEW r \in Runs, RetryDue(r) PROVE DateInv'
  <2>1. row' = [row EXCEPT ![r] = [row[r] EXCEPT !.wait = "due"]] /\ row \in [Runs -> Rows]
    BY <1>1, <1>3 DEF RetryDue, TypeOK
  <2>2. \A s \in Runs : row'[s].date = row[s].date /\ row'[s].status = row[s].status
    BY <2>1 DEF Rows
  <2> QED BY <1>2, <1>3, <1>8, <2>2 DEF RetryDue, starts, owner
<1>4. CASE \/ (\E d \in Researches : ResearchEnds(d)) \/ (\E g \in Generations : GenerationEnds(g)) \/ UNCHANGED vars
           \/ StartBackground
  BY <1>2, <1>4, <1>8 DEF ResearchEnds, GenerationEnds, StartBackground, AgentsOnly, starts, owner, vars
<1>5. CASE OwnerReads \/ NextDay
  BY <1>2, <1>5, <1>8 DEF OwnerReads, NextDay, AgentsOnly, starts
<1>6. ASSUME NEW e \in BOOLEAN, OwnerSaves(e) PROVE DateInv'
  <2> DEFINE new == [patch.copy EXCEPT !.enabled = e]
  <2>1. patch.copy \in Configs
    BY <1>1 DEF TypeOK
  <2>2. new \in Configs /\ new.scanned = patch.copy.scanned /\ patch'.copy.scanned = 0
    BY <1>6, <2>1 DEF OwnerSaves, Configs, IdlePatch, NoConfig
  <2> HIDE DEF new
  <2>3. SaveSettings(patch.copy, new, FALSE)
    BY <1>6 DEF OwnerSaves, new
  <2>4. config = patch.copy => new.scanned >= config.scanned
    BY <2>2, <1>8
  <2>5. /\ undone \subseteq undone' /\ config' = new
        /\ \A claim \in Nat \ undone' : claim <= config.scanned => claim <= new.scanned
    BY <1>1, <2>2, <2>3, <2>4, SavedClaims
  <2>6. config'.scanned <= today
    BY <2>2, <2>5 DEF DateInv, DatesPast
  <2>7. \A s \in Runs : autoOn[s] \notin undone' /\ ClaimHeld(autoOn[s]) => autoOn[s] <= config'.scanned
    BY <1>1, <2>5, DateTypes DEF ClaimHeld
  <2> QED BY <1>2, <1>6, <1>8, <2>2, <2>5, <2>6, <2>7 DEF OwnerSaves
<1>7. CASE Restart \/ StopBackground
  <2>1. settling \in [Settlers -> Settlings] /\ "tick" \in Settlers
    BY <1>1 DEF TypeOK, Settlers
  <2>2. \A a \in Settlers : settling'[a] = settling[a] \/ settling'[a] = Settled
    BY <1>7, <2>1 DEF Restart, StopBackground
  <2>3. starter'.at = "create" /\ starter'.auto => tick' = tick
    BY <1>7 DEF Restart, StopBackground, IdleStarter
  <2>4. patch'.copy.scanned \in {patch.copy.scanned, 0}
    BY <1>7 DEF Restart, StopBackground, IdlePatch, NoConfig
  <2> QED BY <1>2, <1>7, <1>8, <2>2, <2>3, <2>4 DEF Restart, StopBackground
<1>9. ASSUME NEW a \in Settlers, SettlingSteps(a) PROVE DateInv'
  <2>1. settling \in [Settlers -> Settlings] /\ config \in Configs
    BY <1>1 DEF TypeOK
  <2>2. UNCHANGED <<row, disturbed, worker, tick, starter, autoOn, patch, today>>
    BY <1>9 DEF SettlingSteps, SettlingReads, SettlingSaves, SettlingOnly, owner
  <2>3. \A b \in Settlers : \/ settling'[b] = settling[b] \/ settling'[b] = Settled
                            \/ /\ settling'[b].run = settling[b].run /\ settling'[b].date = settling[b].date
                               /\ settling'[b].copy = config
    <3>1. CASE settling' = [settling EXCEPT ![a] = Settled]
      BY <2>1, <3>1
    <3>2. CASE settling' = [settling EXCEPT ![a].at = "save", ![a].copy = config]
      BY <2>1, <3>2 DEF Settlings
    <3> QED BY <1>9, <3>1, <3>2 DEF SettlingSteps, SettlingReads, SettlingSaves
  <2>4. CASE UNCHANGED <<config, undone>>
    BY <1>2, <1>8, <2>2, <2>3, <2>4
  <2>5. CASE SaveSettings(settling[a].copy, Settlement(a), settling[a].date # 0 /\ settling[a].run \in disturbed)
    <3> DEFINE excused == settling[a].date # 0 /\ settling[a].run \in disturbed
    <3>1. /\ Settlement(a) \in Configs
          /\ Settlement(a).scanned = IF settling[a].date = 0 THEN settling[a].copy.scanned ELSE settling[a].date
      BY <2>1 DEF Settlement, Settlings, Configs
    <3>2. Settlement(a).scanned <= today
      BY <3>1 DEF DateInv, DatesPast
    \* The ticker's date of an undisturbed scan is as late as every claim.
    <3>3. CASE settling[a].date # 0 /\ settling[a].run \notin disturbed
      <4>1. a = "tick"
        BY <3>3 DEF Settlers, SettlingInv
      <4>2. /\ \A s \in Runs : ClaimHeld(autoOn[s]) => autoOn[s] <= Settlement(a).scanned
            /\ undone \subseteq undone' /\ config' = Settlement(a)
        BY <2>5, <3>1, <3>3, <4>1 DEF ClaimHeld, SaveSettings
      <4> QED BY <1>2, <1>8, <2>2, <2>3, <3>2, <4>2
    <3>4. CASE excused \/ settling[a].date = 0
      <4>1. config = settling[a].copy /\ ~excused => Settlement(a).scanned >= config.scanned
        BY <1>8, <2>1, <3>1, <3>4
      <4> HIDE DEF excused
      <4>2. SaveSettings(settling[a].copy, Settlement(a), excused) /\ excused \in BOOLEAN
        BY <2>5 DEF excused
      <4>3. /\ undone \subseteq undone' /\ config' = Settlement(a)
            /\ \A claim \in Nat \ undone' : claim <= config.scanned => claim <= Settlement(a).scanned
        BY <1>1, <3>1, <4>1, <4>2, SavedClaims
      <4>4. \A s \in Runs : autoOn[s] \notin undone' /\ ClaimHeld(autoOn[s]) => autoOn[s] <= config'.scanned
        BY <1>1, <4>3, DateTypes DEF ClaimHeld
      <4> QED BY <1>2, <1>8, <2>2, <2>3, <3>2, <4>3, <4>4
    <3> QED BY <3>3, <3>4
  <2> QED BY <1>9, <2>4, <2>5 DEF SettlingSteps, SettlingReads, SettlingSaves
<1> QED BY <1>3, <1>4, <1>5, <1>6, <1>7, <1>9, StarterDates, WorkerDates, TickDates DEF Next

\* "At most one automatic run per trade date", unless the claim of that date was lost or
\* taken back by a save of settings read before it, or by the end of a disturbed scan of
\* an older date.
THEOREM OneAutomaticScan == Spec => []OneAutoPerDate
<1>1. Init => DateInv
  <2> SUFFICES ASSUME Init PROVE DateInv
    OBVIOUS
  <2>1. /\ worker = IdleWorker /\ tick = IdleWorker /\ starter = IdleStarter /\ patch = IdlePatch
        /\ config = [enabled |-> TRUE, scanned |-> 0] /\ today = 1
        /\ \A a \in Settlers : settling[a] = Settled
        /\ \A r \in Runs : row[r] = Absent /\ autoOn[r] = 0
    BY DEF Init
  <2>2. /\ config.scanned = 0 /\ starter.copy.scanned = 0 /\ patch.copy.scanned = 0 /\ starter.at = "idle"
        /\ worker.copy.date = 0 /\ tick.copy.date = 0 /\ worker.at = "idle" /\ tick.at = "idle"
        /\ \A r \in Runs : row[r].date = 0 /\ row[r].status \notin Late
        /\ \A a \in Settlers : settling[a].date = 0 /\ settling[a].copy.scanned = 0
    BY <2>1 DEF IdleWorker, IdleStarter, IdlePatch, Absent, Late, Settled, NoConfig
  <2>3. DatesPast
    BY <2>1, <2>2 DEF DatesPast
  <2>4. ClaimKnown
    BY <2>1, <2>2 DEF ClaimKnown, ClaimHeld, Settlers, Advancing
  <2>5. OneAutoPerDate
    BY <2>1 DEF OneAutoPerDate
  <2> QED BY <2>2, <2>3, <2>4, <2>5 DEF DateInv
<1>2. DateInv => OneAutoPerDate
  BY DEF DateInv
<1>3. Init => SettlingInv
  BY DEF Init, SettlingInv, Settlers, Settled, IdleWorker
<1> QED BY <1>1, <1>2, <1>3, FollowInit, TypeInit, TypeStep, FollowStep, SettlingStep, DateStep, PTL DEF Spec
-----------------------------------------------------------------------------
\* Retries are bounded.

CountsTyped ==
    \A r \in Runs : /\ Researched(r) \in Nat /\ Generated(r) \in Nat /\ restarts \in Nat
                    /\ ResearchLimit(r) \in 0..3 /\ GenerationLimit(r) \in 0..3
                    /\ IsFiniteSet(Attempts(research, r)) /\ IsFiniteSet(Attempts(generation, r))

\* Attempts are counted in finite sets, and limits are small numbers.
LEMMA CountTypes == TypeInv => CountsTyped
<1> SUFFICES ASSUME TypeInv, NEW r \in Runs
             PROVE  /\ Researched(r) \in Nat /\ Generated(r) \in Nat /\ restarts \in Nat
                    /\ ResearchLimit(r) \in 0..3 /\ GenerationLimit(r) \in 0..3
                    /\ IsFiniteSet(Attempts(research, r)) /\ IsFiniteSet(Attempts(generation, r))
  BY DEF CountsTyped
<1>1. TypeOK
  BY DEF TypeInv
<1>2. Attempts(research, r) \subseteq 1..MaxResearches /\ Attempts(generation, r) \subseteq 1..MaxGenerations
  BY <1>1 DEF TypeOK, Attempts, Researches, Generations
<1>3. IsFiniteSet(1..MaxResearches) /\ IsFiniteSet(1..MaxGenerations)
  BY FS_Interval
<1>4. IsFiniteSet(Attempts(research, r)) /\ IsFiniteSet(Attempts(generation, r))
  BY <1>2, <1>3, FS_Subset
<1>5. Researched(r) \in Nat /\ Generated(r) \in Nat
  BY <1>4, FS_CardinalityType DEF Researched, Generated
<1>6. row[r].count \in 0..2 /\ restarts \in Nat
  BY <1>1 DEF TypeOK, Rows, MaxRetries
<1>7. ResearchLimit(r) \in 0..3 /\ GenerationLimit(r) \in 0..3
  BY <1>6 DEF ResearchLimit, GenerationLimit, If, MaxRetries
<1> QED BY <1>4, <1>5, <1>6, <1>7

\* The same of the next state.
LEMMA CountTypesNext == TypeInv' => CountsTyped'
BY CountTypes, PTL

\* No discovery and no generation is added to the round of a scan.
Spares(job, r, j) ==
    job'[j].of = r /\ job'[j].round = round[r] => job[j].of = r /\ job[j].round = round[r]
NoneNew(r) ==
    /\ round'[r] = round[r]
    /\ \A d \in Researches : Spares(research, r, d)
    /\ \A g \in Generations : Spares(generation, r, g)

\* When no attempt is new the counts do not grow.
LEMMA NoneNewCounts ==
    ASSUME TypeInv, TypeInv', NEW r \in Runs, round'[r] = round[r]
    PROVE  /\ (\A d \in Researches : Spares(research, r, d)) => Researched(r)' <= Researched(r)
           /\ (\A g \in Generations : Spares(generation, r, g)) => Generated(r)' <= Generated(r)
<1>1. /\ DOMAIN research = Researches /\ DOMAIN research' = Researches
      /\ DOMAIN generation = Generations /\ DOMAIN generation' = Generations
  BY DEF TypeInv, TypeOK
<1>2. IsFiniteSet(Attempts(research, r)) /\ IsFiniteSet(Attempts(generation, r))
  BY CountTypes DEF CountsTyped
<1>3. ASSUME \A d \in Researches : Spares(research, r, d) PROVE Researched(r)' <= Researched(r)
  <2>1. Attempts(research, r)' \subseteq Attempts(research, r)
    BY <1>1, <1>3 DEF Attempts, Spares
  <2> QED BY <1>2, <2>1, FS_Subset DEF Researched
<1>4. ASSUME \A g \in Generations : Spares(generation, r, g) PROVE Generated(r)' <= Generated(r)
  <2>1. Attempts(generation, r)' \subseteq Attempts(generation, r)
    BY <1>1, <1>4 DEF Attempts, Spares
  <2> QED BY <1>2, <2>1, FS_Subset DEF Generated
<1> QED BY <1>3, <1>4

\* When one attempt is new the count grows by one at most.
LEMMA OneNewCounts ==
    ASSUME TypeInv, TypeInv', NEW r \in Runs, round'[r] = round[r]
    PROVE  /\ \A d \in Researches : (\A e \in Researches \ {d} : Spares(research, r, e)) =>
                  Researched(r)' <= Researched(r) + 1
           /\ \A g \in Generations : (\A e \in Generations \ {g} : Spares(generation, r, e)) =>
                  Generated(r)' <= Generated(r) + 1
<1>1. /\ DOMAIN research = Researches /\ DOMAIN research' = Researches
      /\ DOMAIN generation = Generations /\ DOMAIN generation' = Generations
  BY DEF TypeInv, TypeOK
<1>2. /\ IsFiniteSet(Attempts(research, r)) /\ IsFiniteSet(Attempts(generation, r))
      /\ Researched(r) \in Nat /\ Generated(r) \in Nat /\ Researched(r)' \in Nat /\ Generated(r)' \in Nat
  BY CountTypes, CountTypesNext DEF CountsTyped
<1>3. ASSUME NEW d \in Researches, \A e \in Researches \ {d} : Spares(research, r, e)
      PROVE  Researched(r)' <= Researched(r) + 1
  <2>1. Attempts(research, r)' \subseteq Attempts(research, r) \cup {d}
    BY <1>1, <1>3 DEF Attempts, Spares
  <2>2. /\ IsFiniteSet(Attempts(research, r) \cup {d})
        /\ Cardinality(Attempts(research, r) \cup {d}) \in {Researched(r), Researched(r) + 1}
    BY <1>2, FS_AddElement DEF Researched
  <2>3. Researched(r)' <= Cardinality(Attempts(research, r) \cup {d})
    BY <2>1, <2>2, FS_Subset DEF Researched
  <2> QED BY <1>2, <2>2, <2>3
<1>4. ASSUME NEW g \in Generations, \A e \in Generations \ {g} : Spares(generation, r, e)
      PROVE  Generated(r)' <= Generated(r) + 1
  <2>1. Attempts(generation, r)' \subseteq Attempts(generation, r) \cup {g}
    BY <1>1, <1>4 DEF Attempts, Spares
  <2>2. /\ IsFiniteSet(Attempts(generation, r) \cup {g})
        /\ Cardinality(Attempts(generation, r) \cup {g}) \in {Generated(r), Generated(r) + 1}
    BY <1>2, FS_AddElement DEF Generated
  <2>3. Generated(r)' <= Cardinality(Attempts(generation, r) \cup {g})
    BY <2>1, <2>2, FS_Subset DEF Generated
  <2> QED BY <1>2, <2>2, <2>3
<1> QED BY <1>3, <1>4

\* What a step adds to the attempts of a scan it adds to what they may cost.
PaidFor(r) ==
    /\ Researched(r)' + restarts + ResearchLimit(r) <= Researched(r) + restarts' + ResearchLimit(r)'
    /\ Generated(r)' + restarts + GenerationLimit(r) <= Generated(r) + restarts' + GenerationLimit(r)'

\* If every undisturbed scan pays for its new attempts, the counts stay within the limits.
LEMMA CountsPaid ==
    ASSUME TypeInv, TypeInv', CountInv, disturbed \subseteq disturbed',
           \A r \in Runs \ disturbed' : PaidFor(r) \/ (Researched(r)' = 0 /\ Generated(r)' = 0)
    PROVE  CountInv'
<1>1. CountsTyped /\ CountsTyped'
  BY CountTypes, CountTypesNext
<1> SUFFICES ASSUME NEW r \in Runs \ disturbed'
             PROVE  Researched(r)' <= restarts' + ResearchLimit(r)' /\ Generated(r)' <= restarts' + GenerationLimit(r)'
  BY DEF CountInv
<1>2. /\ Researched(r) \in Nat /\ Generated(r) \in Nat /\ restarts \in Nat
      /\ ResearchLimit(r) \in Nat /\ GenerationLimit(r) \in Nat
      /\ Researched(r)' \in Nat /\ Generated(r)' \in Nat /\ restarts' \in Nat
      /\ ResearchLimit(r)' \in Nat /\ GenerationLimit(r)' \in Nat
  BY <1>1 DEF CountsTyped
<1>3. Researched(r) <= restarts + ResearchLimit(r) /\ Generated(r) <= restarts + GenerationLimit(r)
  BY DEF CountInv
<1> QED BY <1>2, <1>3 DEF PaidFor

\* Nothing is added, and nothing is taken away from what they may cost.
LEMMA NonePaid ==
    ASSUME TypeInv, TypeInv', NEW r \in Runs, NoneNew(r), restarts' >= restarts,
           ResearchLimit(r)' >= ResearchLimit(r), GenerationLimit(r)' >= GenerationLimit(r)
    PROVE  PaidFor(r)
<1>1. Researched(r)' <= Researched(r) /\ Generated(r)' <= Generated(r)
  BY NoneNewCounts DEF NoneNew
<1>2. /\ Researched(r) \in Nat /\ Generated(r) \in Nat /\ restarts \in Nat
      /\ ResearchLimit(r) \in Nat /\ GenerationLimit(r) \in Nat
      /\ Researched(r)' \in Nat /\ Generated(r)' \in Nat /\ restarts' \in Nat
      /\ ResearchLimit(r)' \in Nat /\ GenerationLimit(r)' \in Nat
  BY CountTypes, CountTypesNext DEF CountsTyped
<1> QED BY <1>1, <1>2 DEF PaidFor

\* The scans a step leaves alone.
LEMMA OthersPaid ==
    ASSUME TypeInv, TypeInv', NEW r \in Runs, NoneNew(r), UNCHANGED restarts,
           row'[r].status = row[r].status,
           row'[r].status \in Active => row'[r].count = row[r].count /\ (row'[r].wait = "none" <=> row[r].wait = "none"),
           row'[r].status \in Active => (WorkerSaving(r)' <=> WorkerSaving(r)),
           row'[r].status \in Active => \A status \in Late : TickSaving(r, status)' <=> TickSaving(r, status)
    PROVE  PaidFor(r)
<1>1. ResearchLimit(r)' = ResearchLimit(r) /\ GenerationLimit(r)' = GenerationLimit(r)
  <2>1. CASE row[r].status \notin Active
    BY <2>1 DEF ResearchLimit, GenerationLimit, Active, Preparing
  <2>2. CASE row[r].status \in Active
    <3>1. /\ If(WorkerSaving(r))' = If(WorkerSaving(r)) /\ If(TickSaving(r, "drafting"))' = If(TickSaving(r, "drafting"))
          /\ \A status \in Late : If(row[r].wait = "none" \/ TickSaving(r, status))' =
                                    If(row[r].wait = "none" \/ TickSaving(r, status))
      BY <2>2 DEF If, Late
    <3> QED BY <2>2, <3>1 DEF ResearchLimit, GenerationLimit, Late
  <2> QED BY <2>1, <2>2
<1>2. restarts \in Nat /\ ResearchLimit(r) \in Nat /\ GenerationLimit(r) \in Nat
  BY CountTypes DEF CountsTyped
<1> QED BY <1>1, <1>2, NonePaid

\* An undisturbed scan in preparation has spent nothing until its worker has started the discovery.
LEMMA NothingSpent ==
    ASSUME FollowInv, NEW r \in Runs \ disturbed, row[r].status \in Preparing
    PROVE  ResearchLimit(r) = If(WorkerSaving(r)) /\ GenerationLimit(r) = 0
BY DEF FollowInv, TickFollows, ResearchLimit, GenerationLimit, TickSaving, If, Preparing, Late, Advancing

\* A new round has no attempt yet.
LEMMA RoundCounts ==
    ASSUME TypeInv, TypeInv', FollowInv, CountInv, NEW r \in Runs, NEW date \in 0..MaxDay, BeginsRound(r, date),
           ActiveRuns \subseteq disturbed
    PROVE  CountInv'
<1>1. TypeOK /\ Placed /\ row' = WithNewRound(r, date) /\ UNCHANGED <<disturbed, restarts>>
  BY DEF TypeInv, BeginsRound
<1>2. /\ DOMAIN research' = Researches /\ DOMAIN generation' = Generations
      /\ \A d \in Researches : research'[d] = research[d] \/ research'[d].of = 0
      /\ \A g \in Generations : generation'[g] = generation[g] \/ generation'[g].of = 0
  BY <1>1, ReusedRows DEF BeginsRound, Unused
<1>3. /\ round'[r] = round[r] + 1 /\ round[r] \in Nat /\ 0 \notin Runs
      /\ \A s \in Runs \ {r} : round'[s] = round[s]
  <2>1. round \in [Runs -> 0..MaxRounds] /\ round' = [round EXCEPT ![r] = round[r] + 1]
    BY <1>1 DEF BeginsRound, TypeOK
  <2>2. 0 \notin Runs
    BY DEF Runs
  <2> QED BY <2>1, <2>2
<1>4. Researched(r)' = 0 /\ Generated(r)' = 0
  <2>1. \A d \in Researches : research[d].of = r => research[d].round <= round[r] /\ research[d].round \in Nat
    BY <1>1, <1>3 DEF Placed, TypeOK, ResearchRows
  <2>2. \A g \in Generations : generation[g].of = r => generation[g].round <= round[r] /\ generation[g].round \in Nat
    BY <1>1, <1>3 DEF Placed, TypeOK, GenerationRows
  <2>3. Attempts(research, r)' = {}
    <3>1. \A d \in Researches : ~(research'[d].of = r /\ research'[d].round = round'[r])
      BY <1>2, <1>3, <2>1
    <3> QED BY <1>2, <3>1 DEF Attempts
  <2>4. Attempts(generation, r)' = {}
    <3>1. \A g \in Generations : ~(generation'[g].of = r /\ generation'[g].round = round'[r])
      BY <1>2, <1>3, <2>2
    <3> QED BY <1>2, <3>1 DEF Attempts
  <2> QED BY <2>3, <2>4, FS_EmptySet DEF Researched, Generated
<1>5. ASSUME NEW s \in Runs \ disturbed, s # r PROVE PaidFor(s)
  <2>1. row[s].status \notin Active /\ row'[s].status = row[s].status
    BY <1>1, <1>5 DEF ActiveRuns, WithNewRound, Over, Absent
  <2>2. NoneNew(s)
    BY <1>2, <1>3, <1>5 DEF NoneNew, Spares
  <2> QED BY <1>1, <2>1, <2>2, OthersPaid
<1> QED BY <1>1, <1>4, <1>5, CountsPaid

\* Starts and retries keep the counts within their limits.
LEMMA StarterCounts ==
    ASSUME TypeInv, TypeInv', FollowInv, CountInv,
           StarterSteps \/ OwnerStarts \/ TickStarts \/ \E r \in Runs : OwnerRetries(r)
    PROVE  CountInv'
<1>1. TypeOK /\ tick \in Ticks
  BY DEF TypeInv, TypeOK
<1>2. CASE OwnerStarts \/ TickStarts \/ StartRefused
  <2>1. /\ UNCHANGED <<row, research, generation, disturbed, worker, round, restarts>> /\ ActiveRuns \subseteq disturbed
    BY <1>2 DEF OwnerStarts, TickStarts, StartReads, StartRefused, MayStart, StarterDone, FollowInv, StarterAlone, jobs
  <2>2. \A r \in Runs \ disturbed' : PaidFor(r)
    BY <2>1, OthersPaid DEF NoneNew, Spares, ActiveRuns
  <2> QED BY <2>1, <2>2, CountsPaid
<1>3. ASSUME NEW r \in Runs, StartCreates(r) PROVE CountInv'
  <2>1. ActiveRuns \subseteq disturbed
    BY <1>3 DEF StartCreates, StarterDone, FollowInv, StarterAlone
  <2> QED BY <1>3, <2>1, CreateBegins, RoundCounts
<1>4. ASSUME NEW r \in Runs, OwnerRetries(r) PROVE CountInv'
  <2>1. ActiveRuns \subseteq disturbed
    BY <1>4 DEF OwnerRetries, MayStart
  <2> QED BY <1>4, <2>1, RetryBegins, RoundCounts
<1> QED BY <1>2, <1>3, <1>4 DEF StarterSteps

\* A job of another scan is no attempt of this one.
LEMMA OthersJob ==
    ASSUME TypeInv, NEW r \in Runs, NEW s \in Runs, NEW state, UNCHANGED round
    PROVE  /\ \A d \in Researches : research' = [research EXCEPT ![d] = Job(s, state)] =>
                  /\ \A e \in Researches \ {d} : Spares(research, r, e)
                  /\ r # s => Spares(research, r, d)
           /\ \A g \in Generations : generation' = [generation EXCEPT ![g] = Job(s, state)] =>
                  /\ \A e \in Generations \ {g} : Spares(generation, r, e)
                  /\ r # s => Spares(generation, r, g)
<1>1. research \in [Researches -> ResearchRows] /\ generation \in [Generations -> GenerationRows] /\ Job(s, state).of = s
  BY DEF TypeInv, TypeOK, Job
<1> QED BY <1>1 DEF Spares

\* The worker pays for the first discovery.
LEMMA WorkerCounts ==
    ASSUME TypeInv, TypeInv', FollowInv, CountInv,
           \/ WorkerDefers \/ WorkerReads \/ WorkerPrefilters \/ (\E r \in Runs : WorkerTakes(r))
           \/ \E d \in Researches : WorkerSteps(d)
    PROVE  CountInv'
<1> DEFINE w == worker.run
<1>1. TypeOK /\ worker \in Workers /\ worker.copy \in Rows /\ (worker.at # "idle" => w \in Runs)
  BY DEF TypeInv, TypeOK, Placed, Workers
<1>2. worker.at \in Busy /\ w \notin disturbed => row[w].status \in Preparing /\ worker.copy.status \in Preparing
  BY DEF FollowInv, WorkerFollows
\* Those that neither start the discovery nor record it.
<1>3. ASSUME UNCHANGED <<research, generation, tick, round, restarts>>, disturbed \subseteq disturbed',
             worker.at # "save", worker'.at # "save", worker.at # "idle" \/ row' = row,
             \A s \in Runs \ {w} : row'[s] = row[s],
             row' # row => w \in disturbed' \/ row[w].status \in Preparing
      PROVE  CountInv'
  <2>1. ASSUME NEW r \in Runs \ disturbed' PROVE PaidFor(r)
    <3>1. NoneNew(r)
      BY <1>3 DEF NoneNew, Spares
    <3>2. CASE row'[r] = row[r]
      BY <1>3, <3>1, <3>2, OthersPaid DEF WorkerSaving, TickSaving
    <3>3. CASE row'[r] # row[r]
      <4>1. ResearchLimit(r) = 0 /\ GenerationLimit(r) = 0
        BY <1>3, <3>3, NothingSpent DEF WorkerSaving, If
      <4>2. ResearchLimit(r)' >= 0 /\ GenerationLimit(r)' >= 0 /\ restarts \in Nat
        BY CountTypes, CountTypesNext DEF CountsTyped
      <4> QED BY <1>3, <3>1, <4>1, <4>2, NonePaid
    <3> QED BY <3>2, <3>3
  <2> QED BY <1>3, <2>1, CountsPaid
<1>4. ASSUME NEW r \in Runs, WorkerTakes(r) PROVE CountInv'
  <2>1. UNCHANGED <<row, research, generation, disturbed, tick, round, restarts>>
        /\ \A s \in Runs : WorkerSaving(s)' <=> WorkerSaving(s)
    <3>1. worker' = worker \/ (worker.at # "save" /\ worker'.at # "save")
      BY <1>4 DEF WorkerTakes, IdleWorker
    <3>2. \A s \in Runs : WorkerSaving(s)' <=> WorkerSaving(s)
      BY <3>1 DEF WorkerSaving
    <3> QED BY <1>4, <3>2 DEF WorkerTakes, jobs, starts
  <2>2. \A s \in Runs \ disturbed' : PaidFor(s)
    BY <2>1, OthersPaid DEF NoneNew, Spares, TickSaving
  <2> QED BY <2>1, <2>2, CountsPaid
<1>5. CASE WorkerReads
  <2>1. worker'.at # "save"
    BY <1>1, <1>5 DEF WorkerReads, Workers, IdleWorker
  <2> QED BY <1>3, <1>5, <2>1 DEF WorkerReads, WorkerOnly, jobs, starts
<1>6. CASE WorkerDefers
  <2>1. worker'.at # "save" /\ \A s \in Runs \ {w} : row'[s] = row[s]
    BY <1>1, <1>6 DEF WorkerDefers, WorkerDone, IdleWorker, TypeOK
  <2> QED BY <1>3, <1>6, <2>1 DEF WorkerDefers, WorkerOnly, jobs, starts
<1>7. ASSUME worker.at \in Busy \ {"save"}, NEW new, Write(w, new), WorkerOnly, UNCHANGED jobs, worker'.at # "save"
      PROVE  CountInv'
  <2>1. /\ disturbed \subseteq disturbed' /\ \A s \in Runs \ {w} : row'[s] = row[s]
        /\ UNCHANGED <<research, generation, tick, round, restarts>>
    BY <1>1, <1>7 DEF Write, WorkerOnly, jobs, starts, TypeOK
  <2> QED BY <1>2, <1>3, <1>7, <2>1 DEF Busy
<1>8. CASE WorkerPrefilters \/ WorkerEnriches
  <2>1. worker'.at # "save"
    BY <1>1, <1>8 DEF WorkerPrefilters, WorkerEnriches, WorkerGoesOn, Workers
  <2> QED BY <1>7, <1>8, <2>1 DEF WorkerPrefilters, WorkerEnriches, WorkerGoesOn, Busy
<1>9. ASSUME NEW retryable \in BOOLEAN, WorkerFails(retryable) PROVE CountInv'
  BY <1>7, <1>9 DEF WorkerFails, WorkerEnds, WorkerDone, IdleWorker, Busy
<1>10. CASE WorkerOpens
  <2>1. /\ worker.at \in Busy \ {"save"} /\ worker'.at # "save" /\ disturbed' = disturbed
        /\ \A s \in Runs \ {w} : row'[s] = row[s]
        /\ UNCHANGED <<research, generation, tick, round, restarts>>
    BY <1>1, <1>10 DEF WorkerOpens, WorkerOnly, jobs, starts, Workers, Busy, TypeOK
  <2> QED BY <1>2, <1>3, <2>1 DEF Busy
<1>11. CASE WorkerSaves
  <2> DEFINE new == [worker.copy EXCEPT !.status = "researching", !.count = 0, !.wait = "none"]
  <2>1. /\ new \in Rows /\ new.status = "researching" /\ new.count = 0 /\ new.wait = "none"
        /\ worker.at = "save" /\ w \in Runs
    <3>1. 0 \in 0..MaxRetries
      BY DEF MaxRetries
    <3> QED BY <1>1, <1>11, <3>1 DEF WorkerSaves, Rows, Active
  <2>2. Write(w, new) /\ UNCHANGED <<research, generation, tick, round, restarts>> /\ worker' = IdleWorker
    BY <1>11 DEF WorkerSaves, WorkerEnds, WorkerDone, WorkerOnly, jobs, starts
  <2> HIDE DEF new
  <2>3. /\ disturbed \subseteq disturbed' /\ \A s \in Runs \ {w} : row'[s] = row[s]
        /\ w \in disturbed' \/ row'[w] = new
    BY <1>1, <2>1, <2>2, WriteRow
  <2>4. ASSUME NEW r \in Runs \ disturbed' PROVE PaidFor(r)
    <3>1. NoneNew(r) /\ r \notin disturbed
      BY <2>2, <2>3 DEF NoneNew, Spares
    <3>2. CASE r # w
      BY <2>2, <2>3, <3>1, <3>2, OthersPaid DEF WorkerSaving, TickSaving, IdleWorker
    <3>3. CASE r = w
      <4>1. ResearchLimit(r) = 1 /\ GenerationLimit(r) = 0
        BY <1>2, <2>1, <3>1, <3>3, NothingSpent DEF WorkerSaving, If, Busy
      <4>2. ResearchLimit(r)' = 1
        BY <2>1, <2>3, <3>3 DEF ResearchLimit, If, Preparing
      <4>3. GenerationLimit(r)' >= 0 /\ restarts \in Nat
        BY CountTypes, CountTypesNext DEF CountsTyped
      <4> QED BY <2>2, <3>1, <4>1, <4>2, <4>3, NonePaid
    <3> QED BY <3>2, <3>3
  <2> QED BY <2>3, <2>4, CountsPaid
<1>12. ASSUME NEW d \in Researches, WorkerStarts(d) PROVE CountInv'
  <2>1. /\ worker.at = "start" /\ w \in Runs /\ UNCHANGED <<generation, tick, round, restarts>>
        /\ \E state \in {"running", "orphaned"} : research' = [research EXCEPT ![d] = Job(w, state)]
    BY <1>1, <1>12 DEF WorkerStarts, WorkerOnly, Discover, DiscoverInVain, starts
  <2>2. /\ \A s \in Runs \ {w} : row'[s] = row[s]
        /\ disturbed \subseteq disturbed' /\ (worker' = IdleWorker \/ worker'.run = w)
        /\ w \in disturbed' \/ (row'[w].status = row[w].status /\ worker'.at = "save" /\ worker'.run = w)
    <3>1. CASE DiscoverInVain(w, d, Failed(worker.copy, TRUE)) /\ WorkerDone
      BY <1>1, <2>1, <3>1 DEF DiscoverInVain, WorkerDone, TypeOK
    <3>2. CASE Discover(w, d) /\ worker' = [worker EXCEPT !.at = "save", !.copy = [worker.copy EXCEPT !.research = d]]
      <4>1. worker'.at = "save" /\ worker'.run = w
        BY <1>1, <3>2 DEF Workers
      <4> QED BY <1>1, <2>1, <3>2, <4>1 DEF Discover, TypeOK, Rows
    <3> QED BY <1>12, <3>1, <3>2 DEF WorkerStarts
  <2>3. ASSUME NEW r \in Runs \ disturbed' PROVE PaidFor(r)
    <3>1. (\A e \in Researches \ {d} : Spares(research, r, e)) /\ (r # w => Spares(research, r, d))
      BY <2>1, OthersJob
    <3>2. CASE r # w
      <4>1. \A g \in Generations : Spares(generation, r, g)
        BY <2>1 DEF Spares
      <4>2. NoneNew(r)
        BY <2>1, <3>1, <3>2, <4>1 DEF NoneNew
      <4> QED BY <2>1, <2>2, <3>2, <4>2, OthersPaid DEF WorkerSaving, TickSaving, IdleWorker
    <3>3. CASE r = w
      <4>1. row[r].status \in Preparing /\ ResearchLimit(r) = 0 /\ GenerationLimit(r) = 0
        BY <1>2, <2>1, <2>2, <3>3, NothingSpent DEF WorkerSaving, If, Busy
      <4>2. ResearchLimit(r)' = 1
        BY <2>2, <3>3, <4>1 DEF ResearchLimit, If, WorkerSaving
      <4>3. Researched(r)' <= Researched(r) + 1
        BY <2>1, <3>1, OneNewCounts
      <4>4. Generated(r)' <= Generated(r)
        BY <2>1, NoneNewCounts DEF Spares
      <4>5. /\ Researched(r) \in Nat /\ Generated(r) \in Nat /\ restarts \in Nat
            /\ Researched(r)' \in Nat /\ Generated(r)' \in Nat /\ GenerationLimit(r)' \in Nat
        BY CountTypes, CountTypesNext DEF CountsTyped
      <4> QED BY <2>1, <4>1, <4>2, <4>3, <4>4, <4>5 DEF PaidFor
    <3> QED BY <3>2, <3>3
  <2> QED BY <2>2, <2>3, CountsPaid
<1> QED BY <1>4, <1>5, <1>6, <1>8, <1>9, <1>10, <1>11, <1>12 DEF WorkerSteps

\* The ticker pays for every repeated discovery and for each generation.
LEMMA TickCounts ==
    ASSUME TypeInv, TypeInv', FollowInv, CountInv, TickSteps
    PROVE  CountInv'
<1> DEFINE t == tick.run
<1>1. TypeOK /\ tick \in Ticks /\ tick.copy \in Rows /\ (tick.at \in Advancing => t \in Runs)
  BY DEF TypeInv, TypeOK, Placed, Ticks
<1>2. /\ tick.at = "advance" /\ t \notin disturbed =>
             row[t] = tick.copy /\ tick.copy.status \in Late /\ tick.copy.wait # "later"
      /\ row \in [Runs -> Rows] /\ tick.copy.count \in 0..2 /\ MaxRetries = 2
  BY <1>1 DEF FollowInv, TickFollows, Advancing, TypeOK, Rows, MaxRetries
\* The ticker's copy does not reach the store.
<1>3. ASSUME UNCHANGED <<research, disturbed, row, worker, round, restarts>>, tick.at # "save", tick'.at # "save",
             generation' = generation \/ TickRecovers
      PROVE  CountInv'
  <2>1. \A g \in Generations : generation'[g].of = generation[g].of /\ generation'[g].round = generation[g].round
    BY <1>1, <1>3 DEF TickRecovers, TypeOK, GenerationRows
  <2>2. \A r \in Runs \ disturbed' : PaidFor(r)
    BY <1>3, <2>1, OthersPaid DEF NoneNew, Spares, WorkerSaving, TickSaving
  <2> QED BY <1>3, <2>2, CountsPaid
<1>4. CASE TickPasses \/ TickWantsScan \/ TickRecovers
  BY <1>3, <1>4 DEF TickPasses, TickRefused, TickLaunches, TickWaits, TickWantsScan, TickRecovers, TickOnly, jobs, starts,
                    IdleWorker, Pending, At, MayTick
<1>5. CASE TickStarts
  BY <1>5, StarterCounts
<1>6. ASSUME NEW r \in Runs, TickReads(r) PROVE CountInv'
  <2>1. tick'.at # "save"
    BY <1>6 DEF TickReads, IdleWorker
  <2> QED BY <1>3, <1>6, <2>1 DEF TickReads, MayTick, TickOnly, jobs
\* It does, or the scan is disturbed.
<1>7. ASSUME UNCHANGED <<research, generation, worker, round, restarts>>, disturbed \subseteq disturbed',
             tick.at \in Advancing, tick' = IdleWorker, \A s \in Runs \ {t} : row'[s] = row[s],
             \A r \in Runs \ disturbed' : r = t =>
                 ResearchLimit(r)' >= ResearchLimit(r) /\ GenerationLimit(r)' >= GenerationLimit(r)
      PROVE  CountInv'
  <2>1. ASSUME NEW r \in Runs \ disturbed' PROVE PaidFor(r)
    <3>1. NoneNew(r)
      BY <1>7 DEF NoneNew, Spares
    <3>2. CASE r # t
      BY <1>7, <3>1, <3>2, OthersPaid DEF WorkerSaving, TickSaving, IdleWorker
    <3>3. CASE r = t
      <4>1. restarts \in Nat
        BY CountTypes DEF CountsTyped
      <4> QED BY <1>7, <3>1, <3>3, <4>1, NonePaid
    <3> QED BY <3>2, <3>3
  <2> QED BY <1>7, <2>1, CountsPaid
<1>8. ASSUME UNCHANGED <<research, generation, worker, round, restarts>>, disturbed \subseteq disturbed',
             tick.at \in Advancing, tick' = IdleWorker, \A s \in Runs \ {t} : row'[s] = row[s],
             NEW new \in Rows, t \in disturbed' \/ row'[t] = new,
             \/ new.status \in Ended
             \/ /\ tick.at = "advance" /\ new.status = tick.copy.status
                /\ new.wait = "later" /\ new.count = tick.copy.count + 1
             \/ tick.at = "save" /\ new = tick.copy
      PROVE  CountInv'
  <2>1. /\ disturbed \subseteq disturbed' /\ \A s \in Runs \ {t} : row'[s] = row[s]
        /\ t \in disturbed' \/ row'[t] = new
        /\ UNCHANGED <<research, generation, worker, round, restarts>> /\ tick' = IdleWorker /\ t \in Runs
    BY <1>1, <1>8
  <2>2. ASSUME NEW r \in Runs \ disturbed', r = t
        PROVE  ResearchLimit(r)' >= ResearchLimit(r) /\ GenerationLimit(r)' >= GenerationLimit(r)
    <3>1. /\ row'[r] = new /\ \A status : ~TickSaving(r, status)'
          /\ row[r].status \in Late /\ row[r].count \in 0..2 /\ new.count \in 0..2
      BY <1>1, <1>2, <1>8, <2>1, <2>2 DEF FollowInv, TickFollows, TickSaving, IdleWorker, TypeOK, Rows, MaxRetries
    <3>2. /\ ResearchLimit(r) \in 0..3 /\ GenerationLimit(r) \in 0..3
          /\ ResearchLimit(r)' \in 0..3 /\ GenerationLimit(r)' \in 0..3
      BY CountTypes, CountTypesNext DEF CountsTyped
    <3>3. CASE new.status \in Ended
      <4>1. ResearchLimit(r)' = 3 /\ GenerationLimit(r)' = 3
        BY <3>1, <3>3 DEF ResearchLimit, GenerationLimit, Ended, Preparing, MaxRetries
      <4> QED BY <3>2, <4>1
    <3>4. CASE tick.at = "advance" /\ new.status = tick.copy.status /\ new.wait = "later" /\ new.count = tick.copy.count + 1
      <4>1. row[r] = tick.copy /\ \A status : ~TickSaving(r, status)
        BY <1>2, <2>1, <2>2, <3>4 DEF TickSaving
      <4>2. CASE row[r].status = "researching"
        BY <3>1, <3>2, <3>4, <4>1, <4>2 DEF ResearchLimit, GenerationLimit, Preparing, If
      <4>3. CASE row[r].status = "drafting"
        BY <3>1, <3>2, <3>4, <4>1, <4>3 DEF ResearchLimit, GenerationLimit, Preparing, If
      <4> QED BY <3>1, <4>2, <4>3 DEF Late
    <3>5. CASE tick.at = "save" /\ new = tick.copy
      <4>1. /\ \A status : TickSaving(r, status) <=> status = new.status
            /\ new.wait = "none"
            /\ \/ new.status = row[r].status /\ new.count = row[r].count
               \/ new.status = "drafting" /\ row[r].status = "researching" /\ new.count = 0
        BY <2>1, <2>2, <3>5 DEF FollowInv, TickFollows, TickSaving, Advancing
      <4>2. CASE new.status = "researching" /\ row[r].status = "researching"
        <5>1. ResearchLimit(r)' = new.count + 1 /\ ResearchLimit(r) = new.count + 1
          BY <3>1, <4>1, <4>2 DEF ResearchLimit, Preparing, If
        <5>2. GenerationLimit(r) = 0
          BY <3>1, <4>1, <4>2 DEF GenerationLimit, Preparing, If
        <5> QED BY <3>2, <5>1, <5>2
      <4>3. CASE new.status = "drafting"
        <5>1. ResearchLimit(r)' = 3 /\ GenerationLimit(r)' = new.count + 1
          BY <1>2, <3>1, <4>1, <4>3 DEF ResearchLimit, GenerationLimit, Preparing, If
        <5>2. GenerationLimit(r) = new.count + 1
          <6>1. CASE row[r].status = "researching" /\ new.count = 0
            BY <3>1, <4>1, <4>3, <6>1 DEF GenerationLimit, Preparing, If
          <6>2. CASE row[r].status = "drafting" /\ new.count = row[r].count
            BY <3>1, <4>1, <4>3, <6>2 DEF GenerationLimit, Preparing, If
          <6> QED BY <4>1, <4>3, <6>1, <6>2
        <5> QED BY <3>2, <5>1, <5>2
      <4> QED BY <3>1, <4>1, <4>2, <4>3 DEF Late
    <3> QED BY <1>8, <3>3, <3>4, <3>5
  <2> QED BY <1>7, <1>8, <2>1, <2>2
<1>15. ASSUME tick.at \in Advancing, NEW new \in Rows, TickEnds(new), UNCHANGED jobs
       PROVE  /\ UNCHANGED <<research, generation, worker, round, restarts>> /\ disturbed \subseteq disturbed'
              /\ tick' = IdleWorker /\ \A s \in Runs \ {t} : row'[s] = row[s]
              /\ t \in disturbed' \/ row'[t] = new
  BY <1>1, <1>15, WriteRow DEF TickEnds, TickOnly, jobs
<1>9. CASE TickCannotRead
  <2> DEFINE failed == Failed(tick.copy, TRUE)
  <2>1. /\ failed \in Rows
        /\ failed.status = "failed"
           \/ (failed.status = tick.copy.status /\ failed.wait = "later" /\ failed.count = tick.copy.count + 1)
    BY <1>1, FailedRow
  <2> HIDE DEF failed
  <2>2. /\ tick.at = "advance" /\ disturbed \subseteq disturbed' /\ tick' = IdleWorker
        /\ UNCHANGED <<research, generation, worker, round, restarts>>
        /\ t \in disturbed' \/ row' = [row EXCEPT ![t] = failed]
        /\ row' = row \/ row' = [row EXCEPT ![t] = failed]
    BY <1>9 DEF TickCannotRead, TickOnly, jobs, At, failed
  <2>3. (\A s \in Runs \ {t} : row'[s] = row[s]) /\ (t \in disturbed' \/ row'[t] = failed)
    BY <1>1, <1>2, <2>2 DEF Advancing
  <2> QED BY <1>8, <2>1, <2>2, <2>3 DEF Advancing, Ended
<1>10. CASE TickSaves
  <2>1. tick.at = "save" /\ TickEnds(tick.copy) /\ UNCHANGED jobs
    BY <1>10 DEF TickSaves
  <2> QED BY <1>1, <1>8, <1>15, <2>1 DEF Advancing
<1>11. ASSUME NEW retryable \in BOOLEAN, TickGivesUp(retryable) PROVE CountInv'
  <2> DEFINE new == Failed(tick.copy, retryable)
  <2>1. /\ new \in Rows
        /\ new.status = "failed" \/ (new.status = tick.copy.status /\ new.wait = "later" /\ new.count = tick.copy.count + 1)
    BY <1>1, FailedRow
  <2> HIDE DEF new
  <2>2. tick.at = "advance" /\ TickEnds(new) /\ UNCHANGED jobs
    BY <1>11 DEF TickGivesUp, new
  <2> QED BY <1>8, <1>15, <2>1, <2>2 DEF Advancing, Ended
<1>12. ASSUME NEW status \in {"completed", "partial"}, TickDone(status) PROVE CountInv'
  <2> DEFINE new == [tick.copy EXCEPT !.status = status]
  <2>1. new \in Rows /\ new.status \in Ended
    BY <1>1 DEF Rows, Ended
  <2> HIDE DEF new
  <2>2. tick.at = "advance" /\ TickEnds(new) /\ UNCHANGED jobs
    BY <1>12 DEF TickDone, TickFinishes, new
  <2> QED BY <1>8, <1>15, <2>1, <2>2 DEF Advancing
<1>13. ASSUME NEW d \in Researches, TickRepeatsResearch(d) PROVE CountInv'
  <2>1. /\ tick.at = "advance" /\ t \in Runs /\ UNCHANGED <<generation, worker, round, restarts>>
        /\ tick.copy.status = "researching" /\ tick.copy.wait = "due"
        /\ \E state \in {"running", "orphaned"} : research' = [research EXCEPT ![d] = Job(t, state)]
    BY <1>1, <1>13 DEF TickRepeatsResearch, TickOnly, Discover, DiscoverInVain, At, Advancing
  <2>2. /\ \A s \in Runs \ {t} : row'[s] = row[s]
        /\ disturbed \subseteq disturbed' /\ (tick' = IdleWorker \/ tick'.run = t)
        /\ \/ t \in disturbed'
           \/ /\ row'[t].status = row[t].status /\ row'[t].count = row[t].count /\ row'[t].wait = row[t].wait
              /\ tick'.at = "save" /\ tick'.run = t /\ tick'.copy.status = "researching"
    <3>1. CASE DiscoverInVain(t, d, Failed(tick.copy, FALSE)) /\ tick' = IdleWorker
      BY <1>1, <2>1, <3>1 DEF DiscoverInVain, TypeOK
    <3>2. CASE /\ Discover(t, d)
               /\ tick' = [tick EXCEPT !.at = "save", !.copy = [Repeated(tick.copy) EXCEPT !.research = d]]
      <4>1. tick'.at = "save" /\ tick'.run = t /\ tick'.copy.status = "researching"
        BY <1>1, <2>1, <3>2 DEF Ticks, Rows, Repeated
      <4> QED BY <1>1, <2>1, <3>2, <4>1 DEF Discover, TypeOK, Rows
    <3> QED BY <1>13, <3>1, <3>2 DEF TickRepeatsResearch
  <2>3. ASSUME NEW r \in Runs \ disturbed' PROVE PaidFor(r)
    <3>1. (\A e \in Researches \ {d} : Spares(research, r, e)) /\ (r # t => Spares(research, r, d))
      BY <2>1, OthersJob
    <3>2. \A g \in Generations : Spares(generation, r, g)
      BY <2>1 DEF Spares
    <3>3. CASE r # t
      <4>1. NoneNew(r)
        BY <2>1, <3>1, <3>2, <3>3 DEF NoneNew
      <4> QED BY <2>1, <2>2, <3>3, <4>1, OthersPaid DEF WorkerSaving, TickSaving, IdleWorker
    <3>4. CASE r = t
      <4>1. row[r].status = "researching" /\ row[r].wait = "due" /\ row[r].count \in Nat
        BY <1>2, <2>1, <2>2, <3>4 DEF Rows
      <4>2. ResearchLimit(r) = row[r].count /\ ResearchLimit(r)' = row[r].count + 1
        <5>1. TickSaving(r, "researching")' /\ ~TickSaving(r, "researching")
          BY <2>1, <2>2, <3>4 DEF TickSaving
        <5> QED BY <2>2, <3>4, <4>1, <5>1 DEF ResearchLimit, Preparing, If
      <4>3. GenerationLimit(r) = 0
        BY <2>1, <4>1 DEF GenerationLimit, TickSaving, If
      <4>4. Researched(r)' <= Researched(r) + 1 /\ Generated(r)' <= Generated(r)
        BY <2>1, <3>1, <3>2, OneNewCounts, NoneNewCounts
      <4>5. /\ Researched(r) \in Nat /\ Generated(r) \in Nat /\ restarts \in Nat
            /\ Researched(r)' \in Nat /\ Generated(r)' \in Nat /\ GenerationLimit(r)' \in Nat
        BY CountTypes, CountTypesNext DEF CountsTyped
      <4> QED BY <2>1, <4>1, <4>2, <4>3, <4>4, <4>5 DEF PaidFor
    <3> QED BY <3>3, <3>4
  <2> QED BY <2>2, <2>3, CountsPaid
<1>14. ASSUME NEW g \in Generations, NEW next \in Rows, TickGenerates(g, next) PROVE CountInv'
  <2>1. /\ tick.at = "advance" /\ t \in Runs /\ UNCHANGED <<row, research, disturbed, worker, round, restarts>>
        /\ tick.copy.status = "drafting" => tick.copy.wait = "due"
        /\ generation' = [generation EXCEPT ![g] = Job(t, "running")]
        /\ tick' = [tick EXCEPT !.at = "save", !.copy = [next EXCEPT !.generation = g]] /\ next.status = "drafting"
    BY <1>1, <1>14 DEF TickGenerates, Generate, TickOnly, Advancing, Rows
  <2>2. tick'.at = "save" /\ tick'.run = t /\ tick'.copy.status = "drafting"
    BY <1>1, <2>1 DEF Ticks, Rows
  <2>3. ASSUME NEW r \in Runs \ disturbed' PROVE PaidFor(r)
    <3>1. (\A e \in Generations \ {g} : Spares(generation, r, e)) /\ (r # t => Spares(generation, r, g))
      BY <2>1, OthersJob
    <3>2. \A d \in Researches : Spares(research, r, d)
      BY <2>1 DEF Spares
    <3>3. CASE r # t
      <4>1. NoneNew(r)
        BY <2>1, <3>1, <3>2, <3>3 DEF NoneNew
      <4> QED BY <2>1, <2>2, <3>3, <4>1, OthersPaid DEF WorkerSaving, TickSaving
    <3>4. CASE r = t
      <4>1. row[r].status \in Late /\ (row[r].status = "drafting" => row[r].wait = "due") /\ row[r].count \in Nat
        BY <1>2, <2>1, <3>4
      <4>2. TickSaving(r, "drafting")' /\ ~TickSaving(r, "researching")' /\ \A status : ~TickSaving(r, status)
        BY <2>1, <2>2, <3>4 DEF TickSaving
      <4>3. GenerationLimit(r)' = GenerationLimit(r) + 1
        <5>1. CASE row[r].status = "researching"
          BY <2>1, <4>2, <5>1 DEF GenerationLimit, If
        <5>2. CASE row[r].status = "drafting"
          BY <2>1, <4>1, <4>2, <5>2 DEF GenerationLimit, Preparing, If
        <5> QED BY <4>1, <5>1, <5>2 DEF Late
      <4>4. ResearchLimit(r)' = ResearchLimit(r)
        <5>1. CASE row[r].status = "researching"
          BY <2>1, <4>2, <5>1 DEF ResearchLimit, Preparing, If
        <5>2. CASE row[r].status = "drafting"
          BY <2>1, <5>2 DEF ResearchLimit, Preparing
        <5> QED BY <4>1, <5>1, <5>2 DEF Late
      <4>5. Researched(r)' <= Researched(r) /\ Generated(r)' <= Generated(r) + 1
        BY <2>1, <3>1, <3>2, OneNewCounts, NoneNewCounts
      <4>6. /\ Researched(r) \in Nat /\ Generated(r) \in Nat /\ restarts \in Nat
            /\ Researched(r)' \in Nat /\ Generated(r)' \in Nat /\ GenerationLimit(r) \in Nat /\ ResearchLimit(r) \in Nat
        BY CountTypes, CountTypesNext DEF CountsTyped
      <4> QED BY <2>1, <4>3, <4>4, <4>5, <4>6 DEF PaidFor
    <3> QED BY <3>3, <3>4
  <2> QED BY <2>1, <2>3, CountsPaid
<1> QED BY <1>4, <1>5, <1>6, <1>9, <1>10, <1>11, <1>12, <1>13, <1>14, TickKinds

\* Every step keeps the counts within what the row says was paid.
LEMMA CountStep == ASSUME TypeInv, TypeInv', FollowInv, CountInv, [Next]_vars PROVE CountInv'
<1>1. TypeOK
  BY DEF TypeInv
<1>2. ASSUME UNCHANGED <<disturbed, worker, tick, round, restarts>>,
             \A r \in Runs : /\ row'[r].status = row[r].status /\ row'[r].count = row[r].count
                             /\ row'[r].wait = "none" <=> row[r].wait = "none",
             \A d \in Researches : research'[d].of = research[d].of /\ research'[d].round = research[d].round,
             \A g \in Generations : generation'[g].of = generation[g].of /\ generation'[g].round = generation[g].round
      PROVE  CountInv'
  <2>1. \A r \in Runs \ disturbed' : PaidFor(r)
    BY <1>2, OthersPaid DEF NoneNew, Spares, WorkerSaving, TickSaving
  <2> QED BY <1>2, <2>1, CountsPaid
<1>3. ASSUME NEW r \in Runs, RetryDue(r) PROVE CountInv'
  <2>1. row' = [row EXCEPT ![r] = [row[r] EXCEPT !.wait = "due"]] /\ row \in [Runs -> Rows] /\ row[r].wait = "later"
    BY <1>1, <1>3 DEF RetryDue, TypeOK
  <2>2. \A s \in Runs : /\ row'[s].status = row[s].status /\ row'[s].count = row[s].count
                        /\ row'[s].wait = "none" <=> row[s].wait = "none"
    BY <2>1 DEF Rows
  <2> QED BY <1>2, <1>3, <2>2 DEF RetryDue, jobs, starts
<1>4. ASSUME NEW d \in Researches, ResearchEnds(d) PROVE CountInv'
  <2>1. \A e \in Researches : research'[e].of = research[e].of /\ research'[e].round = research[e].round
    BY <1>1, <1>4 DEF ResearchEnds, Recorded, TypeOK, ResearchRows
  <2> QED BY <1>2, <1>4, <2>1 DEF ResearchEnds, AgentsOnly, starts
<1>5. ASSUME NEW g \in Generations, GenerationEnds(g) PROVE CountInv'
  <2>1. \A e \in Generations : generation'[e].of = generation[e].of /\ generation'[e].round = generation[e].round
    BY <1>1, <1>5 DEF GenerationEnds, Recorded, TypeOK, GenerationRows
  <2> QED BY <1>2, <1>5, <2>1 DEF GenerationEnds, AgentsOnly, starts
<1>6. CASE \/ OwnerReads \/ (\E e \in BOOLEAN : OwnerSaves(e)) \/ NextDay \/ StartBackground
           \/ (\E a \in Settlers : SettlingSteps(a)) \/ UNCHANGED vars
  BY <1>2, <1>6 DEF OwnerReads, OwnerSaves, NextDay, StartBackground, SettlingSteps, SettlingReads, SettlingSaves,
                    SettlingOnly, AgentsOnly, jobs, starts, vars
\* An attempt that was about to be saved is lost: the scan is disturbed.
<1>8. CASE StopBackground
  <2>1. /\ UNCHANGED <<row, research, generation, worker, round, restarts>> /\ disturbed \subseteq disturbed'
        /\ tick' = tick \/ (tick' = IdleWorker /\ (tick.at = "save" => tick.run \in disturbed'))
    BY <1>8 DEF StopBackground, jobs
  <2>2. \A r \in Runs \ disturbed' : \A status : TickSaving(r, status)' <=> TickSaving(r, status)
    BY <2>1 DEF TickSaving, IdleWorker
  <2>3. \A r \in Runs \ disturbed' : PaidFor(r)
    BY <2>1, <2>2, OthersPaid DEF NoneNew, Spares, WorkerSaving
  <2> QED BY <2>1, <2>3, CountsPaid
\* A restart may lose an attempt that was about to be saved.
<1>7. CASE Restart
  <2>1. /\ UNCHANGED <<row, disturbed, round>> /\ restarts' = restarts + 1
        /\ worker' = IdleWorker /\ tick' = IdleWorker
    BY <1>7 DEF Restart
  <2>2. /\ \A d \in Researches : research'[d].of = research[d].of /\ research'[d].round = research[d].round
        /\ \A g \in Generations : generation'[g].of = generation[g].of /\ generation'[g].round = generation[g].round
    BY <1>1, <1>7 DEF Restart, Interrupted, TypeOK, ResearchRows, GenerationRows
  <2>3. ASSUME NEW r \in Runs PROVE PaidFor(r)
    <3>1. Researched(r)' <= Researched(r) /\ Generated(r)' <= Generated(r)
      BY <2>1, <2>2, NoneNewCounts DEF Spares
    <3>2. /\ Researched(r) \in Nat /\ Generated(r) \in Nat /\ restarts \in Nat
          /\ ResearchLimit(r) \in Nat /\ GenerationLimit(r) \in Nat
          /\ Researched(r)' \in Nat /\ Generated(r)' \in Nat
          /\ ResearchLimit(r)' \in Nat /\ GenerationLimit(r)' \in Nat
      BY CountTypes, CountTypesNext DEF CountsTyped
    <3>3. row[r].count \in Nat
      BY <1>1 DEF TypeOK, Rows, MaxRetries
    <3>4. ResearchLimit(r) <= ResearchLimit(r)' + 1
      BY <2>1, <3>2, <3>3 DEF ResearchLimit, If
    <3>5. GenerationLimit(r) <= GenerationLimit(r)' + 1
      BY <2>1, <3>2, <3>3 DEF GenerationLimit, If
    <3> QED BY <2>1, <3>1, <3>2, <3>4, <3>5 DEF PaidFor
  <2> QED BY <2>1, <2>3, CountsPaid
<1> QED BY <1>3, <1>4, <1>5, <1>6, <1>7, <1>8, StarterCounts, WorkerCounts, TickCounts DEF Next

\* "Retried after 5 and 30 minutes, at most twice": a round of an undisturbed scan costs at most
\* three discoveries and three generations, and one more of a kind for every restart.
THEOREM RetriesAreBounded == Spec => []UndisturbedRetries
<1>1. Init => CountInv
  <2> SUFFICES ASSUME Init, NEW r \in Runs \ disturbed
               PROVE  Researched(r) <= restarts + ResearchLimit(r) /\ Generated(r) <= restarts + GenerationLimit(r)
    BY DEF CountInv
  <2>1. Attempts(research, r) = {} /\ Attempts(generation, r) = {}
    <3>1. /\ DOMAIN research = Researches /\ DOMAIN generation = Generations /\ r # 0
          /\ \A d \in Researches : research[d].of = 0
          /\ \A g \in Generations : generation[g].of = 0
      BY DEF Init, Unused, Runs
    <3> QED BY <3>1 DEF Attempts
  <2>2. Researched(r) = 0 /\ Generated(r) = 0
    BY <2>1, FS_EmptySet DEF Researched, Generated
  <2>3. ResearchLimit(r) \in Nat /\ GenerationLimit(r) \in Nat /\ restarts \in Nat
    BY TypeInit, CountTypes DEF CountsTyped
  <2> QED BY <2>2, <2>3
<1>2. TypeInv /\ CountInv => UndisturbedRetries
  <2> SUFFICES ASSUME TypeInv, CountInv, NEW r \in Runs \ disturbed
               PROVE  /\ Cardinality(Attempts(research, r)) <= 1 + MaxRetries + restarts
                      /\ Cardinality(Attempts(generation, r)) <= 1 + MaxRetries + restarts
    BY DEF UndisturbedRetries
  <2>1. /\ Researched(r) \in Nat /\ Generated(r) \in Nat /\ restarts \in Nat
        /\ ResearchLimit(r) \in 0..3 /\ GenerationLimit(r) \in 0..3
    BY CountTypes DEF CountsTyped
  <2>2. Researched(r) <= restarts + ResearchLimit(r) /\ Generated(r) <= restarts + GenerationLimit(r)
    BY DEF CountInv
  <2> QED BY <2>1, <2>2 DEF Researched, Generated, MaxRetries
<1> QED BY <1>1, <1>2, FollowInit, TypeInit, TypeStep, FollowStep, CountStep, PTL DEF Spec
=============================================================================
