----------------------------- MODULE MarketScan -----------------------------
(***************************************************************************)
(* The opportunity market scan (stockv2/opportunity_market_scan_service.go): *)
(* a durable row per scan, a worker goroutine that prepares it, a scheduler  *)
(* that every 30 seconds moves the newest active scan on, a discovery and a  *)
(* strategy generation that agents carry out, the owner's start, retry and   *)
(* settings, and restarts of the program.                                    *)
(*                                                                          *)
(* Every actor works on a copy of the row it read and writes it back whole.  *)
(* Scores, candidates and quotes are left out: each step succeeds or fails.  *)
(***************************************************************************)
EXTENDS FiniteSets, Naturals

CONSTANTS
    MaxRuns,            \* rows
    MaxRounds,          \* bound on starts and retries by anyone
    MaxResearches,      \* bound on discoveries
    MaxGenerations,     \* bound on strategy generations
    MaxDay,             \* trade dates
    MaxPatches,         \* bound on the owner's changes of the settings
    MaxLates,           \* bound on late workers
    MaxTroubles         \* bound on failing reads and writes of the store, stops of the
                        \* scheduler, late workers, changes of the settings and restarts
                        \* together

ASSUME ScanConstants ==
    /\ {MaxRuns, MaxRounds, MaxResearches, MaxGenerations, MaxPatches, MaxLates, MaxTroubles} \subseteq Nat
    /\ MaxDay \in Nat \ {0}

Runs        == 1..MaxRuns
Researches  == 1..MaxResearches
Generations == 1..MaxGenerations
MaxRetries  == 2        \* opportunityMarketScanMaxRetries

Preparing == {"pending", "prefiltering", "enriching"}
Active    == Preparing \cup {"researching", "drafting"}
Ended     == {"completed", "partial", "failed"}
Absent    == [status |-> "absent", research |-> 0, generation |-> 0,
              count |-> 0, wait |-> "none", date |-> 0]

VARIABLES
    row,            \* stockv2_opportunity_market_scan_runs
    research,       \* discoveries: whose, of which round, and how they stand
    generation,     \* strategy generations, likewise
    launched,       \* worker goroutines that have not tried the flag yet, by run
    worker,         \* the one that holds opportunityScanRun
    tick,           \* the scheduler
    starter,        \* who holds opportunityScanStartMu
    config,         \* the settings row
    settling,       \* the worker's and the ticker's change of the settings after a scan's row
    patch,          \* the owner's change of the settings
    ticking,        \* the scheduler has not been stopped
    today,          \* trade date of the newest data
    round,          \* history: starts and retries of each scan
    autoOn,         \* history: the trade date of each automatic scan
    disturbed,      \* history: scans with a lost write or a late worker, or ended by a
                    \* failing read
    undone,         \* history: trade dates whose claim a lost or stale save took back
    rounds, losses, lates, patches, restarts    \* bounds

owner  == <<patch, today, patches, ticking>>
jobs   == <<research, generation>>
starts == <<starter, config, round, rounds, autoOn, undone>>
vars == <<row, research, generation, launched, worker, tick, starter, config, settling,
          patch, ticking, today, round, autoOn, disturbed, undone, rounds, losses, lates,
          patches, restarts>>

Unused       == [of |-> 0, round |-> 0, state |-> "unused"]
IdleWorker   == [at |-> "idle", run |-> 0, copy |-> Absent]
NoConfig     == [enabled |-> FALSE, scanned |-> 0]
IdleStarter  == [at |-> "idle", auto |-> FALSE, copy |-> NoConfig]
IdlePatch    == [at |-> "idle", copy |-> NoConfig]
Settled      == [at |-> "idle", run |-> 0, date |-> 0, copy |-> NoConfig]
Settlers     == {"worker", "tick"}

Rows == [status : {"absent"} \cup Active \cup Ended,
         research : 0..MaxResearches, generation : 0..MaxGenerations,
         count : 0..MaxRetries, wait : {"none", "later", "due"}, date : 0..MaxDay]
Configs == [enabled : BOOLEAN, scanned : 0..MaxDay]
ResearchRows == [of : 0..MaxRuns, round : 0..MaxRounds,
                 state : {"unused", "running", "completed", "failed", "orphaned"}]
GenerationRows == [of : 0..MaxRuns, round : 0..MaxRounds,
                   state : {"unused", "running", "completed", "failed", "rejected", "orphaned"}]
Workers == [at : {"idle", "slot", "read", "prefilter", "enrich", "start", "save"},
            run : 0..MaxRuns, copy : Rows]
Ticks == [at : {"idle", "launch", "advance", "save", "start", "wait"},
          run : 0..MaxRuns, copy : Rows]
Settlings == [at : {"idle", "read", "save"}, run : 0..MaxRuns, date : 0..MaxDay, copy : Configs]

\* Every variable has its type; what is counted stays within its bound.
TypeOK ==
    /\ row \in [Runs -> Rows]
    /\ research \in [Researches -> ResearchRows]
    /\ generation \in [Generations -> GenerationRows]
    /\ launched \subseteq Runs
    /\ worker \in Workers
    /\ tick \in Ticks
    /\ starter \in [at : {"idle", "create"}, auto : BOOLEAN, copy : Configs]
    /\ config \in Configs
    /\ settling \in [Settlers -> Settlings]
    /\ patch \in [at : {"idle", "save"}, copy : Configs]
    /\ ticking \in BOOLEAN
    /\ today \in 1..MaxDay
    /\ round \in [Runs -> 0..MaxRounds]
    /\ autoOn \in [Runs -> 0..MaxDay]
    /\ disturbed \subseteq Runs
    /\ undone \subseteq 0..MaxDay
    /\ rounds \in 0..MaxRounds
    /\ losses \in 0..MaxTroubles
    /\ lates \in 0..MaxLates
    /\ patches \in 0..MaxPatches
    /\ restarts \in 0..MaxTroubles

Init ==
    /\ row = [r \in Runs |-> Absent]
    /\ research = [d \in Researches |-> Unused]
    /\ generation = [g \in Generations |-> Unused]
    /\ launched = {}
    /\ worker = IdleWorker
    /\ tick = IdleWorker
    /\ starter = IdleStarter
    /\ config = [enabled |-> TRUE, scanned |-> 0]
    /\ settling = [a \in Settlers |-> Settled]
    /\ patch = IdlePatch
    /\ ticking = TRUE
    /\ today = 1
    /\ round = [r \in Runs |-> 0]
    /\ autoOn = [r \in Runs |-> 0]
    /\ disturbed = {}
    /\ undone = {}
    /\ rounds = 0
    /\ losses = 0
    /\ lates = 0
    /\ patches = 0
    /\ restarts = 0

----------------------------------------------------------------------------
\* The store

Faults == losses + lates + restarts
Trouble == Faults + patches < MaxTroubles

ActiveRuns == {r \in Runs : row[r].status \in Active}

\* A whole row is written, or the write fails and its error is ignored.
Write(r, new) ==
    \/ /\ row' = [row EXCEPT ![r] = new]
       /\ UNCHANGED <<disturbed, losses>>
    \/ /\ Trouble
       /\ losses' = losses + 1
       /\ disturbed' = disturbed \cup {r}
       /\ UNCHANGED row

\* mutant of Failed: the failure is retried without being counted
FailedUncounted(copy, retryable) ==
    IF retryable
    THEN [copy EXCEPT !.wait = "later"]
    ELSE [copy EXCEPT !.status = "failed", !.wait = "none"]

\* failOpportunityMarketScan: a retry after 5 and after 30 minutes, then failed.
Failed(copy, retryable) ==
    IF retryable /\ copy.count < MaxRetries
    THEN [copy EXCEPT !.count = @ + 1, !.wait = "later"]
    ELSE [copy EXCEPT !.status = "failed", !.wait = "none"]

\* The next discovery or generation; MaxResearches and MaxGenerations bound them.
Fresh(job, j) ==
    /\ job[j] = Unused
    /\ \A i \in DOMAIN job : i < j => job[i] # Unused
Job(r, state) == [of |-> r, round |-> round[r], state |-> state]

\* No step reads the jobs and counts of a scan that is over again, so a new round of
\* the model reuses the ids of jobs that have ended (unless an actor still holds one).
Reused(job) ==
    [j \in DOMAIN job |->
        IF \/ job[j].state \in {"running", "orphaned"}
           \/ job[j].of \in ActiveRuns
           \/ tick.at \in {"advance", "save"}
           \/ worker.at = "save"
        THEN job[j] ELSE Unused]
ReuseJobs == research' = Reused(research) /\ generation' = Reused(generation)
Over(r) == [Absent EXCEPT !.status = row[r].status, !.date = row[r].date]
WithNewRound(r, date) ==
    [s \in Runs |->
        IF s = r THEN [Absent EXCEPT !.status = "pending", !.date = date]
        ELSE IF row[s].status \in Ended THEN Over(s) ELSE row[s]]

\* The settings row is saved whole over the one that was read. Claims of dates that a
\* stale save, or the end of a disturbed scan, takes back are undone.
SaveSettings(seen, new, excused) ==
    /\ config' = new
    /\ undone' = IF config # seen \/ excused
                 THEN undone \cup (new.scanned + 1) .. config.scanned ELSE undone

\* updateOpportunityMarketScanConfigFromRun follows the write of a row that is put off,
\* failed (no date) or over (its date), and changes the settings in two steps.
Settles(a, r, date) ==
    settling' = [settling EXCEPT ![a] = [Settled EXCEPT !.at = "read", !.run = r, !.date = date]]

\* Only a completed or partial scan has a date to record.
Settlement(a) ==
    IF settling[a].date = 0 THEN settling[a].copy
    ELSE [settling[a].copy EXCEPT !.scanned = settling[a].date]

SettlingOnly ==
    UNCHANGED <<row, jobs, disturbed, launched, worker, tick, starter, round, rounds, autoOn, owner,
                lates, restarts>>

SettlingReads(a) ==
    /\ settling[a].at = "read"
    /\ \/ settling' = [settling EXCEPT ![a].at = "save", ![a].copy = config] /\ UNCHANGED losses
       \/ Trouble /\ losses' = losses + 1 /\ settling' = [settling EXCEPT ![a] = Settled]
    /\ UNCHANGED <<config, undone>>
    /\ SettlingOnly

SettlingSaves(a) ==
    /\ settling[a].at = "save"
    /\ settling' = [settling EXCEPT ![a] = Settled]
    /\ \/ /\ SaveSettings(settling[a].copy, Settlement(a),
                          settling[a].date # 0 /\ settling[a].run \in disturbed)
          /\ UNCHANGED losses
       \/ Trouble /\ losses' = losses + 1 /\ UNCHANGED <<config, undone>>
    /\ SettlingOnly

----------------------------------------------------------------------------
\* Starting and retrying, under opportunityScanStartMu

\* mutant of MayStart: the active scan is not looked for
MayStartBlind == starter.at = "idle"

\* The mutex is free and no scan is active.
MayStart ==
    /\ starter.at = "idle"
    /\ ActiveRuns = {}

\* StartOpportunityMarketScan reads the settings, then computes the coverage.
StartReads(auto) ==
    /\ rounds < MaxRounds
    /\ MayStart
    /\ starter' = [at |-> "create", auto |-> auto, copy |-> config]
    /\ UNCHANGED <<row, jobs, disturbed, launched, worker, config, settling, round, rounds,
                   autoOn, undone, owner, losses, lates, restarts>>

OwnerStarts == StartReads(FALSE) /\ UNCHANGED tick

TickStarts ==
    /\ tick.at = "start"
    /\ StartReads(TRUE)
    /\ tick' = [tick EXCEPT !.at = "wait"]

\* The tick comes to the mutex when a scan is active.
TickRefused ==
    /\ tick.at = "start"
    /\ starter.at = "idle"
    /\ ActiveRuns # {} \/ rounds = MaxRounds
    /\ tick' = IdleWorker
    /\ UNCHANGED <<row, jobs, disturbed, launched, worker, starts, settling, owner, losses, lates,
                   restarts>>

StarterDone ==
    /\ starter.at = "create"
    /\ starter' = IdleStarter
    /\ tick' = IF starter.auto THEN IdleWorker ELSE tick

\* mutant of Claimed: an automatic scan claims its date when it completes
ClaimedAtEnd(copy, auto) == copy

\* An automatic start claims the trade date.
Claimed(copy, auto) == IF auto THEN [copy EXCEPT !.scanned = today] ELSE copy

\* The row is created, the settings read before are saved, the worker launched.
StartCreates(r) ==
    /\ StarterDone
    /\ row[r] = Absent
    /\ \A s \in Runs : s < r => row[s] # Absent
    /\ row' = WithNewRound(r, today)
    /\ ReuseJobs
    /\ round' = [round EXCEPT ![r] = 1]
    /\ rounds' = rounds + 1
    /\ autoOn' = [autoOn EXCEPT ![r] = IF starter.auto THEN today ELSE 0]
    /\ launched' = launched \cup {r}
    /\ \/ /\ SaveSettings(starter.copy, Claimed(starter.copy, starter.auto), FALSE)
          /\ UNCHANGED losses
       \/ /\ Trouble
          /\ losses' = losses + 1
          /\ undone' = IF starter.auto THEN undone \cup {today} ELSE undone
          /\ UNCHANGED config
    /\ UNCHANGED <<disturbed, worker, settling, owner, lates, restarts>>

\* The data are not ready, or the row cannot be created.
StartRefused ==
    /\ StarterDone
    /\ UNCHANGED <<row, jobs, disturbed, launched, worker, config, settling, round, rounds,
                   autoOn, undone, owner, losses, lates, restarts>>

\* RetryOpportunityMarketScanRun
OwnerRetries(r) ==
    /\ rounds < MaxRounds
    /\ MayStart
    /\ row[r].status \in Ended
    /\ row' = WithNewRound(r, row[r].date)
    /\ ReuseJobs
    /\ round' = [round EXCEPT ![r] = @ + 1]
    /\ rounds' = rounds + 1
    /\ launched' = launched \cup {r}
    /\ UNCHANGED <<disturbed, worker, tick, starter, config, settling, autoOn, undone, owner,
                   losses, lates, restarts>>

----------------------------------------------------------------------------
\* The worker (prepareOpportunityMarketScan)

WorkerOnly == UNCHANGED <<launched, tick, starts, owner, restarts>>

\* A worker that ends while another one for the same scan is about to try the flag
\* leaves it to a late one. When the bound is reached, the other one tries first.
Awaited ==
    \/ worker.run \in launched
    \/ tick.at = "launch" /\ tick.run = worker.run

WorkerDone ==
    /\ worker' = IdleWorker
    /\ \/ Awaited /\ Trouble /\ lates < MaxLates /\ lates' = lates + 1
       \/ ~Awaited /\ UNCHANGED lates

\* It writes the row and has done with it, or goes on.
WorkerEnds(new) ==
    /\ Write(worker.run, new)
    /\ WorkerDone
    /\ WorkerOnly
WorkerGoesOn(next, new) ==
    /\ UNCHANGED lates
    /\ Write(worker.run, new)
    /\ worker' = [worker EXCEPT !.at = next, !.copy = new]
    /\ WorkerOnly
    /\ UNCHANGED settling

WorkerTakes(r) ==
    /\ r \in launched
    /\ launched' = launched \ {r}
    /\ worker' = IF worker.at = "idle" /\ settling["worker"].at = "idle"
                 THEN [IdleWorker EXCEPT !.at = "slot", !.run = r]
                 ELSE worker         \* another one is at work
    /\ UNCHANGED <<row, jobs, disturbed, tick, starts, settling, owner, losses, lates, restarts>>

\* The slot for heavy work is taken, or a news backfill goes first: the row is read
\* again and written as pending, whatever its status is.
WorkerDefers ==
    LET r == worker.run IN
    /\ worker.at \in {"slot", "read"}
    /\ row' = [row EXCEPT ![r].status = "pending", ![r].wait = "later"]
    /\ disturbed' = IF row[r].status \in Preparing THEN disturbed ELSE disturbed \cup {r}
    /\ WorkerDone
    /\ WorkerOnly
    /\ UNCHANGED <<jobs, settling, losses>>

\* It has the slot and reads the row; one that is over is left alone, one that is
\* past the preparation is not.
WorkerReads ==
    LET r == worker.run IN
    /\ worker.at = "slot"
    /\ worker' = IF row[r].status \in Active
                 THEN [worker EXCEPT !.at = "read", !.copy = row[r]] ELSE IdleWorker
    /\ disturbed' = IF row[r].status \in {"researching", "drafting"}
                    THEN disturbed \cup {r} ELSE disturbed
    /\ WorkerOnly
    /\ UNCHANGED <<row, jobs, settling, losses, lates>>

WorkerPrefilters ==
    /\ worker.at = "read"
    /\ WorkerGoesOn("prefilter", [worker.copy EXCEPT !.status = "prefiltering", !.wait = "none"])
    /\ UNCHANGED jobs

WorkerEnriches ==
    /\ worker.at = "prefilter"
    /\ WorkerGoesOn("enrich", [worker.copy EXCEPT !.status = "enriching", !.date = today])
    /\ UNCHANGED jobs

\* No metrics, too little coverage, no candidates; or nothing passes the gates,
\* which is tried again.
WorkerFails(retryable) ==
    /\ worker.at \in IF retryable THEN {"enrich", "start"} ELSE {"prefilter", "enrich"}
    /\ WorkerEnds(Failed(worker.copy, retryable))
    /\ Settles("worker", worker.run, 0)
    /\ UNCHANGED jobs

\* The opportunity of the scan is saved in the row, or the scan fails.
WorkerOpens ==
    /\ worker.at = "enrich"
    /\ row' = [row EXCEPT ![worker.run] = worker.copy]
    /\ worker' = [worker EXCEPT !.at = "start"]
    /\ WorkerOnly
    /\ UNCHANGED <<jobs, settling, disturbed, losses, lates>>

\* StartOpportunityDiscoveryRun creates the discovery and writes its id into the row
\* it has read; when that write fails nobody carries the discovery out.
Discover(r, d) ==
    /\ Fresh(research, d)
    /\ research' = [research EXCEPT ![d] = Job(r, "running")]
    /\ row' = [row EXCEPT ![r].research = d]
    /\ UNCHANGED <<generation, disturbed, losses>>

DiscoverInVain(r, d, after) ==
    /\ Fresh(research, d)
    /\ Trouble
    /\ losses' = losses + 1
    /\ research' = [research EXCEPT ![d] = Job(r, "orphaned")]
    /\ row' = [row EXCEPT ![r] = after]
    /\ disturbed' = disturbed \cup {r}
    /\ UNCHANGED generation

WorkerStarts(d) ==
    /\ worker.at = "start"
    /\ \/ /\ Discover(worker.run, d)
          /\ worker' = [worker EXCEPT !.at = "save", !.copy.research = d]
          /\ UNCHANGED <<settling, lates>>
       \/ /\ DiscoverInVain(worker.run, d, Failed(worker.copy, TRUE))
          /\ Settles("worker", worker.run, 0)
          /\ WorkerDone
    /\ WorkerOnly

WorkerSaves ==
    /\ worker.at = "save"
    /\ WorkerEnds([worker.copy EXCEPT !.status = "researching", !.count = 0, !.wait = "none"])
    /\ UNCHANGED <<jobs, settling>>

----------------------------------------------------------------------------
\* The scheduler (tickOpportunityMarketScanScheduler)

TickOnly == UNCHANGED <<worker, starter, config, round, rounds, autoOn, undone, owner, lates, restarts>>

TickEnds(new) ==
    /\ Write(tick.run, new)
    /\ tick' = IdleWorker
    /\ TickOnly

\* The scan is put off; or failOpportunityMarketScan puts it off or fails it; or it is
\* completed or partial.
TickPutsOff ==
    /\ tick.copy.count < MaxRetries
    /\ TickEnds(Failed(tick.copy, TRUE))
    /\ UNCHANGED <<jobs, launched, settling>>

TickFails(retryable) ==
    /\ TickEnds(Failed(tick.copy, retryable))
    /\ Settles("tick", tick.run, 0)
    /\ UNCHANGED <<jobs, launched>>

TickFinishes(status) ==
    /\ TickEnds([tick.copy EXCEPT !.status = status])
    /\ Settles("tick", tick.run, tick.copy.date)
    /\ UNCHANGED <<jobs, launched>>

Newest(r) == r \in ActiveRuns /\ \A s \in ActiveRuns : s <= r

\* The last turn is over and the ticker ticks.
MayTick == ticking /\ tick.at = "idle" /\ settling["tick"].at = "idle"

\* The newest active scan is read, unless its retry is not due yet. Of one that is
\* being prepared the tick uses only the id. In the 30 seconds between two ticks a
\* goroutine has tried the flag.
TickReads(r) ==
    /\ MayTick
    /\ launched = {}
    /\ Newest(r)
    /\ row[r].wait # "later"
    /\ tick' = IF row[r].status \in Preparing
               THEN [IdleWorker EXCEPT !.at = "launch", !.run = r]
               ELSE [at |-> "advance", run |-> r, copy |-> row[r]]
    /\ UNCHANGED <<row, jobs, disturbed, launched, settling, losses>>
    /\ TickOnly

\* No scan is active, and the date of the data has none yet.
TickWantsScan ==
    /\ MayTick
    /\ ActiveRuns = {}
    /\ config.enabled
    /\ config.scanned # today
    /\ tick' = [IdleWorker EXCEPT !.at = "start"]
    /\ UNCHANGED <<row, jobs, disturbed, launched, settling, losses>>
    /\ TickOnly

TickLaunches ==
    /\ tick.at = "launch"
    /\ launched' = launched \cup {tick.run}
    /\ tick' = IdleWorker
    /\ UNCHANGED <<row, jobs, disturbed, settling, losses>>
    /\ TickOnly

At(status) == tick.at = "advance" /\ tick.copy.status = status
ResearchState == research[tick.copy.research].state
GenerationState == generation[tick.copy.generation].state

\* mutant of Pending: a generation that was not completed counts as one
PendingResearch ==
    At("researching") /\ ResearchState \notin {"completed", "failed"}

\* The discovery or the generation is not over; the tick has nothing to do.
Pending ==
    \/ At("researching") /\ ResearchState \notin {"completed", "failed"}
    \/ At("drafting") /\ GenerationState \in {"running", "orphaned"}

TickWaits ==
    /\ Pending
    /\ tick' = IdleWorker
    /\ UNCHANGED <<row, jobs, disturbed, launched, settling, losses>>
    /\ TickOnly

\* The discovery, the generation or its ledger cannot be read; then the row's write may
\* fail too. After two retries that ends the scan, whatever is at work for it.
TickCannotRead ==
    LET failed == Failed(tick.copy, TRUE) IN
    /\ At("researching") \/ At("drafting")
    /\ Trouble
    /\ \/ /\ row' = [row EXCEPT ![tick.run] = failed]
          /\ disturbed' = IF failed.status = "failed" THEN disturbed \cup {tick.run} ELSE disturbed
          /\ losses' = losses + 1
       \/ /\ Faults + patches + 1 < MaxTroubles
          /\ disturbed' = disturbed \cup {tick.run}
          /\ losses' = losses + 2
          /\ UNCHANGED row
    /\ Settles("tick", tick.run, 0)
    /\ tick' = IdleWorker
    /\ UNCHANGED <<jobs, launched>>
    /\ TickOnly

\* A failed discovery is put off, and failed after two retries.
TickPutsOffResearch ==
    /\ At("researching") /\ ResearchState = "failed"
    /\ tick.copy.wait = "none"
    /\ \/ TickPutsOff
       \/ tick.copy.count = MaxRetries /\ TickFails(FALSE)

\* mutant of Repeated: the retry starts the count afresh
RepeatedAfresh(copy) == [copy EXCEPT !.wait = "none", !.count = 0]

\* The row after the start of a retry.
Repeated(copy) == [copy EXCEPT !.wait = "none"]

\* The retry is due.
TickRepeatsResearch(d) ==
    /\ At("researching") /\ ResearchState = "failed"
    /\ tick.copy.wait = "due"
    /\ \/ /\ Discover(tick.run, d)
          /\ tick' = [tick EXCEPT !.at = "save", !.copy = [Repeated(@) EXCEPT !.research = d]]
          /\ UNCHANGED settling
       \/ /\ DiscoverInVain(tick.run, d, Failed(tick.copy, FALSE))
          /\ tick' = IdleWorker
          /\ Settles("tick", tick.run, 0)
    /\ UNCHANGED launched
    /\ TickOnly

\* The retry cannot start.
TickCannotRepeat ==
    /\ \/ At("researching") /\ ResearchState = "failed"
       \/ At("drafting") /\ GenerationState \in {"failed", "rejected"}
    /\ tick.copy.wait = "due"
    /\ TickFails(FALSE)

\* No candidate has the evidence: the scan is completed.
TickFindsNone ==
    /\ At("researching") /\ ResearchState = "completed"
    /\ TickFinishes("completed")

\* RunStrategyGeneration for the candidates that have it, or an error.
Generate(g, next) ==
    /\ Fresh(generation, g)
    /\ generation' = [generation EXCEPT ![g] = Job(tick.run, "running")]
    /\ tick' = [tick EXCEPT !.at = "save", !.copy = [next EXCEPT !.generation = g]]
    /\ UNCHANGED <<row, research, disturbed, launched, settling, losses>>
    /\ TickOnly

TickDrafts(g) ==
    /\ At("researching") /\ ResearchState = "completed"
    /\ Generate(g, [tick.copy EXCEPT !.status = "drafting", !.count = 0, !.wait = "none"])

TickCannotDraft ==
    /\ At("researching") /\ ResearchState = "completed"
    /\ TickFails(TRUE)

TickSaves ==
    /\ tick.at = "save"
    /\ TickEnds(tick.copy)
    /\ UNCHANGED <<jobs, launched, settling>>

\* recoverInvalidStrategyGenerationRun: the stored result of a generation that failed
\* validation passes now.
TickRecovers ==
    /\ At("drafting") /\ GenerationState = "rejected"
    /\ generation' = [generation EXCEPT ![tick.copy.generation].state = "completed"]
    /\ tick' = IdleWorker
    /\ UNCHANGED <<row, research, disturbed, launched, settling, losses>>
    /\ TickOnly

TickCannotRecover ==
    /\ At("drafting") /\ GenerationState = "rejected"
    /\ TickFails(TRUE)

\* A failed generation is put off; after two retries the scan is partial.
TickPutsOffDraft ==
    /\ At("drafting") /\ GenerationState \in {"failed", "rejected"}
    /\ tick.copy.wait = "none"
    /\ \/ TickPutsOff
       \/ tick.copy.count = MaxRetries /\ TickFinishes("partial")

TickRepeatsDraft(g) ==
    /\ At("drafting") /\ GenerationState \in {"failed", "rejected"}
    /\ tick.copy.wait = "due"
    /\ Generate(g, Repeated(tick.copy))

TickCompletes ==
    /\ At("drafting") /\ ~Pending
    /\ GenerationState \notin {"failed", "rejected"}
    /\ TickFinishes("completed")

----------------------------------------------------------------------------
\* Agents, time, the owner's settings, restarts

AgentsOnly == UNCHANGED <<row, disturbed, launched, worker, tick, starts, settling, lates, restarts>>

\* The outcome of an agent's work is recorded, or that write is lost and the row says
\* "running" although nobody is at work.
Recorded(job, j, outcomes) ==
    \/ \E s \in outcomes : job' = [job EXCEPT ![j].state = s] /\ UNCHANGED losses
    \/ /\ Trouble
       /\ losses' = losses + 1
       /\ job' = [job EXCEPT ![j].state = "orphaned"]

\* ProcessOpportunityDiscoverySubmittedResult, or finalizeAgentRun with an error
ResearchEnds(d) ==
    /\ research[d].state = "running"
    /\ Recorded(research, d, {"completed", "failed"})
    /\ UNCHANGED <<generation, owner>>
    /\ AgentsOnly

GenerationEnds(g) ==
    /\ generation[g].state = "running"
    /\ Recorded(generation, g, {"completed", "failed", "rejected"})
    /\ UNCHANGED <<research, owner>>
    /\ AgentsOnly

\* NextRetryAt passes.
RetryDue(r) ==
    /\ row[r].wait = "later"
    /\ row' = [row EXCEPT ![r].wait = "due"]
    /\ UNCHANGED <<jobs, disturbed, launched, worker, tick, starts, settling, owner, losses, lates,
                   restarts>>

NextDay ==
    /\ today < MaxDay
    /\ today' = today + 1
    /\ UNCHANGED <<jobs, patch, patches, ticking, losses>>
    /\ AgentsOnly

\* UpdateOpportunityMarketScanConfig reads the settings, changes them and saves all.
OwnerReads ==
    /\ Trouble /\ patches < MaxPatches
    /\ patch.at = "idle"
    /\ patches' = patches + 1
    /\ patch' = [at |-> "save", copy |-> config]
    /\ UNCHANGED <<jobs, today, ticking, losses>>
    /\ AgentsOnly

\* One that leaves market scans enabled starts the scheduler.
OwnerSaves(enabled) ==
    /\ patch.at = "save"
    /\ SaveSettings(patch.copy, [patch.copy EXCEPT !.enabled = enabled], FALSE)
    /\ patch' = IdlePatch
    /\ ticking' = (ticking \/ enabled)
    /\ UNCHANGED <<row, jobs, disturbed, launched, worker, tick, starter, settling, round, rounds, autoOn,
                   today, patches, losses, lates, restarts>>

\* StopBackground, when the owner has disabled the last news source or the last of the
\* automatic updates: whether market scans are active or enabled is not looked at, or not
\* enough. The reads and writes that were left of the ticker's turn fail.
StopBackground ==
    /\ ticking
    /\ Trouble
    /\ losses' = losses + 1
    /\ ticking' = FALSE
    /\ tick' = IF tick.at = "launch" THEN tick ELSE IdleWorker
    /\ disturbed' = IF tick.at = "save" THEN disturbed \cup {tick.run} ELSE disturbed
    /\ settling' = [settling EXCEPT !["tick"] = Settled]
    /\ starter' = IF starter.auto THEN IdleStarter ELSE starter
    /\ UNCHANGED <<row, jobs, launched, worker, config, patch, today, round, rounds, autoOn, undone,
                   patches, lates, restarts>>

\* StartBackground, when the owner enables a news source, an update or a monitor.
StartBackground ==
    /\ ~ticking
    /\ tick.at = "idle"
    /\ ticking' = TRUE
    /\ UNCHANGED <<jobs, patch, today, patches, losses>>
    /\ AgentsOnly

\* FailActiveAgentRuns: a generation nobody carries out any more is failed.
Interrupted ==
    [g \in Generations |->
        IF generation[g].state \in {"running", "orphaned"} THEN [generation[g] EXCEPT !.state = "failed"]
                                           ELSE generation[g]]

\* The program ends anywhere and starts again; markInterruptedRunningTasks does not
\* know the discoveries.
Restart ==
    /\ Trouble
    /\ restarts' = restarts + 1
    /\ research' = [d \in Researches |->
           IF research[d].state = "running" THEN [research[d] EXCEPT !.state = "orphaned"]
                                            ELSE research[d]]
    /\ generation' = Interrupted
    /\ launched' = {}
    /\ worker' = IdleWorker
    /\ tick' = IdleWorker
    /\ starter' = IdleStarter
    /\ settling' = [a \in Settlers |-> Settled]
    /\ patch' = IdlePatch
    /\ ticking' = TRUE
    /\ UNCHANGED <<row, disturbed, config, round, rounds, autoOn, undone, today, losses, lates,
                   patches>>

WorkerSteps(d) ==
    \/ WorkerEnriches \/ WorkerOpens \/ WorkerSaves \/ WorkerStarts(d)
    \/ \E retryable \in BOOLEAN : WorkerFails(retryable)

TickSteps ==
    \/ TickStarts \/ TickRefused \/ TickWantsScan \/ TickLaunches \/ TickWaits
    \/ TickCannotRead \/ TickPutsOffResearch \/ TickCannotRepeat \/ TickFindsNone
    \/ TickCannotDraft \/ TickSaves \/ TickRecovers \/ TickCannotRecover
    \/ TickPutsOffDraft \/ TickCompletes
    \/ \E r \in Runs : TickReads(r)
    \/ \E d \in Researches : TickRepeatsResearch(d)
    \/ \E g \in Generations : TickDrafts(g) \/ TickRepeatsDraft(g)

StarterSteps == StartRefused \/ \E r \in Runs : StartCreates(r)

SettlingSteps(a) == SettlingReads(a) \/ SettlingSaves(a)

Next ==
    \/ OwnerStarts \/ OwnerReads \/ \E e \in BOOLEAN : OwnerSaves(e)
    \/ \E r \in Runs : OwnerRetries(r) \/ WorkerTakes(r) \/ RetryDue(r)
    \/ WorkerDefers \/ WorkerReads \/ WorkerPrefilters
    \/ \E d \in Researches : WorkerSteps(d) \/ ResearchEnds(d)
    \/ \E g \in Generations : GenerationEnds(g)
    \/ \E a \in Settlers : SettlingSteps(a)
    \/ TickSteps \/ StarterSteps \/ NextDay \/ StopBackground \/ StartBackground \/ Restart

Spec == Init /\ [][Next]_vars

\* The goroutines run, the agents end (each has a time limit) and the ticker ticks until
\* it is stopped; nobody need start it again. The slot for heavy work and the backfill
\* are free again and again: a worker that could have them often enough gets them.
Fairness ==
    /\ SF_vars(\E d \in Researches : WorkerSteps(d))
    /\ SF_vars(WorkerReads) /\ SF_vars(WorkerPrefilters)
    /\ WF_vars(WorkerReads \/ WorkerPrefilters \/ WorkerDefers)
    /\ WF_vars(\E r \in Runs : WorkerTakes(r))
    /\ WF_vars(\E r \in Runs : RetryDue(r))
    /\ WF_vars(TickSteps)
    /\ WF_vars(StarterSteps)
    /\ \A a \in Settlers : WF_vars(SettlingSteps(a))
    /\ WF_vars(\/ \E d \in Researches : ResearchEnds(d)
               \/ \E g \in Generations : GenerationEnds(g))

FairSpec == Spec /\ Fairness

----------------------------------------------------------------------------
\* Properties

\* "A narrow start mutex closes the owner double-click/scheduler race" (:286): two
\* scans are active together only when one of them lost a write, was ended by a failing
\* read, or had "pending" written over it by a worker that came late.
OneActive ==
    \A r, s \in ActiveRuns : r = s \/ r \in disturbed \/ s \in disturbed

\* A scan that is over has left no discovery and no generation at work, whose results
\* would be written to candidates that nobody looks at: unless one of its writes was
\* lost, a late worker came, or a failing read ended it. (After two retries one read of
\* a discovery at work that fails, :1089, is enough.)
EndsQuiet ==
    \A r \in Runs : row[r].status \in Ended /\ r \notin disturbed =>
        /\ \A d \in Researches : research[d].of = r => research[d].state # "running"
        /\ \A g \in Generations : generation[g].of = r => generation[g].state # "running"

Attempts(job, r) == {j \in DOMAIN job : job[j].of = r /\ job[j].round = round[r]}

\* "Retried after 5 and 30 minutes, at most twice": a start or a retry by the owner
\* costs an undisturbed scan at most three discoveries and three generations, and one
\* more of a kind for every restart between the start of one and the write that
\* records it.
UndisturbedRetries ==
    \A r \in Runs \ disturbed :
        /\ Cardinality(Attempts(research, r)) <= 1 + MaxRetries + restarts
        /\ Cardinality(Attempts(generation, r)) <= 1 + MaxRetries + restarts

\* The same of every scan, with one more for every fault (a start that is recorded in
\* part, a count that is lost, a stop of the scheduler, a restart) and a full round more
\* for every late worker, which begins the scan again.
RetriesBounded ==
    /\ UndisturbedRetries
    /\ \A r \in Runs :
        /\ Cardinality(Attempts(research, r)) <= 1 + MaxRetries + Faults + MaxRetries * lates
        /\ Cardinality(Attempts(generation, r)) <= 1 + MaxRetries + Faults + MaxRetries * lates

\* "At most one automatic run per trade date", also when it fails at once, and whatever
\* the owner starts and retries meanwhile: unless the claim of that date was lost or
\* taken back by a save of settings read before it, or by the end of a disturbed scan of
\* an older date. The worker's save after a failure and the owner's are such saves.
OneAutoPerDate ==
    \A r, s \in Runs : autoOn[r] # 0 /\ autoOn[r] = autoOn[s] => r = s \/ autoOn[r] \in undone

\* The same without exception: it fails, see MarketScan_dates.cfg.
DatesClaimedForGood ==
    \A r, s \in Runs : autoOn[r] # 0 /\ autoOn[r] = autoOn[s] => r = s

Stuck(r) ==
    \/ row[r].status = "researching" /\ research[row[r].research].state = "orphaned"
    \/ row[r].status = "drafting" /\ generation[row[r].generation].state = "orphaned"

\* Every scan ends, over failures, deferrals, lost writes, restarts and stops of the
\* scheduler: unless a discovery or a generation that nobody carries out stands in its
\* way, or the scheduler stays stopped (it may, with a scan active).
ScanEnds ==
    \A r \in Runs :
        row[r].status \in Active ~>
            (row[r].status \in Ended \/ (\E s \in Runs : Stuck(s)) \/ []~ticking)

\* "After a restart the durable state carries on": as long as no read or write of the
\* store fails and the scheduler is not stopped, every scan ends.
ScanEndsAfterRestart ==
    \A r \in Runs :
        row[r].status \in Active /\ losses = 0 ~> row[r].status \in Ended \/ losses # 0
=============================================================================
