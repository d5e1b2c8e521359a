----------------------------- MODULE HealthProbe -----------------------------
(***************************************************************************)
(* GET /api/health (HealthService): nine probes one after the other, while *)
(* the services they ask come and go; the heartbeat the document worker    *)
(* leaves in Redis (DocumentTaskWorkerService); and the page that shows    *)
(* the answer (HealthTab.vue).                                             *)
(*                                                                         *)
(* The clock counts heartbeat intervals (5 s).  No connection to Redis     *)
(* gives a command up (maxRetriesPerRequest: null): it waits for Redis.    *)
(***************************************************************************)
EXTENDS Integers, Sequences, SequencesExt, FiniteSets, Functions, TLC

CONSTANTS MaxTicks,   \* intervals the clock counts
          MaxOutages, \* times a service, or the worker, goes down
          MaxLooks    \* times the page is opened

ASSUME HealthBounds == {MaxTicks, MaxOutages, MaxLooks} \subseteq Nat

VARIABLES
  up,         \* the services that answer
  configured, \* what the environment switches on
  worker,     \* alive, stalled in a parse, the date its connection has yet to set
  beat,       \* worker:heartbeat, the date it was set with
  now,
  check,      \* the probe under way and the results so far
  healthTab,  \* loadingHealth, healthData, healthError
  outages, looks,
  seenDown,   \* ghost: services that were down since the check began
  signs,      \* ghost: when the worker last ran an interval, and last did without Redis
  atRead      \* ghost: the clock and the signs when the heartbeat was read

healthVars == <<up, configured, worker, beat, now, check, healthTab, outages, looks,
                seenDown, signs, atRead>>

HealthServices == {"db", "elasticsearch", "neo4j", "redis", "minio"}
Switches == {"elasticsearch", "neo4j", "digitalHuman", "llm"}
\* The order of the awaits; Redis is asked twice, the last probe is a look at
\* the environment.
ProbeOrder == <<"db", "elasticsearch", "neo4j", "redis", "queue", "minio", "worker",
                "digitalHuman", "llm">>
Results == [ToSet(ProbeOrder) -> {"unknown", "ok", "error"}]
NoResult == [p \in ToSet(ProbeOrder) |-> "unknown"]
Never == -1
Dates == Never..MaxTicks
FreshFor == 3 \* intervals, 15 s

HealthTypeOK ==
  /\ up \subseteq HealthServices /\ configured \subseteq Switches
  /\ worker \in [alive : BOOLEAN, stalled : BOOLEAN, waiting : Dates]
  /\ beat \in Dates /\ now \in 0..MaxTicks
  /\ signs \in [lived : Dates, waited : Dates]
  /\ atRead \in [now : 0..MaxTicks, lived : Dates, waited : Dates]
  /\ check \in [at : 0..Len(ProbeOrder) + 1, results : Results]
  /\ healthTab \in [loading : BOOLEAN, data : {"none", "ok"}, error : BOOLEAN]
  /\ outages \in 0..MaxOutages /\ looks \in 0..MaxLooks
  /\ seenDown \subseteq HealthServices

HealthInit ==
  /\ up = HealthServices /\ seenDown = {} /\ now = 0 /\ beat = Never
  /\ signs = [lived |-> Never, waited |-> Never]
  /\ atRead = [now |-> 0, lived |-> Never, waited |-> Never]
  /\ configured \in {Switches \ {s} : s \in Switches} \cup {Switches}
  /\ worker = [alive |-> TRUE, stalled |-> FALSE, waiting |-> Never]
  /\ check = [at |-> 0, results |-> NoResult]
  /\ healthTab = [loading |-> FALSE, data |-> "none", error |-> FALSE]
  /\ outages = 0 /\ looks = 0

-----------------------------------------------------------------------------
\* An interval passes.  A worker that does not stall sets the key; its command
\* waits with the date it was made at while Redis is away.
Beats == worker.alive /\ ~worker.stalled
ConnectionUp == "redis" \in up /\ worker.waiting = Never
HealthTick ==
  /\ now < MaxTicks /\ now' = now + 1
  /\ worker' = IF Beats /\ ~ConnectionUp THEN [worker EXCEPT !.waiting = now + 1] ELSE worker
  /\ beat' = IF Beats /\ ConnectionUp THEN now + 1 ELSE beat
  /\ signs' = [lived |-> IF Beats THEN now + 1 ELSE signs.lived,
               waited |-> IF Beats /\ ~ConnectionUp THEN now + 1 ELSE signs.waited]
  /\ UNCHANGED <<up, configured, check, healthTab, outages, looks, seenDown,
                 atRead>>
\* The worker's connection is back some time after Redis is.
WorkerReconnects ==
  /\ "redis" \in up /\ worker.waiting # Never
  /\ beat' = worker.waiting
  /\ worker' = [worker EXCEPT !.waiting = Never]
  /\ UNCHANGED <<up, configured, now, check, healthTab, outages, looks, seenDown, signs, atRead>>
GoesDown(s) ==
  /\ s \in up /\ outages < MaxOutages /\ outages' = outages + 1
  /\ up' = up \ {s} /\ seenDown' = seenDown \cup {s}
  /\ UNCHANGED <<configured, worker, beat, now, check, healthTab, looks, signs, atRead>>
ComesBack(s) ==
  /\ s \notin up /\ up' = up \cup {s}
  /\ UNCHANGED <<configured, worker, beat, now, check, healthTab, outages, looks, seenDown,
                 signs, atRead>>
\* A dead worker's waiting commands die with it; a stalled one holds its timer.
WorkerDies ==
  /\ worker.alive /\ outages < MaxOutages /\ outages' = outages + 1
  /\ worker' = [alive |-> FALSE, stalled |-> FALSE, waiting |-> Never]
  /\ UNCHANGED <<up, configured, beat, now, check, healthTab, looks, seenDown, signs, atRead>>
WorkerStalls(on) ==
  /\ worker.alive /\ worker.stalled = ~on
  /\ IF on THEN outages < MaxOutages /\ outages' = outages + 1 ELSE UNCHANGED outages
  /\ worker' = [worker EXCEPT !.stalled = on]
  /\ UNCHANGED <<up, configured, beat, now, check, healthTab, looks, seenDown, signs, atRead>>

-----------------------------------------------------------------------------
\* The page is opened and asks once.
OpenHealthTab ==
  /\ ~healthTab.loading /\ looks < MaxLooks /\ looks' = looks + 1
  /\ healthTab' = [loading |-> TRUE, data |-> "none", error |-> FALSE]
  /\ check' = [at |-> 1, results |-> NoResult] /\ seenDown' = HealthServices \ up
  /\ UNCHANGED <<up, configured, worker, beat, now, outages, signs, atRead>>

StatusIf(well) == IF well THEN "ok" ELSE "error"
Probed(p, well) ==
  /\ check.at \in DOMAIN ProbeOrder /\ ProbeOrder[check.at] = p
  /\ check' = [at |-> check.at + 1, results |-> [check.results EXCEPT ![p] = StatusIf(well)]]
  /\ atRead' = IF p = "worker"
               THEN [now |-> now, lived |-> signs.lived, waited |-> signs.waited] ELSE atRead
  /\ UNCHANGED <<up, configured, worker, beat, now, healthTab, outages, looks, seenDown, signs>>
CheckDb == Probed("db", "db" \in up)
CheckElasticsearch == Probed("elasticsearch", "elasticsearch" \in up \cap configured)
CheckNeo4j == Probed("neo4j", "neo4j" \in up \cap configured)
CheckRedis == "redis" \in up /\ (Probed("redis", TRUE) \/ Probed("queue", TRUE))
CheckMinio == Probed("minio", "minio" \in up)
BeatIsFresh == beat # Never /\ now - beat < FreshFor
CheckWorker == "redis" \in up /\ Probed("worker", BeatIsFresh)
\* The digital human and the model are not asked: their keys are looked for.
CheckDigitalHuman == Probed("digitalHuman", "digitalHuman" \in configured)
CheckLlm == Probed("llm", "llm" \in configured)

\* An error anywhere is a 503, and apiJson makes of every answer but a 2xx, and of
\* a request that never arrives, null: the page's catch is not reached.
AllWell == \A p \in ToSet(ProbeOrder) : check.results[p] = "ok"
HealthAnswered ==
  /\ healthTab.loading /\ check.at = Len(ProbeOrder) + 1
  /\ healthTab' = [loading |-> FALSE, data |-> IF AllWell THEN "ok" ELSE "none", error |-> FALSE]
  /\ UNCHANGED <<up, configured, worker, beat, now, check, outages, looks, seenDown, signs, atRead>>
HealthUnanswered ==
  /\ healthTab.loading /\ outages < MaxOutages /\ outages' = outages + 1
  /\ healthTab' = [loading |-> FALSE, data |-> "none", error |-> FALSE]
  /\ check' = [at |-> 0, results |-> NoResult]
  /\ UNCHANGED <<up, configured, worker, beat, now, looks, seenDown, signs, atRead>>

HealthNext ==
  \/ HealthTick \/ WorkerReconnects \/ WorkerDies
  \/ \E s \in HealthServices : GoesDown(s) \/ ComesBack(s)
  \/ \E on \in BOOLEAN : WorkerStalls(on)
  \/ OpenHealthTab \/ HealthAnswered \/ HealthUnanswered
  \/ CheckDb \/ CheckElasticsearch \/ CheckNeo4j \/ CheckRedis \/ CheckMinio \/ CheckWorker
  \/ CheckDigitalHuman \/ CheckLlm
HealthSpec == HealthInit /\ [][HealthNext]_healthVars

-----------------------------------------------------------------------------
\* What the template shows.
HealthShown == IF healthTab.loading THEN "loading"
               ELSE IF healthTab.error THEN "banner"
               ELSE IF healthTab.data = "none" THEN "blank" ELSE "grid"
(* A probe blames no service that was there all along.  The worker is      *)
(* called well when it ran an interval within the life of a heartbeat, and *)
(* blamed when it did not or when Redis kept one of these from landing.    *)
(* Redis is never blamed: the answer waits for it.  The page shows its     *)
(* grid when all is well and else nothing, of an error as of no answer.    *)
HealthIsHonest ==
  /\ \A s \in HealthServices : check.results[s] = "error" =>
       s \in seenDown \cup (Switches \ configured)
  /\ LET since == atRead.now - FreshFor
     IN  /\ check.results["worker"] = "ok" => atRead.lived > since
         /\ check.results["worker"] = "error" =>
              atRead.lived \in {Never} \cup (0..since) \/ atRead.waited > since
  /\ check.results["redis"] # "error" /\ check.results["queue"] # "error"
  /\ HealthShown # "banner"
  /\ HealthShown = "grid" => AllWell
  /\ ~healthTab.loading /\ check.at > Len(ProbeOrder) =>
       (HealthShown = "grid") = AllWell
=============================================================================
