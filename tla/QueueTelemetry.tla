--------------------------- MODULE QueueTelemetry ---------------------------
(***************************************************************************)
(* Durable counts of queue outcomes (guest-telemetry), over the life of a  *)
(* worker process: createDurableGuestQueueTelemetry with its active        *)
(* counters and the batch pending at the store, the scheduler that flushes *)
(* it, the orderly stop of guest-worker and its command line, and crashes. *)
(*                                                                         *)
(* The store may fail with or without having stored the batch.  Clocks may *)
(* step in both directions: every reading is an arbitrary second.  Other   *)
(* processes write batches with ids of their own and are left out.         *)
(***************************************************************************)
EXTENDS Integers, FiniteSets, Sums

CONSTANTS
  Outcomes,        \* outcomes that occur, some of GUEST_QUEUE_OUTCOMES
  MaxCount,        \* GUEST_QUEUE_MAX_OUTCOME_COUNT
  BatchRetention,  \* how long a batch is kept, 30 days in the code
  LastSecond,      \* bound: the latest second a clock shows
  MaxRecords       \* bound: how many outcomes are recorded

QueueOutcomes ==
  {"COMMITTED", "ALREADY_COMMITTED", "TERMINAL_ACKNOWLEDGED",
   "NOT_ACQUIRABLE_ACKNOWLEDGED", "RETRY_LEASE_HELD", "RETRY_PERSISTENCE",
   "RETRY_CONTEXT", "RETRY_START", "RETRY_HEARTBEAT", "RETRY_SUPERVISOR",
   "RETRY_REJECTION_SINK", "RETRY_COMMIT"}

ASSUME TelemetryAssumption ==
  /\ Outcomes \subseteq QueueOutcomes
  /\ MaxCount \in Nat \ {0}
  /\ BatchRetention \in Nat \ {0}
  /\ LastSecond \in Nat /\ MaxRecords \in Nat

VARIABLES
  active,     \* counts since the last batch was built
  startedAt,  \* when the first of them was recorded; 0 for null
  saturated,  \* whether a count was already at its maximum
  pending,    \* the batch that is not known to be stored
  flush,      \* whether a flush is waiting for the store
  timer,      \* whether the scheduler's timer is set
  phase,      \* how far the process is in its life
  broken,     \* whether the transport failed to close, so that jobs may go on
  nextId,     \* create_batch_id never repeats an id
  batches,    \* platform_guest_queue_telemetry_batches
  recorded, lost, everStored, failedBefore
              \* history: what was recorded, what was lost by saturation or with
              \* a process, which batches were stored, whether a flush failed

counters == <<active, startedAt, saturated>>
history == <<recorded, lost, everStored, failedBefore>>
vars == <<counters, pending, flush, timer, phase, broken, nextId, batches, history>>

Seconds == 1..LastSecond
Counts == [Outcomes -> 0..MaxCount]
None == [o \in Outcomes |-> 0]
Plus(f, g) == [o \in Outcomes |-> f[o] + g[o]]
Total(f) == Sum(f, Outcomes)

Phases == {"OPEN", "CLOSING", "STOPPING", "FINAL", "CLOSED", "FAILED"}
Alerts == {"NONE", "SATURATED", "SECURITY_PATH", "RESULT_INGRESS", "EXECUTION", "DEPENDENCY"}
Batch == [id : Nat, started : Seconds, finished : Seconds, counts : Counts,
          saturated : BOOLEAN, alert : Alerts]
NoBatch == [id |-> 0]
-----------------------------------------------------------------------------
Some(counts, outcomes) == \E o \in outcomes \cap Outcomes : counts[o] > 0

Execution == {"RETRY_HEARTBEAT", "RETRY_SUPERVISOR"}
Dependency == {"RETRY_PERSISTENCE", "RETRY_CONTEXT", "RETRY_START"}

AlertCode_ingressFirst(counts, full) ==
  CASE full -> "SATURATED"
    [] ~full /\ Some(counts, {"RETRY_COMMIT"}) -> "RESULT_INGRESS"
    [] ~full /\ Some(counts, {"RETRY_REJECTION_SINK"}) -> "SECURITY_PATH"
    [] ~full /\ Some(counts, Execution) -> "EXECUTION"
    [] ~full /\ Some(counts, Dependency) -> "DEPENDENCY"
    [] OTHER -> "NONE"

\* classifyGuestQueueAlert: the first that applies.
AlertCode(counts, full) ==
  IF full THEN "SATURATED"
  ELSE IF Some(counts, {"RETRY_REJECTION_SINK"}) THEN "SECURITY_PATH"
  ELSE IF Some(counts, {"RETRY_COMMIT"}) THEN "RESULT_INGRESS"
  ELSE IF Some(counts, Execution) THEN "EXECUTION"
  ELSE IF Some(counts, Dependency) THEN "DEPENDENCY"
  ELSE "NONE"

\* The checks of the batches table: each alert with all that it excludes.
Storable(b) ==
  LET c == b.counts
      sink == Some(c, {"RETRY_REJECTION_SINK"})
      ingress == Some(c, {"RETRY_COMMIT"})
  IN /\ b.finished >= b.started
     /\ Some(c, Outcomes)
     /\ \/ b.saturated /\ b.alert = "SATURATED"
        \/ ~b.saturated /\ sink /\ b.alert = "SECURITY_PATH"
        \/ ~b.saturated /\ ~sink /\ ingress /\ b.alert = "RESULT_INGRESS"
        \/ /\ ~b.saturated /\ ~sink /\ ~ingress
           /\ Some(c, Execution) /\ b.alert = "EXECUTION"
        \/ /\ ~b.saturated /\ ~sink /\ ~ingress /\ ~Some(c, Execution)
           /\ Some(c, Dependency) /\ b.alert = "DEPENDENCY"
        \/ /\ ~b.saturated /\ ~sink /\ ~ingress
           /\ ~Some(c, Execution) /\ ~Some(c, Dependency) /\ b.alert = "NONE"

\* runFlush's batch of the active counters.
NewBatch(t) ==
  [id |-> nextId, started |-> startedAt, finished |-> t, counts |-> active,
   saturated |-> saturated, alert |-> AlertCode(active, saturated)]

ClearActive ==
  /\ active' = None /\ startedAt' = 0 /\ saturated' = FALSE

IsFull(o) == active[o] = MaxCount

\* record: the first outcome starts the clock, a full counter only saturates.
Record(o, t) ==
  /\ phase \in {"OPEN", "CLOSING"} \/ (broken /\ phase \in {"STOPPING", "FINAL"})
  /\ Total(recorded) < MaxRecords
  /\ startedAt' = IF startedAt = 0 THEN t ELSE startedAt
  /\ saturated' = (saturated \/ IsFull(o))
  /\ active' = IF IsFull(o) THEN active ELSE [active EXCEPT ![o] = @ + 1]
  /\ lost' = IF IsFull(o) THEN [lost EXCEPT ![o] = @ + 1] ELSE lost
  /\ recorded' = [recorded EXCEPT ![o] = @ + 1]
  /\ UNCHANGED <<pending, flush, timer, phase, broken, nextId, batches, everStored, failedBefore>>
-----------------------------------------------------------------------------
SetsTimer_ifStored(stage) == stage \in {"OPEN", "CLOSING"} /\ flush
SetsTimer(stage) == stage \in {"OPEN", "CLOSING"}

\* A flush made at this stage is over: the scheduler sets its timer again unless
\* it is stopped, a failure makes the process close (reportTelemetry of the command
\* line), and the outcome of the final flush is the outcome of the process.
Settled(stage, ok) ==
  /\ flush' = FALSE
  /\ timer' = SetsTimer(stage)
  /\ phase' = CASE stage = "FINAL" -> (IF ok /\ ~broken THEN "CLOSED" ELSE "FAILED")
               [] stage = "OPEN" -> (IF ok THEN "OPEN" ELSE "CLOSING")
               [] OTHER -> stage
  /\ failedBefore' = (failedBefore \/ ~ok)

CallsStore(stage) ==
  flush' = TRUE /\ timer' = FALSE /\ phase' = stage /\ UNCHANGED failedBefore

\* runFlush: a pending batch goes to the store again as it is, otherwise the active
\* counters become one, unless there are none, or the clock shows a time before them or fails.
FlushBegins(stage) ==
  /\ \/ /\ pending # NoBatch
        /\ CallsStore(stage)
        /\ UNCHANGED <<counters, pending, nextId>>
     \/ /\ pending = NoBatch /\ startedAt # 0
        /\ \E t \in startedAt..LastSecond : pending' = NewBatch(t)
        /\ nextId' = nextId + 1
        /\ ClearActive
        /\ CallsStore(stage)
     \/ /\ pending = NoBatch
        /\ Settled(stage, startedAt = 0)
        /\ UNCHANGED <<counters, pending, nextId>>
  /\ UNCHANGED <<broken, batches, recorded, lost, everStored>>

TimerFires ==
  timer /\ phase \in {"OPEN", "CLOSING"} /\ FlushBegins(phase)

\* recordAndPrune: batches past their retention go, the batch is inserted unless
\* it is there.
WithBatch(b) == {x \in batches : x.finished + BatchRetention > b.finished} \cup {b}

PendingAfterFailure_dropped == NoBatch
PendingAfterFailure == pending

StoreAnswers ==
  /\ flush
  /\ Storable(pending)
  /\ batches' = WithBatch(pending)
  /\ everStored' = everStored \cup {pending}
  /\ pending' = NoBatch
  /\ Settled(phase, TRUE)
  /\ UNCHANGED <<counters, broken, nextId, recorded, lost>>

\* The store is refused, unreachable, or does not answer what it did.
StoreFails ==
  /\ flush
  /\ \/ UNCHANGED <<batches, everStored>>
     \/ /\ Storable(pending)
        /\ batches' = WithBatch(pending)
        /\ everStored' = everStored \cup {pending}
  /\ pending' = PendingAfterFailure
  /\ Settled(phase, FALSE)
  /\ UNCHANGED <<counters, broken, nextId, recorded, lost>>
-----------------------------------------------------------------------------
\* A signal, a failure of the pool, or of the transport to become ready.
RequestStop ==
  /\ phase = "OPEN" /\ phase' = "CLOSING"
  /\ UNCHANGED <<counters, pending, flush, timer, broken, nextId, batches, history>>

\* The transport is closed, so that its jobs are over and record nothing any more, or
\* fails to close. The scheduler is told to stop either way.
TransportClosed ==
  /\ phase = "CLOSING" /\ phase' = "STOPPING"
  /\ broken' \in BOOLEAN
  /\ timer' = FALSE
  /\ UNCHANGED <<counters, pending, flush, nextId, batches, history>>

FlushInFlight_ignored == FALSE
FlushInFlight_stuck == flush \/ failedBefore
FlushInFlight == flush

\* stop: once the flush in flight is over, one more.
FinalFlush ==
  /\ phase = "STOPPING" /\ ~FlushInFlight
  /\ FlushBegins("FINAL")

\* The process dies or exits, and another starts; what it held is gone.
Restart ==
  /\ lost' = Plus(lost, Plus(active,
       IF pending # NoBatch /\ pending \notin everStored THEN pending.counts ELSE None))
  /\ ClearActive
  /\ pending' = NoBatch /\ flush' = FALSE /\ timer' = TRUE /\ phase' = "OPEN"
  /\ broken' = FALSE /\ failedBefore' = FALSE
  /\ UNCHANGED <<nextId, batches, recorded, everStored>>

Init ==
  /\ active = None /\ startedAt = 0 /\ saturated = FALSE
  /\ pending = NoBatch /\ flush = FALSE /\ timer = TRUE /\ phase = "OPEN" /\ broken = FALSE
  /\ nextId = 1 /\ batches = {}
  /\ recorded = None /\ lost = None /\ everStored = {} /\ failedBefore = FALSE

StoreReturns == StoreAnswers \/ StoreFails

Next ==
  \/ \E o \in Outcomes, t \in Seconds : Record(o, t)
  \/ TimerFires
  \/ StoreReturns
  \/ RequestStop
  \/ TransportClosed
  \/ FinalFlush
  \/ Restart

Spec == Init /\ [][Next]_vars

\* The timer fires; every call of the store returns; the transport's close waits for jobs that have
\* deadlines; the final flush follows by itself.
FairSpec ==
  /\ Spec
  /\ WF_vars(TimerFires) /\ WF_vars(StoreReturns)
  /\ WF_vars(TransportClosed) /\ WF_vars(FinalFlush)
-----------------------------------------------------------------------------
\* The batches that were stored or may be, and what each counts of an outcome.
Held == everStored \cup ({pending} \ {NoBatch})
CountsOf(o) == [b \in Batch |-> b.counts[o]]

\* Every recorded outcome is counted once: in a batch that was stored, in the batch
\* that is pending, in the active counters or among the losses, however often a
\* batch was stored without an answer; and a pending batch is one that the table does
\* not refuse, or it would be pending for ever and no later one be stored.
CountedOnce ==
  /\ pending # NoBatch => Storable(pending)
  /\ \A o \in Outcomes : recorded[o] = active[o] + lost[o] + Sum(CountsOf(o), Held)

\* A process whose orderly stop succeeds leaves nothing unstored, unless a flush
\* had failed before: then the final flush stores the batch that was pending and
\* what was recorded after it is lost. A stop succeeds only if the transport closed.
CleanStopStoresAll ==
  phase = "CLOSED" => pending = NoBatch /\ (active = None \/ failedBefore)

\* A process that begins to close ends, whether or not its store works.
StopEnds == phase = "CLOSING" ~> phase \in {"CLOSED", "FAILED", "OPEN"}

\* No outcome waits for ever in the active counters of a process that lives.
NothingWaits == startedAt # 0 ~> (startedAt = 0 \/ phase \in {"CLOSED", "FAILED"})
=============================================================================
