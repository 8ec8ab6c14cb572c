-------------------------- MODULE RetentionRuntime --------------------------
(***************************************************************************)
(* The retention processes: cycles of batches that delete due rows, the    *)
(* record each cycle leaves in platform_guest_retention_runs, and the      *)
(* scheduler that starts and stops cycles.                                 *)
(*                                                                         *)
(* Several processes may run at once (a deployment starts the new one      *)
(* before the old one has stopped).  A batch selects rows with FOR UPDATE  *)
(* SKIP LOCKED and deletes them at its COMMIT, so here, unlike in the      *)
(* modules about scans, a batch is two steps, and between them its rows    *)
(* are locked.  Batches compare deadlines with a reading of their          *)
(* process's clock, at most Drift wrong; revocations are pruned by the     *)
(* clock of the database, which is the true time.  What is counted are     *)
(* deleted rows of each kind; the decrements of counters that go with      *)
(* scans are in GuestAdmission and GuestScanStore.                         *)
(***************************************************************************)
EXTENDS Integers, FiniteSets, FiniteSetsExt

CONSTANTS
  Processes,
  Scans, Windows, Revocations,  \* rows that will be due, of each table
  DueAt,         \* deletion_deadline, reset_at or expires_at of each
  BatchSize,     \* 100 in the code
  MaxBatches,    \* batches of one cycle, 10 in the code
  Drift,         \* how far a reading may be from the true time
  Horizon,       \* bound: the last second of true time
  MaxFailures    \* bound: how many calls fail or are not answered

Rows == Scans \cup Windows \cup Revocations

ASSUME RetentionAssumption ==
  /\ IsFiniteSet(Rows)
  /\ Scans \cap Windows = {} /\ (Scans \cup Windows) \cap Revocations = {}
  /\ DueAt \in [Rows -> Nat \ {0}]
  /\ BatchSize \in Nat \ {0} /\ MaxBatches \in Nat \ {0}
  /\ Drift \in Nat /\ Horizon \in Nat /\ MaxFailures \in Nat

VARIABLES
  now,       \* true time
  rows,      \* the rows that exist
  pc,        \* what each process's cycle waits for
  record,    \* the record each cycle builds
  batch,     \* the open batch: its reading, the rows it locked, what it saw
  timer,     \* whether the timer of each process is set
  life,      \* "UP", "STOPPING", or "STOPPED": no process
  outcome,   \* what each process's last cycle reported, until the next begins
  stored,    \* the record that cycle left in the table, until the next begins
  failures

cycle == <<pc, record, batch>>
reports == <<outcome, stored>>
vars == <<now, rows, cycle, timer, life, reports, failures>>

Kinds == {"SCAN", "WINDOW", "REVOCATION"}
RowsOf == [SCAN |-> Scans, WINDOW |-> Windows, REVOCATION |-> Revocations]
NoRows == [k \in Kinds |-> 0]
Count(set) == [k \in Kinds |-> Cardinality(set \cap RowsOf[k])]
Plus(f, g) == [k \in Kinds |-> f[k] + g[k]]

\* A row of platform_guest_retention_runs.  The failure and alert codes follow
\* from "failed"; "actual" is no column, it counts what the cycle really deleted.
Record ==
  [started : Nat, finished : Nat, status : {"SUCCEEDED", "PARTIAL", "FAILED"},
   observed : Nat, batches : Nat, deleted : [Kinds -> Nat],
   more : {"NULL", "TRUE", "FALSE"}, failed : BOOLEAN, actual : [Kinds -> Nat]]
emptyRecord(t) ==
  [started |-> t, finished |-> t, status |-> "FAILED", observed |-> 0, batches |-> 1,
   deleted |-> NoRows, more |-> "NULL", failed |-> TRUE, actual |-> NoRows]
NoRecord == emptyRecord(0)
NoBatch == [reading |-> 0, chosen |-> {}, more |-> FALSE, pruned |-> {}]

Readings == {t \in (now - Drift)..(now + Drift) : t > 0}
Due(set, t) == {r \in set : DueAt[r] <= t}
Locked == UNION {batch[p].chosen : p \in Processes}
-----------------------------------------------------------------------------
\* A call fails or its answer is lost.
Fails == failures < MaxFailures /\ failures' = failures + 1

Goes(p, where) == pc' = [pc EXCEPT ![p] = where]

BeginsCycle(p) ==
  /\ \E t \in Readings : record' = [record EXCEPT ![p] = emptyRecord(t)]
  /\ outcome' = [outcome EXCEPT ![p] = "NONE"]
  /\ stored' = [stored EXCEPT ![p] = NoRecord]
  /\ Goes(p, "BATCH")

\* A process starts with a cycle, and begins the next when its timer fires.
Start(p) ==
  /\ life[p] = "STOPPED"
  /\ life' = [life EXCEPT ![p] = "UP"]
  /\ BeginsCycle(p)
  /\ UNCHANGED <<now, rows, batch, timer, failures>>

TimerFires(p) ==
  /\ timer[p]
  /\ timer' = [timer EXCEPT ![p] = FALSE]
  /\ BeginsCycle(p)
  /\ UNCHANGED <<now, rows, batch, life, failures>>

\* A full batch of the due rows of a set that nobody has locked.
Selections(set, t) ==
  LET free == Due(set \cap rows, t) \ Locked
  IN kSubset(IF Cardinality(free) < BatchSize THEN Cardinality(free) ELSE BatchSize, free)

\* runBatch up to its COMMIT: due scans, and due windows, are locked.
SelectRows(p) ==
  /\ pc[p] = "BATCH"
  /\ \E t \in Readings : \E s \in Selections(Scans, t), w \in Selections(Windows, t) :
       batch' = [batch EXCEPT ![p] = [NoBatch EXCEPT !.reading = t, !.chosen = s \cup w]]
  /\ Goes(p, "COMMIT")
  /\ UNCHANGED <<now, rows, record, timer, life, reports, failures>>

MoreRows_unlocked(p) ==
  Due(((Scans \cup Windows) \cap rows) \ Locked, batch[p].reading) # {}

\* MORE_WORK_SQL: whether due rows remain, those that others have locked among them.
MoreRows(p) ==
  Due(((Scans \cup Windows) \cap rows) \ batch[p].chosen, batch[p].reading) # {}

BatchDeletes(p) == rows' = rows \ batch[p].chosen

\* The batch is committed and answered.
BatchAnswered(p) ==
  /\ pc[p] = "COMMIT"
  /\ BatchDeletes(p)
  /\ record' = [record EXCEPT ![p].observed = batch[p].reading,
                              ![p].deleted = Plus(@, Count(batch[p].chosen)),
                              ![p].actual = Plus(@, Count(batch[p].chosen))]
  /\ batch' = [batch EXCEPT ![p] = [NoBatch EXCEPT !.more = MoreRows(p)]]
  /\ Goes(p, "PRUNE")
  /\ UNCHANGED <<now, timer, life, reports, failures>>

Failed_keepsMore(r) == [r EXCEPT !.status = "FAILED", !.failed = TRUE]
Failed_forgets(r) ==
  [r EXCEPT !.status = "FAILED", !.more = "NULL", !.failed = TRUE, !.deleted = NoRows]

\* A call of the cycle failed: what was counted before is kept.
Failed(r) == [r EXCEPT !.status = "FAILED", !.more = "NULL", !.failed = TRUE]

\* The batch is refused or rolled back, or only its answer is lost.
BatchFails(p) ==
  /\ pc[p] \in {"BATCH", "COMMIT"} /\ Fails
  /\ \/ /\ record' = [record EXCEPT ![p] = Failed(@)]
        /\ UNCHANGED rows
     \/ /\ record' = [record EXCEPT ![p] = [Failed(record[p]) EXCEPT
                         !.actual = Plus(@, Count(batch[p].chosen))]]
        /\ BatchDeletes(p)
  /\ batch' = [batch EXCEPT ![p] = NoBatch]
  /\ Goes(p, "STORE")
  /\ UNCHANGED <<now, timer, life, reports>>

\* pruneExpired, first statement: a batch of expired revocations is deleted.
PruneDeletes(p) ==
  /\ pc[p] = "PRUNE"
  /\ \E set \in Selections(Revocations, now) :
       /\ rows' = rows \ set
       /\ batch' = [batch EXCEPT ![p].pruned = set]
       /\ record' = [record EXCEPT ![p].actual = Plus(@, Count(set))]
  /\ Goes(p, "PRUNED")
  /\ UNCHANGED <<now, timer, life, reports, failures>>

Again(p) == record[p].batches < MaxBatches

\* The second statement, and what the cycle makes of both answers.
MoreWork(p) == batch[p].more \/ Due(Revocations \cap rows, now) # {}

PruneAnswered(p) ==
  /\ pc[p] = "PRUNED"
  /\ LET more == MoreWork(p)
         again == more /\ Again(p)
     IN /\ record' = [record EXCEPT ![p] = [record[p] EXCEPT
              !.deleted = Plus(@, Count(batch[p].pruned)),
              !.more = IF more THEN "TRUE" ELSE "FALSE",
              !.status = IF more THEN "PARTIAL" ELSE "SUCCEEDED",
              !.failed = FALSE,
              !.batches = IF again THEN @ + 1 ELSE @]]
        /\ Goes(p, IF again THEN "BATCH" ELSE "STORE")
  /\ batch' = [batch EXCEPT ![p] = NoBatch]
  /\ UNCHANGED <<now, rows, timer, life, reports, failures>>

PruneFails(p) ==
  /\ pc[p] \in {"PRUNE", "PRUNED"} /\ Fails
  /\ record' = [record EXCEPT ![p] = Failed(@)]
  /\ batch' = [batch EXCEPT ![p] = NoBatch]
  /\ Goes(p, "STORE")
  /\ UNCHANGED <<now, rows, timer, life, reports>>
-----------------------------------------------------------------------------
SetsTimer_ifStored(p, result) == life[p] = "UP" /\ result = "OK"

\* The next cycle is due an interval after this one unless the process stops.
SetsTimer(p, result) == life[p] = "UP"

EndsCycle(p, result, left) ==
  /\ outcome' = [outcome EXCEPT ![p] = result]
  /\ stored' = [stored EXCEPT ![p] = left]
  /\ timer' = [timer EXCEPT ![p] = SetsTimer(p, result)]
  /\ record' = [record EXCEPT ![p] = NoRecord]
  /\ Goes(p, "IDLE")

\* The clock went back too far for the times of the record.
TimesInvalid(r, t) ==
  t < r.started \/ (r.observed # 0 /\ (r.observed < r.started \/ r.observed > t))

Finish(p) ==
  /\ pc[p] = "STORE"
  /\ \E t \in Readings :
       \/ /\ TimesInvalid(record[p], t)
          /\ EndsCycle(p, "INVALID_RETENTION_RUNTIME", NoRecord)
       \/ /\ ~TimesInvalid(record[p], t)
          /\ record' = [record EXCEPT ![p].finished = t]
          /\ Goes(p, "STORING")
          /\ UNCHANGED <<timer, reports>>
  /\ UNCHANGED <<now, rows, batch, life, failures>>

\* validateGuestRetentionRunRecord and the checks of the table.
Storable(r) ==
  /\ r.started <= r.finished
  /\ r.observed # 0 => r.observed \in r.started..r.finished
  /\ r.failed <=> r.status = "FAILED"
  /\ r.status = "FAILED" => r.more = "NULL"
  /\ r.status # "FAILED" =>
       /\ r.observed # 0
       /\ r.more = IF r.status = "PARTIAL" THEN "TRUE" ELSE "FALSE"
  /\ \A k \in Kinds : r.deleted[k] <= r.batches * BatchSize

\* What an unanswered call may have left in the table.
Stores(p) ==
  {NoRecord} \cup IF pc[p] = "STORING" /\ Storable(record[p]) THEN {record[p]} ELSE {}

StoreAnswered(p) ==
  /\ pc[p] = "STORING" /\ Storable(record[p])
  /\ EndsCycle(p, "OK", record[p])
  /\ UNCHANGED <<now, rows, batch, life, failures>>

StoreFails(p) ==
  /\ pc[p] = "STORING"
  /\ IF Storable(record[p]) THEN Fails ELSE UNCHANGED failures
  /\ \E left \in Stores(p) : EndsCycle(p, "RETENTION_RUN_STORE_UNAVAILABLE", left)
  /\ UNCHANGED <<now, rows, batch, life>>
-----------------------------------------------------------------------------
\* stop: no timer any more; the cycle under way ends by itself.
RequestStop(p) ==
  /\ life[p] = "UP"
  /\ life' = [life EXCEPT ![p] = "STOPPING"]
  /\ timer' = [timer EXCEPT ![p] = FALSE]
  /\ UNCHANGED <<now, rows, cycle, reports, failures>>

StopDone(p) ==
  /\ life[p] = "STOPPING" /\ pc[p] = "IDLE"
  /\ life' = [life EXCEPT ![p] = "STOPPED"]
  /\ UNCHANGED <<now, rows, cycle, timer, reports, failures>>

\* The process dies; a COMMIT it sent may still be applied.
Crash(p) ==
  /\ life[p] # "STOPPED" /\ Fails
  /\ life' = [life EXCEPT ![p] = "STOPPED"]
  /\ timer' = [timer EXCEPT ![p] = FALSE]
  /\ outcome' = [outcome EXCEPT ![p] = "NONE"]
  /\ BatchDeletes(p) \/ UNCHANGED rows
  /\ batch' = [batch EXCEPT ![p] = NoBatch]
  /\ \E left \in Stores(p) : stored' = [stored EXCEPT ![p] = left]
  /\ record' = [record EXCEPT ![p] = NoRecord]
  /\ Goes(p, "IDLE")
  /\ UNCHANGED now

\* Admission removes an expired scan to replace it, unless a batch holds it.
Replaced(s) ==
  /\ s \in (Scans \cap rows) \ Locked
  /\ rows' = rows \ {s}
  /\ UNCHANGED <<now, cycle, timer, life, reports, failures>>

Tick ==
  /\ now < Horizon
  /\ now' = now + 1
  /\ UNCHANGED <<rows, cycle, timer, life, reports, failures>>

Init ==
  /\ now = 1 /\ rows = Rows /\ failures = 0
  /\ pc = [p \in Processes |-> "IDLE"]
  /\ record = [p \in Processes |-> NoRecord]
  /\ batch = [p \in Processes |-> NoBatch]
  /\ timer = [p \in Processes |-> FALSE]
  /\ life = [p \in Processes |-> "STOPPED"]
  /\ outcome = [p \in Processes |-> "NONE"]
  /\ stored = [p \in Processes |-> NoRecord]

CycleStep(p) ==
  \/ SelectRows(p) \/ BatchAnswered(p) \/ BatchFails(p)
  \/ PruneDeletes(p) \/ PruneAnswered(p) \/ PruneFails(p)
  \/ Finish(p) \/ StoreAnswered(p) \/ StoreFails(p)

Next ==
  \/ \E p \in Processes :
       \/ TimerFires(p) \/ CycleStep(p)
       \/ Start(p) \/ RequestStop(p) \/ StopDone(p) \/ Crash(p)
  \/ \E s \in Scans : Replaced(s)
  \/ Tick

Spec == Init /\ [][Next]_vars

\* Time passes, timers fire, calls of PostgreSQL return, a stop that may end does.
FairSpec ==
  /\ Spec
  /\ WF_vars(Tick)
  /\ \A p \in Processes :
       WF_vars(TimerFires(p)) /\ WF_vars(CycleStep(p)) /\ WF_vars(StopDone(p))
-----------------------------------------------------------------------------
\* A cycle is reported as done only with a record in the table, and a record never
\* claims a deletion that did not happen; a failed cycle may hide what its last
\* batch did, and no more than that. Whichever calls failed and whatever the clocks did,
\* the record a cycle ends with is one that the store and the table accept: a refused one
\* would look like an outage of the store, and the cycle leave no trace.
RecordsAreTrue ==
  \A p \in Processes :
    /\ pc[p] = "STORING" => Storable(record[p])
    /\ outcome[p] = "OK" => stored[p] # NoRecord
    /\ \A k \in Kinds :
         stored[p].actual[k] - stored[p].deleted[k] \in
           0..(IF stored[p].status = "FAILED" THEN BatchSize ELSE 0)

\* SUCCEEDED means that nothing was left to do: of the scans and windows that were
\* due at the observed time none exists any more, not even one that another process
\* had locked and then failed to delete, and so of the revocations up to the clock error.
SucceededMeansDone ==
  \A p \in Processes :
    stored[p].status = "SUCCEEDED" =>
      /\ Due((Scans \cup Windows) \cap rows, stored[p].observed) = {}
      /\ Due(Revocations \cap rows, stored[p].observed - Drift) = {}

\* Every row is deleted some time after every clock reads it as due, while some process is not stopped,
\* through failed batches, full batches and cycles that leave work to the next.
DueRowsGo ==
  \A r \in Rows :
    DueAt[r] + Drift <= now ~> (r \notin rows \/ \A p \in Processes : life[p] = "STOPPED")
=============================================================================
