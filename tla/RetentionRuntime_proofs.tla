----------------------- MODULE RetentionRuntime_proofs -----------------------
(***************************************************************************)
(* Proofs that the records of retention cycles tell the truth, for every   *)
(* number of processes and rows, every size and number of batches, every   *)
(* clock error and every sequence of failures and crashes.                 *)
(***************************************************************************)
EXTENDS RetentionRuntime, FiniteSetTheorems, TLAPS

Awaits == {"IDLE", "BATCH", "COMMIT", "PRUNE", "PRUNED", "STORE", "STORING"}
Batches ==
  [reading : Nat, chosen : SUBSET (Scans \cup Windows), more : BOOLEAN,
   pruned : SUBSET Revocations]
CycleOutcomes ==
  {"NONE", "OK", "INVALID_RETENTION_RUNTIME", "RETENTION_RUN_STORE_UNAVAILABLE"}

Types ==
  /\ now \in Nat /\ rows \in SUBSET Rows
  /\ pc \in [Processes -> Awaits]
  /\ record \in [Processes -> Record] /\ stored \in [Processes -> Record]
  /\ batch \in [Processes -> Batches]
  /\ outcome \in [Processes -> CycleOutcomes]

\* A batch locks or deletes at most BatchSize rows of each kind.
Small(set) == \A k \in Kinds : Count(set)[k] \in 0..BatchSize

\* What a record counts, in what its batches may have deleted.
Within(r) == \A k \in Kinds : r.deleted[k] <= r.batches * BatchSize
WithinEarlier(r, kinds) ==
  \A k \in kinds : r.deleted[k] + BatchSize <= r.batches * BatchSize
Exact(r) == \A k \in Kinds : r.actual[k] = r.deleted[k]
Hidden(r) ==
  \A k \in Kinds : r.actual[k] - r.deleted[k] \in
    0..(IF r.status = "FAILED" THEN BatchSize ELSE 0)

Counted(r, b, at) ==
  /\ Small(b.chosen) /\ Small(b.pruned)
  /\ at \in {"BATCH", "COMMIT"} => Exact(r) /\ WithinEarlier(r, Kinds)
  /\ at \in {"PRUNE", "PRUNED"} => Within(r) /\ WithinEarlier(r, {"REVOCATION"})
  /\ at = "PRUNE" => Exact(r)
  /\ at = "PRUNED" =>
       \A k \in Kinds : r.actual[k] = r.deleted[k] + Count(b.pruned)[k]
  /\ at \in {"STORE", "STORING"} => Within(r) /\ Hidden(r)

\* No scan or window, and no revocation, that was due at the observed time is left.
RowsDone(t, left) == Due((Scans \cup Windows) \cap left, t) = {}
RevocationsDone(t, left) == Due(Revocations \cap left, t - Drift) = {}
Done(r, left) ==
  r.status = "SUCCEEDED" => RowsDone(r.observed, left) /\ RevocationsDone(r.observed, left)

\* The status, the flags and the times of a record agree.
Consistent(r) ==
  /\ r.failed <=> r.status = "FAILED"
  /\ r.status = "FAILED" => r.more = "NULL"
  /\ r.status # "FAILED" =>
       r.observed # 0 /\ r.more = IF r.status = "PARTIAL" THEN "TRUE" ELSE "FALSE"
Judged(r, b, at, time, left) ==
  /\ r.observed <= time + Drift /\ b.reading <= time + Drift
  /\ at # "IDLE" => r.started # 0
  /\ at = "COMMIT" => b.reading # 0
  /\ at \in {"PRUNE", "PRUNED"} => r.observed # 0 /\ (b.more \/ RowsDone(r.observed, left))
  /\ at \in {"STORE", "STORING"} => Consistent(r) /\ Done(r, left)
  /\ at = "STORING" => ~TimesInvalid(r, r.finished)

\* What a process leaves in the table.
Left(r, result, left) == (result = "OK" => r # NoRecord) /\ Hidden(r) /\ Done(r, left)

Local(p) ==
  /\ Counted(record[p], batch[p], pc[p])
  /\ Judged(record[p], batch[p], pc[p], now, rows)
  /\ Left(stored[p], outcome[p], rows)

\* The inductive invariant.
IInv == Types /\ \A p \in Processes : Local(p)
-----------------------------------------------------------------------------
LEMMA CountTyped ==
  ASSUME NEW set \in SUBSET Rows
  PROVE  Count(set) \in [Kinds -> Nat]
<1>1. ASSUME NEW k \in Kinds PROVE Cardinality(set \cap RowsOf[k]) \in Nat
  <2>1. set \cap RowsOf[k] \in SUBSET Rows
    OBVIOUS
  <2>2. IsFiniteSet(set \cap RowsOf[k])
    BY <2>1, RetentionAssumption, FS_Subset
  <2> QED BY <2>2, FS_CardinalityType
<1> QED BY <1>1 DEF Count

\* The empty batch.
LEMMA EmptyIsSmall ==
  /\ Count({}) = NoRows /\ Small({})
  /\ NoBatch \in Batches
<1>1. \A k \in Kinds : Cardinality({} \cap RowsOf[k]) = 0
  <2>1. \A k \in Kinds : {} \cap RowsOf[k] = {}
    OBVIOUS
  <2> QED BY <2>1, FS_EmptySet
<1>2. Count({}) = NoRows
  BY <1>1 DEF Count, NoRows
<1> QED BY <1>2, RetentionAssumption DEF Small, NoRows, NoBatch, Batches

\* A selection has at most a batch of rows, all of them there and due.
LEMMA SelectionIs ==
  ASSUME NEW set \in SUBSET Rows, Types, NEW t, NEW chosen \in Selections(set, t)
  PROVE  /\ chosen \in SUBSET (set \cap rows)
         /\ Cardinality(chosen) \in 0..BatchSize
<1> DEFINE free == Due(set \cap rows, t) \ Locked
<1>1. free \in SUBSET (set \cap rows) /\ free \in SUBSET Rows
  BY DEF Due
<1>2. IsFiniteSet(free)
  BY <1>1, RetentionAssumption, FS_Subset
<1>3. Cardinality(free) \in Nat
  BY <1>2, FS_CardinalityType
<1>4. /\ chosen \in SUBSET free
      /\ Cardinality(chosen) = IF Cardinality(free) < BatchSize THEN Cardinality(free) ELSE BatchSize
  BY DEF Selections, kSubset
<1> HIDE DEF free
<1> QED BY <1>1, <1>3, <1>4, RetentionAssumption

\* The rows a batch locks, and those it prunes, are a small set.
LEMMA ChosenIsSmall ==
  ASSUME NEW s \in SUBSET Scans, NEW w \in SUBSET Windows,
         Cardinality(s) \in 0..BatchSize, Cardinality(w) \in 0..BatchSize
  PROVE  Small(s \cup w)
<1>1. /\ (s \cup w) \cap Scans = s /\ (s \cup w) \cap Windows = w
      /\ (s \cup w) \cap Revocations = {}
  BY RetentionAssumption
<1>2. Cardinality((s \cup w) \cap Revocations) = 0
  BY <1>1, FS_EmptySet
<1> QED BY <1>1, <1>2, RetentionAssumption DEF Small, Count, Kinds, RowsOf

LEMMA PrunedIsSmall ==
  ASSUME NEW r \in SUBSET Revocations, Cardinality(r) \in 0..BatchSize
  PROVE  Small(r)
<1>1. r \cap Scans = {} /\ r \cap Windows = {} /\ r \cap Revocations = r
  BY RetentionAssumption
<1>2. Cardinality(r \cap Scans) = 0 /\ Cardinality(r \cap Windows) = 0
  BY <1>1, FS_EmptySet
<1> QED BY <1>1, <1>2, RetentionAssumption DEF Small, Count, Kinds, RowsOf

\* A batch deletes no revocation, and pruning nothing else.
LEMMA KindsApart ==
  /\ \A set \in SUBSET (Scans \cup Windows) : Count(set)["REVOCATION"] = 0
  /\ \A set \in SUBSET Revocations : \A k \in Kinds \ {"REVOCATION"} : Count(set)[k] = 0
<1>1. ASSUME NEW set \in SUBSET (Scans \cup Windows) PROVE Count(set)["REVOCATION"] = 0
  <2>1. set \cap Revocations = {}
    BY RetentionAssumption
  <2>2. Cardinality(set \cap Revocations) = 0
    BY <2>1, FS_EmptySet
  <2> QED BY <2>2 DEF Count, Kinds, RowsOf
<1>2. ASSUME NEW set \in SUBSET Revocations, NEW k \in Kinds \ {"REVOCATION"}
      PROVE  Count(set)[k] = 0
  <2>1. set \cap RowsOf[k] = {}
    BY RetentionAssumption DEF Kinds, RowsOf
  <2>2. Cardinality(set \cap RowsOf[k]) = 0
    BY <2>1, FS_EmptySet
  <2> QED BY <2>2 DEF Count
<1> QED BY <1>1, <1>2

\* One more batch allows BatchSize more rows.
LEMMA OneMoreBatch ==
  ASSUME NEW b \in Nat
  PROVE  b * BatchSize \in Nat /\ (b + 1) * BatchSize = b * BatchSize + BatchSize
BY RetentionAssumption

LEMMA NoRecordIs ==
  /\ NoRecord \in Record /\ Hidden(NoRecord) /\ NoRecord.status = "FAILED"
  /\ NoRecord.observed = 0 /\ NoRecord.started = 0
BY RetentionAssumption DEF NoRecord, emptyRecord, Record, NoRows, Hidden
-----------------------------------------------------------------------------
\* Rows that are gone do not come back, and time does not go back: what was done stays done.
LEMMA DoneStays ==
  ASSUME NEW less \in SUBSET rows
  PROVE  /\ \A t : RowsDone(t, rows) => RowsDone(t, less)
         /\ \A r : Done(r, rows) => Done(r, less)
         /\ \A r, o : Left(r, o, rows) => Left(r, o, less)
BY DEF RowsDone, RevocationsDone, Done, Left, Due

\* What concerns a process is kept by the steps of others and of time.
LEMMA LocalKeeps ==
  ASSUME IInv, NEW q \in Processes,
         rows' \in SUBSET rows, now' \in Nat, now' >= now,
         pc'[q] = pc[q], record'[q] = record[q], batch'[q] = batch[q],
         stored'[q] = stored[q], outcome'[q] = outcome[q]
  PROVE  Local(q)'
<1>1. Local(q)
  BY DEF IInv
<1>2. Counted(record'[q], batch'[q], pc'[q])
  BY <1>1 DEF Local
<1>3. record[q].observed \in Nat /\ batch[q].reading \in Nat /\ now \in Nat
  BY DEF IInv, Types, Record, Batches
<1>4. Judged(record[q], batch[q], pc[q], now', rows')
  <2>1. Judged(record[q], batch[q], pc[q], now, rows)
    BY <1>1 DEF Local
  <2>2. record[q].observed <= now' + Drift /\ batch[q].reading <= now' + Drift
    BY <2>1, <1>3, RetentionAssumption DEF Judged
  <2> QED BY <2>1, <2>2, DoneStays DEF Judged
<1>5. Left(stored[q], outcome[q], rows')
  BY <1>1, DoneStays DEF Local
<1> QED BY <1>2, <1>4, <1>5 DEF Local

\* A step of one process keeps the invariant if it keeps what concerns that process.
LEMMA StepKeeps ==
  ASSUME IInv, Types', NEW p \in Processes,
         rows' \in SUBSET rows, now' >= now,
         \A q \in Processes \ {p} :
           /\ pc'[q] = pc[q] /\ record'[q] = record[q] /\ batch'[q] = batch[q]
           /\ stored'[q] = stored[q] /\ outcome'[q] = outcome[q],
         Local(p)'
  PROVE  IInv'
<1> SUFFICES ASSUME NEW q \in Processes, q # p PROVE Local(q)'
  BY DEF IInv
<1>1. now' \in Nat
  BY DEF Types
<1> QED BY <1>1, LocalKeeps

\* A step that leaves cycles and reports alone.
LEMMA QuietKeeps ==
  ASSUME IInv, rows' \in SUBSET rows, now' \in Nat, now' >= now, UNCHANGED <<cycle, reports>>
  PROVE  IInv'
<1>1. Types'
  BY DEF IInv, Types, cycle, reports
<1> SUFFICES ASSUME NEW q \in Processes PROVE Local(q)'
  BY <1>1 DEF IInv
<1>2. /\ pc'[q] = pc[q] /\ record'[q] = record[q] /\ batch'[q] = batch[q]
      /\ stored'[q] = stored[q] /\ outcome'[q] = outcome[q]
  BY DEF cycle, reports
<1> QED BY <1>2, LocalKeeps

\* A step of one process that leaves the clock alone, by the new values of its variables.
LEMMA CycleKeeps ==
  ASSUME IInv, NEW p \in Processes, rows' \in SUBSET rows, now' = now,
         NEW r \in Record, NEW b \in Batches, NEW at \in Awaits,
         NEW s \in Record, NEW o \in CycleOutcomes,
         record' = [record EXCEPT ![p] = r], batch' = [batch EXCEPT ![p] = b],
         pc' = [pc EXCEPT ![p] = at],
         stored' = [stored EXCEPT ![p] = s], outcome' = [outcome EXCEPT ![p] = o],
         Counted(r, b, at), Judged(r, b, at, now, rows'), Left(s, o, rows')
  PROVE  IInv'
<1>1. Types
  BY DEF IInv
<1>2. Types'
  BY <1>1 DEF Types
<1>3. /\ record'[p] = r /\ batch'[p] = b /\ pc'[p] = at
      /\ stored'[p] = s /\ outcome'[p] = o
  BY <1>1 DEF Types
<1>4. Local(p)'
  BY <1>3 DEF Local
<1>5. \A q \in Processes \ {p} :
        /\ pc'[q] = pc[q] /\ record'[q] = record[q] /\ batch'[q] = batch[q]
        /\ stored'[q] = stored[q] /\ outcome'[q] = outcome[q]
  BY <1>1 DEF Types
<1>6. now' >= now
  BY <1>1 DEF Types
<1> QED BY <1>2, <1>4, <1>5, <1>6, StepKeeps

\* What a process's variables hold, and that leaving one alone is an EXCEPT too.
LEMMA Fields ==
  ASSUME IInv, NEW p \in Processes
  PROVE  /\ record[p] \in Record /\ batch[p] \in Batches /\ pc[p] \in Awaits
         /\ stored[p] \in Record /\ outcome[p] \in CycleOutcomes
         /\ now \in Nat /\ rows \in SUBSET Rows
         /\ record = [record EXCEPT ![p] = record[p]] /\ batch = [batch EXCEPT ![p] = batch[p]]
         /\ pc = [pc EXCEPT ![p] = pc[p]]
         /\ stored = [stored EXCEPT ![p] = stored[p]]
         /\ outcome = [outcome EXCEPT ![p] = outcome[p]]
         /\ Counted(record[p], batch[p], pc[p]) 
         /\ Judged(record[p], batch[p], pc[p], now, rows) /\ Left(stored[p], outcome[p], rows)
BY DEF IInv, Types, Local

\* A failed call keeps the counts, and hides at most one batch.
LEMMA FailedIs ==
  ASSUME NEW r \in Record
  PROVE  /\ Failed(r) \in Record /\ Consistent(Failed(r)) /\ \A left : Done(Failed(r), left)
         /\ Failed(r).started = r.started /\ Failed(r).observed = r.observed
         /\ Failed(r).batches = r.batches /\ Failed(r).deleted = r.deleted
         /\ Failed(r).actual = r.actual /\ Failed(r).status = "FAILED"
BY DEF Failed, Record, Consistent, Done

LEMMA ReadingsAre ==
  ASSUME Types, NEW t \in Readings
  PROVE  t \in Nat /\ t # 0 /\ t <= now + Drift
BY RetentionAssumption DEF Readings, Types
-----------------------------------------------------------------------------
LEMMA BeginsKeeps ==
  ASSUME IInv, NEW p \in Processes, BeginsCycle(p), UNCHANGED <<now, rows, batch>>
  PROVE  IInv'
<1>1. PICK t \in Readings : record' = [record EXCEPT ![p] = emptyRecord(t)]
  BY DEF BeginsCycle
<1> DEFINE r == emptyRecord(t)
<1>2. t \in Nat /\ t # 0
  BY ReadingsAre DEF IInv
<1>3. r \in Record /\ r.observed = 0 /\ r.started # 0
  BY <1>2 DEF emptyRecord, Record, NoRows
<1>4. Counted(r, batch[p], "BATCH")
  <2>1. Exact(r)
    BY DEF Exact, emptyRecord
  <2>2. WithinEarlier(r, Kinds)
    BY RetentionAssumption DEF WithinEarlier, emptyRecord, NoRows
  <2> QED BY <2>1, <2>2, Fields DEF Counted
<1>5. Judged(r, batch[p], "BATCH", now, rows)
  BY <1>3, Fields, RetentionAssumption DEF Judged
<1>6. Left(NoRecord, "NONE", rows)
  BY NoRecordIs DEF Left, Done
<1>7. NoRecord \in Record /\ "NONE" \in CycleOutcomes /\ "BATCH" \in Awaits
  BY NoRecordIs DEF CycleOutcomes, Awaits
<1> HIDE DEF r
<1> QED BY <1>1, <1>3, <1>4, <1>5, <1>6, <1>7, Fields, CycleKeeps DEF BeginsCycle, Goes, r

LEMMA SelectKeeps ==
  ASSUME IInv, NEW p \in Processes, SelectRows(p)
  PROVE  IInv'
<1>0. PICK t \in Readings :
        \E s \in Selections(Scans, t), w \in Selections(Windows, t) :
          batch' = [batch EXCEPT ![p] = [NoBatch EXCEPT !.reading = t, !.chosen = s \cup w]]
  BY DEF SelectRows
<1>1. PICK s \in Selections(Scans, t), w \in Selections(Windows, t) :
        batch' = [batch EXCEPT ![p] = [NoBatch EXCEPT !.reading = t, !.chosen = s \cup w]]
  BY <1>0
<1> DEFINE b == [NoBatch EXCEPT !.reading = t, !.chosen = s \cup w]
<1>2. t \in Nat /\ t # 0 /\ t <= now + Drift
  BY ReadingsAre DEF IInv
<1>3. /\ s \in SUBSET Scans /\ Cardinality(s) \in 0..BatchSize
      /\ w \in SUBSET Windows /\ Cardinality(w) \in 0..BatchSize
  <2>1. Types /\ Scans \in SUBSET Rows /\ Windows \in SUBSET Rows
    BY DEF IInv, Rows
  <2>2. s \in SUBSET (Scans \cap rows) /\ Cardinality(s) \in 0..BatchSize
    BY <2>1, SelectionIs
  <2>3. w \in SUBSET (Windows \cap rows) /\ Cardinality(w) \in 0..BatchSize
    BY <2>1, SelectionIs
  <2> QED BY <2>2, <2>3
<1>4. b \in Batches /\ b.reading = t /\ b.chosen = s \cup w /\ b.pruned = {}
  BY <1>2, <1>3 DEF NoBatch, Batches
<1>5. Counted(record[p], b, "COMMIT")
  <2>1. Small(b.chosen) /\ Small(b.pruned)
    BY <1>3, <1>4, ChosenIsSmall, EmptyIsSmall
  <2>2. Exact(record[p]) /\ WithinEarlier(record[p], Kinds)
    BY Fields DEF Counted, SelectRows
  <2> QED BY <2>1, <2>2 DEF Counted
<1>6. Judged(record[p], b, "COMMIT", now, rows)
  BY <1>2, <1>4, Fields DEF Judged, SelectRows
<1> HIDE DEF b
<1> QED BY <1>1, <1>4, <1>5, <1>6, Fields, CycleKeeps DEF SelectRows, Goes, reports, b, Awaits

\* Adding to two functions of the kinds.
LEMMA PlusIs ==
  ASSUME NEW f \in [Kinds -> Nat], NEW g \in [Kinds -> Nat]
  PROVE  Plus(f, g) \in [Kinds -> Nat] /\ \A k \in Kinds : Plus(f, g)[k] = f[k] + g[k]
BY DEF Plus

\* A record with another count of what was deleted.
LEMMA ActualIs ==
  ASSUME NEW r \in Record, NEW a \in [Kinds -> Nat],
         NEW s, s = [r EXCEPT !.actual = a]
  PROVE  /\ s \in Record /\ s.actual = a /\ s.started = r.started
         /\ s.observed = r.observed /\ s.batches = r.batches /\ s.deleted = r.deleted
BY DEF Record

LEMMA BatchAnsweredKeeps ==
  ASSUME IInv, NEW p \in Processes, BatchAnswered(p)
  PROVE  IInv'
<1> DEFINE c == Count(batch[p].chosen)
           r == [record[p] EXCEPT !.observed = batch[p].reading,
                                  !.deleted = Plus(@, c), !.actual = Plus(@, c)]
           b == [NoBatch EXCEPT !.more = MoreRows(p)]
<1>1. /\ batch[p].chosen \in SUBSET (Scans \cup Windows) /\ batch[p].reading \in Nat
      /\ record[p].deleted \in [Kinds -> Nat] /\ record[p].actual \in [Kinds -> Nat]
      /\ record[p].batches \in Nat
  BY Fields DEF Batches, Record
<1>2. c \in [Kinds -> Nat] /\ (\A k \in Kinds : c[k] <= BatchSize) /\ c["REVOCATION"] = 0
  <2>1. c \in [Kinds -> Nat]
    BY <1>1, CountTyped DEF Rows
  <2>2. \A k \in Kinds : c[k] <= BatchSize
    BY Fields, RetentionAssumption DEF Counted, Small
  <2> QED BY <1>1, <2>1, <2>2, KindsApart
<1> HIDE DEF c
<1>3. /\ Plus(record[p].deleted, c) \in [Kinds -> Nat] /\ Plus(record[p].actual, c) \in [Kinds -> Nat]
      /\ \A k \in Kinds : /\ Plus(record[p].deleted, c)[k] = record[p].deleted[k] + c[k]
                          /\ Plus(record[p].actual, c)[k] = record[p].actual[k] + c[k]
  BY <1>1, <1>2, PlusIs
<1>4. /\ r \in Record /\ r.observed = batch[p].reading /\ r.started = record[p].started
      /\ r.batches = record[p].batches
      /\ r.deleted = Plus(record[p].deleted, c) /\ r.actual = Plus(record[p].actual, c)
  <2> DEFINE q == record[p]
             t == batch[p].reading
             d == Plus(record[p].deleted, c)
             a == Plus(record[p].actual, c)
  <2>1. q \in Record /\ t \in Nat /\ d \in [Kinds -> Nat] /\ a \in [Kinds -> Nat]
    BY <1>1, <1>3, Fields
  <2>2. r = [q EXCEPT !.observed = t, !.deleted = d, !.actual = a]
    BY <2>1 DEF Record
  <2> HIDE DEF r, q, t, d, a
  <2>3. /\ r \in Record /\ r.observed = t /\ r.started = q.started
        /\ r.batches = q.batches /\ r.deleted = d /\ r.actual = a
    BY <2>1, <2>2 DEF Record
  <2> QED BY <2>3 DEF q, t, d, a
<1>5. /\ b \in Batches /\ b.chosen = {} /\ b.pruned = {} /\ b.reading = 0
      /\ b.more = MoreRows(p)
  BY DEF NoBatch, Batches, MoreRows
<1>6. /\ record' = [record EXCEPT ![p] = r] /\ batch' = [batch EXCEPT ![p] = b]
      /\ pc' = [pc EXCEPT ![p] = "PRUNE"] /\ rows' = rows \ batch[p].chosen
      /\ UNCHANGED <<now, stored, outcome>> /\ pc[p] = "COMMIT"
  BY DEF BatchAnswered, BatchDeletes, Goes, reports, c
<1> HIDE DEF r, b
<1>7. Counted(r, b, "PRUNE")
  <2>1. Exact(record[p]) /\ WithinEarlier(record[p], Kinds)
    BY <1>6, Fields DEF Counted
  <2>2. Exact(r)
    BY <1>3, <1>4, <2>1 DEF Exact
  <2>3. record[p].batches * BatchSize \in Nat
    BY <1>1, OneMoreBatch
  <2>4. Within(r)
    BY <1>1, <1>2, <1>3, <1>4, <2>1, <2>3, RetentionAssumption DEF Within, WithinEarlier
  <2>5. WithinEarlier(r, {"REVOCATION"})
    BY <1>1, <1>2, <1>3, <1>4, <2>1, <2>3, RetentionAssumption DEF WithinEarlier, Kinds
  <2> QED BY <1>5, <2>2, <2>4, <2>5, EmptyIsSmall DEF Counted
<1>8. Judged(r, b, "PRUNE", now, rows')
  <2>1. b.more \/ RowsDone(r.observed, rows')
    BY <1>4, <1>5, <1>6 DEF MoreRows, RowsDone, Due
  <2> QED BY <1>4, <1>5, <1>6, <2>1, Fields, RetentionAssumption DEF Judged
<1>9. Left(stored[p], outcome[p], rows')
  BY <1>6, Fields, DoneStays
<1> QED BY <1>4, <1>5, <1>6, <1>7, <1>8, <1>9, Fields, CycleKeeps DEF Awaits

LEMMA BatchFailsKeeps ==
  ASSUME IInv, NEW p \in Processes, BatchFails(p)
  PROVE  IInv'
<1> DEFINE c == Count(batch[p].chosen)
           lost == [Failed(record[p]) EXCEPT !.actual = Plus(@, c)]
<1>1. /\ batch[p].chosen \in SUBSET Rows
      /\ record[p].deleted \in [Kinds -> Nat] /\ record[p].actual \in [Kinds -> Nat]
      /\ record[p].batches \in Nat
  BY Fields DEF Batches, Record, Rows
<1>2. c \in [Kinds -> Nat] /\ \A k \in Kinds : c[k] <= BatchSize
  BY <1>1, CountTyped, Fields, RetentionAssumption DEF Counted, Small
<1> HIDE DEF c
<1>3. /\ Plus(record[p].actual, c) \in [Kinds -> Nat]
      /\ \A k \in Kinds : Plus(record[p].actual, c)[k] = record[p].actual[k] + c[k]
  BY <1>1, <1>2, PlusIs
<1>4. /\ Exact(record[p]) /\ WithinEarlier(record[p], Kinds)
      /\ record[p].started # 0 /\ record[p].observed <= now + Drift
  BY Fields DEF BatchFails, Counted, Judged
<1>5. PICK r \in {Failed(record[p]), lost} :
        /\ record' = [record EXCEPT ![p] = r]
        /\ rows' \in SUBSET rows
  <2>1. CASE record' = [record EXCEPT ![p] = Failed(@)] /\ UNCHANGED rows
    BY <2>1, Fields
  <2>2. CASE /\ record' = [record EXCEPT ![p] = [Failed(record[p]) EXCEPT
                             !.actual = Plus(@, Count(batch[p].chosen))]]
             /\ BatchDeletes(p)
    BY <2>2 DEF BatchDeletes, c
  <2> QED BY <2>1, <2>2 DEF BatchFails
<1>6. /\ r \in Record /\ Consistent(r) /\ (\A left : Done(r, left)) /\ r.status = "FAILED"
      /\ r.started = record[p].started /\ r.observed = record[p].observed
      /\ r.batches = record[p].batches /\ r.deleted = record[p].deleted
      /\ \A k \in Kinds : r.actual[k] - record[p].actual[k] \in 0..BatchSize
  <2>1. CASE r = Failed(record[p])
    BY <1>1, <2>1, Fields, FailedIs, RetentionAssumption
  <2>2. CASE r = lost
    <3>1. /\ Failed(record[p]) \in Record /\ Failed(record[p]).actual = record[p].actual
          /\ Failed(record[p]).started = record[p].started
          /\ Failed(record[p]).observed = record[p].observed
          /\ Failed(record[p]).batches = record[p].batches
          /\ Failed(record[p]).deleted = record[p].deleted
          /\ Failed(record[p]).status = "FAILED"
          /\ Consistent(Failed(record[p]))
      BY Fields, FailedIs
    <3>2. /\ r = [Failed(record[p]) EXCEPT !.actual = Plus(record[p].actual, c)]
          /\ r \in Record
      BY <1>3, <2>2, <3>1 DEF Record
    <3>3. /\ r.actual = Plus(record[p].actual, c) /\ r.status = "FAILED"
          /\ r.started = record[p].started /\ r.observed = record[p].observed
          /\ r.batches = record[p].batches /\ r.deleted = record[p].deleted
          /\ r.failed = Failed(record[p]).failed /\ r.more = Failed(record[p]).more
      BY <3>1, <3>2 DEF Record
    <3>4. \A k \in Kinds : r.actual[k] - record[p].actual[k] \in 0..BatchSize
      BY <1>1, <1>2, <1>3, <3>3, RetentionAssumption
    <3> QED BY <3>1, <3>2, <3>3, <3>4 DEF Consistent, Done
  <2> QED BY <2>1, <2>2
<1> HIDE DEF lost
<1>7. Counted(r, NoBatch, "STORE")
  <2>1. Small(NoBatch.chosen) /\ Small(NoBatch.pruned)
    BY EmptyIsSmall DEF NoBatch
  <2>2. record[p].batches * BatchSize \in Nat
    BY <1>1, OneMoreBatch
  <2>3. Within(r)
    BY <1>1, <1>4, <1>6, <2>2, RetentionAssumption DEF Within, WithinEarlier
  <2>4. Hidden(r)
    BY <1>1, <1>4, <1>6 DEF Hidden, Exact
  <2> QED BY <2>1, <2>3, <2>4 DEF Counted
<1>8. Judged(r, NoBatch, "STORE", now, rows')
  BY <1>4, <1>6, Fields, RetentionAssumption DEF Judged, NoBatch
<1>9. Left(stored[p], outcome[p], rows')
  BY <1>5, Fields, DoneStays
<1>10. /\ batch' = [batch EXCEPT ![p] = NoBatch] /\ pc' = [pc EXCEPT ![p] = "STORE"]
       /\ UNCHANGED <<now, stored, outcome>>
  BY DEF BatchFails, Goes, reports
<1> QED BY <1>5, <1>6, <1>7, <1>8, <1>9, <1>10, Fields, EmptyIsSmall, CycleKeeps DEF Awaits

LEMMA PruneDeletesKeeps ==
  ASSUME IInv, NEW p \in Processes, PruneDeletes(p)
  PROVE  IInv'
<1>1. PICK set \in Selections(Revocations, now) :
        /\ rows' = rows \ set
        /\ batch' = [batch EXCEPT ![p].pruned = set]
        /\ record' = [record EXCEPT ![p].actual = Plus(@, Count(set))]
  BY DEF PruneDeletes
<1> DEFINE c == Count(set)
           b == [batch[p] EXCEPT !.pruned = set]
           r == [record[p] EXCEPT !.actual = Plus(@, c)]
<1>2. set \in SUBSET Revocations /\ Cardinality(set) \in 0..BatchSize
  <2>1. Types /\ Revocations \in SUBSET Rows
    BY DEF IInv, Rows
  <2>2. set \in SUBSET (Revocations \cap rows) /\ Cardinality(set) \in 0..BatchSize
    BY <2>1, SelectionIs
  <2> QED BY <2>2
<1>3. /\ b \in Batches /\ b.pruned = set /\ b.chosen = batch[p].chosen
      /\ b.reading = batch[p].reading /\ b.more = batch[p].more
  BY <1>2, Fields DEF Batches
<1>4. c \in [Kinds -> Nat]
  BY <1>2, CountTyped DEF Rows
<1> HIDE DEF c
<1>5. /\ Plus(record[p].actual, c) \in [Kinds -> Nat]
      /\ \A k \in Kinds : Plus(record[p].actual, c)[k] = record[p].actual[k] + c[k]
  <2>1. record[p].actual \in [Kinds -> Nat]
    BY Fields DEF Record
  <2> QED BY <1>4, <2>1, PlusIs
<1>6. /\ r \in Record /\ r.actual = Plus(record[p].actual, c)
      /\ r.started = record[p].started /\ r.observed = record[p].observed
      /\ r.batches = record[p].batches /\ r.deleted = record[p].deleted
  <2>1. r = [record[p] EXCEPT !.actual = Plus(record[p].actual, c)]
    BY Fields DEF Record
  <2>2. record[p] \in Record
    BY Fields
  <2> HIDE DEF r
  <2> QED BY <1>5, <2>1, <2>2, ActualIs
<1>7. /\ record' = [record EXCEPT ![p] = r] /\ batch' = [batch EXCEPT ![p] = b]
      /\ pc' = [pc EXCEPT ![p] = "PRUNED"] /\ rows' \in SUBSET rows
      /\ UNCHANGED <<now, stored, outcome>> /\ pc[p] = "PRUNE"
  BY <1>1 DEF PruneDeletes, Goes, reports, c
<1> HIDE DEF r, b
<1>8. Counted(r, b, "PRUNED")
  <2>1. Small(b.chosen) /\ Small(b.pruned)
    BY <1>2, <1>3, PrunedIsSmall, Fields DEF Counted
  <2>2. Within(r) /\ WithinEarlier(r, {"REVOCATION"})
    BY <1>6, <1>7, Fields DEF Counted, Within, WithinEarlier
  <2>3. \A k \in Kinds : r.actual[k] = r.deleted[k] + c[k]
    BY <1>5, <1>6, <1>7, Fields DEF Counted, Exact
  <2> QED BY <1>3, <2>1, <2>2, <2>3 DEF Counted, c
<1>9. Judged(r, b, "PRUNED", now, rows')
  <2>1. r.observed # 0 /\ (b.more \/ RowsDone(r.observed, rows'))
    BY <1>3, <1>6, <1>7, Fields, DoneStays DEF Judged
  <2> QED BY <1>3, <1>6, <1>7, <2>1, Fields DEF Judged
<1>10. Left(stored[p], outcome[p], rows')
  BY <1>7, Fields, DoneStays
<1> QED BY <1>3, <1>6, <1>7, <1>8, <1>9, <1>10, Fields, CycleKeeps DEF Awaits

LEMMA PruneFailsKeeps ==
  ASSUME IInv, NEW p \in Processes, PruneFails(p)
  PROVE  IInv'
<1> DEFINE r == Failed(record[p])
<1>1. /\ r \in Record /\ Consistent(r) /\ (\A left : Done(r, left)) /\ r.status = "FAILED"
      /\ r.started = record[p].started /\ r.observed = record[p].observed
      /\ r.batches = record[p].batches /\ r.deleted = record[p].deleted
      /\ r.actual = record[p].actual
  BY Fields, FailedIs
<1>2. /\ record' = [record EXCEPT ![p] = r] /\ batch' = [batch EXCEPT ![p] = NoBatch]
      /\ pc' = [pc EXCEPT ![p] = "STORE"]
      /\ UNCHANGED <<now, rows, stored, outcome>> /\ pc[p] \in {"PRUNE", "PRUNED"}
  BY DEF PruneFails, Goes, reports
<1> HIDE DEF r
<1>3. Counted(r, NoBatch, "STORE")
  <2>1. Small(NoBatch.chosen) /\ Small(NoBatch.pruned)
    BY EmptyIsSmall DEF NoBatch
  <2>2. Within(r)
    BY <1>1, <1>2, Fields DEF Counted, Within
  <2>3. \A k \in Kinds : record[p].actual[k] - record[p].deleted[k] \in 0..BatchSize
    <3>1. \A k \in Kinds : record[p].actual[k] \in Nat /\ record[p].deleted[k] \in Nat
      BY Fields DEF Record
    <3>2. CASE pc[p] = "PRUNE"
      BY <3>1, <3>2, Fields, RetentionAssumption DEF Counted, Exact
    <3>3. CASE pc[p] = "PRUNED"
      BY <3>1, <3>3, Fields, RetentionAssumption DEF Counted, Small
    <3> QED BY <1>2, <3>2, <3>3
  <2> QED BY <1>1, <2>1, <2>2, <2>3 DEF Counted, Hidden
<1>4. Judged(r, NoBatch, "STORE", now, rows)
  BY <1>1, <1>2, Fields, RetentionAssumption DEF Judged, NoBatch
<1> QED BY <1>1, <1>2, <1>3, <1>4, Fields, EmptyIsSmall, CycleKeeps DEF Awaits

LEMMA PruneAnsweredKeeps ==
  ASSUME IInv, NEW p \in Processes, PruneAnswered(p)
  PROVE  IInv'
<1> DEFINE c == Count(batch[p].pruned)
           more == MoreWork(p)
           again == more /\ Again(p)
           at == IF again THEN "BATCH" ELSE "STORE"
           flag == IF more THEN "TRUE" ELSE "FALSE"
           status == IF more THEN "PARTIAL" ELSE "SUCCEEDED"
           n == IF again THEN record[p].batches + 1 ELSE record[p].batches
           r == [record[p] EXCEPT !.deleted = Plus(@, c), !.more = flag, !.status = status,
                                  !.failed = FALSE, !.batches = n]
<1>1. /\ batch[p].pruned \in SUBSET Revocations
      /\ record[p].deleted \in [Kinds -> Nat] /\ record[p].actual \in [Kinds -> Nat]
      /\ record[p].batches \in Nat
  BY Fields DEF Batches, Record
<1>2. /\ c \in [Kinds -> Nat] /\ (\A k \in Kinds : c[k] <= BatchSize)
      /\ \A k \in Kinds \ {"REVOCATION"} : c[k] = 0
  <2>1. c \in [Kinds -> Nat]
    BY <1>1, CountTyped DEF Rows
  <2>2. \A k \in Kinds : c[k] <= BatchSize
    BY Fields, RetentionAssumption DEF Counted, Small
  <2> QED BY <1>1, <2>1, <2>2, KindsApart
<1>3. /\ record' = [record EXCEPT ![p] = r] /\ batch' = [batch EXCEPT ![p] = NoBatch]
      /\ pc' = [pc EXCEPT ![p] = at]
      /\ UNCHANGED <<now, rows, stored, outcome>> /\ pc[p] = "PRUNED"
  BY DEF PruneAnswered, Goes, reports
<1>4. /\ more = (batch[p].more \/ Due(Revocations \cap rows, now) # {})
      /\ more \in BOOLEAN /\ again \in BOOLEAN /\ again => more
  BY Fields DEF MoreWork, Batches, Again
<1> HIDE DEF c, more, again
<1>5. /\ Plus(record[p].deleted, c) \in [Kinds -> Nat]
      /\ \A k \in Kinds : Plus(record[p].deleted, c)[k] = record[p].deleted[k] + c[k]
  BY <1>1, <1>2, PlusIs
<1>6. /\ r \in Record /\ r.deleted = Plus(record[p].deleted, c) /\ r.actual = record[p].actual
      /\ r.started = record[p].started /\ r.observed = record[p].observed
      /\ r.batches = n /\ r.more = flag /\ r.failed = FALSE /\ r.status = status
  <2>1. n \in Nat /\ flag \in {"TRUE", "FALSE"} /\ status \in {"PARTIAL", "SUCCEEDED"}
    BY <1>1
  <2> DEFINE q == record[p]
             d == Plus(record[p].deleted, c)
  <2>2. q \in Record /\ d \in [Kinds -> Nat]
    BY <1>5, Fields
  <2> HIDE DEF n, flag, status
  <2>3. r = [q EXCEPT !.deleted = d, !.more = flag, !.status = status,
                      !.failed = FALSE, !.batches = n]
    BY <2>2 DEF Record
  <2> HIDE DEF r, q, d
  <2>4. /\ r \in Record /\ r.deleted = d /\ r.actual = q.actual
        /\ r.started = q.started /\ r.observed = q.observed
        /\ r.batches = n /\ r.more = flag /\ r.failed = FALSE /\ r.status = status
    BY <2>1, <2>2, <2>3 DEF Record
  <2> QED BY <2>4 DEF q, d
<1> HIDE DEF r
<1>7. /\ record[p].batches * BatchSize \in Nat
      /\ (record[p].batches + 1) * BatchSize = record[p].batches * BatchSize + BatchSize
  BY <1>1, OneMoreBatch
<1>8. \A k \in Kinds : r.deleted[k] <= record[p].batches * BatchSize
  <2>1. Within(record[p]) /\ WithinEarlier(record[p], {"REVOCATION"})
    BY <1>3, Fields DEF Counted
  <2> QED BY <1>1, <1>2, <1>5, <1>6, <1>7, <2>1, RetentionAssumption DEF Within, WithinEarlier
<1>9. Exact(r)
  BY <1>3, <1>5, <1>6, Fields DEF Counted, Exact, c
<1>10. Counted(r, NoBatch, at)
  <2>1. Small(NoBatch.chosen) /\ Small(NoBatch.pruned)
    BY EmptyIsSmall DEF NoBatch
  <2>2. \A k \in Kinds : r.deleted[k] \in Nat /\ r.actual[k] = r.deleted[k]
    BY <1>6, <1>9 DEF Record, Exact
  <2>3. CASE again
    <3>1. WithinEarlier(r, Kinds)
      BY <1>6, <1>7, <1>8, <2>2, <2>3, RetentionAssumption DEF WithinEarlier
    <3> QED BY <1>9, <2>1, <2>3, <3>1 DEF Counted
  <2>4. CASE ~again
    <3>1. Within(r)
      BY <1>6, <1>8, <2>4 DEF Within
    <3>2. Hidden(r)
      BY <2>2, RetentionAssumption DEF Hidden
    <3> QED BY <2>1, <2>4, <3>1, <3>2 DEF Counted
  <2> QED BY <1>4, <2>3, <2>4
<1>11. Judged(r, NoBatch, at, now, rows)
  <2>1. /\ record[p].observed <= now + Drift /\ record[p].observed # 0 /\ record[p].started # 0
        /\ record[p].observed \in Nat /\ now \in Nat
        /\ batch[p].more \/ RowsDone(record[p].observed, rows)
    BY <1>3, Fields DEF Judged, Record
  <2>2. Consistent(r)
    BY <1>4, <1>6, <2>1 DEF Consistent
  <2>3. Done(r, rows)
    <3> SUFFICES ASSUME ~more
                 PROVE  RowsDone(r.observed, rows) /\ RevocationsDone(r.observed, rows)
      BY <1>4, <1>6 DEF Done
    <3>1. RowsDone(r.observed, rows)
      BY <1>4, <1>6, <2>1
    <3>2. \A x \in Revocations : DueAt[x] \in Nat
      BY RetentionAssumption DEF Rows
    <3>3. ASSUME NEW x \in Revocations \cap rows, DueAt[x] <= r.observed - Drift PROVE FALSE
      <4>1. DueAt[x] <= now
        BY <1>6, <2>1, <3>2, <3>3, RetentionAssumption
      <4> QED BY <1>4, <4>1 DEF Due
    <3> QED BY <3>1, <3>3 DEF RevocationsDone, Due
  <2>4. NoBatch.reading = 0 /\ at \in {"BATCH", "STORE"}
    BY DEF NoBatch
  <2> QED BY <1>6, <2>1, <2>2, <2>3, <2>4, RetentionAssumption DEF Judged
<1>12. at \in Awaits
  BY DEF Awaits
<1> HIDE DEF at
<1> QED BY <1>3, <1>6, <1>10, <1>11, <1>12, Fields, EmptyIsSmall, CycleKeeps
-----------------------------------------------------------------------------
\* A cycle that ends leaves a record in the table, or none.
LEMMA EndsKeeps ==
  ASSUME IInv, NEW p \in Processes, NEW result \in CycleOutcomes, NEW left \in Record,
         Left(left, result, rows), EndsCycle(p, result, left), UNCHANGED <<now, rows, batch>>
  PROVE  IInv'
<1>1. Counted(NoRecord, batch[p], "IDLE") /\ Judged(NoRecord, batch[p], "IDLE", now, rows)
  BY NoRecordIs, Fields, RetentionAssumption DEF Counted, Judged
<1> QED BY <1>1, NoRecordIs, Fields, CycleKeeps DEF EndsCycle, Goes, Awaits

\* No record in the table says nothing.
LEMMA NothingLeft ==
  ASSUME NEW result \in CycleOutcomes \ {"OK"}
  PROVE  NoRecord \in Record /\ Left(NoRecord, result, rows)
BY NoRecordIs DEF Left, Done

LEMMA FinishKeeps ==
  ASSUME IInv, NEW p \in Processes, Finish(p)
  PROVE  IInv'
<1>1. PICK t \in Readings :
        \/ EndsCycle(p, "INVALID_RETENTION_RUNTIME", NoRecord)
        \/ /\ ~TimesInvalid(record[p], t)
           /\ record' = [record EXCEPT ![p].finished = t]
           /\ Goes(p, "STORING")
           /\ UNCHANGED reports
  BY DEF Finish
<1>2. UNCHANGED <<now, rows, batch>> /\ pc[p] = "STORE"
  BY DEF Finish
<1>3. CASE EndsCycle(p, "INVALID_RETENTION_RUNTIME", NoRecord)
  BY <1>2, <1>3, NothingLeft, EndsKeeps DEF CycleOutcomes
<1>4. CASE /\ ~TimesInvalid(record[p], t)
           /\ record' = [record EXCEPT ![p].finished = t]
           /\ Goes(p, "STORING")
           /\ UNCHANGED reports
  <2> DEFINE r == [record[p] EXCEPT !.finished = t]
  <2>1. t \in Nat
    BY ReadingsAre DEF IInv
  <2>2. /\ r \in Record /\ r.finished = t /\ r.started = record[p].started
        /\ r.observed = record[p].observed /\ r.status = record[p].status
        /\ r.batches = record[p].batches /\ r.deleted = record[p].deleted
        /\ r.actual = record[p].actual /\ r.more = record[p].more
        /\ r.failed = record[p].failed
    BY <2>1, Fields DEF Record
  <2>3. record' = [record EXCEPT ![p] = r] /\ pc' = [pc EXCEPT ![p] = "STORING"]
    BY <1>4 DEF Goes
  <2> HIDE DEF r
  <2>4. Counted(r, batch[p], "STORING")
    BY <1>2, <2>2, Fields DEF Counted, Within, Hidden
  <2>5. Judged(r, batch[p], "STORING", now, rows)
    BY <1>2, <1>4, <2>2, Fields DEF Judged, Consistent, Done, TimesInvalid
  <2> QED BY <1>2, <1>4, <2>2, <2>3, <2>4, <2>5, Fields, CycleKeeps DEF reports, Awaits
<1> QED BY <1>1, <1>3, <1>4

\* A record that waits for the store is accepted by it, and true.
LEMMA StoringIs ==
  ASSUME IInv, NEW p \in Processes, pc[p] = "STORING"
  PROVE  Storable(record[p]) /\ Left(record[p], "OK", rows)
<1>1. /\ Within(record[p]) /\ Hidden(record[p]) /\ Consistent(record[p])
      /\ Done(record[p], rows) /\ ~TimesInvalid(record[p], record[p].finished)
      /\ record[p].started # 0 /\ record[p] \in Record
  BY Fields DEF Counted, Judged
<1>2. /\ record[p].started \in Nat /\ record[p].finished \in Nat /\ record[p].observed \in Nat
      /\ record[p].status \in {"SUCCEEDED", "PARTIAL", "FAILED"}
  BY <1>1 DEF Record
<1>3. Storable(record[p])
  BY <1>1, <1>2 DEF Storable, Within, Consistent, TimesInvalid
<1> QED BY <1>1, <1>3, NoRecordIs DEF Left

LEMMA StoresLeave ==
  ASSUME IInv, NEW p \in Processes, NEW left \in Stores(p), NEW result \in CycleOutcomes \ {"OK"}
  PROVE  left \in Record /\ Left(left, result, rows)
BY StoringIs, NothingLeft, Fields DEF Stores, Left

LEMMA StoreAnsweredKeeps ==
  ASSUME IInv, NEW p \in Processes, StoreAnswered(p)
  PROVE  IInv'
BY StoringIs, Fields, EndsKeeps DEF StoreAnswered, CycleOutcomes

LEMMA StoreFailsKeeps ==
  ASSUME IInv, NEW p \in Processes, StoreFails(p)
  PROVE  IInv'
<1>1. PICK left \in Stores(p) : EndsCycle(p, "RETENTION_RUN_STORE_UNAVAILABLE", left)
  BY DEF StoreFails
<1>2. "RETENTION_RUN_STORE_UNAVAILABLE" \in CycleOutcomes \ {"OK"}
  BY DEF CycleOutcomes
<1> QED BY <1>1, <1>2, StoresLeave, EndsKeeps DEF StoreFails

LEMMA CrashKeeps ==
  ASSUME IInv, NEW p \in Processes, Crash(p)
  PROVE  IInv'
<1>1. PICK left \in Stores(p) : stored' = [stored EXCEPT ![p] = left]
  BY DEF Crash
<1>2. /\ rows' \in SUBSET rows /\ now' = now
      /\ record' = [record EXCEPT ![p] = NoRecord] /\ batch' = [batch EXCEPT ![p] = NoBatch]
      /\ pc' = [pc EXCEPT ![p] = "IDLE"] /\ outcome' = [outcome EXCEPT ![p] = "NONE"]
  BY DEF Crash, BatchDeletes, Goes
<1>3. "NONE" \in CycleOutcomes \ {"OK"} /\ "IDLE" \in Awaits
  BY DEF CycleOutcomes, Awaits
<1>4. left \in Record /\ Left(left, "NONE", rows')
  BY <1>2, <1>3, StoresLeave, DoneStays
<1>5. Counted(NoRecord, NoBatch, "IDLE") /\ Judged(NoRecord, NoBatch, "IDLE", now, rows')
  BY NoRecordIs, EmptyIsSmall, Fields, RetentionAssumption DEF Counted, Judged, NoBatch
<1> QED BY <1>1, <1>2, <1>3, <1>4, <1>5, NoRecordIs, EmptyIsSmall, CycleKeeps
-----------------------------------------------------------------------------
LEMMA InitIInv == Init => IInv
<1> SUFFICES ASSUME Init PROVE IInv
  OBVIOUS
<1>1. Types
  BY NoRecordIs, EmptyIsSmall DEF Init, Types, Awaits, CycleOutcomes
<1>2. ASSUME NEW p \in Processes PROVE Local(p)
  <2>1. /\ record[p] = NoRecord /\ stored[p] = NoRecord /\ batch[p] = NoBatch
        /\ pc[p] = "IDLE" /\ outcome[p] = "NONE" /\ now = 1
    BY DEF Init
  <2>2. NoBatch.reading = 0 /\ NoBatch.chosen = {} /\ NoBatch.pruned = {}
    BY DEF NoBatch
  <2>3. Counted(record[p], batch[p], pc[p])
    BY <2>1, <2>2, EmptyIsSmall DEF Counted
  <2>4. Judged(record[p], batch[p], pc[p], now, rows)
    BY <2>1, <2>2, NoRecordIs, RetentionAssumption DEF Judged
  <2>5. Left(stored[p], outcome[p], rows)
    BY <2>1, NoRecordIs DEF Left, Done
  <2> QED BY <2>3, <2>4, <2>5 DEF Local
<1> QED BY <1>1, <1>2 DEF IInv

LEMMA NextIInv == IInv /\ [Next]_vars => IInv'
<1> SUFFICES ASSUME IInv, [Next]_vars PROVE IInv'
  OBVIOUS
<1>0. now \in Nat
  BY DEF IInv, Types
<1>1. ASSUME NEW p \in Processes, TimerFires(p) \/ Start(p) PROVE IInv'
  BY <1>1, BeginsKeeps DEF TimerFires, Start
<1>2. ASSUME NEW p \in Processes, CycleStep(p) PROVE IInv'
  <2>1. CASE SelectRows(p)
    BY <2>1, SelectKeeps
  <2>2. CASE BatchAnswered(p)
    BY <2>2, BatchAnsweredKeeps
  <2>3. CASE BatchFails(p)
    BY <2>3, BatchFailsKeeps
  <2>4. CASE PruneDeletes(p)
    BY <2>4, PruneDeletesKeeps
  <2>5. CASE PruneAnswered(p)
    BY <2>5, PruneAnsweredKeeps
  <2>6. CASE PruneFails(p)
    BY <2>6, PruneFailsKeeps
  <2>7. CASE Finish(p)
    BY <2>7, FinishKeeps
  <2>8. CASE StoreAnswered(p)
    BY <2>8, StoreAnsweredKeeps
  <2>9. CASE StoreFails(p)
    BY <2>9, StoreFailsKeeps
  <2> QED BY <1>2, <2>1, <2>2, <2>3, <2>4, <2>5, <2>6, <2>7, <2>8, <2>9 DEF CycleStep
<1>3. ASSUME NEW p \in Processes, RequestStop(p) \/ StopDone(p) PROVE IInv'
  BY <1>0, <1>3, QuietKeeps DEF RequestStop, StopDone
<1>4. ASSUME NEW p \in Processes, Crash(p) PROVE IInv'
  BY <1>4, CrashKeeps
<1>5. ASSUME NEW s \in Scans, Replaced(s) PROVE IInv'
  BY <1>0, <1>5, QuietKeeps DEF Replaced
<1>6. CASE Tick
  BY <1>0, <1>6, QuietKeeps DEF Tick
<1>7. CASE UNCHANGED vars
  BY <1>0, <1>7, QuietKeeps DEF vars
<1> QED BY <1>1, <1>2, <1>3, <1>4, <1>5, <1>6, <1>7 DEF Next
-----------------------------------------------------------------------------
\* What the record of every cycle counts, claims and dates holds together in every
\* reachable state.
THEOREM RecordInvariant == Spec => []IInv
<1> QED BY InitIInv, NextIInv, PTL DEF Spec

\* No record claims a deletion that did not happen, a failed one hides at most a batch,
\* and the store refuses no record that a cycle sends it, whatever fails or crashes
\* between two batches and wherever the clocks step.
THEOREM RecordsTellTheTruth == Spec => []RecordsAreTrue
<1>1. IInv => RecordsAreTrue
  <2> SUFFICES ASSUME IInv, NEW p \in Processes
               PROVE  /\ pc[p] = "STORING" => Storable(record[p])
                      /\ outcome[p] = "OK" => stored[p] # NoRecord
                      /\ \A k \in Kinds :
                           stored[p].actual[k] - stored[p].deleted[k] \in
                             0..(IF stored[p].status = "FAILED" THEN BatchSize ELSE 0)
    BY DEF RecordsAreTrue
  <2> QED BY StoringIs, Fields DEF Left, Hidden
<1> QED BY <1>1, RecordInvariant, PTL

\* A cycle that reports SUCCEEDED left no row that was due when it looked, though other
\* processes hold rows locked and may fail to delete them.
THEOREM SuccessMeansDone == Spec => []SucceededMeansDone
<1>1. IInv => SucceededMeansDone
  <2> SUFFICES ASSUME IInv, NEW p \in Processes, stored[p].status = "SUCCEEDED"
               PROVE  /\ Due((Scans \cup Windows) \cap rows, stored[p].observed) = {}
                      /\ Due(Revocations \cap rows, stored[p].observed - Drift) = {}
    BY DEF SucceededMeansDone
  <2> QED BY Fields DEF Left, Done, RowsDone, RevocationsDone
<1> QED BY <1>1, RecordInvariant, PTL
=============================================================================
