----------------------- MODULE QueueTelemetry_proofs -----------------------
(***************************************************************************)
(* Every queue outcome is counted once, and an orderly stop that succeeds  *)
(* leaves nothing unstored.                                                *)
(*                                                                         *)
(* The first rests on the ids of the batches: a batch that is made is none *)
(* of those stored or pending, so the sum of what they count grows by what *)
(* the active counters lose, and a batch that is stored a second time, or  *)
(* without an answer, adds nothing.  The second rests on what a process    *)
(* that stops still holds: only a flush that failed leaves a batch pending *)
(* with no flush in flight, and only then does the final flush store that  *)
(* batch and leave the active counters as they are.                        *)
(***************************************************************************)
EXTENDS QueueTelemetry, Sums_proofs, TLAPS

Typed ==
  /\ active \in Counts /\ startedAt \in 0..LastSecond /\ saturated \in BOOLEAN
  /\ pending \in Batch \cup {NoBatch}
  /\ nextId \in Nat \ {0}
  /\ recorded \in [Outcomes -> Nat] /\ lost \in [Outcomes -> Nat]
  /\ everStored \subseteq Batch /\ IsFiniteSet(everStored)

\* The clock of the active counters runs exactly while they count something.
ClockRuns ==
  /\ startedAt = 0 => active = None
  /\ startedAt # 0 => \E o \in Outcomes : active[o] > 0

\* The ids of all batches were drawn before.
IdsDrawn == \A b \in Held : b.id \in 1..(nextId - 1)

PendingStorable == pending # NoBatch => Storable(pending)

Counted ==
  \A o \in Outcomes : recorded[o] = active[o] + lost[o] + Sum(CountsOf(o), Held)

\* What a process holds at each stage of its end.
Stages ==
  /\ phase \in Phases
  /\ flush => pending # NoBatch
  /\ pending # NoBatch => flush \/ failedBefore
  /\ phase = "FINAL" => flush /\ (broken \/ active = None \/ failedBefore)
  /\ phase \in {"CLOSED", "FAILED"} => ~flush
  /\ CleanStopStoresAll

IInv ==
  /\ Typed /\ ClockRuns /\ IdsDrawn /\ PendingStorable /\ Counted /\ Stages
-----------------------------------------------------------------------------
LEMMA NoBatchOutside ==
  NoBatch \notin Batch /\ NoBatch.id = 0
BY DEF Batch, NoBatch

\* What a batch counts is a number, and so is what a finite set of them does.
LEMMA CountsSummed ==
  ASSUME NEW S \in SUBSET Batch, IsFiniteSet(S), NEW o \in Outcomes, TelemetryAssumption
  PROVE  /\ \A b \in Batch : CountsOf(o)[b] = b.counts[o] /\ CountsOf(o)[b] \in Int
         /\ Sum(CountsOf(o), S) \in Int
<1>1. \A b \in Batch : CountsOf(o)[b] = b.counts[o]
  BY DEF CountsOf
<1>2. \A b \in Batch : b.counts[o] \in Int
  BY DEF Batch, Counts, TelemetryAssumption
<1>3. \A b \in Batch : CountsOf(o)[b] \in Int
  BY <1>1, <1>2
<1>4. Sum(CountsOf(o), S) \in Int
  BY <1>3, SumInt
<1> QED BY <1>1, <1>3, <1>4

\* A batch with a new id adds what it counts.
LEMMA BatchAdded ==
  ASSUME NEW S \in SUBSET Batch, IsFiniteSet(S), NEW o \in Outcomes, TelemetryAssumption,
         NEW b \in Batch, b \notin S
  PROVE  Sum(CountsOf(o), S \cup {b}) = Sum(CountsOf(o), S) + b.counts[o]
<1>1. \A x \in S \cup {b} : CountsOf(o)[x] \in Int
  BY CountsSummed
<1>2. Sum(CountsOf(o), S \cup {b}) = Sum(CountsOf(o), S) + CountsOf(o)[b]
  BY <1>1, SumAdd
<1> QED BY <1>2, CountsSummed

LEMMA HeldFinite ==
  ASSUME Typed
  PROVE  Held \subseteq Batch /\ IsFiniteSet(Held)
<1>1. {pending} \ {NoBatch} \subseteq Batch /\ IsFiniteSet({pending} \ {NoBatch})
  BY FS_Singleton, FS_EmptySet, FS_Subset DEF Typed
<1> QED BY <1>1, FS_Union DEF Typed, Held

\* A batch that the store may have is counted already.
LEMMA HeldWithPending ==
  ASSUME pending # NoBatch
  PROVE  Held = everStored \cup {pending} /\ pending \in Held
BY DEF Held

LEMMA HeldWithoutPending ==
  ASSUME pending = NoBatch
  PROVE  Held = everStored
BY DEF Held

\* The first alert that applies is the one whose check the table makes.
LEMMA AlertPasses ==
  ASSUME NEW t \in startedAt..LastSecond, Typed, startedAt # 0,
         \E o \in Outcomes : active[o] > 0, TelemetryAssumption
  PROVE  NewBatch(t) \in Batch /\ Storable(NewBatch(t))
<1> DEFINE b == NewBatch(t)
<1>1. /\ b.id = nextId /\ b.started = startedAt /\ b.finished = t /\ b.counts = active
      /\ b.saturated = saturated /\ b.alert = AlertCode(active, saturated)
  BY DEF NewBatch
<1>2. AlertCode(active, saturated) \in Alerts
  BY DEF AlertCode, Alerts
<1>3. t \in Seconds /\ startedAt \in Seconds /\ b.finished >= b.started
  BY <1>1 DEF Typed, Seconds, TelemetryAssumption
<1>4. b \in Batch
  BY <1>2, <1>3 DEF NewBatch, Batch, Typed
<1>5. Some(active, Outcomes)
  BY DEF Some
<1> HIDE DEF b
<1>6. Storable(b)
  BY <1>1, <1>3, <1>5 DEF Storable, AlertCode, Typed
<1> QED BY <1>4, <1>6 DEF b
-----------------------------------------------------------------------------
LEMMA InitIInv == Init => IInv
<1> SUFFICES ASSUME Init PROVE IInv
  OBVIOUS
<1>1. Typed
  <2>1. active \in Counts /\ recorded \in [Outcomes -> Nat] /\ lost \in [Outcomes -> Nat]
    BY TelemetryAssumption DEF Init, None, Counts, TelemetryAssumption
  <2>2. everStored \subseteq Batch /\ IsFiniteSet(everStored)
    BY FS_EmptySet DEF Init
  <2>3. startedAt \in 0..LastSecond /\ nextId \in Nat \ {0} /\ pending = NoBatch
    BY TelemetryAssumption DEF Init, TelemetryAssumption
  <2>4. saturated \in BOOLEAN
    BY DEF Init
  <2> QED BY <2>1, <2>2, <2>3, <2>4 DEF Typed
<1>2. Held = {} /\ ClockRuns /\ IdsDrawn /\ PendingStorable /\ Stages
  BY NoBatchOutside
  DEF Init, Held, ClockRuns, IdsDrawn, PendingStorable, Stages, Phases, CleanStopStoresAll
<1>3. Counted
  <2> SUFFICES ASSUME NEW o \in Outcomes
               PROVE  recorded[o] = active[o] + lost[o] + Sum(CountsOf(o), Held)
    BY DEF Counted
  <2>1. Sum(CountsOf(o), Held) = 0
    BY <1>2, SumEmpty
  <2> QED BY <2>1 DEF Init, None
<1> QED BY <1>1, <1>2, <1>3 DEF IInv

\* An outcome that is recorded is counted or lost.
LEMMA RecordKeeps ==
  ASSUME IInv, NEW k \in Outcomes, NEW t \in Seconds, Record(k, t), TelemetryAssumption
  PROVE  IInv'
<1> USE DEF IInv
<1>1. Held' = Held /\ \A o \in Outcomes : Sum(CountsOf(o), Held)' = Sum(CountsOf(o), Held)
  BY DEF Record, Held, CountsOf
<1>2. active \in Counts /\ active' \in Counts
  BY DEF Record, Typed, Counts, IsFull, TelemetryAssumption
<1>3. Typed'
  BY <1>2 DEF Record, Typed, Seconds, TelemetryAssumption
<1>4. ClockRuns'
  <2>1. startedAt' # 0
    BY DEF Record, Seconds, Typed, TelemetryAssumption
  <2>2. CASE IsFull(k)
    <3>1. active'[k] = MaxCount
      BY <2>2 DEF Record, IsFull
    <3> QED BY <2>1, <3>1 DEF ClockRuns, TelemetryAssumption
  <2>3. CASE ~IsFull(k)
    <3>1. active'[k] = active[k] + 1 /\ active[k] \in Nat
      BY <2>3, <1>2 DEF Record, Counts, TelemetryAssumption
    <3> QED BY <2>1, <3>1 DEF ClockRuns
  <2> QED BY <2>2, <2>3
<1>5. IdsDrawn' /\ PendingStorable'
  BY <1>1 DEF Record, IdsDrawn, PendingStorable
<1>6. Counted'
  <2> SUFFICES ASSUME NEW o \in Outcomes
               PROVE  recorded'[o] = active'[o] + lost'[o] + Sum(CountsOf(o), Held)
    BY <1>1 DEF Counted
  <2>1. recorded[o] = active[o] + lost[o] + Sum(CountsOf(o), Held)
    BY DEF Counted
  <2>2. Sum(CountsOf(o), Held) \in Int
    BY HeldFinite, CountsSummed
  <2>3. recorded[o] \in Nat /\ active[o] \in Nat /\ lost[o] \in Nat
    BY <1>2 DEF Typed, Counts, TelemetryAssumption
  <2>4. recorded'[o] = IF o = k THEN recorded[o] + 1 ELSE recorded[o]
    BY DEF Record, Typed
  <2>5. active'[o] + lost'[o] = IF o = k THEN active[o] + lost[o] + 1 ELSE active[o] + lost[o]
    BY <2>3, <1>2 DEF Record, Typed, Counts
  <2>6. active'[o] \in Int /\ lost'[o] \in Int
    BY <1>2, <1>3 DEF Typed, Counts, TelemetryAssumption
  <2> HIDE DEF IInv
  <2> QED BY <2>1, <2>2, <2>3, <2>4, <2>5, <2>6
<1>7. Stages'
  BY DEF Record, Stages, CleanStopStoresAll
<1> QED BY <1>3, <1>4, <1>5, <1>6, <1>7

\* A flush that is over, without a batch of its own or for the store's answer.
LEMMA SettledStages ==
  ASSUME NEW stage, NEW ok \in BOOLEAN, Settled(stage, ok), stage \in Phases,
         stage \notin {"CLOSED", "FAILED"}, pending' # NoBatch => failedBefore',
         stage = "FINAL" /\ ok /\ ~broken =>
           pending' = NoBatch /\ (active' = None \/ failedBefore')
  PROVE  Stages'
BY DEF Settled, Stages, CleanStopStoresAll, Phases

\* A flush sends the pending batch again, makes one, or is over.
LEMMA FlushKeeps ==
  ASSUME IInv, NEW stage, FlushBegins(stage), TelemetryAssumption,
         \/ phase \in {"OPEN", "CLOSING"} /\ stage = phase
         \/ phase = "STOPPING" /\ stage = "FINAL" /\ ~flush
  PROVE  IInv'
<1> USE DEF IInv
<1>0. UNCHANGED <<broken, batches, recorded, lost, everStored>>
  BY DEF FlushBegins
<1>1. CASE pending # NoBatch /\ CallsStore(stage) /\ UNCHANGED <<counters, pending, nextId>>
  <2>1. UNCHANGED <<active, startedAt, saturated, pending, nextId, failedBefore>>
        /\ flush' = TRUE /\ phase' = stage
    BY <1>1 DEF counters, CallsStore
  <2>2. Held' = Held
    BY <1>0, <2>1 DEF Held
  <2>3. Typed' /\ ClockRuns' /\ IdsDrawn' /\ PendingStorable'
    BY <1>0, <2>1, <2>2 DEF Typed, ClockRuns, IdsDrawn, PendingStorable
  <2>4. Counted'
    BY <1>0, <2>1, <2>2 DEF Counted, CountsOf
  <2>5. Stages'
    BY <1>0, <1>1, <2>1 DEF Stages, Phases, CleanStopStoresAll
  <2> QED BY <2>3, <2>4, <2>5
<1>2. ASSUME pending = NoBatch, startedAt # 0, NEW t \in startedAt..LastSecond,
             pending' = NewBatch(t), nextId' = nextId + 1, ClearActive, CallsStore(stage)
      PROVE  IInv'
  <2>1. /\ active' = None /\ startedAt' = 0 /\ saturated' = FALSE
        /\ flush' = TRUE /\ phase' = stage /\ failedBefore' = failedBefore
    BY <1>2 DEF ClearActive, CallsStore
  <2>2. pending' \in Batch /\ Storable(pending')
    BY <1>2, AlertPasses DEF ClockRuns
  <2>3. pending'.id = nextId /\ pending'.counts = active
    BY <1>2 DEF NewBatch
  <2>4. Held = everStored
    BY <1>2, HeldWithoutPending
  <2>5. pending' # NoBatch /\ pending' \notin Held
    BY <2>2, <2>3, NoBatchOutside DEF IdsDrawn, Typed
  <2>6. Held' = Held \cup {pending'}
    BY <1>0, <2>4, <2>5 DEF Held
  <2>7. Typed'
    <3>1. active' \in Counts
      BY <2>1 DEF None, Counts, TelemetryAssumption
    <3>2. startedAt' \in 0..LastSecond /\ nextId' \in Nat \ {0}
      BY <1>2, <2>1 DEF Typed, TelemetryAssumption
    <3>3. saturated' \in BOOLEAN
      BY <2>1
    <3>4. /\ recorded' \in [Outcomes -> Nat] /\ lost' \in [Outcomes -> Nat]
          /\ everStored' \subseteq Batch /\ IsFiniteSet(everStored')
      BY <1>0 DEF Typed
    <3> QED BY <2>2, <3>1, <3>2, <3>3, <3>4 DEF Typed
  <2>8. ClockRuns' /\ PendingStorable'
    BY <2>1, <2>2 DEF ClockRuns, PendingStorable
  <2>9. IdsDrawn'
    BY <1>2, <2>3, <2>6 DEF IdsDrawn, Typed
  <2>10. Counted'
    <3> SUFFICES ASSUME NEW o \in Outcomes
                 PROVE  recorded'[o] = active'[o] + lost'[o] + Sum(CountsOf(o), Held')
      BY DEF Counted, CountsOf
    <3>1. recorded[o] = active[o] + lost[o] + Sum(CountsOf(o), Held)
      BY DEF Counted
    <3>2. Held \in SUBSET Batch /\ IsFiniteSet(Held)
      BY HeldFinite
    <3>3. PICK b \in Batch : b = pending'
      BY <2>2
    <3>4. Sum(CountsOf(o), Held \cup {b}) = Sum(CountsOf(o), Held) + b.counts[o]
      BY <3>2, <3>3, <2>5, BatchAdded
    <3>5. Sum(CountsOf(o), Held') = Sum(CountsOf(o), Held) + active[o]
      BY <2>3, <2>6, <3>3, <3>4
    <3>6. Sum(CountsOf(o), Held) \in Int
      BY <3>2, CountsSummed
    <3>7. active'[o] = 0 /\ active[o] \in Int /\ lost[o] \in Int /\ lost'[o] = lost[o]
          /\ recorded'[o] = recorded[o]
      BY <1>0, <2>1 DEF None, Typed, Counts, TelemetryAssumption
    <3> HIDE DEF IInv
    <3> QED BY <3>1, <3>5, <3>6, <3>7
  <2>11. Stages'
    BY <1>0, <2>1, <2>5 DEF Stages, Phases, CleanStopStoresAll
  <2> QED BY <2>7, <2>8, <2>9, <2>10, <2>11
<1>3. CASE pending = NoBatch /\ Settled(stage, startedAt = 0)
           /\ UNCHANGED <<counters, pending, nextId>>
  <2>1. UNCHANGED <<active, startedAt, saturated, pending, nextId>>
    BY <1>3 DEF counters
  <2>2. Held' = Held
    BY <1>0, <2>1 DEF Held
  <2>3. Typed' /\ ClockRuns' /\ IdsDrawn' /\ PendingStorable'
    BY <1>0, <2>1, <2>2 DEF Typed, ClockRuns, IdsDrawn, PendingStorable
  <2>4. Counted'
    BY <1>0, <2>1, <2>2 DEF Counted, CountsOf
  <2>5. Stages'
    <3>1. pending' = NoBatch /\ (startedAt = 0 => active' = None)
      BY <1>3, <2>1 DEF ClockRuns
    <3>2. stage \in Phases /\ stage \notin {"CLOSED", "FAILED"}
      BY DEF Phases
    <3>3. (startedAt = 0) \in BOOLEAN /\ Settled(stage, startedAt = 0)
      BY <1>3
    <3> HIDE DEF IInv
    <3> QED BY <3>1, <3>2, <3>3, SettledStages
  <2> QED BY <2>3, <2>4, <2>5
<1>4. \/ pending # NoBatch /\ CallsStore(stage) /\ UNCHANGED <<counters, pending, nextId>>
      \/ /\ pending = NoBatch /\ startedAt # 0
         /\ \E t \in startedAt..LastSecond : pending' = NewBatch(t)
         /\ nextId' = nextId + 1 /\ ClearActive /\ CallsStore(stage)
      \/ pending = NoBatch /\ Settled(stage, startedAt = 0)
         /\ UNCHANGED <<counters, pending, nextId>>
  BY DEF FlushBegins
<1> QED BY <1>1, <1>2, <1>3, <1>4

\* What both answers of the store leave: a batch that is or may be stored was counted
\* when it became pending.
LEMMA ReturnKeeps ==
  ASSUME IInv, flush, everStored' \in {everStored, everStored \cup {pending}},
         UNCHANGED <<counters, broken, nextId, recorded, lost>>,
         \/ pending' = pending
         \/ pending' = NoBatch /\ everStored' = everStored \cup {pending},
         TelemetryAssumption
  PROVE  Typed' /\ ClockRuns' /\ IdsDrawn' /\ PendingStorable' /\ Counted'
<1> USE DEF IInv
<1>1. pending # NoBatch /\ pending \in Batch
  BY DEF Stages, Typed
<1>2. UNCHANGED <<active, startedAt, saturated>>
  BY DEF counters
<1>3. Held' = Held
  <2>1. Held = everStored \cup {pending}
    BY <1>1, HeldWithPending
  <2>2. CASE pending' = pending
    BY <1>1, <2>1, <2>2 DEF Held
  <2>3. CASE pending' = NoBatch /\ everStored' = everStored \cup {pending}
    BY <2>1, <2>3 DEF Held
  <2> QED BY <2>2, <2>3
<1>4. everStored' \subseteq Batch /\ IsFiniteSet(everStored')
  BY <1>1, FS_AddElement DEF Typed
<1>5. Typed'
  BY <1>2, <1>4 DEF Typed
<1>6. ClockRuns' /\ IdsDrawn' /\ PendingStorable'
  BY <1>2, <1>3 DEF ClockRuns, IdsDrawn, PendingStorable
<1>7. Counted'
  BY <1>2, <1>3 DEF Counted, CountsOf
<1> QED BY <1>5, <1>6, <1>7

\* The store answers that it has the batch.
LEMMA AnswerKeeps ==
  ASSUME IInv, StoreAnswers, TelemetryAssumption
  PROVE  IInv'
<1>1. Typed' /\ ClockRuns' /\ IdsDrawn' /\ PendingStorable' /\ Counted'
  BY ReturnKeeps DEF StoreAnswers
<1>2. Stages'
  <2>1. phase \in Phases /\ phase \notin {"CLOSED", "FAILED"}
    BY DEF IInv, Stages, StoreAnswers
  <2>2. pending' = NoBatch /\ Settled(phase, TRUE) /\ active' = active /\ broken' = broken
    BY DEF StoreAnswers, counters
  <2>3. phase = "FINAL" /\ ~broken => active' = None \/ failedBefore'
    BY <2>2 DEF IInv, Stages, Settled
  <2> QED BY <2>1, <2>2, <2>3, SettledStages
<1> QED BY <1>1, <1>2 DEF IInv

\* The store fails, with or without having the batch.
LEMMA FailureKeeps ==
  ASSUME IInv, StoreFails, TelemetryAssumption
  PROVE  IInv'
<1>1. Typed' /\ ClockRuns' /\ IdsDrawn' /\ PendingStorable' /\ Counted'
  <2>1. everStored' \in {everStored, everStored \cup {pending}} /\ pending' = pending
    BY DEF StoreFails, PendingAfterFailure
  <2> QED BY <2>1, ReturnKeeps DEF StoreFails
<1>2. Stages'
  <2>1. phase \in Phases /\ phase \notin {"CLOSED", "FAILED"}
    BY DEF IInv, Stages, StoreFails
  <2>2. Settled(phase, FALSE) /\ failedBefore'
    BY DEF StoreFails, Settled
  <2> QED BY <2>1, <2>2, SettledStages
<1> QED BY <1>1, <1>2 DEF IInv

\* A process dies: what only it held is lost, a pending batch unless the store has it.
LEMMA RestartKeeps ==
  ASSUME IInv, Restart, TelemetryAssumption
  PROVE  IInv'
<1> USE DEF IInv
<1> DEFINE Unstored == IF pending # NoBatch /\ pending \notin everStored
                       THEN pending.counts ELSE None
<1>1. /\ active' = None /\ startedAt' = 0 /\ saturated' = FALSE /\ pending' = NoBatch
      /\ flush' = FALSE /\ phase' = "OPEN"
      /\ nextId' = nextId /\ recorded' = recorded /\ everStored' = everStored
  BY DEF Restart, ClearActive
<1>2. lost' = Plus(lost, Plus(active, Unstored))
  BY DEF Restart
<1>3. Held' = everStored /\ Held' \subseteq Held
  BY <1>1 DEF Held
<1>4. \A o \in Outcomes : /\ Unstored[o] \in Nat /\ active[o] \in Nat /\ lost[o] \in Nat
                          /\ recorded[o] \in Nat
  BY DEF Typed, Batch, Counts, None, TelemetryAssumption
<1> HIDE DEF Unstored
<1>5. \A o \in Outcomes : lost'[o] = lost[o] + (active[o] + Unstored[o])
  BY <1>2 DEF Plus
<1>6. Typed'
  <2>1. active' \in Counts
    BY <1>1 DEF None, Counts, TelemetryAssumption
  <2>2. lost' \in [Outcomes -> Nat]
    BY <1>2, <1>4 DEF Plus
  <2>3. startedAt' \in 0..LastSecond
    BY <1>1 DEF TelemetryAssumption
  <2>4. saturated' \in BOOLEAN
    BY <1>1
  <2> QED BY <1>1, <2>1, <2>2, <2>3, <2>4 DEF Typed
<1>7. ClockRuns' /\ IdsDrawn' /\ PendingStorable'
  BY <1>1, <1>3 DEF ClockRuns, IdsDrawn, PendingStorable
<1>8. Counted'
  <2> SUFFICES ASSUME NEW o \in Outcomes
               PROVE  recorded'[o] = active'[o] + lost'[o] + Sum(CountsOf(o), Held')
    BY DEF Counted, CountsOf
  <2>1. recorded[o] = active[o] + lost[o] + Sum(CountsOf(o), Held)
    BY DEF Counted
  <2>2. everStored \in SUBSET Batch /\ IsFiniteSet(everStored)
    BY DEF Typed
  <2>3. Sum(CountsOf(o), Held) = Sum(CountsOf(o), everStored) + Unstored[o]
        /\ Sum(CountsOf(o), everStored) \in Int
    <3>1. Sum(CountsOf(o), everStored) \in Int
      BY <2>2, CountsSummed
    <3>2. CASE pending # NoBatch /\ pending \notin everStored
      <4>1. PICK b \in Batch : b = pending
        BY <3>2 DEF Typed
      <4>2. Held = everStored \cup {b} /\ b \notin everStored
        BY <3>2, <4>1, HeldWithPending
      <4>3. Sum(CountsOf(o), everStored \cup {b}) = Sum(CountsOf(o), everStored) + b.counts[o]
        BY <2>2, <4>2, BatchAdded
      <4>4. Unstored = b.counts
        BY <3>2, <4>1 DEF Unstored
      <4> QED BY <3>1, <4>2, <4>3, <4>4
    <3>3. CASE ~(pending # NoBatch /\ pending \notin everStored)
      <4>1. Held = everStored
        BY <3>3 DEF Held
      <4>2. Unstored[o] = 0
        BY <3>3 DEF Unstored, None
      <4> QED BY <3>1, <4>1, <4>2
    <3> QED BY <3>2, <3>3
  <2>4. active'[o] = 0
    BY <1>1 DEF None
  <2> HIDE DEF IInv
  <2> QED BY <1>1, <1>3, <1>4, <1>5, <2>1, <2>3, <2>4
<1>9. Stages'
  BY <1>1 DEF Stages, Phases, CleanStopStoresAll
<1> QED BY <1>6, <1>7, <1>8, <1>9
-----------------------------------------------------------------------------
LEMMA NextIInv == IInv /\ [Next]_vars => IInv'
<1> SUFFICES ASSUME IInv, [Next]_vars PROVE IInv'
  OBVIOUS
<1> USE TelemetryAssumption
<1>1. ASSUME NEW o \in Outcomes, NEW t \in Seconds, Record(o, t) PROVE IInv'
  BY <1>1, RecordKeeps
<1>2. CASE TimerFires
  BY <1>2, FlushKeeps DEF TimerFires
<1>3. CASE StoreReturns
  BY <1>3, AnswerKeeps, FailureKeeps DEF StoreReturns
<1>4. CASE FinalFlush
  BY <1>4, FlushKeeps DEF FinalFlush, FlushInFlight
<1>5. CASE RequestStop \/ TransportClosed
  <2>1. UNCHANGED <<active, startedAt, saturated, pending, flush, nextId, recorded, lost,
                    everStored, failedBefore>>
        /\ phase' \in Phases \ {"FINAL", "CLOSED", "FAILED"}
    BY <1>5 DEF RequestStop, TransportClosed, counters, history, Phases
  <2>2. Held' = Held
    BY <2>1 DEF Held
  <2>3. Typed' /\ ClockRuns' /\ IdsDrawn' /\ PendingStorable'
    BY <2>1, <2>2 DEF IInv, Typed, ClockRuns, IdsDrawn, PendingStorable
  <2>4. Counted'
    BY <2>1, <2>2 DEF IInv, Counted, CountsOf
  <2>5. Stages'
    BY <2>1 DEF IInv, Stages, CleanStopStoresAll
  <2> QED BY <2>3, <2>4, <2>5 DEF IInv
<1>6. CASE Restart
  BY <1>6, RestartKeeps
<1>7. CASE UNCHANGED vars
  <2>1. UNCHANGED <<active, startedAt, saturated, pending, flush, phase, broken, nextId,
                    recorded, lost, everStored, failedBefore>>
    BY <1>7 DEF vars, counters, history
  <2>2. Held' = Held
    BY <2>1 DEF Held
  <2>3. Typed' /\ ClockRuns' /\ IdsDrawn' /\ PendingStorable'
    BY <2>1, <2>2 DEF IInv, Typed, ClockRuns, IdsDrawn, PendingStorable
  <2>4. Counted'
    BY <2>1, <2>2 DEF IInv, Counted, CountsOf
  <2>5. Stages'
    BY <2>1 DEF IInv, Stages, CleanStopStoresAll
  <2> QED BY <2>3, <2>4, <2>5 DEF IInv
<1> QED BY <1>1, <1>2, <1>3, <1>4, <1>5, <1>6, <1>7 DEF Next

\* The inductive invariant.
THEOREM TelemetryInvariant == Spec => []IInv
<1>1. Init => IInv
  BY InitIInv
<1>2. IInv /\ [Next]_vars => IInv'
  BY NextIInv
<1> QED BY <1>1, <1>2, PTL DEF Spec

\* recordOutcome, runFlush and recordAndPrune: every outcome is counted once, however
\* often its batch goes to the store, and the table refuses no batch that is made.
THEOREM OutcomesCountedOnce == Spec => []CountedOnce
<1>1. IInv => CountedOnce
  BY DEF IInv, PendingStorable, Counted, CountedOnce
<1> QED BY <1>1, TelemetryInvariant, PTL

\* stop and the command line: a stop that succeeds has stored what its jobs left,
\* unless a flush had failed before.
THEOREM CleanStopStores == Spec => []CleanStopStoresAll
<1>1. IInv => CleanStopStoresAll
  BY DEF IInv, Stages
<1> QED BY <1>1, TelemetryInvariant, PTL
=============================================================================
