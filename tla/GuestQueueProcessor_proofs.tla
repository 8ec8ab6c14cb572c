----------------------- MODULE GuestQueueProcessor_proofs -----------------------
(***************************************************************************)
(* Proofs that the invariants of GuestScanStore hold for every lease time, *)
(* attempt budget, access and retention window, clock error and set of     *)
(* digests that StoreAssumption allows; that GuestScanStore implements     *)
(* ScanLifecycle; and that the composition of slots, queue and rows keeps  *)
(* the rules of the store and its own invariants for every number of slots *)
(* that QueueAssumption allows.                                            *)
(***************************************************************************)
EXTENDS GuestQueueProcessor, TLAPS

-----------------------------------------------------------------------------
(***************************************************************************)
(* The store: leases, versions, commits, cancellation and deletion.        *)
(***************************************************************************)
\* A queued scan has not begun: acquire relies on it when it issues fence 1.
QueuedHasNoAttempt == jobState = "QUEUED" => currentFence = 0

\* The inductive invariant.  No part is inductive alone: the range of
\* currentFence in TypeOK needs the budget, the budget needs that a queued
\* scan has no attempt, the release of the units needs to know the job state,
\* and the accepted result needs that a running job has none.
IInv ==
  /\ TypeOK
  /\ OneLeaseHolder
  /\ ConcurrencyReleasedOnce
  /\ ResultIsTheAcceptedOne
  /\ LeaseWithinAccess
  /\ AttemptBudget
  /\ OnlyCancelCancels
  /\ QueuedHasNoAttempt

-----------------------------------------------------------------------------
\* Every clock reading is a time after the epoch.
LEMMA ReadingIsTime ==
  ASSUME TypeOK, NEW t \in Readings
  PROVE  t \in Nat /\ t > 0
BY StoreAssumption DEF TypeOK, Readings

\* The row createAttempt leaves: leased, numbered as asked, its lease within
\* its deadline and that within the access window.
LEMMA NewAttemptRow ==
  ASSUME NEW no \in Nat, NEW t \in Nat
  PROVE  /\ NewAttempt(no, t) \in Attempt
         /\ NewAttempt(no, t).state = "LEASED"
         /\ NewAttempt(no, t).no = no
         /\ NewAttempt(no, t).lease <= NewAttempt(no, t).deadline
         /\ NewAttempt(no, t).deadline <= AccessExpiry
BY StoreAssumption DEF NewAttempt, Attempt, AttemptStates, Earlier, AccessExpiry

\* A rewritten attempt row changes its state and its update time only.
LEMMA MovedRow ==
  ASSUME attempt \in [Fences -> Attempt], NEW f \in Fences, NEW t \in Nat,
         NEW s \in AttemptStates \ {"CREATED"}
  PROVE  /\ Moved(f, s, t) \in Attempt
         /\ Moved(f, s, t).state = s
         /\ Moved(f, s, t).no = attempt[f].no
         /\ Moved(f, s, t).lease = attempt[f].lease
         /\ Moved(f, s, t).deadline = attempt[f].deadline
BY DEF Moved, Attempt

\* A running job has a current attempt, and that attempt holds the lease.
LEMMA RunningHasHolder ==
  ASSUME IInv, jobState = "RUNNING"
  PROVE  currentFence \in Fences /\ Live(currentFence)
BY DEF IInv, OneLeaseHolder

LEMMA InitIInv == Init => IInv
<1> SUFFICES ASSUME Init PROVE IInv
  OBVIOUS
<1>1. NoAttempt \in Attempt
  BY DEF NoAttempt, Attempt
<1>2. TypeOK
  BY <1>1, StoreAssumption DEF Init, TypeOK, NoAttempts, JobStates
<1>3. \A f \in Fences : attempt[f] = NoAttempt
  BY DEF Init, NoAttempts
<1>4. OneLeaseHolder /\ OnlyCancelCancels
  BY <1>3 DEF Init, OneLeaseHolder, OnlyCancelCancels, Live, LiveAttemptStates, NoAttempt
<1>5. ConcurrencyReleasedOnce /\ ResultIsTheAcceptedOne /\ QueuedHasNoAttempt
  BY DEF Init, ConcurrencyReleasedOnce, TerminalJobStates, ResultIsTheAcceptedOne,
         QueuedHasNoAttempt
<1>6. LeaseWithinAccess /\ AttemptBudget
  BY <1>3, StoreAssumption
  DEF Init, LeaseWithinAccess, AttemptBudget, NoAttempt, AccessExpiry, Fences
<1> QED
  BY <1>2, <1>4, <1>5, <1>6 DEF IInv
-----------------------------------------------------------------------------
\* One lemma per action: what it must preserve of each part of IInv.

LEMMA AcquireFirstIInv ==
  ASSUME IInv, NEW t \in Readings, AcquireFirst(t)
  PROVE  IInv'
<1> DEFINE new == NewAttempt(1, t)
<1>1. t \in Nat /\ t > 0
  BY ReadingIsTime DEF IInv
<1>2. /\ new \in Attempt /\ new.state = "LEASED" /\ new.no = 1
      /\ new.lease <= new.deadline /\ new.deadline <= AccessExpiry
  BY <1>1, NewAttemptRow
<1>3. /\ jobState = "QUEUED" /\ currentFence = 0
      /\ 1 \in Fences /\ attempt \in [Fences -> Attempt]
  BY StoreAssumption DEF AcquireFirst, IInv, QueuedHasNoAttempt, Fences, TypeOK
<1>4. /\ attempt' = [attempt EXCEPT ![1] = new]
      /\ jobState' = "RUNNING" /\ currentFence' = 1 /\ updatedAt' = t
      /\ UNCHANGED <<now, accepted, results, reservation, units>>
  BY DEF AcquireFirst, abuseVars
<1> HIDE DEF new
<1>5. /\ attempt'[1] = new
      /\ \A f \in Fences \ {1} : attempt'[f] = attempt[f]
  BY <1>3, <1>4
<1>6. TypeOK'
  BY <1>1, <1>2, <1>3, <1>4, StoreAssumption DEF IInv, TypeOK, JobStates
<1>7. \A f \in Fences : ~Live(f)
  BY <1>3 DEF IInv, OneLeaseHolder
<1>8. OneLeaseHolder'
  BY <1>2, <1>3, <1>4, <1>5, <1>7 DEF OneLeaseHolder, Live, LiveAttemptStates
<1>9. ConcurrencyReleasedOnce'
  BY <1>3, <1>4 DEF IInv, ConcurrencyReleasedOnce, TerminalJobStates
<1>10. ResultIsTheAcceptedOne'
  BY <1>3, <1>4 DEF IInv, ResultIsTheAcceptedOne
<1>11. LeaseWithinAccess'
  BY <1>2, <1>5 DEF IInv, LeaseWithinAccess, AccessExpiry
<1>12. AttemptBudget'
  BY <1>2, <1>3, <1>4, <1>5, StoreAssumption DEF IInv, AttemptBudget, Fences
<1>13. OnlyCancelCancels'
  BY <1>2, <1>3, <1>4, <1>5 DEF IInv, OnlyCancelCancels
<1>14. QueuedHasNoAttempt'
  BY <1>4 DEF QueuedHasNoAttempt
<1> QED
  BY <1>6, <1>8, <1>9, <1>10, <1>11, <1>12, <1>13, <1>14 DEF IInv

LEMMA AcquireReplacementIInv ==
  ASSUME IInv, NEW t \in Readings, AcquireReplacement(t)
  PROVE  IInv'
<1> DEFINE new == NewAttempt(attempt[currentFence].no + 1, t)
           old == Moved(currentFence, RetiredState(currentFence, t), t)
<1>1. t \in Nat /\ t > 0
  BY ReadingIsTime DEF IInv
<1>2. /\ jobState = "RUNNING" /\ currentFence \in Fences /\ Live(currentFence)
      /\ attempt \in [Fences -> Attempt]
      /\ attempt[currentFence].no = currentFence
  BY DEF AcquireReplacement, Lapsed, IInv, TypeOK, AttemptBudget
<1>3. currentFence < MaxAttempts /\ currentFence + 1 \in Fences
  BY <1>2, StoreAssumption DEF AcquireReplacement, Exhausted, Fences
<1>4. /\ new \in Attempt /\ new.state = "LEASED" /\ new.no = currentFence + 1
      /\ new.lease <= new.deadline /\ new.deadline <= AccessExpiry
  BY <1>1, <1>2, NewAttemptRow DEF Fences
<1>5. RetiredState(currentFence, t) \in {"TIMED_OUT", "SUPERSEDED"}
  BY DEF RetiredState
<1>6. /\ old \in Attempt /\ old.state \in {"TIMED_OUT", "SUPERSEDED"}
      /\ old.no = currentFence
      /\ old.lease = attempt[currentFence].lease
      /\ old.deadline = attempt[currentFence].deadline
  BY <1>1, <1>2, <1>5, MovedRow DEF AttemptStates
<1>7. /\ attempt' = [attempt EXCEPT ![currentFence] = old, ![currentFence + 1] = new]
      /\ currentFence' = currentFence + 1 /\ updatedAt' = t
      /\ UNCHANGED <<now, jobState, accepted, results, reservation, units>>
  BY DEF AcquireReplacement, abuseVars
<1> HIDE DEF new, old
<1>8. /\ attempt'[currentFence] = old /\ attempt'[currentFence + 1] = new
      /\ \A f \in Fences \ {currentFence, currentFence + 1} : attempt'[f] = attempt[f]
  BY <1>2, <1>3, <1>7 DEF Fences
<1>9. TypeOK'
  BY <1>1, <1>2, <1>3, <1>4, <1>6, <1>7, StoreAssumption DEF IInv, TypeOK, Fences
<1>10. OneLeaseHolder'
  BY <1>2, <1>3, <1>4, <1>6, <1>7, <1>8
  DEF IInv, OneLeaseHolder, Live, LiveAttemptStates
<1>11. ConcurrencyReleasedOnce'
  BY <1>7 DEF IInv, ConcurrencyReleasedOnce
<1>12. ResultIsTheAcceptedOne'
  BY <1>2, <1>7 DEF IInv, ResultIsTheAcceptedOne
<1>13. LeaseWithinAccess'
  BY <1>2, <1>3, <1>4, <1>6, <1>8 DEF IInv, LeaseWithinAccess, AccessExpiry
<1>14. AttemptBudget'
  BY <1>2, <1>3, <1>4, <1>6, <1>7, <1>8, StoreAssumption
  DEF IInv, AttemptBudget, Fences
<1>15. OnlyCancelCancels'
  BY <1>2, <1>3, <1>4, <1>6, <1>7, <1>8 DEF IInv, OnlyCancelCancels
<1>16. QueuedHasNoAttempt'
  BY <1>2, <1>7 DEF QueuedHasNoAttempt
<1> QED
  BY <1>9, <1>10, <1>11, <1>12, <1>13, <1>14, <1>15, <1>16 DEF IInv

\* Every way a job ends without a result: its live attempt, if it has one, is
\* rewritten to a state without a lease and its reservation is released.
LEMMA JobEndsIInv ==
  ASSUME IInv, NEW t \in Readings,
         jobState \in {"QUEUED", "RUNNING"},
         jobState' \in {"FAILED", "CANCELLED", "EXPIRED"},
         jobState' = "FAILED" => currentFence = MaxAttempts,
         updatedAt' = t,
         releaseGuestAbuseReservation(t),
         UNCHANGED <<now, currentFence, accepted, results>>,
         \/ /\ \A f \in Fences : ~Live(f)
            /\ attempt' = attempt
         \/ /\ currentFence \in Fences
            /\ \E s \in {"TIMED_OUT", "SUPERSEDED", "CANCELLED"} :
                 /\ s = "CANCELLED" => jobState' = "CANCELLED"
                 /\ attempt' = [attempt EXCEPT ![currentFence] = Moved(currentFence, s, t)]
  PROVE  IInv'
<1>1. t \in Nat /\ t > 0
  BY ReadingIsTime DEF IInv
<1>2. attempt \in [Fences -> Attempt]
  BY DEF IInv, TypeOK
<1>3. \A f \in Fences :
        /\ attempt'[f].no = attempt[f].no
        /\ attempt'[f].lease = attempt[f].lease
        /\ attempt'[f].deadline = attempt[f].deadline
        /\ f # currentFence => attempt'[f] = attempt[f]
        /\ attempt'[f].state = attempt[f].state
           \/ /\ f = currentFence
              /\ attempt'[f].state \in {"TIMED_OUT", "SUPERSEDED", "CANCELLED"}
              /\ attempt'[f].state = "CANCELLED" => jobState' = "CANCELLED"
  <2>1. CASE attempt' = attempt
    BY <2>1
  <2>2. CASE attempt' # attempt
    <3>1. PICK s \in {"TIMED_OUT", "SUPERSEDED", "CANCELLED"} :
            /\ currentFence \in Fences
            /\ s = "CANCELLED" => jobState' = "CANCELLED"
            /\ attempt' = [attempt EXCEPT ![currentFence] = Moved(currentFence, s, t)]
      BY <2>2
    <3>2. /\ Moved(currentFence, s, t).state = s
          /\ Moved(currentFence, s, t).no = attempt[currentFence].no
          /\ Moved(currentFence, s, t).lease = attempt[currentFence].lease
          /\ Moved(currentFence, s, t).deadline = attempt[currentFence].deadline
      BY <1>1, <1>2, <3>1, MovedRow DEF AttemptStates
    <3> QED
      BY <1>2, <3>1, <3>2
  <2> QED
    BY <2>1, <2>2
<1>4. attempt' \in [Fences -> Attempt]
  <2>1. ASSUME NEW s \in {"TIMED_OUT", "SUPERSEDED", "CANCELLED"}, currentFence \in Fences
        PROVE  Moved(currentFence, s, t) \in Attempt
    BY <1>1, <1>2, <2>1, MovedRow DEF AttemptStates
  <2> QED
    BY <1>2, <2>1
<1>5. \A f \in Fences : attempt'[f].state \notin LiveAttemptStates
  <2> SUFFICES ASSUME NEW f \in Fences PROVE attempt'[f].state \notin LiveAttemptStates
    OBVIOUS
  <2>1. CASE attempt'[f].state = attempt[f].state /\ f = currentFence
    <3>1. CASE \A g \in Fences : ~Live(g)
      BY <2>1, <3>1 DEF Live
    <3>2. CASE ~ \A g \in Fences : ~Live(g)
      <4>1. PICK s \in {"TIMED_OUT", "SUPERSEDED", "CANCELLED"} :
              attempt' = [attempt EXCEPT ![currentFence] = Moved(currentFence, s, t)]
        BY <3>2
      <4>2. attempt'[f].state = s
        BY <1>1, <1>2, <2>1, <4>1, MovedRow DEF AttemptStates
      <4> QED
        BY <4>2 DEF LiveAttemptStates
    <3> QED
      BY <3>1, <3>2
  <2>2. CASE f # currentFence
    BY <1>3, <2>2 DEF IInv, OneLeaseHolder, Live
  <2> QED
    BY <1>3, <2>1, <2>2 DEF LiveAttemptStates
<1>6. /\ reservation = "HELD" /\ units = 1
      /\ reservation' = "RELEASED" /\ units' = 0
  BY DEF IInv, ConcurrencyReleasedOnce, TerminalJobStates, releaseGuestAbuseReservation,
         abuseVars
<1>7. TypeOK'
  BY <1>1, <1>4, <1>6 DEF IInv, TypeOK, JobStates
<1>8. OneLeaseHolder'
  BY <1>5 DEF OneLeaseHolder, Live
<1>9. ConcurrencyReleasedOnce'
  BY <1>6 DEF ConcurrencyReleasedOnce, TerminalJobStates
<1>10. ResultIsTheAcceptedOne'
  BY DEF IInv, ResultIsTheAcceptedOne
<1>11. LeaseWithinAccess'
  BY <1>3 DEF IInv, LeaseWithinAccess, AccessExpiry
<1>12. AttemptBudget'
  BY <1>3, StoreAssumption DEF IInv, TypeOK, AttemptBudget, Fences
<1>13. OnlyCancelCancels'
  BY <1>3 DEF IInv, OnlyCancelCancels
<1>14. QueuedHasNoAttempt'
  BY DEF QueuedHasNoAttempt
<1> QED
  BY <1>7, <1>8, <1>9, <1>10, <1>11, <1>12, <1>13, <1>14 DEF IInv

LEMMA AcquireExhaustedIInv ==
  ASSUME IInv, NEW t \in Readings, AcquireExhausted(t)
  PROVE  IInv'
<1>1. /\ jobState = "RUNNING" /\ jobState' = "FAILED" /\ currentFence \in Fences
      /\ updatedAt' = t /\ releaseGuestAbuseReservation(t)
      /\ UNCHANGED <<now, currentFence, accepted, results>>
  BY DEF AcquireExhausted, Lapsed, terminateJob
<1>2. currentFence = MaxAttempts
  BY <1>1, StoreAssumption DEF AcquireExhausted, Exhausted, IInv, TypeOK, AttemptBudget, Fences
<1>3. RetiredState(currentFence, t) \in {"TIMED_OUT", "SUPERSEDED"}
  BY DEF RetiredState
<1>4. \E s \in {"TIMED_OUT", "SUPERSEDED", "CANCELLED"} :
        /\ s = "CANCELLED" => jobState' = "CANCELLED"
        /\ attempt' = [attempt EXCEPT ![currentFence] = Moved(currentFence, s, t)]
  BY <1>3 DEF AcquireExhausted
<1> QED
  BY <1>1, <1>2, <1>4, JobEndsIInv

\* After the access window no live attempt is before its deadline, so
\* terminateJob never writes CANCELLED.
LEMMA AcquireExpiredIInv ==
  ASSUME IInv, NEW t \in Readings, AcquireExpired(t)
  PROVE  IInv'
<1>1. /\ jobState \in {"QUEUED", "RUNNING"} /\ jobState' = "EXPIRED"
      /\ updatedAt' = t /\ releaseGuestAbuseReservation(t)
      /\ UNCHANGED <<now, currentFence, accepted, results>>
      /\ t >= AccessExpiry
  BY DEF AcquireExpired, terminateJob
<1>2. CASE jobState = "QUEUED"
  <2>1. attempt' = attempt /\ \A f \in Fences : ~Live(f)
    BY <1>2 DEF AcquireExpired, IInv, OneLeaseHolder
  <2> QED
    BY <1>1, <2>1, JobEndsIInv
<1>3. CASE jobState = "RUNNING"
  <2>1. currentFence \in Fences /\ Live(currentFence)
    BY <1>3, RunningHasHolder
  <2>2. attempt' = [attempt EXCEPT
          ![currentFence] = Moved(currentFence, EndedState(currentFence, t), t)]
    BY <1>3, <2>1 DEF AcquireExpired, Live, LiveAttemptStates
  <2>3. EndedState(currentFence, t) \in {"TIMED_OUT", "SUPERSEDED"}
    <3>1. t \in Nat
      BY ReadingIsTime DEF IInv
    <3>2. /\ attempt[currentFence].deadline \in Nat
          /\ attempt[currentFence].deadline <= AccessExpiry
          /\ AccessExpiry \in Nat
      BY <2>1, StoreAssumption DEF IInv, TypeOK, Attempt, LeaseWithinAccess, AccessExpiry
    <3>3. t >= attempt[currentFence].deadline
      BY <1>1, <3>1, <3>2
    <3> QED
      BY <3>3 DEF EndedState
  <2>4. \E s \in {"TIMED_OUT", "SUPERSEDED", "CANCELLED"} :
          /\ s = "CANCELLED" => jobState' = "CANCELLED"
          /\ attempt' = [attempt EXCEPT ![currentFence] = Moved(currentFence, s, t)]
    BY <2>2, <2>3
  <2> QED
    BY <1>1, <2>1, <2>4, JobEndsIInv
<1> QED
  BY <1>1, <1>2, <1>3

LEMMA CancelScanIInv ==
  ASSUME IInv, NEW t \in Readings, CancelScan(t)
  PROVE  IInv'
<1>1. /\ jobState \in {"QUEUED", "RUNNING"} /\ jobState' = "CANCELLED"
      /\ updatedAt' = t /\ releaseGuestAbuseReservation(t)
      /\ UNCHANGED <<now, currentFence, accepted, results>>
  BY DEF CancelScan
<1>2. CASE currentFence = 0
  <2>1. attempt' = attempt /\ \A f \in Fences : ~Live(f)
    BY <1>2, StoreAssumption DEF CancelScan, IInv, OneLeaseHolder, Fences
  <2> QED
    BY <1>1, <2>1, JobEndsIInv
<1>3. CASE currentFence # 0
  <2>1. /\ currentFence \in Fences
        /\ attempt' = [attempt EXCEPT
             ![currentFence] = Moved(currentFence, CancelledState(currentFence), t)]
    BY <1>3 DEF CancelScan
  <2>2. CancelledState(currentFence) \in {"CANCELLED", "SUPERSEDED"}
    BY DEF CancelledState
  <2> QED
    BY <1>1, <2>1, <2>2, JobEndsIInv
<1> QED
  BY <1>2, <1>3

LEMMA CancelAgainIInv ==
  ASSUME IInv, NEW t \in Readings, CancelAgain(t)
  PROVE  IInv'
<1>1. reservation = "RELEASED"
  BY DEF IInv, CancelAgain, ConcurrencyReleasedOnce, TerminalJobStates
<1>2. UNCHANGED vars
  BY <1>1 DEF CancelAgain, releaseGuestAbuseReservation, vars, scanVars, abuseVars
<1> QED
  BY <1>2 DEF vars, IInv, TypeOK, OneLeaseHolder, ConcurrencyReleasedOnce,
     ResultIsTheAcceptedOne, LeaseWithinAccess, AttemptBudget, OnlyCancelCancels,
     QueuedHasNoAttempt, Live

\* start and renew rewrite the row of the lease holder, which stays live.
LEMMA HolderMovesIInv ==
  ASSUME IInv, NEW f \in Fences, NEW row \in Attempt,
         jobState = "RUNNING", currentFence = f,
         row.state \in LiveAttemptStates,
         row.no = attempt[f].no,
         row.lease <= row.deadline, row.deadline = attempt[f].deadline,
         attempt' = [attempt EXCEPT ![f] = row],
         UNCHANGED <<now, scanVars, results, abuseVars>>
  PROVE  IInv'
<1>1. /\ attempt \in [Fences -> Attempt]
      /\ UNCHANGED <<now, jobState, currentFence, accepted, updatedAt, results,
                     reservation, units>>
  BY DEF IInv, TypeOK, scanVars, abuseVars
<1>2. attempt'[f] = row /\ \A g \in Fences \ {f} : attempt'[g] = attempt[g]
  BY <1>1
<1>3. TypeOK'
  BY <1>1 DEF IInv, TypeOK
<1>4. OneLeaseHolder'
  BY <1>1, <1>2 DEF IInv, OneLeaseHolder, Live
<1>5. ConcurrencyReleasedOnce'
  BY <1>1 DEF IInv, ConcurrencyReleasedOnce
<1>6. ResultIsTheAcceptedOne'
  BY <1>1 DEF IInv, ResultIsTheAcceptedOne
<1>7. LeaseWithinAccess'
  BY <1>2 DEF IInv, LeaseWithinAccess, AccessExpiry
<1>8. AttemptBudget'
  BY <1>1, <1>2, StoreAssumption DEF IInv, AttemptBudget, Fences, LiveAttemptStates
<1>9. OnlyCancelCancels'
  BY <1>1, <1>2 DEF IInv, OnlyCancelCancels, LiveAttemptStates
<1>10. QueuedHasNoAttempt'
  BY <1>1 DEF IInv, QueuedHasNoAttempt
<1> QED
  BY <1>3, <1>4, <1>5, <1>6, <1>7, <1>8, <1>9, <1>10 DEF IInv

LEMMA StartAttemptIInv ==
  ASSUME IInv, NEW t \in Readings, NEW f \in Fences, NEW version \in Nat,
         StartAttempt(f, version, t)
  PROVE  IInv'
<1> DEFINE row == Moved(f, "RUNNING", t)
<1>1. t \in Nat /\ attempt \in [Fences -> Attempt]
  BY ReadingIsTime DEF IInv, TypeOK
<1>2. /\ row \in Attempt /\ row.state = "RUNNING" /\ row.no = attempt[f].no
      /\ row.lease = attempt[f].lease /\ row.deadline = attempt[f].deadline
  BY <1>1, MovedRow DEF AttemptStates
<1>3. attempt[f].lease <= attempt[f].deadline
  BY DEF IInv, LeaseWithinAccess
<1>4. /\ jobState = "RUNNING" /\ currentFence = f
      /\ attempt' = [attempt EXCEPT ![f] = row]
      /\ UNCHANGED <<now, scanVars, results, abuseVars>>
  BY DEF StartAttempt, HoldsLease
<1> HIDE DEF row
<1> QED
  BY <1>2, <1>3, <1>4, HolderMovesIInv DEF LiveAttemptStates

LEMMA RenewLeaseIInv ==
  ASSUME IInv, NEW t \in Readings, NEW f \in Fences, NEW version \in Nat,
         RenewLease(f, version, t)
  PROVE  IInv'
<1> DEFINE row == [attempt[f] EXCEPT !.version = version + 1,
                     !.lease = RenewedLease(f, t), !.updated = t]
<1>1. t \in Nat /\ attempt \in [Fences -> Attempt]
  BY ReadingIsTime DEF IInv, TypeOK
<1>2. attempt[f] \in Attempt /\ attempt[f].deadline \in Nat
  BY <1>1 DEF Attempt
<1>3. RenewedLease(f, t) \in Nat /\ RenewedLease(f, t) <= attempt[f].deadline
  BY <1>1, <1>2, StoreAssumption DEF RenewedLease, Earlier
<1>4. row \in Attempt
  <2>1. ASSUME NEW v \in Nat, NEW lease \in Nat
        PROVE  [attempt[f] EXCEPT !.version = v, !.lease = lease, !.updated = t] \in Attempt
    BY <1>1, <1>2 DEF Attempt
  <2>2. version + 1 \in Nat
    OBVIOUS
  <2> QED
    BY <1>3, <2>1, <2>2
<1>5. /\ row.state = attempt[f].state /\ row.no = attempt[f].no
      /\ row.lease = RenewedLease(f, t) /\ row.deadline = attempt[f].deadline
  BY <1>2 DEF Attempt
<1>6. /\ jobState = "RUNNING" /\ currentFence = f /\ attempt[f].state = "RUNNING"
      /\ attempt' = [attempt EXCEPT ![f] = row]
      /\ UNCHANGED <<now, scanVars, results, abuseVars>>
  BY <1>1 DEF RenewLease, HoldsLease
<1> HIDE DEF row
<1> QED
  BY <1>3, <1>4, <1>5, <1>6, HolderMovesIInv DEF LiveAttemptStates

\* What a primary commit has read under its locks.
LEMMA PrimaryCommitRead ==
  ASSUME NEW submission, NEW t,
         CommitDecision(submission, t) = "PRIMARY_COMMIT"
  PROVE  /\ jobState = "RUNNING" /\ accepted = {}
         /\ submission.fence = currentFence
         /\ attempt[currentFence].state = "RUNNING"
         /\ ~ (t >= attempt[currentFence].lease)
         /\ ~ (t >= attempt[currentFence].deadline)
BY DEF CommitDecision, decideResultCommit, Snapshot

LEMMA CommitResultIInv ==
  ASSUME IInv, NEW t \in Readings, NEW submission \in Submissions,
         CommitResult(submission, t)
  PROVE  IInv'
<1> DEFINE row == Moved(submission.fence, "SUCCEEDED", t)
           result == [fence |-> submission.fence, digest |-> submission.digest,
                      completed |-> t]
<1>1. /\ t \in Nat /\ attempt \in [Fences -> Attempt]
      /\ submission.fence \in Fences
      /\ submission = [fence |-> submission.fence, digest |-> submission.digest]
  BY ReadingIsTime DEF IInv, TypeOK, Submissions
<1>2. /\ jobState = "RUNNING" /\ accepted = {} /\ submission.fence = currentFence
      /\ attempt[currentFence].state = "RUNNING"
      /\ ~ (t >= attempt[currentFence].lease)
  BY PrimaryCommitRead DEF CommitResult
<1>3. /\ row \in Attempt /\ row.state = "SUCCEEDED" /\ row.no = currentFence
      /\ row.lease = attempt[currentFence].lease
      /\ row.deadline = attempt[currentFence].deadline
  <2>1. attempt[currentFence].no = currentFence
    BY <1>1, <1>2, StoreAssumption DEF IInv, AttemptBudget, Fences
  <2> QED
    BY <1>1, <1>2, <2>1, MovedRow DEF AttemptStates
<1>4. t < row.lease /\ row.lease <= AccessExpiry /\ t < AccessExpiry
  <2>1. /\ attempt[currentFence].lease \in Nat /\ attempt[currentFence].deadline \in Nat
        /\ AccessExpiry \in Nat
    BY <1>1, <1>2, StoreAssumption DEF Attempt, AccessExpiry
  <2>2. /\ attempt[currentFence].lease <= attempt[currentFence].deadline
        /\ attempt[currentFence].deadline <= AccessExpiry
    BY <1>1, <1>2 DEF IInv, LeaseWithinAccess
  <2> QED
    BY <1>1, <1>2, <1>3, <2>1, <2>2
<1>5. results = {}
  BY <1>2 DEF IInv, ResultIsTheAcceptedOne
<1>6. /\ attempt' = [attempt EXCEPT ![currentFence] = row]
      /\ jobState' = "SUCCEEDED" /\ accepted' = {submission} /\ updatedAt' = t
      /\ results' = {result}
      /\ UNCHANGED <<now, currentFence>>
  BY <1>2, <1>5 DEF CommitResult
<1>7. reservation' = "RELEASED" /\ units' = 0
  BY <1>2 DEF CommitResult, IInv, ConcurrencyReleasedOnce, TerminalJobStates,
     releaseGuestAbuseReservation, abuseVars
<1>8. result \in Results /\ accepted' = {[fence |-> result.fence, digest |-> result.digest]}
  BY <1>1, <1>6 DEF Results, Submissions
<1>9. result.fence = currentFence /\ result.completed = t
  BY <1>2
<1> HIDE DEF row, result
<1>10. attempt'[currentFence] = row
       /\ \A g \in Fences \ {currentFence} : attempt'[g] = attempt[g]
  BY <1>1, <1>2, <1>6
<1>11. TypeOK'
  BY <1>1, <1>2, <1>3, <1>6, <1>7, <1>8 DEF IInv, TypeOK, JobStates
<1>12. OneLeaseHolder'
  BY <1>3, <1>6, <1>10 DEF IInv, OneLeaseHolder, Live, LiveAttemptStates
<1>13. ConcurrencyReleasedOnce'
  BY <1>6, <1>7 DEF ConcurrencyReleasedOnce, TerminalJobStates
<1>14. ResultIsTheAcceptedOne'
  BY <1>1, <1>2, <1>3, <1>4, <1>6, <1>8, <1>9, <1>10
  DEF ResultIsTheAcceptedOne, AccessExpiry
<1>15. LeaseWithinAccess'
  BY <1>3, <1>10 DEF IInv, LeaseWithinAccess, AccessExpiry
<1>16. AttemptBudget'
  BY <1>1, <1>2, <1>3, <1>6, <1>10, StoreAssumption DEF IInv, AttemptBudget, Fences
<1>17. OnlyCancelCancels' /\ QueuedHasNoAttempt'
  BY <1>2, <1>3, <1>6, <1>10 DEF IInv, OnlyCancelCancels, QueuedHasNoAttempt
<1> QED
  BY <1>11, <1>12, <1>13, <1>14, <1>15, <1>16, <1>17 DEF IInv

LEMMA DeleteIInv ==
  ASSUME IInv, jobState # "ABSENT", DeleteRows, ReturnHeldUnits, UNCHANGED now
  PROVE  IInv'
<1>1. NoAttempt \in Attempt
  BY DEF NoAttempt, Attempt
<1>2. /\ jobState' = "ABSENT" /\ currentFence' = 0 /\ accepted' = {} /\ updatedAt' = 0
      /\ attempt' = NoAttempts /\ results' = {} /\ reservation' = "ABSENT"
  BY DEF DeleteRows
<1>3. \A f \in Fences : attempt'[f] = NoAttempt
  BY <1>2 DEF NoAttempts
<1>4. units' = 0
  BY DEF IInv, ConcurrencyReleasedOnce, ReturnHeldUnits
<1>5. TypeOK'
  BY <1>1, <1>2, <1>4, StoreAssumption DEF IInv, TypeOK, NoAttempts
<1>6. OneLeaseHolder' /\ OnlyCancelCancels'
  BY <1>2, <1>3
  DEF OneLeaseHolder, OnlyCancelCancels, Live, LiveAttemptStates, NoAttempt
<1>7. ConcurrencyReleasedOnce' /\ ResultIsTheAcceptedOne' /\ QueuedHasNoAttempt'
  BY <1>2, <1>4 DEF ConcurrencyReleasedOnce, TerminalJobStates,
     ResultIsTheAcceptedOne, QueuedHasNoAttempt
<1>8. LeaseWithinAccess' /\ AttemptBudget'
  BY <1>2, <1>3, StoreAssumption
  DEF LeaseWithinAccess, AttemptBudget, NoAttempt, AccessExpiry, Fences
<1> QED
  BY <1>5, <1>6, <1>7, <1>8 DEF IInv

\* Time passing, and steps of the rest of the system, leave the rows alone.
LEMMA RowsUnchangedIInv ==
  ASSUME IInv, now' \in Nat, UNCHANGED rowVars
  PROVE  IInv'
BY DEF rowVars, scanVars, abuseVars, IInv, TypeOK, OneLeaseHolder,
   ConcurrencyReleasedOnce, ResultIsTheAcceptedOne, LeaseWithinAccess, AttemptBudget,
   OnlyCancelCancels, QueuedHasNoAttempt, Live

LEMMA NextIInv == IInv /\ [Next]_vars => IInv'
<1> SUFFICES ASSUME IInv, [Next]_vars PROVE IInv'
  OBVIOUS
<1>1. CASE Tick
  BY <1>1, RowsUnchangedIInv DEF Tick, IInv, TypeOK
<1>2. ASSUME NEW t \in Readings, Acquire(t) PROVE IInv'
  BY <1>2, AcquireFirstIInv, AcquireReplacementIInv, AcquireExhaustedIInv,
     AcquireExpiredIInv DEF Acquire
<1>3. ASSUME NEW t \in Readings, NEW f \in Fences, NEW v \in 1..MaxLeaseVersion,
             StartAttempt(f, v, t) \/ RenewLease(f, v, t)
      PROVE  IInv'
  BY <1>3, StartAttemptIInv, RenewLeaseIInv
<1>4. ASSUME NEW t \in Readings, NEW submission \in Submissions,
             CommitResult(submission, t)
      PROVE  IInv'
  BY <1>4, CommitResultIInv
<1>5. ASSUME NEW t \in Readings, CancelScan(t) \/ CancelAgain(t) PROVE IInv'
  BY <1>5, CancelScanIInv, CancelAgainIInv
<1>6. ASSUME NEW t \in Readings, DeleteDueScan(t) \/ ReplaceExpiredScan(t) PROVE IInv'
  BY <1>6, DeleteIInv DEF DeleteDueScan, ReplaceExpiredScan
<1>7. CASE UNCHANGED vars
  BY <1>7, RowsUnchangedIInv DEF vars, rowVars, scanVars, abuseVars, IInv, TypeOK
<1> QED
  BY <1>1, <1>2, <1>3, <1>4, <1>5, <1>6, <1>7 DEF Next

\* The inductive invariant holds in every reachable state of the store.
THEOREM InductiveInvariant == Spec => []IInv
BY InitIInv, NextIInv, PTL DEF Spec

-----------------------------------------------------------------------------
\* Every column keeps its range; in particular fences never leave 1..MaxAttempts+1.
THEOREM TypeCorrect == Spec => []TypeOK
BY InductiveInvariant, PTL DEF IInv

\* acquire, start, commit, cancel and the terminal transactions together keep
\* at most one leased or running attempt, the current one of a running job.
THEOREM AtMostOneLeaseHolder == Spec => []OneLeaseHolder
BY InductiveInvariant, PTL DEF IInv

\* The reservation's counter units go back once, in the transaction that ends
\* the job, whichever of its callers releases it and however often.
THEOREM UnitsReleasedOnce == Spec => []ConcurrencyReleasedOnce
BY InductiveInvariant, PTL DEF IInv

\* persistResult stores a result exactly for a succeeded scan, within the lease
\* of the attempt the scan names as accepted.
THEOREM StoredResultIsAccepted == Spec => []ResultIsTheAcceptedOne
BY InductiveInvariant, PTL DEF IInv

\* createAttempt and renew keep every lease within its deadline and within the
\* access window.
THEOREM LeasesEndInTime == Spec => []LeaseWithinAccess
BY InductiveInvariant, PTL DEF IInv

\* acquire numbers attempts without gaps, within the budget, and fails a job
\* only when the budget is spent.
THEOREM BudgetRespected == Spec => []AttemptBudget
BY InductiveInvariant, PTL DEF IInv

\* Only the cancellation of a scan cancels an attempt: the CANCELLED branch of
\* terminateJob is never taken.
THEOREM CancelledOnlyByCancel == Spec => []OnlyCancelCancels
BY InductiveInvariant, PTL DEF IInv

-----------------------------------------------------------------------------
\* The action properties.  Each is the same case split, of which only a few
\* cases are not immediate.

\* Nothing writes to a scan whose job is over, except its removal.
LEMMA FinishedStep ==
  ASSUME IInv, Next, jobState \in TerminalJobStates
  PROVE  IF jobState' = "ABSENT"
         THEN AccessExpiry <= now + Drift
         ELSE UNCHANGED rowVars
<1>1. now \in Nat /\ Drift \in Nat /\ AccessExpiry \in Nat
      /\ AccessExpiry < DeletionDeadline /\ DeletionDeadline \in Nat
  BY StoreAssumption DEF IInv, TypeOK, AccessExpiry, DeletionDeadline
<1>2. jobState \notin {"QUEUED", "RUNNING", "ABSENT"}
  BY DEF TerminalJobStates
<1>3. CASE Tick
  BY <1>2, <1>3 DEF Tick, rowVars, scanVars
<1>4. ASSUME NEW t \in Readings, Acquire(t) PROVE FALSE
  BY <1>2, <1>4 DEF Acquire, AcquireFirst, AcquireReplacement, AcquireExhausted,
     AcquireExpired, Acquirable
<1>5. ASSUME NEW t \in Readings, NEW f \in Fences, NEW v \in 1..MaxLeaseVersion,
             StartAttempt(f, v, t) \/ RenewLease(f, v, t)
      PROVE  FALSE
  BY <1>2, <1>5 DEF StartAttempt, RenewLease, HoldsLease
<1>6. ASSUME NEW t \in Readings, NEW submission \in Submissions,
             CommitResult(submission, t)
      PROVE  FALSE
  BY <1>2, <1>6, PrimaryCommitRead DEF CommitResult
<1>7. ASSUME NEW t \in Readings, CancelScan(t) PROVE FALSE
  BY <1>2, <1>7 DEF CancelScan
<1>8. ASSUME NEW t \in Readings, CancelAgain(t)
      PROVE  UNCHANGED rowVars /\ jobState' # "ABSENT"
  <2>1. reservation = "RELEASED"
    BY DEF IInv, ConcurrencyReleasedOnce
  <2> QED
    BY <1>2, <1>8, <2>1
    DEF CancelAgain, releaseGuestAbuseReservation, rowVars, scanVars, abuseVars
<1>9. ASSUME NEW t \in Readings, DeleteDueScan(t) \/ ReplaceExpiredScan(t)
      PROVE  jobState' = "ABSENT" /\ AccessExpiry <= now + Drift
  <2>1. t \in Int /\ t <= now + Drift
    BY <1>1 DEF Readings
  <2>2. t >= AccessExpiry
    BY <1>1, <1>9, <2>1 DEF DeleteDueScan, ReplaceExpiredScan
  <2> QED
    BY <1>1, <1>9, <2>1, <2>2 DEF DeleteDueScan, ReplaceExpiredScan, DeleteRows
<1> QED
  BY <1>3, <1>4, <1>5, <1>6, <1>7, <1>8, <1>9 DEF Next

\* No late start, renewal, commit, cancellation or acquire changes a finished
\* scan, and its rows are removed only after its access window, up to one
\* reading's error.
THEOREM FinishedScansKept == Spec => FinishedIsFinal
<1>1. IInv /\ [Next]_vars =>
        [(jobState \in TerminalJobStates) =>
           IF jobState' = "ABSENT"
           THEN AccessExpiry <= now + Drift
           ELSE UNCHANGED rowVars]_vars
  BY FinishedStep
<1> QED
  BY <1>1, InductiveInvariant, PTL DEF Spec, FinishedIsFinal

\* Only a primary commit adds a result, and it read the current running attempt
\* and an unexpired lease.
LEMMA AcceptingStep ==
  ASSUME IInv, Next, NEW r \in results' \ results
  PROVE  /\ r.fence = currentFence
         /\ attempt[r.fence].state = "RUNNING"
         /\ now < attempt[r.fence].lease + Drift
         /\ results = {}
<1>1. PICK t \in Readings, submission \in Submissions : CommitResult(submission, t)
  BY DEF Next, Tick, Acquire, AcquireFirst, AcquireReplacement, AcquireExhausted,
     AcquireExpired, terminateJob, StartAttempt, RenewLease, CancelScan, CancelAgain,
     DeleteDueScan, ReplaceExpiredScan, DeleteRows, rowVars
<1>2. /\ jobState = "RUNNING" /\ submission.fence = currentFence
      /\ attempt[currentFence].state = "RUNNING"
      /\ ~ (t >= attempt[currentFence].lease)
  BY <1>1, PrimaryCommitRead DEF CommitResult
<1>3. results = {}
  BY <1>2 DEF IInv, ResultIsTheAcceptedOne
<1>4. r = [fence |-> submission.fence, digest |-> submission.digest, completed |-> t]
  BY <1>1, <1>3 DEF CommitResult
<1>5. now < attempt[currentFence].lease + Drift
  <2>1. attempt[currentFence].lease \in Nat
    BY <1>2 DEF IInv, TypeOK, Attempt, Submissions
  <2>2. now \in Nat /\ Drift \in Nat /\ t \in Int /\ now - Drift <= t
    BY StoreAssumption DEF IInv, TypeOK, Readings
  <2> QED
    BY <1>2, <2>1, <2>2
<1> QED
  BY <1>2, <1>3, <1>4, <1>5

\* A result comes only from the attempt that holds the lease at that moment.
THEOREM AcceptsOnlyFromHolder == Spec => AcceptedFromLeaseHolder
<1>1. IInv /\ [Next]_vars =>
        [\A r \in results' \ results :
           /\ r.fence = currentFence
           /\ attempt[r.fence].state = "RUNNING"
           /\ now < attempt[r.fence].lease + Drift
           /\ results = {}]_vars
  BY AcceptingStep
<1> QED
  BY <1>1, InductiveInvariant, PTL DEF Spec, AcceptedFromLeaseHolder

\* An attempt that loses its lease without success or cancellation loses it
\* in acquire, after its lease or its deadline, or with its scan's rows.
LEMMA LosingStep ==
  ASSUME IInv, Next, NEW f \in Fences, Live(f), attempt'[f].state \notin LiveAttemptStates
  PROVE  \/ attempt'[f].state = "SUCCEEDED"
         \/ jobState' = "CANCELLED"
         \/ attempt[f].lease <= now + Drift
<1>1. /\ jobState = "RUNNING" /\ f = currentFence
      /\ attempt \in [Fences -> Attempt]
  BY DEF IInv, OneLeaseHolder, TypeOK
<1>2. /\ attempt[f].lease \in Nat /\ attempt[f].deadline \in Nat
      /\ attempt[f].lease <= attempt[f].deadline
      /\ attempt[f].deadline <= AccessExpiry
      /\ AccessExpiry \in Nat /\ DeletionDeadline \in Nat
      /\ AccessExpiry < DeletionDeadline
  BY <1>1, StoreAssumption
  DEF IInv, LeaseWithinAccess, Attempt, AccessExpiry, DeletionDeadline
<1>3. ASSUME NEW t \in Readings,
             t >= attempt[f].lease \/ t >= attempt[f].deadline \/ t >= AccessExpiry
             \/ t >= DeletionDeadline
      PROVE  attempt[f].lease <= now + Drift
  <2>1. now \in Nat /\ Drift \in Nat /\ t \in Int /\ t <= now + Drift
    BY StoreAssumption DEF IInv, TypeOK, Readings
  <2> QED
    BY <1>2, <1>3, <2>1
<1>4. CASE Tick
  BY <1>4 DEF Tick, rowVars, Live
<1>5. ASSUME NEW t \in Readings, Acquire(t)
      PROVE  attempt[f].lease <= now + Drift
  BY <1>1, <1>3, <1>5 DEF Acquire, AcquireFirst, AcquireReplacement, AcquireExhausted,
     AcquireExpired, Lapsed
<1>6. ASSUME NEW t \in Readings, NEW g \in Fences, NEW v \in 1..MaxLeaseVersion,
             StartAttempt(g, v, t) \/ RenewLease(g, v, t)
      PROVE  FALSE
  <2>1. CASE StartAttempt(g, v, t)
    <3>1. t \in Nat
      BY ReadingIsTime DEF IInv
    <3>2. Moved(g, "RUNNING", t).state = "RUNNING"
      BY <1>1, <3>1, MovedRow DEF AttemptStates
    <3> QED
      BY <1>1, <2>1, <3>2 DEF StartAttempt, HoldsLease, LiveAttemptStates
  <2>2. CASE RenewLease(g, v, t)
    <3>1. attempt'[g].state = attempt[g].state
      BY <1>1, <2>2 DEF RenewLease, Attempt
    <3> QED
      BY <1>1, <2>2, <3>1 DEF RenewLease, HoldsLease, Live
  <2> QED
    BY <1>6, <2>1, <2>2
<1>7. ASSUME NEW t \in Readings, NEW submission \in Submissions,
             CommitResult(submission, t)
      PROVE  attempt'[f].state = "SUCCEEDED"
  <2>1. t \in Nat /\ submission.fence = f
    BY <1>1, <1>7, PrimaryCommitRead, ReadingIsTime DEF IInv, CommitResult
  <2>2. Moved(f, "SUCCEEDED", t).state = "SUCCEEDED"
    BY <1>1, <2>1, MovedRow DEF AttemptStates
  <2> QED
    BY <1>1, <1>7, <2>1, <2>2 DEF CommitResult
<1>8. ASSUME NEW t \in Readings, CancelScan(t) \/ CancelAgain(t)
      PROVE  jobState' = "CANCELLED"
  BY <1>1, <1>8 DEF CancelScan, CancelAgain
<1>9. ASSUME NEW t \in Readings, DeleteDueScan(t) \/ ReplaceExpiredScan(t)
      PROVE  attempt[f].lease <= now + Drift
  BY <1>3, <1>9 DEF DeleteDueScan, ReplaceExpiredScan
<1> QED
  BY <1>4, <1>5, <1>6, <1>7, <1>8, <1>9 DEF Next

\* acquire takes the lease from a live attempt only when that lease is over, up
\* to one reading's error; cancellation and success are the only other ways.
THEOREM LeaseKept == Spec => LeaseNotTakenEarly
<1>1. IInv /\ [Next]_vars =>
        [\A f \in Fences :
           Live(f) /\ attempt'[f].state \notin LiveAttemptStates
             => \/ attempt'[f].state = "SUCCEEDED"
                \/ jobState' = "CANCELLED"
                \/ attempt[f].lease <= now + Drift]_vars
  BY LosingStep
<1> QED
  BY <1>1, InductiveInvariant, PTL DEF Spec, LeaseNotTakenEarly
-----------------------------------------------------------------------------
(***************************************************************************)
(* GuestScanStore implements ScanLifecycle: with clocks, leases, versions, *)
(* rows and reservations forgotten, every transaction is one step of the   *)
(* abstract protocol, or none.                                             *)
(***************************************************************************)
\* The value the refinement mapping gives the abstract attempts.
AttemptsSeen == [f \in Fences |-> attempt[f].state]

-----------------------------------------------------------------------------
\* The rows of the transition tables that the store's transactions use.
LEMMA TableMoves ==
  /\ Lifecycle!JobMoves("QUEUED", "RUNNING")
  /\ Lifecycle!JobMoves("RUNNING", "SUCCEEDED")
  /\ Lifecycle!JobMoves("RUNNING", "FAILED")
  /\ \A from \in {"QUEUED", "RUNNING"}, to \in {"CANCELLED", "EXPIRED"} :
       Lifecycle!JobMoves(from, to)
  /\ Lifecycle!AttemptMoves("LEASED", "RUNNING")
  /\ Lifecycle!AttemptMoves("RUNNING", "SUCCEEDED")
  /\ Lifecycle!AttemptMoves("LEASED", "SUPERSEDED")
  /\ Lifecycle!AttemptMoves("RUNNING", "SUPERSEDED")
  /\ Lifecycle!AttemptMoves("RUNNING", "TIMED_OUT")
  /\ Lifecycle!AttemptMoves("RUNNING", "CANCELLED")
<1> DEFINE jobEvent(from, event, to) ==
             <<from, event, to>> \in Lifecycle!jobTransitions
           attemptEvent(from, event, to) ==
             <<from, event, to>> \in Lifecycle!attemptTransitions
<1>1. ASSUME NEW from, NEW event, NEW to, jobEvent(from, event, to)
      PROVE  Lifecycle!JobMoves(from, to)
  BY <1>1 DEF Lifecycle!JobMoves
<1>2. ASSUME NEW from, NEW event, NEW to, attemptEvent(from, event, to)
      PROVE  Lifecycle!AttemptMoves(from, to)
  BY <1>2 DEF Lifecycle!AttemptMoves
<1>3. /\ jobEvent("QUEUED", "ATTEMPT_STARTED", "RUNNING")
      /\ jobEvent("RUNNING", "PRIMARY_RESULT_COMMITTED", "SUCCEEDED")
      /\ jobEvent("RUNNING", "RETRY_BUDGET_EXHAUSTED", "FAILED")
      /\ jobEvent("QUEUED", "CANCEL", "CANCELLED")
      /\ jobEvent("RUNNING", "CANCEL", "CANCELLED")
      /\ jobEvent("QUEUED", "DEADLINE_EXCEEDED", "EXPIRED")
      /\ jobEvent("RUNNING", "DEADLINE_EXCEEDED", "EXPIRED")
  BY DEF Lifecycle!jobTransitions
<1>4. /\ attemptEvent("LEASED", "SCANNER_STARTED", "RUNNING")
      /\ attemptEvent("RUNNING", "PRIMARY_RESULT_COMMITTED", "SUCCEEDED")
      /\ attemptEvent("LEASED", "LEASE_EXPIRED_OR_INVALIDATED", "SUPERSEDED")
      /\ attemptEvent("RUNNING", "LEASE_EXPIRED_OR_INVALIDATED", "SUPERSEDED")
      /\ attemptEvent("RUNNING", "HARD_DEADLINE_EXCEEDED", "TIMED_OUT")
      /\ attemptEvent("RUNNING", "JOB_CANCELLED", "CANCELLED")
  BY DEF Lifecycle!attemptTransitions
<1> HIDE DEF jobEvent, attemptEvent
<1> QED
  BY <1>1, <1>2, <1>3, <1>4

\* A live attempt may be superseded; a running one timed out or cancelled too.
LEMMA LiveMoves ==
  ASSUME NEW f \in Fences, Live(f), NEW s \in {"SUPERSEDED", "TIMED_OUT", "CANCELLED"},
         s # "SUPERSEDED" => attempt[f].state = "RUNNING"
  PROVE  Lifecycle!AttemptMoves(attempt[f].state, s)
BY TableMoves DEF Live, LiveAttemptStates

LEMMA InitImplements == Init => Lifecycle!Init
BY DEF Init, NoAttempts, NoAttempt, Lifecycle!Init

-----------------------------------------------------------------------------
LEMMA AcquireFirstBegins ==
  ASSUME IInv, NEW t \in Readings, AcquireFirst(t)
  PROVE  Lifecycle!Begin(1)
<1>1. t \in Nat /\ attempt \in [Fences -> Attempt] /\ 1 \in Fences
      /\ currentFence = 0 /\ jobState = "QUEUED" /\ 1 <= MaxAttempts
  BY ReadingIsTime, StoreAssumption
  DEF IInv, TypeOK, AcquireFirst, QueuedHasNoAttempt, Fences
<1>2. NewAttempt(1, t).state = "LEASED"
  BY <1>1, NewAttemptRow
<1>3. \A f \in Fences : attempt[f].state = "NONE" /\ 1 <= f
  BY <1>1, StoreAssumption DEF IInv, AttemptBudget, NoAttempt, Fences
<1>4. /\ attempt'[1].state = "LEASED"
      /\ \A f \in Fences \ {1} : attempt'[f].state = attempt[f].state
  BY <1>1, <1>2 DEF AcquireFirst
<1> QED
  BY <1>1, <1>3, <1>4, TableMoves
  DEF AcquireFirst, Lifecycle!Begin, Lifecycle!Stops, Lifecycle!IsLive,
      Lifecycle!LiveAttemptStates

LEMMA AcquireReplacementBegins ==
  ASSUME IInv, NEW t \in Readings, AcquireReplacement(t),
         NEW next \in Fences, next = currentFence + 1, next <= MaxAttempts
  PROVE  Lifecycle!Begin(next)
<1> DEFINE s == RetiredState(currentFence, t)
<1>1. /\ t \in Nat /\ attempt \in [Fences -> Attempt]
      /\ jobState = "RUNNING" /\ currentFence \in Fences /\ Live(currentFence)
      /\ attempt[currentFence].no = currentFence
  BY ReadingIsTime DEF IInv, TypeOK, AcquireReplacement, Lapsed, AttemptBudget
<1>2. next # currentFence
  BY <1>1 DEF Fences
<1>3. /\ s \in {"TIMED_OUT", "SUPERSEDED"}
      /\ s # "SUPERSEDED" => attempt[currentFence].state = "RUNNING"
  BY DEF RetiredState
<1> HIDE DEF s
<1>4. NewAttempt(next, t).state = "LEASED"
      /\ Moved(currentFence, s, t).state = s
  BY <1>1, <1>2, <1>3, NewAttemptRow, MovedRow DEF AttemptStates, Fences
<1>5. /\ attempt'[next].state = "LEASED"
      /\ attempt'[currentFence].state = s
      /\ \A f \in Fences \ {currentFence, next} :
           attempt'[f].state = attempt[f].state
  BY <1>1, <1>2, <1>4 DEF AcquireReplacement, s, Fences
<1>6. \A f \in Fences : attempt[f].state = "NONE" <=> next <= f
  BY <1>1, StoreAssumption DEF IInv, AttemptBudget, NoAttempt, Fences
<1>7. \A f \in Fences \ {currentFence} : ~Live(f)
  BY DEF IInv, OneLeaseHolder
<1>8. Lifecycle!AttemptMoves(attempt[currentFence].state, s)
  BY <1>1, <1>3, LiveMoves
<1>9. jobState' = "RUNNING" /\ UNCHANGED accepted
  BY <1>1 DEF AcquireReplacement
<1> QED
  BY <1>1, <1>2, <1>3, <1>5, <1>6, <1>7, <1>8, <1>9
  DEF Lifecycle!Begin, Lifecycle!Stops, Lifecycle!IsLive, Lifecycle!LiveAttemptStates,
      Live, LiveAttemptStates

\* A job that ends without a result, as in JobEndsIInv, is one abstract End.
LEMMA JobEnds ==
  ASSUME IInv, NEW t \in Readings, NEW terminal \in {"FAILED", "CANCELLED", "EXPIRED"},
         Lifecycle!JobMoves(jobState, terminal),
         terminal = "FAILED" => attempt[MaxAttempts].state # "NONE",
         jobState' = terminal, UNCHANGED accepted,
         \/ /\ \A f \in Fences : ~Live(f)
            /\ attempt' = attempt
         \/ /\ currentFence \in Fences /\ Live(currentFence)
            /\ \E s \in {"SUPERSEDED", "TIMED_OUT", "CANCELLED"} :
                 /\ s # "SUPERSEDED" => attempt[currentFence].state = "RUNNING"
                 /\ attempt' = [attempt EXCEPT ![currentFence] = Moved(currentFence, s, t)]
  PROVE  Lifecycle!End(terminal)
<1>1. t \in Nat /\ attempt \in [Fences -> Attempt]
  BY ReadingIsTime DEF IInv, TypeOK
<1> MaxAttempts \in Fences
  BY StoreAssumption DEF Fences
<1>2. CASE (\A f \in Fences : ~Live(f)) /\ attempt' = attempt
  BY <1>2 DEF Lifecycle!End, Lifecycle!Stops, Lifecycle!IsLive,
     Lifecycle!LiveAttemptStates, Live, LiveAttemptStates
<1>3. CASE ~((\A f \in Fences : ~Live(f)) /\ attempt' = attempt)
  <2>1. PICK s \in {"SUPERSEDED", "TIMED_OUT", "CANCELLED"} :
          /\ currentFence \in Fences /\ Live(currentFence)
          /\ s # "SUPERSEDED" => attempt[currentFence].state = "RUNNING"
          /\ attempt' = [attempt EXCEPT ![currentFence] = Moved(currentFence, s, t)]
    BY <1>3
  <2>2. Moved(currentFence, s, t).state = s
    BY <1>1, <2>1, MovedRow DEF AttemptStates
  <2>3. /\ attempt'[currentFence].state = s
        /\ \A f \in Fences \ {currentFence} : attempt'[f].state = attempt[f].state
    BY <1>1, <2>1, <2>2
  <2>4. \A f \in Fences \ {currentFence} : ~Live(f)
    BY DEF IInv, OneLeaseHolder
  <2>5. Lifecycle!AttemptMoves(attempt[currentFence].state, s)
    BY <2>1, LiveMoves
  <2> QED
    BY <2>1, <2>3, <2>4, <2>5
    DEF Lifecycle!End, Lifecycle!Stops, Lifecycle!IsLive, Lifecycle!LiveAttemptStates,
        Live, LiveAttemptStates
<1> QED
  BY <1>2, <1>3

LEMMA AcquireExhaustedEnds ==
  ASSUME IInv, NEW t \in Readings, AcquireExhausted(t)
  PROVE  Lifecycle!End("FAILED")
<1>1. /\ jobState = "RUNNING" /\ jobState' = "FAILED" /\ UNCHANGED accepted
      /\ currentFence \in Fences /\ Live(currentFence)
  BY DEF AcquireExhausted, Lapsed, terminateJob
<1>2. /\ RetiredState(currentFence, t) \in {"TIMED_OUT", "SUPERSEDED"}
      /\ RetiredState(currentFence, t) # "SUPERSEDED"
           => attempt[currentFence].state = "RUNNING"
  BY DEF RetiredState
<1>3. attempt' = [attempt EXCEPT
        ![currentFence] = Moved(currentFence, RetiredState(currentFence, t), t)]
  BY DEF AcquireExhausted
<1>4. currentFence = MaxAttempts
  BY <1>1, StoreAssumption DEF AcquireExhausted, Exhausted, IInv, TypeOK, AttemptBudget, Fences
<1>5. attempt[MaxAttempts].state # "NONE"
  BY <1>1, <1>4 DEF Live, LiveAttemptStates
<1> QED
  BY <1>1, <1>2, <1>3, <1>5, TableMoves, JobEnds

LEMMA AcquireExpiredEnds ==
  ASSUME IInv, NEW t \in Readings, AcquireExpired(t)
  PROVE  Lifecycle!End("EXPIRED")
<1>1. /\ jobState \in {"QUEUED", "RUNNING"} /\ jobState' = "EXPIRED" /\ UNCHANGED accepted
  BY DEF AcquireExpired, terminateJob
<1>2. Lifecycle!JobMoves(jobState, "EXPIRED")
  BY <1>1, TableMoves
<1>3. CASE jobState = "QUEUED"
  <2>1. attempt' = attempt /\ \A f \in Fences : ~Live(f)
    BY <1>3 DEF AcquireExpired, IInv, OneLeaseHolder
  <2> QED
    BY <1>1, <1>2, <2>1, JobEnds
<1>4. CASE jobState = "RUNNING"
  <2>1. currentFence \in Fences /\ Live(currentFence)
    BY <1>4, RunningHasHolder
  <2>2. attempt' = [attempt EXCEPT
          ![currentFence] = Moved(currentFence, EndedState(currentFence, t), t)]
    BY <1>4, <2>1 DEF AcquireExpired, Live, LiveAttemptStates
  <2>3. /\ EndedState(currentFence, t) \in {"SUPERSEDED", "TIMED_OUT", "CANCELLED"}
        /\ EndedState(currentFence, t) # "SUPERSEDED"
             => attempt[currentFence].state = "RUNNING"
    BY <2>1 DEF EndedState, Live, LiveAttemptStates
  <2> QED
    BY <1>1, <1>2, <2>1, <2>2, <2>3, JobEnds
<1> QED
  BY <1>1, <1>3, <1>4

LEMMA CancelScanEnds ==
  ASSUME IInv, NEW t \in Readings, CancelScan(t)
  PROVE  Lifecycle!End("CANCELLED")
<1>1. /\ jobState \in {"QUEUED", "RUNNING"} /\ jobState' = "CANCELLED"
      /\ UNCHANGED accepted
  BY DEF CancelScan
<1>2. Lifecycle!JobMoves(jobState, "CANCELLED")
  BY <1>1, TableMoves
<1>3. CASE currentFence = 0
  <2>1. attempt' = attempt /\ \A f \in Fences : ~Live(f)
    BY <1>3, StoreAssumption DEF CancelScan, IInv, OneLeaseHolder, Fences
  <2> QED
    BY <1>1, <1>2, <2>1, JobEnds
<1>4. CASE currentFence # 0
  <2>1. /\ currentFence \in Fences /\ Live(currentFence)
        /\ attempt' = [attempt EXCEPT
             ![currentFence] = Moved(currentFence, CancelledState(currentFence), t)]
    BY <1>4 DEF CancelScan
  <2>2. /\ CancelledState(currentFence) \in {"CANCELLED", "SUPERSEDED"}
        /\ CancelledState(currentFence) # "SUPERSEDED"
             => attempt[currentFence].state = "RUNNING"
    BY DEF CancelledState
  <2> QED
    BY <1>1, <1>2, <2>1, <2>2, JobEnds
<1> QED
  BY <1>1, <1>3, <1>4

LEMMA StartAttemptStarts ==
  ASSUME IInv, NEW t \in Readings, NEW f \in Fences, NEW version \in Nat,
         StartAttempt(f, version, t)
  PROVE  Lifecycle!Start(f)
<1>1. t \in Nat /\ attempt \in [Fences -> Attempt]
  BY ReadingIsTime DEF IInv, TypeOK
<1>2. Moved(f, "RUNNING", t).state = "RUNNING"
  BY <1>1, MovedRow DEF AttemptStates
<1>3. /\ attempt'[f].state = "RUNNING" /\ attempt[f].state = "LEASED"
      /\ \A g \in Fences \ {f} : attempt'[g].state = attempt[g].state
  BY <1>1, <1>2 DEF StartAttempt
<1>4. /\ jobState = "RUNNING" /\ UNCHANGED <<jobState, accepted>>
  BY DEF StartAttempt, HoldsLease, scanVars
<1> QED
  BY <1>3, <1>4, TableMoves DEF Lifecycle!Start

\* What the abstract protocol sees of the store.
LEMMA RenewLeaseStutters ==
  ASSUME IInv, NEW t \in Readings, NEW f \in Fences, NEW version \in Nat,
         RenewLease(f, version, t)
  PROVE  UNCHANGED <<jobState, AttemptsSeen, accepted>>
<1>1. attempt \in [Fences -> Attempt]
  BY DEF IInv, TypeOK
<1>2. \A g \in Fences : attempt'[g].state = attempt[g].state
  BY <1>1 DEF RenewLease, Attempt
<1> QED
  BY <1>2 DEF RenewLease, scanVars, AttemptsSeen

LEMMA CommitResultAccepts ==
  ASSUME IInv, NEW t \in Readings, NEW submission \in Submissions,
         CommitResult(submission, t)
  PROVE  Lifecycle!Accept(submission.fence, submission.digest)
<1> DEFINE f == submission.fence
<1>1. /\ t \in Nat /\ attempt \in [Fences -> Attempt] /\ f \in Fences
      /\ submission = [fence |-> f, digest |-> submission.digest]
  BY ReadingIsTime DEF IInv, TypeOK, Submissions
<1>2. jobState = "RUNNING" /\ f = currentFence /\ attempt[f].state = "RUNNING"
  BY PrimaryCommitRead DEF CommitResult
<1>3. Moved(f, "SUCCEEDED", t).state = "SUCCEEDED"
  BY <1>1, MovedRow DEF AttemptStates
<1>4. /\ attempt'[f].state = "SUCCEEDED"
      /\ \A g \in Fences \ {f} : attempt'[g].state = attempt[g].state
  BY <1>1, <1>3 DEF CommitResult
<1>5. \A g \in Fences \ {f} : ~Live(g)
  BY <1>2 DEF IInv, OneLeaseHolder
<1>6. jobState' = "SUCCEEDED" /\ accepted' = {submission}
  BY DEF CommitResult
<1> HIDE DEF f
<1>7. Lifecycle!Accept(f, submission.digest)
  BY <1>1, <1>2, <1>4, <1>5, <1>6, TableMoves
  DEF Lifecycle!Accept, Lifecycle!IsLive, Lifecycle!LiveAttemptStates, Live,
      LiveAttemptStates
<1> QED
  BY <1>7 DEF f

LEMMA DeleteRemoves ==
  ASSUME jobState # "ABSENT", DeleteRows
  PROVE  Lifecycle!Remove
BY DEF DeleteRows, NoAttempts, NoAttempt, Lifecycle!Remove

\* Repeated cancellations and time do not touch what the protocol sees.
LEMMA RowsUnchangedStutters ==
  ASSUME UNCHANGED <<jobState, attempt, accepted>>
  PROVE  UNCHANGED <<jobState, AttemptsSeen, accepted>>
BY DEF AttemptsSeen

LEMMA NextImplements == IInv /\ [Next]_vars => [Lifecycle!Next]_(Lifecycle!vars)
<1> SUFFICES ASSUME IInv, [Next]_vars PROVE [Lifecycle!Next]_(Lifecycle!vars)
  OBVIOUS
<1>1. ASSUME UNCHANGED <<jobState, AttemptsSeen, accepted>>
      PROVE  UNCHANGED Lifecycle!vars
  BY <1>1 DEF AttemptsSeen, Lifecycle!vars
<1>2. CASE Tick \/ UNCHANGED vars
  BY <1>1, <1>2, RowsUnchangedStutters DEF Tick, vars, rowVars, scanVars
<1>3. ASSUME NEW t \in Readings, Acquire(t) PROVE Lifecycle!Next
  <2>1. CASE AcquireFirst(t)
    BY <2>1, AcquireFirstBegins, StoreAssumption DEF Lifecycle!Next, Fences
  <2>2. CASE AcquireReplacement(t)
    <3>1. \E next \in Fences : next = currentFence + 1 /\ next <= MaxAttempts
      BY <2>2, StoreAssumption
      DEF AcquireReplacement, Exhausted, Lapsed, IInv, TypeOK, AttemptBudget, Fences
    <3> QED
      BY <2>2, <3>1, AcquireReplacementBegins DEF Lifecycle!Next
  <2>3. CASE AcquireExhausted(t)
    BY <2>3, AcquireExhaustedEnds DEF Lifecycle!Next
  <2>4. CASE AcquireExpired(t)
    BY <2>4, AcquireExpiredEnds DEF Lifecycle!Next
  <2> QED
    BY <1>3, <2>1, <2>2, <2>3, <2>4 DEF Acquire
<1>4. ASSUME NEW t \in Readings, NEW f \in Fences, NEW v \in 1..MaxLeaseVersion,
             StartAttempt(f, v, t) \/ RenewLease(f, v, t)
      PROVE  Lifecycle!Next \/ UNCHANGED Lifecycle!vars
  BY <1>1, <1>4, StartAttemptStarts, RenewLeaseStutters DEF Lifecycle!Next
<1>5. ASSUME NEW t \in Readings, NEW submission \in Submissions,
             CommitResult(submission, t)
      PROVE  Lifecycle!Next
  BY <1>5, CommitResultAccepts DEF Lifecycle!Next, Submissions
<1>6. ASSUME NEW t \in Readings, CancelScan(t) PROVE Lifecycle!Next
  BY <1>6, CancelScanEnds DEF Lifecycle!Next
<1>7. ASSUME NEW t \in Readings, CancelAgain(t) PROVE UNCHANGED Lifecycle!vars
  BY <1>1, <1>7, RowsUnchangedStutters DEF CancelAgain, scanVars
<1>8. ASSUME NEW t \in Readings, DeleteDueScan(t) \/ ReplaceExpiredScan(t)
      PROVE  Lifecycle!Next
  BY <1>8, DeleteRemoves DEF DeleteDueScan, ReplaceExpiredScan, Lifecycle!Next
<1> QED
  BY <1>2, <1>3, <1>4, <1>5, <1>6, <1>7, <1>8 DEF Next

\* The database transactions implement the protocol of scan-protocol/fsm.ts:
\* every run of the store, seen through the mapping, is a run of ScanLifecycle.
THEOREM StoreImplementsLifecycle == Spec => ImplementsLifecycle
BY InitImplements, NextImplements, InductiveInvariant, PTL
   DEF Spec, Lifecycle!Spec, ImplementsLifecycle
-----------------------------------------------------------------------------
(***************************************************************************)
(* The queue processor: slots, deadlines and what a worker may still do.   *)
(***************************************************************************)
Over == jobState \in TerminalJobStates \cup {"ABSENT"}

\* A renewal moves the expiry by at least a second towards the deadline, so versions
\* are bounded by the seconds an attempt may have.
VersionsBounded ==
  \A f \in Fences : attempt[f].state # "NONE" =>
    /\ attempt[f].version >= 1
    /\ attempt[f].version <= attempt[f].lease - attempt[f].deadline + HardDeadlineSeconds

\* Nothing is left of a deleted scan.
NothingLeft == jobState = "ABSENT" => currentFence = 0

StoreInv == IInv /\ VersionsBounded /\ NothingLeft

\* What a step of the store does to the attempts that exist: success comes only to one
\* of S, renewal only to one of R, and nothing else about their leases changes.
Moves(S, R) ==
  /\ jobState = "ABSENT" <=> jobState' = "ABSENT"
  /\ jobState = "ABSENT" => currentFence' = currentFence
  /\ Over => Over'
  /\ currentFence' >= currentFence
  /\ \A f \in Fences : f <= currentFence =>
       /\ attempt'[f].deadline = attempt[f].deadline
       /\ attempt'[f].version >= attempt[f].version
       /\ attempt'[f].lease >= attempt[f].lease
       /\ f \notin R => /\ attempt'[f].version = attempt[f].version
                        /\ attempt'[f].lease = attempt[f].lease
       /\ f \notin S /\ attempt'[f].state = "SUCCEEDED" => attempt[f].state = "SUCCEEDED"
-----------------------------------------------------------------------------
LEMMA RowTypes ==
  ASSUME IInv
  PROVE  /\ attempt \in [Fences -> Attempt]
         /\ currentFence \in Nat
         /\ \A f \in Fences : /\ attempt[f].version \in Nat /\ attempt[f].lease \in Nat
                              /\ attempt[f].deadline \in Nat
BY StoreAssumption DEF IInv, TypeOK, Attempt

LEMMA MovedVersion ==
  ASSUME attempt \in [Fences -> Attempt], NEW f \in Fences, NEW s, NEW t
  PROVE  /\ Moved(f, s, t).version = attempt[f].version
         /\ Moved(f, s, t).lease = attempt[f].lease
         /\ Moved(f, s, t).deadline = attempt[f].deadline
         /\ Moved(f, s, t).state = s
BY DEF Moved, Attempt

\* createAttempt: the first lease leaves at least one second of the deadline used.
LEMMA NewVersion ==
  ASSUME NEW no \in Nat, NEW t \in Nat, t < AccessExpiry
  PROVE  /\ NewAttempt(no, t).version = 1
         /\ NewAttempt(no, t).state = "LEASED"
         /\ 1 <= NewAttempt(no, t).lease - NewAttempt(no, t).deadline + HardDeadlineSeconds
BY StoreAssumption DEF NewAttempt, Earlier, AccessExpiry

\* A step that leaves the rows, time passing included, moves nothing.
LEMMA StillMoves ==
  ASSUME StoreInv, UNCHANGED rowVars
  PROVE  Moves({}, {}) /\ VersionsBounded'
<1>1. UNCHANGED <<jobState, currentFence, attempt>>
  BY DEF rowVars, scanVars
<1> QED
  BY <1>1, RowTypes DEF Moves, StoreInv, VersionsBounded, Over

\* The current attempt changes its state only.
LEMMA RewriteMoves ==
  ASSUME StoreInv, currentFence \in Fences, currentFence' = currentFence,
         jobState \in {"QUEUED", "RUNNING"}, jobState' # "ABSENT",
         NEW s, NEW t, s # "NONE",
         attempt[currentFence].state # "NONE",
         attempt' = [attempt EXCEPT ![currentFence] = Moved(currentFence, s, t)]
  PROVE  /\ Moves(IF s = "SUCCEEDED" THEN {currentFence} ELSE {}, {})
         /\ VersionsBounded'
<1>1. StoreInv /\ attempt \in [Fences -> Attempt]
  BY RowTypes DEF StoreInv
<1> DEFINE row == Moved(currentFence, s, t)
<1>2. /\ row.version = attempt[currentFence].version
      /\ row.lease = attempt[currentFence].lease
      /\ row.deadline = attempt[currentFence].deadline /\ row.state = s
  BY <1>1, MovedVersion
<1> HIDE DEF row
<1>3. attempt'[currentFence] = row
      /\ \A g \in Fences \ {currentFence} : attempt'[g] = attempt[g]
  BY <1>1 DEF row
<1>4. VersionsBounded'
  BY <1>1, <1>2, <1>3 DEF StoreInv, VersionsBounded
<1>5. ~Over
  BY DEF Over, TerminalJobStates
<1> QED
  BY <1>1, <1>2, <1>3, <1>4, <1>5, RowTypes DEF Moves, StoreInv

LEMMA EndedIsMoved ==
  ASSUME NEW f, NEW t
  PROVE  /\ RetiredState(f, t) \in {"TIMED_OUT", "SUPERSEDED"}
         /\ EndedState(f, t) \in {"SUPERSEDED", "TIMED_OUT", "CANCELLED"}
         /\ CancelledState(f) \in {"SUPERSEDED", "CANCELLED"}
BY DEF RetiredState, EndedState, CancelledState

\* A job that ends without touching its attempts.
LEMMA EndMoves ==
  ASSUME StoreInv, jobState' # "ABSENT", jobState # "ABSENT", UNCHANGED <<currentFence, attempt>>,
         Over => Over'
  PROVE  Moves({}, {}) /\ VersionsBounded'
BY RowTypes DEF Moves, StoreInv, VersionsBounded

LEMMA AcquireMoves ==
  ASSUME StoreInv, NEW t \in Readings, Acquire(t)
  PROVE  Moves({}, {}) /\ VersionsBounded'
<1>1. t \in Nat /\ IInv /\ VersionsBounded
  BY ReadingIsTime DEF StoreInv, IInv
<1>2. attempt \in [Fences -> Attempt] /\ currentFence \in Nat
  BY <1>1, RowTypes
<1>3. jobState \in {"QUEUED", "RUNNING"} /\ ~Over
  BY DEF Acquire, AcquireFirst, AcquireReplacement, AcquireExhausted, AcquireExpired,
     Acquirable, Over, TerminalJobStates
<1>4. CASE AcquireFirst(t)
  <2>1. currentFence = 0 /\ t < AccessExpiry
    BY <1>1, <1>4 DEF AcquireFirst, Acquirable, IInv, QueuedHasNoAttempt
  <2>2. 1 \in Fences /\ \A f \in Fences : f \in Nat /\ f >= 1
    BY StoreAssumption DEF Fences
  <2>3. attempt'[1] = NewAttempt(1, t) /\ \A f \in Fences \ {1} : attempt'[f] = attempt[f]
    BY <1>2, <1>4, <2>2 DEF AcquireFirst
  <2>4. VersionsBounded'
    BY <1>1, <2>1, <2>3, NewVersion DEF VersionsBounded
  <2> QED
    BY <1>3, <1>4, <2>1, <2>2, <2>4 DEF AcquireFirst, Moves
<1>5. CASE AcquireReplacement(t)
  <2> DEFINE new == NewAttempt(attempt[currentFence].no + 1, t)
             old == Moved(currentFence, RetiredState(currentFence, t), t)
  <2>1. currentFence \in Fences /\ t < AccessExpiry /\ attempt[currentFence].state # "NONE"
    BY <1>5 DEF AcquireReplacement, Acquirable, Lapsed, Live, LiveAttemptStates
  <2>2. /\ old.version = attempt[currentFence].version
        /\ old.lease = attempt[currentFence].lease
        /\ old.deadline = attempt[currentFence].deadline /\ old.state # "SUCCEEDED"
    BY <1>2, <2>1, MovedVersion, EndedIsMoved
  <2>3. attempt[currentFence].no \in Nat /\ currentFence + 1 \in Fences
    BY <1>1, <1>2, <2>1, StoreAssumption DEF Attempt, Fences, IInv, AttemptBudget
  <2>4. /\ new.version = 1
        /\ 1 <= new.lease - new.deadline + HardDeadlineSeconds
    BY <1>1, <2>1, <2>3, NewVersion
  <2>5. attempt' = [attempt EXCEPT ![currentFence] = old, ![currentFence + 1] = new]
        /\ currentFence' = currentFence + 1 /\ jobState' = jobState
    BY <1>5 DEF AcquireReplacement
  <2> HIDE DEF old, new
  <2>6. /\ attempt'[currentFence] = old /\ attempt'[currentFence + 1] = new
        /\ \A f \in Fences \ {currentFence, currentFence + 1} : attempt'[f] = attempt[f]
    BY <1>2, <2>1, <2>3, <2>5
  <2>7. VersionsBounded'
    BY <1>1, <2>1, <2>2, <2>4, <2>6 DEF VersionsBounded
  <2>8. \A f \in Fences : f <= currentFence => f # currentFence + 1
    BY <1>2 DEF Fences
  <2> QED
    BY <1>1, <1>2, <1>3, <2>2, <2>5, <2>6, <2>7, <2>8, RowTypes DEF Moves
<1>6. CASE AcquireExhausted(t)
  <2>1. /\ currentFence \in Fences /\ currentFence' = currentFence /\ jobState' = "FAILED"
        /\ attempt[currentFence].state # "NONE"
        /\ attempt' = [attempt EXCEPT
             ![currentFence] = Moved(currentFence, RetiredState(currentFence, t), t)]
    BY <1>6 DEF AcquireExhausted, Lapsed, terminateJob, Live, LiveAttemptStates
  <2> DEFINE s == RetiredState(currentFence, t)
  <2>2. s # "SUCCEEDED" /\ s # "NONE"
    BY EndedIsMoved
  <2> HIDE DEF s
  <2>3. attempt' = [attempt EXCEPT ![currentFence] = Moved(currentFence, s, t)]
    BY <2>1 DEF s
  <2> QED
    BY <1>3, <2>1, <2>2, <2>3, RewriteMoves
<1>7. CASE AcquireExpired(t)
  <2>1. currentFence' = currentFence /\ jobState' = "EXPIRED"
    BY <1>7 DEF AcquireExpired, terminateJob
  <2>2. CASE UNCHANGED attempt
    BY <1>3, <2>1, <2>2, EndMoves
  <2>3. CASE /\ currentFence \in Fences /\ attempt[currentFence].state # "NONE"
             /\ attempt' = [attempt EXCEPT
                  ![currentFence] = Moved(currentFence, EndedState(currentFence, t), t)]
    <3> DEFINE s == EndedState(currentFence, t)
    <3>1. s # "SUCCEEDED" /\ s # "NONE"
      BY EndedIsMoved
    <3> HIDE DEF s
    <3>2. attempt' = [attempt EXCEPT ![currentFence] = Moved(currentFence, s, t)]
      BY <2>3 DEF s
    <3> QED
      BY <1>3, <2>1, <2>3, <3>1, <3>2, RewriteMoves
  <2> QED
    BY <1>7, <2>2, <2>3 DEF AcquireExpired, Live, LiveAttemptStates
<1> QED
  BY <1>4, <1>5, <1>6, <1>7 DEF Acquire

\* start and renew are calls on the current attempt.
LEMMA HolderIsCurrent ==
  ASSUME StoreInv, NEW f, NEW v, NEW t, HoldsLease(f, v, t)
  PROVE  /\ f = currentFence /\ f \in Fences /\ jobState = "RUNNING" /\ ~Over
         /\ v = attempt[f].version /\ attempt[f].state # "NONE"
         /\ v \in 1..HardDeadlineSeconds
<1>1. f = currentFence /\ jobState = "RUNNING" /\ v = attempt[f].version
  BY DEF HoldsLease
<1>2. f \in Fences /\ attempt[f].state # "NONE"
  BY <1>1, RunningHasHolder DEF StoreInv, Live, LiveAttemptStates
<1>3. v \in 1..HardDeadlineSeconds
  BY <1>1, <1>2, RowTypes, StoreAssumption DEF StoreInv, VersionsBounded, IInv, LeaseWithinAccess
<1> QED
  BY <1>1, <1>2, <1>3 DEF Over, TerminalJobStates

LEMMA StartMoves ==
  ASSUME StoreInv, NEW f, NEW v, NEW t \in Readings, StartAttempt(f, v, t)
  PROVE  Moves({}, {}) /\ VersionsBounded'
<1>1. f = currentFence /\ f \in Fences /\ jobState = "RUNNING" /\ attempt[f].state # "NONE"
  BY HolderIsCurrent DEF StartAttempt
<1>2. /\ attempt' = [attempt EXCEPT ![currentFence] = Moved(currentFence, "RUNNING", t)]
      /\ currentFence' = currentFence /\ jobState' = jobState
  BY <1>1 DEF StartAttempt, scanVars
<1>3. Moves(IF "RUNNING" = "SUCCEEDED" THEN {currentFence} ELSE {}, {}) /\ VersionsBounded'
  BY <1>1, <1>2, RewriteMoves
<1> QED
  BY <1>3

LEMMA RenewMoves ==
  ASSUME StoreInv, NEW f, NEW v, NEW t \in Readings, RenewLease(f, v, t)
  PROVE  Moves({}, {f}) /\ VersionsBounded'
<1>1. /\ f = currentFence /\ f \in Fences /\ jobState = "RUNNING"
      /\ v = attempt[f].version /\ attempt[f].state = "RUNNING" /\ ~Over
  BY HolderIsCurrent DEF RenewLease
<1>2. IInv /\ VersionsBounded /\ attempt \in [Fences -> Attempt] /\ t \in Nat
  BY RowTypes, ReadingIsTime DEF StoreInv, IInv
<1> DEFINE row == [attempt[f] EXCEPT !.version = v + 1, !.lease = RenewedLease(f, t),
                     !.updated = t]
<1>3. /\ row.version = attempt[f].version + 1 /\ row.state = attempt[f].state
      /\ row.deadline = attempt[f].deadline /\ row.lease = RenewedLease(f, t)
  BY <1>1, <1>2 DEF Attempt
<1>4. RenewedLease(f, t) \in Nat /\ RenewedLease(f, t) > attempt[f].lease
  BY <1>1, <1>2, RowTypes, StoreAssumption DEF RenewLease, RenewedLease, Earlier
<1>5. attempt' = [attempt EXCEPT ![f] = row] /\ currentFence' = currentFence
      /\ jobState' = jobState
  BY DEF RenewLease, scanVars
<1> HIDE DEF row
<1>6. attempt'[f] = row /\ \A g \in Fences \ {f} : attempt'[g] = attempt[g]
  BY <1>1, <1>2, <1>5
<1>7. VersionsBounded'
  BY <1>1, <1>2, <1>3, <1>4, <1>6, RowTypes, StoreAssumption DEF VersionsBounded
<1> QED
  BY <1>1, <1>2, <1>3, <1>4, <1>5, <1>6, <1>7, RowTypes DEF Moves

LEMMA CommitMoves ==
  ASSUME StoreInv, NEW submission, NEW t \in Readings, CommitResult(submission, t)
  PROVE  /\ Moves({submission.fence}, {}) /\ VersionsBounded'
         /\ jobState' = "SUCCEEDED"
<1>1. jobState = "RUNNING" /\ submission.fence = currentFence
  BY PrimaryCommitRead DEF CommitResult
<1>2. currentFence \in Fences /\ attempt[currentFence].state # "NONE"
  BY <1>1, RunningHasHolder DEF StoreInv, Live, LiveAttemptStates
<1>3. /\ attempt' = [attempt EXCEPT ![currentFence] = Moved(currentFence, "SUCCEEDED", t)]
      /\ currentFence' = currentFence /\ jobState' = "SUCCEEDED"
  BY <1>1 DEF CommitResult
<1>4. Moves(IF "SUCCEEDED" = "SUCCEEDED" THEN {currentFence} ELSE {}, {}) /\ VersionsBounded'
  BY <1>1, <1>2, <1>3, RewriteMoves
<1> QED
  BY <1>1, <1>3, <1>4

\* Cancellation and time; neither finishes an attempt with success.
LEMMA OtherMoves ==
  ASSUME StoreInv, Tick \/ \E t \in Readings : CancelScan(t) \/ CancelAgain(t)
  PROVE  Moves({}, {}) /\ VersionsBounded'
<1>1. CASE Tick
  BY <1>1, StillMoves DEF Tick
<1>2. ASSUME NEW t \in Readings, CancelScan(t) PROVE Moves({}, {}) /\ VersionsBounded'
  <2>1. /\ jobState \in {"QUEUED", "RUNNING"} /\ ~Over /\ jobState' = "CANCELLED"
        /\ currentFence' = currentFence
    BY <1>2 DEF CancelScan, Over, TerminalJobStates
  <2>2. CASE UNCHANGED attempt
    BY <2>1, <2>2, EndMoves
  <2>3. CASE /\ currentFence \in Fences /\ attempt[currentFence].state # "NONE"
             /\ attempt' = [attempt EXCEPT
                  ![currentFence] = Moved(currentFence, CancelledState(currentFence), t)]
    <3> DEFINE s == CancelledState(currentFence)
    <3>1. s # "SUCCEEDED" /\ s # "NONE"
      BY EndedIsMoved
    <3> HIDE DEF s
    <3>2. attempt' = [attempt EXCEPT ![currentFence] = Moved(currentFence, s, t)]
      BY <2>3 DEF s
    <3> QED
      BY <2>1, <2>3, <3>1, <3>2, RewriteMoves
  <2> QED
    BY <1>2, <2>2, <2>3 DEF CancelScan, Live, LiveAttemptStates
<1>3. ASSUME NEW t \in Readings, CancelAgain(t) PROVE Moves({}, {}) /\ VersionsBounded'
  BY <1>3, EndMoves DEF CancelAgain, scanVars, Over
<1> QED
  BY <1>1, <1>2, <1>3

\* Deletion leaves no attempt.
LEMMA DeletionMoves ==
  ASSUME StoreInv, NEW t, DeleteDueScan(t) \/ ReplaceExpiredScan(t)
  PROVE  /\ jobState' = "ABSENT" /\ VersionsBounded'
         /\ currentFence' = 0
<1>1. jobState' = "ABSENT" /\ attempt' = NoAttempts /\ currentFence' = 0
  BY DEF DeleteDueScan, ReplaceExpiredScan, DeleteRows
<1> QED
  BY <1>1 DEF NoAttempts, NoAttempt, VersionsBounded
-----------------------------------------------------------------------------
\* What a slot calls is a call the store knows, since a lease it accepts has a version
\* within the bound.
LEMMA CallsAreSteps ==
  ASSUME StoreInv, NEW f, NEW v, NEW t \in Readings,
         StartAttempt(f, v, t) \/ RenewLease(f, v, t)
  PROVE  Next
<1>1. f \in Fences /\ v \in 1..MaxLeaseVersion
  BY HolderIsCurrent, QueueAssumption, StoreAssumption DEF StartAttempt, RenewLease
<1> QED
  BY <1>1 DEF Next

LEMMA CommitsAreSteps ==
  ASSUME StoreInv, NEW f, NEW digest \in Digests, NEW t \in Readings,
         CommitResult([fence |-> f, digest |-> digest], t)
  PROVE  Next
<1>1. f = currentFence /\ jobState = "RUNNING"
  BY PrimaryCommitRead DEF CommitResult
<1>2. f \in Fences
  BY <1>1, RunningHasHolder DEF StoreInv
<1>3. [fence |-> f, digest |-> digest] \in Submissions
  BY <1>2 DEF Submissions
<1> QED
  BY <1>3 DEF Next

LEMMA SlotsFollowTheStore ==
  ASSUME StoreInv, SystemNext
  PROVE  [Next]_vars
<1>1. CASE Elsewhere
  BY <1>1 DEF Elsewhere, Next
<1>2. CASE Enqueue \/ Stall \/ Forget \/ \E w \in Workers : Deliver(w) \/ Crash(w)
  BY <1>2 DEF Enqueue, Stall, Forget, Deliver, Crash
<1>3. ASSUME NEW w \in Workers, WorkerStep(w) PROVE [Next]_vars
  <2>1. CASE AcquireAnswered(w) \/ AcquireUnanswered(w)
    BY <2>1 DEF AcquireAnswered, AcquireUnanswered, Next, Acquire
  <2>2. CASE StartAnswered(w) \/ StartUnanswered(w) \/ BeatAnswered(w) \/ BeatLost(w)
    BY <2>2, CallsAreSteps DEF StartAnswered, StartUnanswered, BeatAnswered, BeatLost
  <2>3. CASE CommitAnswered(w) \/ CommitUnanswered(w)
    BY <2>3, CommitsAreSteps DEF CommitAnswered, CommitUnanswered
  <2>4. CASE \/ ContextLoaded(w) \/ ContextMissing(w) \/ SendBeat(w) \/ RunReturns(w)
             \/ RunThrows(w) \/ RunConcluded(w) \/ RejectionRecorded(w)
             \/ RejectionNotRecorded(w) \/ Settle(w)
    BY <2>4 DEF ContextLoaded, ContextMissing, SendBeat, RunReturns, RunThrows, RunConcluded,
       RejectionRecorded, RejectionNotRecorded, Settle
  <2> QED
    BY <1>3, <2>1, <2>2, <2>3, <2>4 DEF WorkerStep
<1> QED
  BY <1>1, <1>2, <1>3 DEF SystemNext

LEMMA StoreStepKeeps ==
  ASSUME StoreInv, [Next]_vars
  PROVE  StoreInv'
<1>1. IInv'
  BY NextIInv DEF StoreInv
<1>2. CASE UNCHANGED vars
  <2>1. UNCHANGED rowVars
    BY <1>2 DEF vars, rowVars, scanVars, abuseVars
  <2> QED
    BY <1>1, <2>1, StillMoves DEF StoreInv, NothingLeft, Moves
<1>3. CASE Tick \/ \E t \in Readings : CancelScan(t) \/ CancelAgain(t)
  BY <1>1, <1>3, OtherMoves DEF StoreInv, NothingLeft, Moves
<1>4. CASE \E t \in Readings : DeleteDueScan(t) \/ ReplaceExpiredScan(t)
  BY <1>1, <1>4, DeletionMoves DEF StoreInv, NothingLeft
<1>5. CASE \E t \in Readings : Acquire(t)
  BY <1>1, <1>5, AcquireMoves DEF StoreInv, NothingLeft, Moves
<1>6. CASE \E t \in Readings, f \in Fences, v \in 1..MaxLeaseVersion :
             StartAttempt(f, v, t) \/ RenewLease(f, v, t)
  BY <1>1, <1>6, StartMoves, RenewMoves DEF StoreInv, NothingLeft, Moves
<1>7. CASE \E t \in Readings, submission \in Submissions : CommitResult(submission, t)
  BY <1>1, <1>7, CommitMoves DEF StoreInv, NothingLeft, Moves
<1> QED
  BY <1>2, <1>3, <1>4, <1>5, <1>6, <1>7 DEF Next

\* In every reachable state of the composition the rows are as the store's invariant says,
\* and versions are bounded.
THEOREM RowsKeepTheirInvariant == SystemSpec => []StoreInv
<1>1. SystemInit => StoreInv
  <2>1. Init => VersionsBounded /\ NothingLeft
    BY DEF Init, NoAttempts, NoAttempt, VersionsBounded, NothingLeft
  <2> QED
    BY <2>1, InitIInv DEF SystemInit, StoreInv
<1>2. StoreInv /\ [SystemNext]_systemVars => StoreInv'
  BY SlotsFollowTheStore, StoreStepKeeps DEF systemVars
<1> QED
  BY <1>1, <1>2, PTL DEF SystemSpec

\* The slots call the store by its own actions, so that what was proved of the store,
\* step properties included, holds of the composition.
LEMMA SlotsUseTheStore == SystemSpec => Spec
<1>1. SystemInit => Init
  BY DEF SystemInit
<1>2. StoreInv /\ [SystemNext]_systemVars => [Next]_vars
  BY SlotsFollowTheStore DEF systemVars
<1> QED
  BY <1>1, <1>2, RowsKeepTheirInvariant, PTL DEF SystemSpec, Spec

-----------------------------------------------------------------------------
\* The slots.  A slot has its fence to itself from the acquire that showed it until its
\* last call for it is over, a renewal still in flight included.
Slot ==
  [pc : {"idle", "acquire", "reject", "settle"} \cup Leased, fence : Nat, version : Nat,
   expiry : Nat, deadline : Nat, beat : {"none", "sent"}, lost : BOOLEAN,
   word : {"", "ack", "retry", "result", "failure"} \cup RefusalCodes]

Owns(w) == Holding(w) \/ worker[w].pc = "reject" \/ worker[w].beat = "sent"

OneSlotPerFence ==
  \A v, w \in Workers : Owns(v) /\ Owns(w) /\ worker[v].fence = worker[w].fence => v = w

\* The view of a slot that leases: behind the row, and equal to it until a renewal fails.
ViewOk(w) ==
  LET row == attempt[worker[w].fence]
  IN /\ worker[w].version <= row.version /\ worker[w].expiry <= row.lease
     /\ worker[w].deadline = row.deadline
     /\ ~worker[w].lost => worker[w].version = row.version /\ worker[w].expiry = row.lease
     /\ row.state # "SUCCEEDED"

CodeTrue(fence, code) ==
  /\ code # "GUEST_PERSISTENCE_UNAVAILABLE" /\ jobState # "ABSENT" =>
       attempt[fence].state # "SUCCEEDED"
  /\ code = "INVALID_STATE" => jobState = "ABSENT"
  /\ code # "RESULT_DIGEST_CONFLICT"

SlotOk(w) ==
  /\ Owns(w) => /\ worker[w].fence \in Fences
                /\ jobState # "ABSENT" => worker[w].fence <= currentFence
  /\ Holding(w) /\ jobState # "ABSENT" => ViewOk(w)
  /\ worker[w].pc = "commit" => worker[w].beat = "none" /\ ~worker[w].lost
  /\ worker[w].pc = "settle" /\ worker[w].word = "ack" => Over
  /\ worker[w].pc = "reject" => CodeTrue(worker[w].fence, worker[w].word)

EventOk(r) ==
  /\ r.fence \in Fences /\ jobState # "ABSENT" /\ r.fence <= currentFence
  /\ CodeTrue(r.fence, r.code)
  /\ \A w \in Workers : Owns(w) => worker[w].fence # r.fence

SlotsInv ==
  /\ worker \in [Workers -> Slot]
  /\ \A w \in Workers : SlotOk(w)
  /\ OneSlotPerFence
  /\ \A r \in rejections : EventOk(r)

\* A slot that no call of this step was about is as right as it was.
LEMMA OthersKept ==
  ASSUME StoreInv, StoreInv', SlotsInv, NEW S, NEW R, Moves(S, R),
         NEW w \in Workers, worker'[w] = worker[w],
         Owns(w) => worker[w].fence \notin S \cup R
  PROVE  SlotOk(w)'
<1> USE DEF SlotsInv
<1>1. SlotOk(w) /\ worker[w] \in Slot
  OBVIOUS
<1>2. Owns(w)' = Owns(w) /\ Holding(w)' = Holding(w)
  BY DEF Owns, Holding
<1>3. currentFence \in Nat /\ currentFence' \in Nat
  BY RowTypes DEF StoreInv, IInv, TypeOK, Fences
<1>4. Owns(w) => /\ worker'[w].fence \in Fences
                 /\ jobState' # "ABSENT" => worker'[w].fence <= currentFence'
  BY <1>1, <1>3, StoreAssumption DEF SlotOk, Moves, Fences
<1>5. Holding(w) /\ jobState' # "ABSENT" => ViewOk(w)'
  BY <1>1 DEF SlotOk, Moves, ViewOk, Owns
<1>6. worker[w].pc = "reject" => CodeTrue(worker[w].fence, worker[w].word)'
  BY <1>1 DEF SlotOk, Moves, CodeTrue, Owns
<1> QED
  BY <1>1, <1>2, <1>4, <1>5, <1>6 DEF SlotOk, Moves

\* A step of one slot, with what its call did to the rows.
LEMMA SlotSteps ==
  ASSUME StoreInv, StoreInv', SlotsInv, NEW S, NEW R, Moves(S, R),
         NEW w \in Workers, NEW new \in Slot,
         S \cup R \subseteq {worker[w].fence}, S \cup R # {} => Owns(w),
         worker' = [worker EXCEPT ![w] = new], SlotOk(w)',
         Owns(w)' => \/ Owns(w) /\ new.fence = worker[w].fence
                     \/ new.fence > currentFence /\ jobState # "ABSENT",
         UNCHANGED rejections
  PROVE  SlotsInv'
<1>1. worker' \in [Workers -> Slot] /\ worker'[w] = new
      /\ \A v \in Workers \ {w} : worker'[v] = worker[v]
  BY DEF SlotsInv
<1>2. \A v \in Workers \ {w} : Owns(v)' = Owns(v)
  BY <1>1 DEF Owns, Holding
<1>3. ASSUME NEW v \in Workers PROVE SlotOk(v)'
  <2>1. CASE v # w
    <3>1. Owns(v) => worker[v].fence \notin S \cup R
      BY <2>1 DEF SlotsInv, OneSlotPerFence
    <3> QED
      BY <1>1, <2>1, <3>1, OthersKept
  <2> QED
    BY <2>1
<1>4. currentFence \in Nat /\ \A v \in Workers : worker[v].fence \in Nat
  BY RowTypes DEF StoreInv, SlotsInv, Slot
<1>5. ASSUME NEW v \in Workers \ {w}, Owns(v), Owns(w)'
      PROVE  worker[v].fence # new.fence
  <2>1. CASE Owns(w) /\ new.fence = worker[w].fence
    BY <1>5, <2>1 DEF SlotsInv, OneSlotPerFence
  <2>2. CASE new.fence > currentFence /\ jobState # "ABSENT"
    <3>1. worker[v].fence <= currentFence
      BY <1>5, <2>2 DEF SlotsInv, SlotOk
    <3>2. new.fence \in Nat
      BY DEF Slot
    <3> QED
      BY <1>4, <2>2, <3>1, <3>2
  <2> QED
    BY <1>5, <2>1, <2>2
<1>6. OneSlotPerFence'
  BY <1>1, <1>2, <1>5 DEF SlotsInv, OneSlotPerFence
<1>7. ASSUME NEW r \in rejections PROVE EventOk(r)'
  <2>1. EventOk(r)
    BY DEF SlotsInv
  <2>2. r.fence \notin S
    BY <2>1 DEF EventOk
  <2>3. Owns(w)' => new.fence # r.fence
    <3>1. Owns(w) => worker[w].fence # r.fence
      BY <2>1 DEF EventOk
    <3>2. r.fence <= currentFence /\ r.fence \in Nat
      BY <2>1, StoreAssumption DEF EventOk, Fences
    <3>3. new.fence \in Nat
      BY DEF Slot
    <3> QED
      BY <1>4, <3>1, <3>2, <3>3
  <2>4. r.fence \in Fences /\ jobState' # "ABSENT" /\ r.fence <= currentFence'
    <3>1. currentFence' \in Nat /\ r.fence \in Nat
      BY <2>1, RowTypes, StoreAssumption DEF EventOk, Fences, StoreInv, IInv, TypeOK
    <3> QED
      BY <1>4, <2>1, <3>1 DEF EventOk, Moves
  <2>5. CodeTrue(r.fence, r.code)'
    BY <2>1, <2>2, <2>4 DEF EventOk, CodeTrue, Moves
  <2> QED
    BY <1>1, <1>2, <2>1, <2>3, <2>4, <2>5 DEF EventOk
<1> QED
  BY <1>1, <1>3, <1>6, <1>7 DEF SlotsInv

\* The slot's next record owns no fence.
LEMMA RestsKeep ==
  ASSUME StoreInv, StoreInv', SlotsInv, NEW S, NEW R, Moves(S, R),
         NEW w \in Workers, NEW new \in Slot,
         S \cup R \subseteq {worker[w].fence}, S \cup R # {} => Owns(w),
         worker' = [worker EXCEPT ![w] = new],
         new.pc \in {"idle", "acquire", "settle"}, new.beat = "none",
         new.pc = "settle" /\ new.word = "ack" => Over',
         UNCHANGED rejections
  PROVE  SlotsInv'
<1>1. worker'[w] = new
  BY DEF SlotsInv
<1>2. ~Owns(w)' /\ ~Holding(w)'
  BY <1>1 DEF Owns, Holding, Leased
<1>3. SlotOk(w)'
  BY <1>1, <1>2 DEF SlotOk
<1> QED
  BY <1>2, <1>3, SlotSteps

LEMMA IdleRecords ==
  /\ Idle \in Slot /\ Idle.pc = "idle" /\ Idle.beat = "none"
  /\ \A pc \in {"acquire", "settle"}, word \in {"", "ack", "retry"} :
       LET new == [Idle EXCEPT !.pc = pc, !.word = word]
       IN new \in Slot /\ new.pc = pc /\ new.word = word /\ new.beat = "none"
BY DEF Idle, Slot, Leased

LEMMA RetriesKeep ==
  ASSUME StoreInv, StoreInv', SlotsInv, NEW S, NEW R, Moves(S, R), NEW w \in Workers,
         S \cup R \subseteq {worker[w].fence}, S \cup R # {} => Owns(w),
         Retries(w), UNCHANGED rejections
  PROVE  SlotsInv'
<1> DEFINE new == [Idle EXCEPT !.pc = "settle", !.word = "retry"]
<1>1. new \in Slot /\ new.pc = "settle" /\ new.word = "retry" /\ new.beat = "none"
  BY IdleRecords
<1>2. worker' = [worker EXCEPT ![w] = new]
  BY DEF Retries
<1> HIDE DEF new
<1> QED
  BY <1>1, <1>2, RestsKeep

LEMMA AcknowledgesKeep ==
  ASSUME StoreInv, StoreInv', SlotsInv, NEW S, NEW R, Moves(S, R), NEW w \in Workers,
         S \cup R \subseteq {worker[w].fence}, S \cup R # {} => Owns(w),
         Acknowledges(w), Over', UNCHANGED rejections
  PROVE  SlotsInv'
<1> DEFINE new == [Idle EXCEPT !.pc = "settle", !.word = "ack"]
<1>1. new \in Slot /\ new.pc = "settle" /\ new.word = "ack" /\ new.beat = "none"
  BY IdleRecords
<1>2. worker' = [worker EXCEPT ![w] = new]
  BY DEF Acknowledges
<1> HIDE DEF new
<1> QED
  BY <1>1, <1>2, RestsKeep

LEMMA RejectsKeep ==
  ASSUME StoreInv, StoreInv', SlotsInv, NEW S, NEW R, Moves(S, R), NEW w \in Workers,
         S \cup R \subseteq {worker[w].fence}, Holding(w),
         NEW code \in RefusalCodes, Rejects(w, code), CodeTrue(worker[w].fence, code)',
         UNCHANGED rejections
  PROVE  SlotsInv'
<1> DEFINE new == [Idle EXCEPT !.pc = "reject", !.fence = worker[w].fence, !.word = code]
<1>1. worker[w].fence \in Nat /\ worker[w].fence \in Fences
      /\ (jobState # "ABSENT" => worker[w].fence <= currentFence)
  BY DEF SlotsInv, Slot, SlotOk, Owns
<1>2. new \in Slot /\ new.pc = "reject" /\ new.fence = worker[w].fence /\ new.word = code
  BY <1>1 DEF Idle, Slot, Leased
<1>3. worker' = [worker EXCEPT ![w] = new]
  BY DEF Rejects
<1> HIDE DEF new
<1>4. worker'[w] = new
  BY <1>3 DEF SlotsInv
<1>5. CodeTrue(worker[w].fence, worker[w].word)'
  BY <1>2, <1>4 DEF CodeTrue
<1>6. ~Holding(w)'
  BY <1>2, <1>4 DEF Holding, Leased
<1>7. jobState' # "ABSENT" => worker'[w].fence <= currentFence'
  BY <1>1, <1>2, <1>4, RowTypes DEF Moves, StoreInv, IInv, TypeOK
<1>8. SlotOk(w)'
  BY <1>1, <1>2, <1>4, <1>5, <1>6, <1>7 DEF SlotOk
<1>9. Owns(w)
  BY DEF Owns
<1> QED
  BY <1>2, <1>3, <1>8, <1>9, SlotSteps

\* A slot that goes on with the lease it has.
LEMMA GoesOn ==
  ASSUME StoreInv, StoreInv', SlotsInv, Moves({}, {}), NEW w \in Workers, NEW new \in Slot,
         Holding(w), worker' = [worker EXCEPT ![w] = new], new.pc \in Leased,
         new.fence = worker[w].fence, new.version = worker[w].version,
         new.expiry = worker[w].expiry, new.deadline = worker[w].deadline,
         new.lost = worker[w].lost,
         new.pc = "commit" => new.beat = "none" /\ ~new.lost,
         UNCHANGED rejections
  PROVE  SlotsInv'
<1>1. worker'[w] = new
  BY DEF SlotsInv
<1>2. Owns(w) /\ SlotOk(w)
  BY DEF Owns, SlotsInv
<1>3. worker[w].fence \in Fences
      /\ (jobState # "ABSENT" => worker[w].fence <= currentFence)
      /\ (jobState # "ABSENT" => ViewOk(w))
  BY <1>2 DEF SlotOk
<1>4. jobState' # "ABSENT" => worker'[w].fence <= currentFence'
  <2>1. worker[w].fence \in Nat /\ currentFence \in Nat /\ currentFence' \in Nat
    BY <1>3, RowTypes, StoreAssumption DEF Fences, StoreInv, IInv, TypeOK
  <2> QED
    BY <1>1, <1>3, <2>1 DEF Moves
<1>5. jobState' # "ABSENT" => ViewOk(w)'
  BY <1>1, <1>3 DEF ViewOk, Moves
<1>6. new.pc \notin {"settle", "reject"}
  BY DEF Leased
<1>7. SlotOk(w)'
  BY <1>1, <1>3, <1>4, <1>5, <1>6 DEF SlotOk
<1>8. {} \cup {} \subseteq {worker[w].fence} /\ ({} \cup {} # {} => Owns(w))
  OBVIOUS
<1>9. Owns(w)' => Owns(w) /\ new.fence = worker[w].fence
  BY <1>2
<1> QED
  BY <1>7, <1>8, <1>9, SlotSteps
-----------------------------------------------------------------------------
\* The steps of a slot, one by one.
LEMMA StillHere ==
  ASSUME StoreInv, UNCHANGED vars
  PROVE  Moves({}, {})
BY StillMoves DEF vars, rowVars, scanVars, abuseVars

\* A lease is shown for a fence no slot has had: acquire has just issued it.
LEMMA ShownLease ==
  ASSUME StoreInv, StoreInv', NEW t \in Readings,
         AcquireFirst(t) \/ AcquireReplacement(t)
  PROVE  /\ currentFence' > currentFence /\ currentFence' \in Fences
         /\ jobState # "ABSENT" /\ jobState' # "ABSENT"
         /\ attempt'[currentFence'].state # "SUCCEEDED"
<1>1. jobState \in {"QUEUED", "RUNNING"} /\ jobState' = "RUNNING" /\ t < AccessExpiry /\ t \in Nat
  BY ReadingIsTime DEF AcquireFirst, AcquireReplacement, Acquirable, StoreInv, IInv
<1>2. currentFence' \in Fences /\ currentFence \in Nat
  BY <1>1, RowTypes DEF StoreInv, IInv, OneLeaseHolder
<1>3. CASE AcquireFirst(t)
  <2>1. currentFence = 0 /\ currentFence' = 1
    BY <1>3 DEF AcquireFirst, StoreInv, IInv, QueuedHasNoAttempt
  <2>2. attempt'[1] = NewAttempt(1, t)
    BY <1>2, <1>3, <2>1, RowTypes DEF AcquireFirst, StoreInv
  <2> QED
    BY <1>1, <1>2, <2>1, <2>2, NewVersion
<1>4. CASE AcquireReplacement(t)
  <2>1. currentFence \in Fences /\ currentFence' = currentFence + 1
    BY <1>4 DEF AcquireReplacement, Lapsed
  <2>2. attempt[currentFence].no \in Nat
    BY <2>1, RowTypes DEF StoreInv, Attempt
  <2>3. attempt'[currentFence'] = NewAttempt(attempt[currentFence].no + 1, t)
    BY <1>2, <1>4, <2>1, RowTypes DEF AcquireReplacement, StoreInv
  <2> QED
    BY <1>1, <1>2, <2>1, <2>2, <2>3, NewVersion
<1> QED
  BY <1>3, <1>4

LEMMA AcquireAnsweredKeeps ==
  ASSUME StoreInv, StoreInv', SlotsInv, NEW w \in Workers, AcquireAnswered(w)
  PROVE  SlotsInv'
<1>1. UNCHANGED rejections
  BY DEF AcquireAnswered
<1>2. ASSUME NEW t \in Readings, AcquireFirst(t) \/ AcquireReplacement(t),
             worker' = [worker EXCEPT ![w] = LeaseShown(currentFence', attempt'[currentFence'])]
      PROVE  SlotsInv'
  <2> DEFINE new == LeaseShown(currentFence', attempt'[currentFence'])
             row == attempt'[currentFence']
  <2>1. Moves({}, {})
    BY <1>2, AcquireMoves DEF Acquire
  <2>2. /\ currentFence' > currentFence /\ currentFence' \in Fences
        /\ jobState # "ABSENT" /\ jobState' # "ABSENT" /\ row.state # "SUCCEEDED"
    BY <1>2, ShownLease
  <2>3. row.version \in Nat /\ row.lease \in Nat /\ row.deadline \in Nat /\ currentFence' \in Nat
    <3>1. attempt' \in [Fences -> Attempt]
      BY DEF StoreInv, IInv, TypeOK
    <3>2. row \in Attempt
      BY <2>2, <3>1
    <3> QED
      BY <2>2, <3>2, StoreAssumption DEF Attempt, Fences
  <2>4. /\ new \in Slot /\ new.pc = "start" /\ new.fence = currentFence' /\ new.beat = "none"
        /\ new.version = row.version /\ new.expiry = row.lease /\ new.deadline = row.deadline
    BY <2>3 DEF LeaseShown, Idle, Slot, Leased
  <2>5. worker' = [worker EXCEPT ![w] = new] /\ worker'[w] = new
    BY <1>2 DEF SlotsInv
  <2> HIDE DEF new
  <2>6. SlotOk(w)'
    BY <2>2, <2>3, <2>4, <2>5 DEF SlotOk, ViewOk
  <2>7. {} \cup {} \subseteq {worker[w].fence} /\ ({} \cup {} # {} => Owns(w))
    OBVIOUS
  <2>8. new.fence > currentFence /\ jobState # "ABSENT"
    BY <2>2, <2>4
  <2> QED
    BY <1>1, <2>1, <2>4, <2>5, <2>6, <2>7, <2>8, SlotSteps
<1>3. ASSUME NEW t \in Readings, AcquireExhausted(t) \/ AcquireExpired(t), Acknowledges(w)
      PROVE  SlotsInv'
  <2>1. Moves({}, {})
    BY <1>3, AcquireMoves DEF Acquire
  <2>2. Over'
    BY <1>3 DEF AcquireExhausted, AcquireExpired, terminateJob, Over, TerminalJobStates
  <2> QED
    BY <1>1, <1>3, <2>1, <2>2, AcknowledgesKeep
<1>4. ASSUME NotAcquirable, Acknowledges(w), UNCHANGED vars
      PROVE  SlotsInv'
  <2>1. Over /\ Over'
    BY <1>4 DEF NotAcquirable, Over, StoreInv, IInv, TypeOK, JobStates, TerminalJobStates, vars
  <2> QED
    BY <1>1, <1>4, <2>1, StillHere, AcknowledgesKeep
<1> QED
  BY <1>2, <1>3, <1>4 DEF AcquireAnswered

LEMMA AcquireUnansweredKeeps ==
  ASSUME StoreInv, StoreInv', SlotsInv, NEW w \in Workers, AcquireUnanswered(w)
  PROVE  SlotsInv'
<1>1. Moves({}, {})
  BY StillHere, AcquireMoves DEF AcquireUnanswered
<1> QED
  BY <1>1, RetriesKeep DEF AcquireUnanswered

LEMMA StartKeeps ==
  ASSUME StoreInv, StoreInv', SlotsInv, NEW w \in Workers, StartAnswered(w) \/ StartUnanswered(w)
  PROVE  SlotsInv'
<1>1. Moves({}, {})
  BY StillHere, StartMoves DEF StartAnswered, StartUnanswered
<1>2. CASE StartAnswered(w)
  <2> DEFINE new == [worker[w] EXCEPT !.pc = "context"]
  <2>1. /\ new \in Slot /\ new.pc = "context" /\ new.fence = worker[w].fence
        /\ new.version = worker[w].version /\ new.expiry = worker[w].expiry
        /\ new.deadline = worker[w].deadline /\ new.lost = worker[w].lost
    BY DEF SlotsInv, Slot, Leased
  <2>2. worker' = [worker EXCEPT ![w] = new]
    BY <1>2 DEF StartAnswered, Goes
  <2>3. Holding(w) /\ UNCHANGED rejections
    BY <1>2 DEF StartAnswered, Holding, Leased
  <2> HIDE DEF new
  <2> QED
    BY <1>1, <2>1, <2>2, <2>3, GoesOn DEF Leased
<1>3. CASE StartUnanswered(w)
  BY <1>1, <1>3, RetriesKeep DEF StartUnanswered
<1> QED
  BY <1>2, <1>3

\* The run, its heartbeat aside: the slot keeps its lease as it was shown.
LEMMA RunKeeps ==
  ASSUME StoreInv, StoreInv', SlotsInv, NEW w \in Workers,
         \/ ContextLoaded(w) \/ SendBeat(w) \/ RunReturns(w)
         \/ RunConcluded(w) \/ ContextMissing(w)
  PROVE  SlotsInv'
<1>1. UNCHANGED vars /\ UNCHANGED rejections /\ Holding(w) /\ worker[w] \in Slot
  BY DEF ContextLoaded, SendBeat, RunReturns, RunConcluded, ContextMissing, Holding, Leased,
     SlotsInv
<1>2. Moves({}, {})
  BY <1>1, StillHere
<1>3. CASE ContextLoaded(w)
  <2> DEFINE new == [worker[w] EXCEPT !.pc = "run"]
  <2>1. /\ new \in Slot /\ new.pc = "run" /\ new.fence = worker[w].fence
        /\ new.version = worker[w].version /\ new.expiry = worker[w].expiry
        /\ new.deadline = worker[w].deadline /\ new.lost = worker[w].lost
    BY <1>1 DEF Slot, Leased
  <2>2. worker' = [worker EXCEPT ![w] = new]
    BY <1>3 DEF ContextLoaded, Goes
  <2> HIDE DEF new
  <2> QED
    BY <1>1, <1>2, <2>1, <2>2, GoesOn DEF Leased
<1>4. CASE SendBeat(w)
  <2> DEFINE new == [worker[w] EXCEPT !.beat = "sent"]
  <2>1. /\ new \in Slot /\ new.pc = "run" /\ new.fence = worker[w].fence
        /\ new.version = worker[w].version /\ new.expiry = worker[w].expiry
        /\ new.deadline = worker[w].deadline /\ new.lost = worker[w].lost
    BY <1>1, <1>4 DEF Slot, SendBeat
  <2>2. worker' = [worker EXCEPT ![w] = new]
    BY <1>4 DEF SendBeat
  <2> HIDE DEF new
  <2> QED
    BY <1>1, <1>2, <2>1, <2>2, GoesOn DEF Leased
<1>5. ASSUME NEW word \in {"result", "failure"},
             worker' = [worker EXCEPT ![w].pc = "drain", ![w].word = word]
      PROVE  SlotsInv'
  <2> DEFINE new == [worker[w] EXCEPT !.pc = "drain", !.word = word]
  <2>1. /\ new \in Slot /\ new.pc = "drain" /\ new.fence = worker[w].fence
        /\ new.version = worker[w].version /\ new.expiry = worker[w].expiry
        /\ new.deadline = worker[w].deadline /\ new.lost = worker[w].lost
    BY <1>1 DEF Slot, Leased
  <2>2. worker' = [worker EXCEPT ![w] = new]
    BY <1>5 DEF SlotsInv
  <2> HIDE DEF new
  <2> QED
    BY <1>1, <1>2, <2>1, <2>2, GoesOn DEF Leased
<1>6. CASE RunConcluded(w) /\ MayCommit(w)
  <2> DEFINE new == [worker[w] EXCEPT !.pc = "commit"]
  <2>1. /\ new \in Slot /\ new.pc = "commit" /\ new.fence = worker[w].fence
        /\ new.version = worker[w].version /\ new.expiry = worker[w].expiry
        /\ new.deadline = worker[w].deadline /\ new.lost = worker[w].lost
        /\ new.beat = "none" /\ ~new.lost
    BY <1>1, <1>6 DEF Slot, Leased, RunConcluded, MayCommit
  <2>2. worker' = [worker EXCEPT ![w] = new]
    BY <1>6 DEF RunConcluded, Goes
  <2> HIDE DEF new
  <2> QED
    BY <1>1, <1>2, <2>1, <2>2, GoesOn DEF Leased
<1>7. CASE Retries(w)
  BY <1>1, <1>2, <1>7, RetriesKeep
<1> QED
  BY <1>3, <1>4, <1>5, <1>6, <1>7 DEF RunReturns, RunConcluded, ContextMissing

\* The runner throws: what is left of the slot's lease is its renewal in flight.
LEMMA RunThrowsKeeps ==
  ASSUME StoreInv, StoreInv', SlotsInv, NEW w \in Workers, RunThrows(w)
  PROVE  SlotsInv'
<1> DEFINE new == [worker[w] EXCEPT !.pc = "settle", !.word = "retry"]
<1>1. /\ UNCHANGED vars /\ UNCHANGED rejections /\ Owns(w) /\ worker[w] \in Slot
      /\ worker' = [worker EXCEPT ![w] = new]
  BY DEF RunThrows, Owns, Holding, Leased, SlotsInv
<1>2. new \in Slot /\ new.pc = "settle" /\ new.word = "retry" /\ new.fence = worker[w].fence
  BY <1>1 DEF Slot
<1> HIDE DEF new
<1>3. worker'[w] = new
  BY <1>1 DEF SlotsInv
<1>4. worker[w].fence \in Fences /\ (jobState # "ABSENT" => worker[w].fence <= currentFence)
  BY <1>1 DEF SlotsInv, SlotOk
<1>5. UNCHANGED <<jobState, currentFence>> /\ Moves({}, {})
  BY <1>1, StillHere DEF vars
<1>6. SlotOk(w)'
  BY <1>2, <1>3, <1>4, <1>5 DEF SlotOk, Holding, Leased
<1>7. {} \cup {} \subseteq {worker[w].fence} /\ ({} \cup {} # {} => Owns(w))
  OBVIOUS
<1> QED
  BY <1>1, <1>2, <1>5, <1>6, <1>7, SlotSteps

\* The answer of a renewal, or its failure.
LEMMA BeatKeeps ==
  ASSUME StoreInv, StoreInv', SlotsInv, NEW w \in Workers, BeatAnswered(w) \/ BeatLost(w)
  PROVE  SlotsInv'
<1> DEFINE f == worker[w].fence
           new == IF BeatAnswered(w) THEN RenewedView(w)
                  ELSE [worker[w] EXCEPT !.beat = "none", !.lost = TRUE]
<1>1. worker[w].beat = "sent" /\ UNCHANGED rejections
  BY DEF BeatAnswered, BeatLost
<1>2. /\ Owns(w) /\ SlotOk(w) /\ worker[w] \in Slot /\ f \in Fences
      /\ (jobState # "ABSENT" => f <= currentFence)
  BY <1>1 DEF Owns, SlotsInv, SlotOk
<1>3. Moves({}, {f})
  <2>1. ASSUME NEW t \in Readings, RenewLease(f, worker[w].version, t) PROVE Moves({}, {f})
    BY <2>1, RenewMoves
  <2>2. CASE UNCHANGED vars
    BY <2>2, StillHere DEF Moves
  <2> QED
    BY <2>1, <2>2 DEF BeatAnswered, BeatLost
<1>4. attempt'[f].version \in Nat /\ attempt'[f].lease \in Nat
  <2>1. attempt' \in [Fences -> Attempt]
    BY DEF StoreInv, IInv, TypeOK
  <2>2. attempt'[f] \in Attempt
    BY <1>2, <2>1
  <2> QED
    BY <2>2 DEF Attempt
<1>5. /\ new \in Slot /\ new.pc = worker[w].pc /\ new.fence = f /\ new.beat = "none"
      /\ new.deadline = worker[w].deadline /\ new.word = worker[w].word
      /\ \/ new.version = attempt'[f].version /\ new.expiry = attempt'[f].lease
         \/ new.lost /\ new.version = worker[w].version /\ new.expiry = worker[w].expiry
  BY <1>2, <1>4 DEF RenewedView, Slot
<1>6. worker' = [worker EXCEPT ![w] = new]
  BY DEF BeatAnswered, BeatLost, SlotsInv
<1> HIDE DEF new
<1>7. worker'[w] = new
  BY <1>6 DEF SlotsInv
<1>8. jobState' # "ABSENT" => f <= currentFence'
  BY <1>2, <1>3, StoreAssumption DEF Moves, Fences, StoreInv, IInv, TypeOK
<1>9. Holding(w)' /\ jobState' # "ABSENT" => ViewOk(w)'
  <2> SUFFICES ASSUME Holding(w)', jobState' # "ABSENT" PROVE ViewOk(w)'
    OBVIOUS
  <2>1. ViewOk(w) /\ f <= currentFence
    BY <1>2, <1>3, <1>5, <1>7 DEF SlotOk, Holding, Moves
  <2>2. /\ attempt[f].version \in Nat /\ attempt[f].lease \in Nat
        /\ worker[w].version \in Nat /\ worker[w].expiry \in Nat
    BY <1>2, RowTypes DEF StoreInv, Slot
  <2>3. /\ attempt'[f].deadline = attempt[f].deadline
        /\ attempt'[f].version >= attempt[f].version
        /\ attempt'[f].lease >= attempt[f].lease
        /\ attempt'[f].state # "SUCCEEDED"
    BY <1>2, <1>3, <2>1 DEF Moves, ViewOk
  <2> QED
    BY <1>4, <1>5, <1>7, <2>1, <2>2, <2>3 DEF ViewOk
<1>10. worker'[w].pc # "commit" /\ (worker'[w].pc = "settle" /\ worker'[w].word = "ack" => Over')
  BY <1>1, <1>2, <1>3, <1>5, <1>7 DEF SlotOk, Moves
<1>11. worker'[w].pc = "reject" => CodeTrue(worker[w].fence, worker[w].word)'
  <2> SUFFICES ASSUME worker'[w].pc = "reject"
               PROVE  CodeTrue(worker[w].fence, worker[w].word)'
    OBVIOUS
  <2>1. CodeTrue(f, worker[w].word) /\ worker'[w].fence = f /\ worker'[w].word = worker[w].word
    BY <1>2, <1>5, <1>7 DEF SlotOk
  <2>2. jobState # "ABSENT" /\ attempt'[f].state = "SUCCEEDED" => attempt[f].state = "SUCCEEDED"
    BY <1>2, <1>3 DEF Moves
  <2>3. jobState = "ABSENT" <=> jobState' = "ABSENT"
    BY <1>3 DEF Moves
  <2> HIDE DEF f
  <2> QED
    BY <2>1, <2>2, <2>3 DEF CodeTrue
<1>12. SlotOk(w)'
  BY <1>2, <1>5, <1>7, <1>8, <1>9, <1>10, <1>11 DEF SlotOk
<1>13. {} \cup {f} \subseteq {worker[w].fence} /\ ({} \cup {f} # {} => Owns(w))
  BY <1>2
<1>14. Owns(w)' => Owns(w) /\ new.fence = worker[w].fence
  BY <1>2, <1>5
<1> QED
  BY <1>1, <1>3, <1>5, <1>6, <1>12, <1>13, <1>14, SlotSteps

\* What commit answers a slot whose attempt has not succeeded: no word of a conflict, and
\* none of a broken row while the scan is there.
LEMMA DecisionFacts ==
  ASSUME StoreInv, NEW f \in Fences, NEW digest, NEW t,
         jobState # "ABSENT" => attempt[f].state # "SUCCEEDED" /\ f <= currentFence,
         NEW decision, decision = CommitDecision([fence |-> f, digest |-> digest], t)
  PROVE  /\ decision = "INVALID_STATE" => jobState = "ABSENT"
         /\ decision # "RESULT_DIGEST_CONFLICT"
         /\ decision = "ALREADY_COMMITTED" => Over
<1> DEFINE submission == [fence |-> f, digest |-> digest]
<1>1. CASE jobState = "ABSENT"
  BY <1>1 DEF CommitDecision
<1>2. CASE jobState # "ABSENT"
  <2>1. currentFence # 0
    BY <1>2, RowTypes, StoreAssumption DEF StoreInv, Fences
  <2>2. decision = decideResultCommit(Snapshot, submission, t)
    BY <1>2, <2>1 DEF CommitDecision
  <2>3. CASE jobState = "SUCCEEDED"
    <3>1. PICK r \in results : accepted = {[fence |-> r.fence, digest |-> r.digest]}
                               /\ attempt[r.fence].state = "SUCCEEDED"
      BY <2>3 DEF StoreInv, IInv, ResultIsTheAcceptedOne
    <3>2. r.fence # f
      BY <1>2, <3>1
    <3>3. accepted # {} /\ \A a \in accepted : a.fence # submission.fence
      BY <3>1, <3>2
    <3>4. decideResultCommit(Snapshot, submission, t) = "STALE_ATTEMPT"
      BY <2>3, <3>3 DEF decideResultCommit, Snapshot
    <3> QED
      BY <2>2, <3>4
  <2>4. CASE jobState # "SUCCEEDED"
    <3>1. accepted = {}
      BY <2>4 DEF StoreInv, IInv, ResultIsTheAcceptedOne
    <3>2. Snapshot.job = jobState /\ Snapshot.accepted = {}
      BY <3>1 DEF Snapshot
    <3> QED
      BY <2>2, <2>4, <3>2 DEF decideResultCommit
  <2> QED
    BY <2>3, <2>4
<1> QED
  BY <1>1, <1>2

LEMMA CommitKeeps ==
  ASSUME StoreInv, StoreInv', SlotsInv, NEW w \in Workers,
         CommitAnswered(w) \/ CommitUnanswered(w)
  PROVE  SlotsInv'
<1> DEFINE f == worker[w].fence
<1>1. /\ Holding(w) /\ Owns(w) /\ UNCHANGED rejections /\ f \in Fences
      /\ (jobState # "ABSENT" => f <= currentFence /\ attempt[f].state # "SUCCEEDED")
  BY DEF CommitAnswered, CommitUnanswered, Holding, Leased, Owns, SlotsInv, SlotOk, ViewOk
<1>2. /\ {f} \cup {} \subseteq {worker[w].fence}
      /\ {} \cup {} \subseteq {worker[w].fence}
  OBVIOUS
<1>3. ASSUME NEW code \in RefusalCodes, code = "INVALID_STATE" => jobState = "ABSENT",
             code # "RESULT_DIGEST_CONFLICT", UNCHANGED vars, Rejects(w, code)
      PROVE  SlotsInv'
  <2>1. worker'[w].fence = f
    BY <1>3 DEF Rejects, SlotsInv, Idle
  <2>2. CodeTrue(f, code) /\ UNCHANGED <<jobState, attempt>>
    BY <1>1, <1>3 DEF CodeTrue, vars
  <2>3. Moves({}, {})
    BY <1>3, StillHere
  <2> HIDE DEF f
  <2>4. f' = f => CodeTrue(f, code)'
    BY <2>2 DEF CodeTrue
  <2> QED
    BY <1>1, <1>2, <1>3, <2>1, <2>3, <2>4, RejectsKeep DEF f
<1>4. ASSUME NEW digest \in Digests, NEW t \in Readings,
             CommitResult([fence |-> f, digest |-> digest], t)
      PROVE  Moves({f}, {}) /\ Over'
  <2> DEFINE submission == [fence |-> f, digest |-> digest]
  <2>1. CommitResult(submission, t) /\ submission.fence = f
    BY <1>4
  <2> HIDE DEF submission
  <2>2. Moves({submission.fence}, {}) /\ jobState' = "SUCCEEDED"
    BY <2>1, CommitMoves
  <2> QED
    BY <2>1, <2>2 DEF Over, TerminalJobStates
<1>5. ASSUME NEW digest \in Digests, NEW t \in Readings, UNCHANGED vars,
             NEW decision, decision = CommitDecision([fence |-> f, digest |-> digest], t),
             \/ decision = "ALREADY_COMMITTED" /\ Acknowledges(w)
             \/ decision \in RefusalCodes /\ Rejects(w, decision)
      PROVE  SlotsInv'
  <2>1. /\ decision = "INVALID_STATE" => jobState = "ABSENT"
        /\ decision # "RESULT_DIGEST_CONFLICT"
        /\ decision = "ALREADY_COMMITTED" => Over
    BY <1>1, <1>5, DecisionFacts
  <2>2. CASE decision = "ALREADY_COMMITTED" /\ Acknowledges(w)
    <3>1. Over' /\ Moves({}, {})
      BY <1>5, <2>1, <2>2, StillHere DEF Moves
    <3> QED
      BY <1>1, <1>2, <2>2, <3>1, AcknowledgesKeep
  <2>3. CASE decision \in RefusalCodes /\ Rejects(w, decision)
    BY <1>3, <1>5, <2>1, <2>3
  <2> QED
    BY <1>5, <2>2, <2>3
<1>6. CASE CommitAnswered(w)
  <2>1. ASSUME NEW digest \in Digests, NEW t \in Readings, Acknowledges(w),
               CommitResult([fence |-> f, digest |-> digest], t)
        PROVE  SlotsInv'
    BY <1>1, <1>2, <1>4, <2>1, AcknowledgesKeep
  <2>2. ASSUME Rejects(w, "RESULT_SUBMISSION_REJECTED"), UNCHANGED vars
        PROVE  SlotsInv'
    BY <1>3, <2>2 DEF RefusalCodes
  <2> QED
    BY <1>5, <1>6, <2>1, <2>2 DEF CommitAnswered
<1>7. CASE CommitUnanswered(w)
  <2>1. PICK S \in {{}, {f}} : Moves(S, {})
    BY <1>4, <1>7, StillHere DEF CommitUnanswered
  <2>2. S \cup {} \subseteq {worker[w].fence} /\ (S \cup {} # {} => Owns(w))
    BY <1>1
  <2>3. CASE Retries(w)
    BY <1>1, <2>1, <2>2, <2>3, RetriesKeep
  <2>4. CASE Rejects(w, "GUEST_PERSISTENCE_UNAVAILABLE")
    <3>1. "GUEST_PERSISTENCE_UNAVAILABLE" \in RefusalCodes
      BY DEF RefusalCodes
    <3>2. CodeTrue(worker[w].fence, "GUEST_PERSISTENCE_UNAVAILABLE")'
      BY DEF CodeTrue
    <3> QED
      BY <1>1, <2>1, <2>2, <2>4, <3>1, <3>2, RejectsKeep
  <2> QED
    BY <1>7, <2>3, <2>4 DEF CommitUnanswered
<1> QED
  BY <1>6, <1>7

\* A step of the queue or a slot at rest; a crash takes everything of the slot with it.
LEMMA RestingKeeps ==
  ASSUME StoreInv, StoreInv', SlotsInv, NEW w \in Workers,
         \/ RejectionNotRecorded(w) \/ Settle(w) \/ Crash(w) \/ Deliver(w)
  PROVE  SlotsInv'
<1>1. UNCHANGED vars /\ UNCHANGED rejections
  BY DEF RejectionNotRecorded, Settle, Crash, Deliver
<1>2. Moves({}, {}) /\ {} \cup {} \subseteq {worker[w].fence} /\ ({} \cup {} # {} => Owns(w))
  BY <1>1, StillHere
<1>3. CASE worker' = [worker EXCEPT ![w] = Idle]
  BY <1>1, <1>2, <1>3, IdleRecords, RestsKeep
<1>4. CASE Deliver(w)
  <2> DEFINE new == [Idle EXCEPT !.pc = "acquire"]
  <2>1. new \in Slot /\ new.pc = "acquire" /\ new.beat = "none"
    BY DEF Idle, Slot
  <2>2. worker' = [worker EXCEPT ![w] = new]
    BY <1>4 DEF Deliver
  <2> HIDE DEF new
  <2> QED
    BY <1>1, <1>2, <2>1, <2>2, RestsKeep
<1>5. CASE RejectionNotRecorded(w)
  BY <1>1, <1>2, <1>5, RetriesKeep DEF RejectionNotRecorded
<1> QED
  BY <1>3, <1>4, <1>5 DEF Settle, Crash

\* The event that a slot records is about its own fence, which it gives up.
LEMMA RecordKeeps ==
  ASSUME StoreInv, StoreInv', SlotsInv, NEW w \in Workers, RejectionRecorded(w)
  PROVE  SlotsInv'
<1> DEFINE event == [fence |-> worker[w].fence, code |-> worker[w].word]
<1>1. /\ UNCHANGED vars /\ worker[w].pc = "reject" /\ Retries(w)
      /\ rejections' = rejections \cup {event}
      /\ attempt[worker[w].fence].state # "NONE"
  BY DEF RejectionRecorded, MayRecord
<1>2. Owns(w) /\ SlotOk(w) /\ worker[w].fence \in Fences
      /\ CodeTrue(worker[w].fence, worker[w].word)
  BY <1>1 DEF Owns, SlotsInv, SlotOk
<1>3. jobState # "ABSENT"
  <2>1. attempt[worker[w].fence] # NoAttempt
    BY <1>1 DEF NoAttempt
  <2>2. worker[w].fence <= currentFence
    BY <1>2, <2>1 DEF StoreInv, IInv, AttemptBudget
  <2>3. worker[w].fence \in Nat \ {0}
    BY <1>2, StoreAssumption DEF Fences
  <2>4. currentFence # 0
    BY <2>2, <2>3
  <2> QED
    BY <2>4 DEF StoreInv, NothingLeft
<1> DEFINE new == [Idle EXCEPT !.pc = "settle", !.word = "retry"]
<1>4. new \in Slot /\ new.pc = "settle" /\ new.word = "retry" /\ new.beat = "none"
  BY IdleRecords
<1>5. /\ worker'[w] = new /\ worker' \in [Workers -> Slot]
      /\ \A v \in Workers \ {w} : worker'[v] = worker[v]
  BY <1>1, <1>4 DEF Retries, SlotsInv
<1> HIDE DEF new
<1>6. ~Owns(w)' /\ ~Holding(w)' /\ \A v \in Workers \ {w} : Owns(v)' = Owns(v)
  BY <1>4, <1>5 DEF Owns, Holding, Leased
<1>7. ASSUME NEW v \in Workers PROVE SlotOk(v)'
  <2>1. CASE v = w
    BY <1>4, <1>5, <1>6, <2>1 DEF SlotOk
  <2>2. CASE v # w
    <3>1. Moves({}, {}) /\ worker'[v] = worker[v] /\ worker[v].fence \notin {} \cup {}
      BY <1>1, <1>5, <2>2, StillHere
    <3> QED
      BY <3>1, OthersKept
  <2> QED
    BY <2>1, <2>2
<1>8. OneSlotPerFence'
  BY <1>5, <1>6 DEF SlotsInv, OneSlotPerFence
<1>9. ASSUME NEW r \in rejections' PROVE EventOk(r)'
  <2>1. UNCHANGED <<jobState, currentFence, attempt>>
    BY <1>1 DEF vars
  <2>2. CASE r = event
    <3>1. r.fence = worker[w].fence /\ r.code = worker[w].word
      BY <2>2
    <3>2. \A v \in Workers : Owns(v)' => worker'[v].fence # r.fence
      BY <1>2, <1>5, <1>6, <3>1 DEF SlotsInv, OneSlotPerFence
    <3>3. r.fence \in Fences /\ r.fence <= currentFence /\ CodeTrue(r.fence, r.code)
      BY <1>2, <1>3, <3>1 DEF SlotOk
    <3>4. CodeTrue(r.fence, r.code)'
      BY <2>1, <3>3 DEF CodeTrue
    <3> QED
      BY <1>3, <2>1, <3>2, <3>3, <3>4 DEF EventOk
  <2>3. CASE r \in rejections
    <3>1. EventOk(r)
      BY <2>3 DEF SlotsInv
    <3>2. \A v \in Workers : Owns(v)' => worker'[v].fence # r.fence
      BY <1>5, <1>6, <3>1 DEF EventOk
    <3>3. CodeTrue(r.fence, r.code)'
      BY <2>1, <3>1 DEF EventOk, CodeTrue
    <3> QED
      BY <2>1, <3>1, <3>2, <3>3 DEF EventOk
  <2> QED
    BY <1>1, <2>2, <2>3
<1> QED
  BY <1>5, <1>7, <1>8, <1>9 DEF SlotsInv

\* Cancellation and time are nobody's step; a deletion takes every view and every event
\* with it.
LEMMA ElsewhereKeeps ==
  ASSUME StoreInv, StoreInv', SlotsInv, Elsewhere
  PROVE  SlotsInv'
<1>1. worker' = worker /\ rejections' = IF jobState' = "ABSENT" THEN {} ELSE rejections
  BY DEF Elsewhere
<1>2. \A w \in Workers : Owns(w)' = Owns(w) /\ Holding(w)' = Holding(w)
  BY <1>1 DEF Owns, Holding
<1>3. OneSlotPerFence' /\ worker' \in [Workers -> Slot]
  BY <1>1, <1>2 DEF SlotsInv, OneSlotPerFence
<1>4. CASE Tick \/ \E t \in Readings : CancelScan(t) \/ CancelAgain(t)
  <2>1. Moves({}, {})
    BY <1>4, OtherMoves
  <2>2. ASSUME NEW w \in Workers PROVE SlotOk(w)'
    <3>1. worker[w].fence \notin {} \cup {} /\ worker'[w] = worker[w]
      BY <1>1
    <3> QED
      BY <2>1, <3>1, OthersKept
  <2>3. ASSUME NEW r \in rejections' PROVE EventOk(r)'
    <3>1. EventOk(r) /\ jobState' # "ABSENT"
      BY <1>1 DEF SlotsInv
    <3>2. r.fence <= currentFence'
      BY <2>1, <3>1, StoreAssumption DEF EventOk, Moves, Fences, StoreInv, IInv, TypeOK
    <3>3. CodeTrue(r.fence, r.code)'
      BY <2>1, <3>1 DEF EventOk, CodeTrue, Moves
    <3> QED
      BY <1>1, <1>2, <3>1, <3>2, <3>3 DEF EventOk
  <2> QED
    BY <1>3, <2>2, <2>3 DEF SlotsInv
<1>5. CASE \E t \in Readings : DeleteDueScan(t) \/ ReplaceExpiredScan(t)
  <2>1. jobState' = "ABSENT" /\ rejections' = {}
    BY <1>1, <1>5, DeletionMoves
  <2>2. ASSUME NEW w \in Workers PROVE SlotOk(w)'
    <3>1. SlotOk(w)
      BY DEF SlotsInv
    <3>2. worker[w].pc = "reject" => CodeTrue(worker[w].fence, worker[w].word)'
      BY <1>1, <2>1, <3>1 DEF SlotOk, CodeTrue
    <3> QED
      BY <1>1, <1>2, <2>1, <3>1, <3>2 DEF SlotOk, Over
  <2> QED
    BY <1>3, <2>1, <2>2 DEF SlotsInv
<1> QED
  BY <1>4, <1>5 DEF Elsewhere

LEMMA SlotsKeep ==
  ASSUME StoreInv, StoreInv', SlotsInv, [SystemNext]_systemVars
  PROVE  SlotsInv'
<1>1. CASE UNCHANGED <<vars, worker, rejections>>
  <2>1. Moves({}, {})
    BY <1>1, StillHere
  <2>2. UNCHANGED <<jobState, currentFence, attempt, worker, rejections>>
    BY <1>1 DEF vars
  <2>3. \A w \in Workers : Owns(w)' = Owns(w) /\ Holding(w)' = Holding(w)
    BY <2>2 DEF Owns, Holding
  <2>4. ASSUME NEW w \in Workers PROVE SlotOk(w)'
    BY <2>2, <2>3 DEF SlotsInv, SlotOk, ViewOk, CodeTrue, Over
  <2>5. ASSUME NEW r \in rejections PROVE EventOk(r)'
    BY <2>2, <2>3 DEF SlotsInv, EventOk, CodeTrue
  <2> QED
    BY <2>2, <2>3, <2>4, <2>5 DEF SlotsInv, OneSlotPerFence
<1>2. CASE Elsewhere
  BY <1>2, ElsewhereKeeps
<1>3. CASE Enqueue \/ Stall \/ Forget
  BY <1>1, <1>3 DEF Enqueue, Stall, Forget
<1>4. ASSUME NEW w \in Workers, Deliver(w) \/ WorkerStep(w) \/ Crash(w) PROVE SlotsInv'
  BY <1>4, RestingKeeps, AcquireAnsweredKeeps, AcquireUnansweredKeeps, StartKeeps, RunKeeps,
     RunThrowsKeeps, BeatKeeps, CommitKeeps, RecordKeeps DEF WorkerStep
<1> QED
  BY <1>1, <1>2, <1>3, <1>4 DEF SystemNext, systemVars
-----------------------------------------------------------------------------
\* The queue.
QueueShape ==
  queue = [x \in {"state", "holder", "failures", "stalls", "notBefore"} |-> queue[x]]

SystemInv == StoreInv /\ SlotsInv /\ QueueShape /\ AckedMeansOver

LEMMA OverLasts ==
  ASSUME StoreInv, [Next]_vars, Over
  PROVE  Over'
<1>1. CASE UNCHANGED vars
  BY <1>1 DEF vars, Over
<1>2. CASE Tick \/ \E t \in Readings : CancelScan(t) \/ CancelAgain(t)
  BY <1>2, OtherMoves DEF Moves
<1>3. CASE \E t \in Readings : DeleteDueScan(t) \/ ReplaceExpiredScan(t)
  BY <1>3, DeletionMoves DEF Over
<1>4. CASE \E t \in Readings : Acquire(t)
  BY <1>4, AcquireMoves DEF Moves
<1>5. CASE \E t \in Readings, f \in Fences, v \in 1..MaxLeaseVersion :
             StartAttempt(f, v, t) \/ RenewLease(f, v, t)
  BY <1>5, StartMoves, RenewMoves DEF Moves
<1>6. CASE \E t \in Readings, submission \in Submissions : CommitResult(submission, t)
  BY <1>6, CommitMoves DEF Moves
<1> QED
  BY <1>1, <1>2, <1>3, <1>4, <1>5, <1>6 DEF Next

LEMMA QueueKeeps ==
  ASSUME SystemInv, [SystemNext]_systemVars
  PROVE  QueueShape' /\ AckedMeansOver'
<1>1. CASE UNCHANGED queue
  <2>1. Over => Over'
    BY SlotsFollowTheStore, OverLasts DEF SystemInv, systemVars
  <2> QED
    BY <1>1, <2>1 DEF SystemInv, QueueShape, AckedMeansOver, Over
<1>2. CASE Enqueue
  BY <1>2 DEF Enqueue, SystemInv, QueueShape, AckedMeansOver
<1>3. ASSUME NEW w \in Workers, Deliver(w) PROVE QueueShape' /\ AckedMeansOver'
  BY <1>3 DEF Deliver, SystemInv, QueueShape, AckedMeansOver
<1>4. CASE Stall
  BY <1>4 DEF Stall, Ended, SystemInv, QueueShape, AckedMeansOver
<1>5. CASE Forget
  BY <1>5 DEF Forget, Ended, SystemInv, QueueShape, AckedMeansOver
<1>6. ASSUME NEW w \in Workers, Settle(w), queue' # queue
      PROVE  QueueShape' /\ AckedMeansOver'
  <2>1. CASE worker[w].word = "ack" /\ queue' = Ended("COMPLETED")
    <3>1. Over /\ UNCHANGED jobState
      BY <1>6, <2>1 DEF Settle, SystemInv, SlotsInv, SlotOk, vars
    <3> QED
      BY <2>1, <3>1 DEF Ended, SystemInv, QueueShape, AckedMeansOver, Over
  <2>2. CASE queue' = AfterFailure(queue.failures + 1)
    <3> DEFINE after == Earlier(now + Backoff(queue.failures + 1), Horizon)
               failed == queue.failures + 1
    <3> HIDE DEF after, failed
    <3>1. \/ queue' = [Ended("WAITING") EXCEPT !.failures = failed, !.notBefore = after]
          \/ queue' = [Ended("FAILED") EXCEPT !.failures = failed]
      BY <2>2 DEF AfterFailure, after, failed
    <3> QED
      BY <3>1 DEF Ended, SystemInv, QueueShape, AckedMeansOver
  <2> QED
    BY <1>6, <2>1, <2>2 DEF Settle
<1> QED
  BY <1>1, <1>2, <1>3, <1>4, <1>5, <1>6 DEF SystemNext, systemVars, WorkerStep, Elsewhere,
     AcquireAnswered, AcquireUnanswered, StartAnswered, StartUnanswered, ContextLoaded,
     ContextMissing, SendBeat, BeatAnswered, BeatLost, RunReturns, RunThrows, RunConcluded,
     CommitAnswered, CommitUnanswered, RejectionRecorded, RejectionNotRecorded, Crash
-----------------------------------------------------------------------------
\* In every reachable state of the composition rows, slots, events and queue fit together.
THEOREM SystemInvariant == SystemSpec => []SystemInv
<1>1. SystemInit => SystemInv
  <2> SUFFICES ASSUME SystemInit PROVE SystemInv
    OBVIOUS
  <2>1. StoreInv
    <3>1. VersionsBounded /\ NothingLeft
      BY DEF SystemInit, Init, NoAttempts, NoAttempt, VersionsBounded, NothingLeft
    <3> QED
      BY <3>1, InitIInv DEF SystemInit, StoreInv
  <2>2. \A w \in Workers : worker[w] = Idle /\ ~Owns(w) /\ ~Holding(w)
    BY IdleRecords DEF SystemInit, Owns, Holding, Leased, Idle
  <2>3. \A w \in Workers : SlotOk(w)
    BY <2>2, IdleRecords DEF SlotOk
  <2>4. SlotsInv
    BY <2>2, <2>3, IdleRecords DEF SystemInit, SlotsInv, OneSlotPerFence
  <2> QED
    BY <2>1, <2>4 DEF SystemInit, SystemInv, QueueShape, AckedMeansOver
<1>2. SystemInv /\ [SystemNext]_systemVars => SystemInv'
  <2> SUFFICES ASSUME SystemInv, [SystemNext]_systemVars PROVE SystemInv'
    OBVIOUS
  <2>1. StoreInv'
    BY SlotsFollowTheStore, StoreStepKeeps DEF SystemInv, systemVars
  <2>2. SlotsInv'
    BY <2>1, SlotsKeep DEF SystemInv
  <2> QED
    BY <2>1, <2>2, QueueKeeps DEF SystemInv
<1> QED
  BY <1>1, <1>2, PTL DEF SystemSpec

\* A job that the queue has completed, after whatever stalls, repeated deliveries and lost
\* answers, leaves no scan that could still run.
THEOREM AcknowledgedIsOver == SystemSpec => []AckedMeansOver
<1>1. SystemInv => AckedMeansOver
  BY DEF SystemInv
<1> QED
  BY <1>1, SystemInvariant, PTL

\* What a slot believes of its lease was true of the row at some time and the row has not
\* gone back since.
THEOREM ViewsStayBehind == SystemSpec => []ViewsBehindStore
<1>1. SystemInv => ViewsBehindStore
  BY DEF SystemInv, SlotsInv, SlotOk, ViewOk, ViewsBehindStore
<1> QED
  BY <1>1, SystemInvariant, PTL

\* A rejection on record is never that of an accepted result, and never one of the codes
\* that would tell of a broken row or of two results of one attempt.
THEOREM RecordedRejectionsTrue == SystemSpec => []RejectionsAreTrue
<1>1. SystemInv => RejectionsAreTrue
  BY DEF SystemInv, SlotsInv, EventOk, CodeTrue, RejectionsAreTrue
<1> QED
  BY <1>1, SystemInvariant, PTL

\* Only a commit of a slot adds a result, and that slot has missed no renewal.
LEMMA CommittingStep ==
  ASSUME SystemInv, SystemNext, NEW r \in results' \ results
  PROVE  \E w \in Workers :
           /\ worker[w].pc = "commit" /\ worker[w].fence = r.fence
           /\ worker[w].version = attempt[r.fence].version
           /\ worker[w].expiry = attempt[r.fence].lease
<1>1. PICK w \in Workers, digest \in Digests, t \in Readings :
        /\ worker[w].pc = "commit"
        /\ CommitResult([fence |-> worker[w].fence, digest |-> digest], t)
  <2>1. results' # results
    OBVIOUS
  <2>2. ~ Elsewhere
    BY <2>1 DEF Elsewhere, Tick, CancelScan, CancelAgain, terminateJob, DeleteDueScan,
       ReplaceExpiredScan, DeleteRows, rowVars, vars
  <2>3. ~ (Enqueue \/ Stall \/ Forget)
    BY <2>1 DEF Enqueue, Stall, Forget, vars
  <2>4. PICK w \in Workers : Deliver(w) \/ WorkerStep(w) \/ Crash(w)
    BY <2>2, <2>3 DEF SystemNext
  <2>5. ~ (Deliver(w) \/ Crash(w))
    BY <2>1 DEF Deliver, Crash, vars
  <2>6. ~ (AcquireAnswered(w) \/ AcquireUnanswered(w) \/ StartAnswered(w) \/ StartUnanswered(w))
    BY <2>1 DEF AcquireAnswered, AcquireUnanswered, StartAnswered, StartUnanswered,
       Acquire, AcquireFirst, AcquireReplacement, AcquireExhausted, AcquireExpired,
       terminateJob, StartAttempt, vars
  <2>7. ~ (\/ ContextLoaded(w) \/ ContextMissing(w) \/ SendBeat(w) \/ BeatAnswered(w)
           \/ BeatLost(w) \/ RunReturns(w) \/ RunThrows(w) \/ RunConcluded(w)
           \/ RejectionRecorded(w) \/ RejectionNotRecorded(w) \/ Settle(w))
    BY <2>1 DEF ContextLoaded, ContextMissing, SendBeat, BeatAnswered, BeatLost, RunReturns,
       RunThrows, RunConcluded, RejectionRecorded, RejectionNotRecorded, Settle,
       RenewLease, vars
  <2>8. CommitAnswered(w) \/ CommitUnanswered(w)
    BY <2>4, <2>5, <2>6, <2>7 DEF WorkerStep
  <2> QED
    BY <2>1, <2>8 DEF CommitAnswered, CommitUnanswered, vars
<1>2. r.fence = worker[w].fence
  BY <1>1 DEF CommitResult
<1>3. jobState # "ABSENT" /\ Holding(w) /\ ~worker[w].lost
  BY <1>1, PrimaryCommitRead DEF CommitResult, Holding, Leased, SystemInv, SlotsInv, SlotOk
<1>4. ViewOk(w)
  BY <1>3 DEF SystemInv, SlotsInv, SlotOk
<1> QED
  BY <1>1, <1>2, <1>3, <1>4 DEF ViewOk

\* No result is committed by a slot whose heartbeat failed.
THEOREM CommitsAreUnbroken == SystemSpec => CommittedUnbroken
<1>1. SystemInv /\ [SystemNext]_systemVars =>
        [\A r \in results' \ results :
           \E w \in Workers :
             /\ worker[w].pc = "commit" /\ worker[w].fence = r.fence
             /\ worker[w].version = attempt[r.fence].version
             /\ worker[w].expiry = attempt[r.fence].lease]_systemVars
  BY CommittingStep
<1> QED
  BY <1>1, SystemInvariant, PTL DEF SystemSpec, CommittedUnbroken
===============================================================================
