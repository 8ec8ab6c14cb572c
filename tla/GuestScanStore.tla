--------------------------- MODULE GuestScanStore ---------------------------
(***************************************************************************)
(* One guest scan in PostgreSQL: its guest_scans row, its                  *)
(* guest_scan_attempts rows, its guest_results row and its abuse           *)
(* reservation, and the transactions of apps/api/src/guest-persistence     *)
(* that change them.                                                       *)
(*                                                                         *)
(* Every transaction locks the scan row FOR UPDATE and runs SERIALIZABLE   *)
(* (or, for retention, deletes the locked row), so each is one action; a   *)
(* transaction that throws, or that a trigger or CHECK of the migrations   *)
(* refuses, changes nothing and has no action.  The callers are not        *)
(* modelled: any operation may be called at any moment with any lease that *)
(* was or will be issued, so late, repeated and reordered calls of slow or *)
(* resurrected workers are all behaviours of this module.                  *)
(*                                                                         *)
(* Time is in whole seconds.  A transaction does not use the true time but *)
(* a reading: the application reads its clock before it connects and keeps *)
(* the value while it waits for row locks and over its retries, the commit *)
(* uses the database's transaction timestamp.  Readings are off by at most *)
(* Drift, which covers clock differences and that waiting.                 *)
(***************************************************************************)
EXTENDS ScanProtocol, FiniteSets

CONSTANTS
  LeaseSeconds,         \* GUEST_ATTEMPT_LEASE_SECONDS, 15 in the code
  HardDeadlineSeconds,  \* GUEST_ATTEMPT_HARD_DEADLINE_SECONDS, 45
  MaxAttempts,          \* GUEST_MAX_ATTEMPTS, 3
  AccessSeconds,        \* result access window, 30 minutes
  RetentionSeconds,     \* created_at to deletion_deadline, 24 hours
  CreatedAt,            \* created_at of the scan
  Drift,                \* how far a reading may be from the true time
  Horizon,              \* bound: the last second of true time
  MaxLeaseVersion,      \* bound: the largest lease version a caller presents
  Digests               \* payload digests of submitted results

ASSUME StoreAssumption ==
  /\ LeaseSeconds \in Nat \ {0}
  /\ HardDeadlineSeconds \in Nat \ {0}
  /\ MaxAttempts \in Nat \ {0}
  /\ AccessSeconds \in Nat \ {0}
  /\ RetentionSeconds \in Nat /\ AccessSeconds < RetentionSeconds
  /\ CreatedAt \in Nat \ {0}
  /\ Drift \in Nat
  /\ Horizon \in Nat
  /\ MaxLeaseVersion \in Nat \ {0}

AccessExpiry == CreatedAt + AccessSeconds
DeletionDeadline == CreatedAt + RetentionSeconds

\* Attempts are named by their fence; one more than the budget allows, so
\* that a broken budget shows as a bad state.
Fences == 1..(MaxAttempts + 1)
Submissions == [fence : Fences, digest : Digests]
Results == [fence : Fences, digest : Digests, completed : Nat]

VARIABLES
  now,          \* true time
  jobState,     \* guest_scans.job_state, "ABSENT" once the row is deleted
  currentFence, \* current_attempt_id and current_fence, 0 for none
  accepted,     \* the accepted_* columns: {} while NULL, else one submission
  updatedAt,    \* guest_scans.updated_at
  attempt,      \* guest_scan_attempts, by fence
  results,      \* guest_results: the set of rows of this scan
  reservation,  \* the reservation row: "HELD", "RELEASED" or "ABSENT"
  units         \* what this scan still adds to each active-scan counter

scanVars == <<jobState, currentFence, accepted, updatedAt>>
abuseVars == <<reservation, units>>
rowVars == <<scanVars, attempt, results, abuseVars>>
vars == <<now, jobState, currentFence, accepted, updatedAt, attempt, results,
          reservation, units>>

\* The columns of an attempt row; NoAttempt stands for a row not inserted.
\* CREATED is written and left within createAttempt's transaction, so no
\* other transaction ever reads it.
Attempt ==
  [state : (AttemptStates \ {"CREATED"}) \cup {"NONE"}, no : Nat, version : Nat,
   lease : Nat, deadline : Nat, updated : Nat]
NoAttempt ==
  [state |-> "NONE", no |-> 0, version |-> 0, lease |-> 0, deadline |-> 0,
   updated |-> 0]
NoAttempts == [f \in Fences |-> NoAttempt]

Live(f) == attempt[f].state \in LiveAttemptStates

-----------------------------------------------------------------------------
\* What a clock may show when an operation reads it.
Readings == {t \in (now - Drift)..(now + Drift) : t > 0}

Earlier(s, t) == IF s < t THEN s ELSE t

\* guard_guest_scan_update and guest_scans_time_contract: updated_at never
\* goes back and never passes the deletion deadline.
ScanWritable(t) == updatedAt <= t /\ t <= DeletionDeadline

\* guard_guest_attempt_update: the same for an attempt row.
AttemptWritable(f, t) == attempt[f].updated <= t

\* Operators whose name continues the name of another with an underscore are
\* that operator with a mistake in it; no action uses them.  A property is
\* worth stating if some such mistake breaks it.
\* createAttempt: the row as the transaction leaves it, lease included.
NewAttempt(no, t) ==
  LET deadline == Earlier(t + HardDeadlineSeconds, AccessExpiry)
  IN [state |-> "LEASED", no |-> no, version |-> 1,
      lease |-> Earlier(t + LeaseSeconds, deadline),
      deadline |-> deadline, updated |-> t]

\* An attempt row rewritten to state s at reading t.
Moved(f, s, t) == [attempt[f] EXCEPT !.state = s, !.updated = t]

RetiredState_keepsState(f, t) == attempt[f].state

\* acquire, for the current attempt whose lease or deadline has passed.
RetiredState(f, t) ==
  IF attempt[f].state = "RUNNING" /\ t >= attempt[f].deadline
  THEN "TIMED_OUT" ELSE "SUPERSEDED"

\* terminateJob, for a current attempt that still holds its lease.
EndedState(f, t) ==
  IF attempt[f].state = "LEASED" THEN "SUPERSEDED"
  ELSE IF t >= attempt[f].deadline THEN "TIMED_OUT" ELSE "CANCELLED"

CancelledState_always(f) == "CANCELLED"

\* cancelCurrentAttempt.
CancelledState(f) ==
  IF attempt[f].state = "RUNNING" THEN "CANCELLED" ELSE "SUPERSEDED"

releaseGuestAbuseReservation_repeats(t) ==
  /\ CreatedAt <= t /\ t <= DeletionDeadline
  /\ reservation' = "RELEASED"
  /\ units' = units - 1

\* releaseGuestAbuseReservation returning true: a released reservation stays
\* as it is, a held one gives its counter units back, once, within the
\* reservation's own time range.  False makes every caller throw.
releaseGuestAbuseReservation(t) ==
  \/ reservation = "RELEASED" /\ UNCHANGED abuseVars
  \/ /\ reservation = "HELD"
     /\ CreatedAt <= t /\ t <= DeletionDeadline
     /\ reservation' = "RELEASED"
     /\ units' = units - 1

\* terminateJob's writes to the scan row.
terminateJob(terminal, t) ==
  /\ ScanWritable(t)
  /\ jobState' = terminal
  /\ updatedAt' = t
  /\ releaseGuestAbuseReservation(t)
  /\ UNCHANGED <<now, currentFence, accepted, results>>
-----------------------------------------------------------------------------
\* acquire reads a queued or running job, and ends it once access expired.
Acquirable(t) == jobState \in {"QUEUED", "RUNNING"} /\ t < AccessExpiry

Lapsed_early(t) ==
  /\ currentFence \in Fences
  /\ Live(currentFence)
  /\ t + 1 >= attempt[currentFence].lease

\* The current attempt still has a lease, but the reading is past its lease
\* or its hard deadline; otherwise acquire answers LEASE_HELD.
Lapsed(t) ==
  /\ currentFence \in Fences
  /\ Live(currentFence)
  /\ t >= attempt[currentFence].lease \/ t >= attempt[currentFence].deadline

\* acquire of a queued job.
AcquireFirst(t) ==
  /\ Acquirable(t) /\ jobState = "QUEUED"
  /\ ScanWritable(t)
  /\ attempt' = [attempt EXCEPT ![1] = NewAttempt(1, t)]
  /\ jobState' = "RUNNING"
  /\ currentFence' = 1
  /\ updatedAt' = t
  /\ UNCHANGED <<now, accepted, results, abuseVars>>

Exhausted_late(no) == no > MaxAttempts

\* An attempt of this number was the last of the budget.
Exhausted(no) == no >= MaxAttempts

\* acquire of a running job whose attempt lapsed, within the attempt budget.
AcquireReplacement(t) ==
  /\ Acquirable(t) /\ jobState = "RUNNING"
  /\ Lapsed(t)
  /\ ~Exhausted(attempt[currentFence].no)
  /\ AttemptWritable(currentFence, t) /\ ScanWritable(t)
  /\ attempt' = [attempt EXCEPT
       ![currentFence] = Moved(currentFence, RetiredState(currentFence, t), t),
       ![currentFence + 1] = NewAttempt(attempt[currentFence].no + 1, t)]
  /\ currentFence' = currentFence + 1
  /\ updatedAt' = t
  /\ UNCHANGED <<now, jobState, accepted, results, abuseVars>>

\* acquire of a running job whose last attempt lapsed: the job fails.
AcquireExhausted(t) ==
  /\ Acquirable(t) /\ jobState = "RUNNING"
  /\ Lapsed(t)
  /\ Exhausted(attempt[currentFence].no)
  /\ AttemptWritable(currentFence, t)
  /\ attempt' = [attempt EXCEPT
       ![currentFence] = Moved(currentFence, RetiredState(currentFence, t), t)]
  /\ terminateJob("FAILED", t)

\* acquire after the access window, of a job with or without an attempt.
AcquireExpired(t) ==
  /\ jobState \in {"QUEUED", "RUNNING"}
  /\ t >= AccessExpiry
  /\ \/ jobState = "QUEUED" /\ UNCHANGED attempt
     \/ /\ jobState = "RUNNING"
        /\ currentFence \in Fences /\ Live(currentFence)
        /\ AttemptWritable(currentFence, t)
        /\ attempt' = [attempt EXCEPT
             ![currentFence] = Moved(currentFence, EndedState(currentFence, t), t)]
     \/ /\ jobState = "RUNNING"
        /\ currentFence \in Fences
        /\ attempt[currentFence].state
             \in {"FAILED", "TIMED_OUT", "CANCELLED", "SUPERSEDED"}
        /\ UNCHANGED attempt
  /\ terminateJob("EXPIRED", t)

\* What start and renew require of the lease they are shown.
HoldsLease(f, version, t) ==
  /\ jobState = "RUNNING"
  /\ currentFence = f
  /\ attempt[f].version = version
  /\ t < attempt[f].deadline
  /\ t < attempt[f].lease

\* start; a second start of a running attempt changes nothing.
StartAttempt(f, version, t) ==
  /\ HoldsLease(f, version, t)
  /\ attempt[f].state = "LEASED"
  /\ AttemptWritable(f, t)
  /\ attempt' = [attempt EXCEPT ![f] = Moved(f, "RUNNING", t)]
  /\ UNCHANGED <<now, scanVars, results, abuseVars>>

RenewedLease_uncapped(f, t) == t + LeaseSeconds
RenewedLease(f, t) == Earlier(t + LeaseSeconds, attempt[f].deadline)

\* renew; refused as LEASE_NOT_EXTENDED when it would not move the expiry.
RenewLease(f, version, t) ==
  /\ HoldsLease(f, version, t)
  /\ attempt[f].state = "RUNNING"
  /\ RenewedLease(f, t) > attempt[f].lease
  /\ AttemptWritable(f, t)
  /\ attempt' = [attempt EXCEPT
       ![f] = [@ EXCEPT !.version = version + 1,
                        !.lease = RenewedLease(f, t),
                        !.updated = t]]
  /\ UNCHANGED <<now, scanVars, results, abuseVars>>
-----------------------------------------------------------------------------
\* mapLockedState: what persistResult reads under its locks.
Snapshot ==
  [job |-> jobState, fence |-> currentFence,
   attempt |-> attempt[currentFence].state,
   lease |-> attempt[currentFence].lease,
   deadline |-> attempt[currentFence].deadline, accepted |-> accepted]

\* persistResult's answer; the join finds no row without a current attempt.
CommitDecision(submission, t) ==
  IF jobState = "ABSENT" \/ currentFence = 0 THEN "INVALID_STATE"
  ELSE decideResultCommit(Snapshot, submission, t)

\* persistResult, primary commit: attempt, scan, result row and reservation.
CommitResult(submission, t) ==
  /\ CommitDecision(submission, t) = "PRIMARY_COMMIT"
  /\ AttemptWritable(submission.fence, t) /\ ScanWritable(t)
  /\ t < DeletionDeadline
  /\ attempt' = [attempt EXCEPT
       ![submission.fence] = Moved(submission.fence, "SUCCEEDED", t)]
  /\ jobState' = "SUCCEEDED"
  /\ accepted' = {submission}
  /\ updatedAt' = t
  /\ results' = results \cup
       {[fence |-> submission.fence, digest |-> submission.digest,
         completed |-> t]}
  /\ releaseGuestAbuseReservation(t)
  /\ UNCHANGED <<now, currentFence>>
-----------------------------------------------------------------------------
\* cancel of a queued or running job.
CancelScan(t) ==
  /\ jobState \in {"QUEUED", "RUNNING"}
  /\ \/ currentFence = 0 /\ UNCHANGED attempt
     \/ /\ currentFence \in Fences
        /\ Live(currentFence)
        /\ AttemptWritable(currentFence, t)
        /\ attempt' = [attempt EXCEPT
             ![currentFence] = Moved(currentFence, CancelledState(currentFence), t)]
  /\ ScanWritable(t)
  /\ jobState' = "CANCELLED"
  /\ updatedAt' = t
  /\ releaseGuestAbuseReservation(t)
  /\ UNCHANGED <<now, currentFence, accepted, results>>

\* cancel of a cancelled job: ALREADY_CANCELLED, after another release call.
CancelAgain(t) ==
  /\ jobState = "CANCELLED"
  /\ releaseGuestAbuseReservation(t)
  /\ UNCHANGED <<now, scanVars, attempt, results>>

\* DELETE FROM guest_scans, which cascades to every row of the scan.
DeleteRows ==
  /\ jobState' = "ABSENT"
  /\ currentFence' = 0
  /\ accepted' = {}
  /\ updatedAt' = 0
  /\ attempt' = NoAttempts
  /\ results' = {}
  /\ reservation' = "ABSENT"

ReturnHeldUnits_forgotten == UNCHANGED units

\* releaseDueReservation: a reservation not yet released gives its units back.
ReturnHeldUnits == units' = IF reservation = "HELD" THEN units - 1 ELSE units

\* runBatch over a due scan.
DeleteDueScan(t) ==
  /\ jobState # "ABSENT"
  /\ t >= DeletionDeadline
  /\ DeleteRows
  /\ ReturnHeldUnits
  /\ UNCHANGED now

\* createOrReplay with the same key after the window: the old scan is
\* released and deleted in the transaction that creates its successor.
ReplaceExpiredScan(t) ==
  /\ jobState # "ABSENT"
  /\ t >= AccessExpiry
  /\ reservation = "RELEASED" \/ t <= DeletionDeadline
  /\ DeleteRows
  /\ ReturnHeldUnits
  /\ UNCHANGED now
-----------------------------------------------------------------------------
Tick ==
  /\ now < Horizon
  /\ now' = now + 1
  /\ UNCHANGED rowVars

\* createOrReplay has inserted the scan and reserved its units.
Init ==
  /\ now = CreatedAt
  /\ jobState = "QUEUED"
  /\ currentFence = 0
  /\ accepted = {}
  /\ updatedAt = CreatedAt
  /\ attempt = NoAttempts
  /\ results = {}
  /\ reservation = "HELD"
  /\ units = 1

Acquire(t) ==
  \/ AcquireFirst(t)
  \/ AcquireReplacement(t)
  \/ AcquireExhausted(t)
  \/ AcquireExpired(t)

Next ==
  \/ Tick
  \/ \E t \in Readings :
       \/ Acquire(t)
       \/ \E f \in Fences, v \in 1..MaxLeaseVersion :
            StartAttempt(f, v, t) \/ RenewLease(f, v, t)
       \/ \E submission \in Submissions : CommitResult(submission, t)
       \/ CancelScan(t)
       \/ CancelAgain(t)
       \/ DeleteDueScan(t)
       \/ ReplaceExpiredScan(t)

Spec == Init /\ [][Next]_vars

\* The retention process keeps running its cycles, and time passes.
FairSpec == Spec /\ WF_vars(Tick) /\ WF_vars(\E t \in Readings : DeleteDueScan(t))
-----------------------------------------------------------------------------
TypeOK ==
  /\ now \in Nat
  /\ jobState \in JobStates \cup {"ABSENT"}
  /\ currentFence \in 0..(MaxAttempts + 1)
  /\ accepted \subseteq Submissions
  /\ updatedAt \in Nat
  /\ attempt \in [Fences -> Attempt]
  /\ results \subseteq Results
  /\ reservation \in {"HELD", "RELEASED", "ABSENT"}
  /\ units \in Int

\* A scan never has two lease holders: the only attempt that can be leased or
\* running is the current one, of a running job, and a running job has one.
\* (acquire retires the lapsed attempt, and every way a job ends, its attempt.)
OneLeaseHolder ==
  /\ \A f \in Fences : Live(f) => jobState = "RUNNING" /\ f = currentFence
  /\ jobState = "RUNNING" => \E f \in Fences : Live(f)

\* The scan's share of the concurrency limits is given back exactly once, and
\* exactly when the job ends: never while it can still run, never twice, never
\* forgotten, whichever of terminal result, failure, expiry, cancellation
\* (repeated or not), replacement or retention ends it.
ConcurrencyReleasedOnce ==
  /\ units = IF jobState \in {"QUEUED", "RUNNING"} THEN 1 ELSE 0
  /\ reservation = "HELD" <=> jobState \in {"QUEUED", "RUNNING"}
  /\ reservation = "RELEASED" <=> jobState \in TerminalJobStates

\* A scan has a stored result exactly when it succeeded; the row, the accepted
\* columns and the attempt agree, and it was completed within the lease and the
\* deadline of the attempt that produced it, before result access expired.
ResultIsTheAcceptedOne ==
  /\ jobState = "SUCCEEDED" <=> results # {}
  /\ results = {} => accepted = {}
  /\ \A r \in results :
       /\ results = {r}
       /\ accepted = {[fence |-> r.fence, digest |-> r.digest]}
       /\ r.fence = currentFence
       /\ attempt[r.fence].state = "SUCCEEDED"
       /\ r.completed < attempt[r.fence].lease
       /\ r.completed < AccessExpiry

\* No lease outlives its attempt's hard deadline, and no attempt the window in
\* which its result may be read, however often it is renewed.
LeaseWithinAccess ==
  \A f \in Fences :
    /\ attempt[f].lease <= attempt[f].deadline
    /\ attempt[f].deadline <= AccessExpiry

\* Fences and attempt numbers count the same attempts without gaps, so that
\* the budget bounds both; a job fails only when the budget is spent.
AttemptBudget ==
  /\ \A f \in Fences :
       IF f <= currentFence THEN attempt[f].no = f /\ attempt[f].state # "NONE"
                            ELSE attempt[f] = NoAttempt
  /\ currentFence <= MaxAttempts
  /\ jobState = "FAILED" => currentFence = MaxAttempts

\* Only a cancellation cancels an attempt: when acquire ends a job, its attempt
\* has been retired or its deadline, capped by the access window, has passed, so
\* terminateJob's branch for a running attempt before its deadline is never taken.
OnlyCancelCancels ==
  \A f \in Fences : attempt[f].state = "CANCELLED" => jobState = "CANCELLED"

\* An attempt that holds a lease loses it only to its own success, to a
\* cancellation, or when its lease is over, up to the error of one reading.
LeaseNotTakenEarly ==
  [][\A f \in Fences :
       Live(f) /\ attempt'[f].state \notin LiveAttemptStates
         => \/ attempt'[f].state = "SUCCEEDED"
            \/ jobState' = "CANCELLED"
            \/ attempt[f].lease <= now + Drift]_vars

\* A result is accepted only from the attempt that held the lease when the step
\* was taken, and no later than the error of one reading after the lease ended.
AcceptedFromLeaseHolder ==
  [][\A r \in results' \ results :
       /\ r.fence = currentFence
       /\ attempt[r.fence].state = "RUNNING"
       /\ now < attempt[r.fence].lease + Drift
       /\ results = {}]_vars

\* Nothing moves a finished scan except its removal, and that not before its
\* result access expired: no late start, renewal, commit or cancellation
\* changes its outcome, its attempts or its result.
FinishedIsFinal ==
  [][(jobState \in TerminalJobStates) =>
       IF jobState' = "ABSENT"
       THEN AccessExpiry <= now + Drift
       ELSE UNCHANGED rowVars]_vars

\* With retention running, the scan's concurrency units come back for good
\* even if no worker ever touches it again.
UnitsComeBack == <>[](units = 0)

\* The store implements the protocol's promise.
Lifecycle == INSTANCE ScanLifecycle WITH
  job <- jobState, attempts <- [f \in Fences |-> attempt[f].state]
ImplementsLifecycle == Lifecycle!Spec
=============================================================================
