---------------------------- MODULE ScanProtocol ----------------------------
(***************************************************************************)
(* The pure decisions of apps/api/src/scan-protocol: the job and attempt   *)
(* state machines of fsm.ts and the result-commit decision of              *)
(* result-commit.ts.  Nothing here has state; the modules that model the   *)
(* database and the workers take their guards from these operators.        *)
(***************************************************************************)
EXTENDS Integers

\* The states a job row can be in (model.ts), and those no event leaves.
JobStates == {"QUEUED", "RUNNING", "SUCCEEDED", "FAILED", "CANCELLED", "EXPIRED"}
TerminalJobStates == {"SUCCEEDED", "FAILED", "CANCELLED", "EXPIRED"}

\* The states an attempt row can be in, and the two in which it holds a lease.
AttemptStates == {"CREATED", "LEASED", "RUNNING", "SUCCEEDED", "FAILED",
                  "TIMED_OUT", "CANCELLED", "SUPERSEDED"}
LiveAttemptStates == {"LEASED", "RUNNING"}

\* jobTransitions: <<state, event, next state>>.
jobTransitions ==
  { <<"QUEUED",  "ATTEMPT_STARTED",          "RUNNING">>,
    <<"QUEUED",  "CANCEL",                   "CANCELLED">>,
    <<"QUEUED",  "DEADLINE_EXCEEDED",        "EXPIRED">>,
    <<"RUNNING", "PRIMARY_RESULT_COMMITTED", "SUCCEEDED">>,
    <<"RUNNING", "RETRY_BUDGET_EXHAUSTED",   "FAILED">>,
    <<"RUNNING", "CANCEL",                   "CANCELLED">>,
    <<"RUNNING", "AUTHORIZATION_REVOKED",    "CANCELLED">>,
    <<"RUNNING", "DEADLINE_EXCEEDED",        "EXPIRED">> }

\* attemptTransitions, in the same form.
attemptTransitions ==
  { <<"CREATED", "LEASE_ACQUIRED",               "LEASED">>,
    <<"CREATED", "JOB_CANCELLED_OR_EXPIRED",     "CANCELLED">>,
    <<"LEASED",  "SCANNER_STARTED",              "RUNNING">>,
    <<"LEASED",  "LEASE_EXPIRED_OR_INVALIDATED", "SUPERSEDED">>,
    <<"RUNNING", "PRIMARY_RESULT_COMMITTED",     "SUCCEEDED">>,
    <<"RUNNING", "SCANNER_OR_POLICY_FAILED",     "FAILED">>,
    <<"RUNNING", "LEASE_EXPIRED_OR_INVALIDATED", "SUPERSEDED">>,
    <<"RUNNING", "HARD_DEADLINE_EXCEEDED",       "TIMED_OUT">>,
    <<"RUNNING", "JOB_CANCELLED",                "CANCELLED">>,
    <<"RUNNING", "NEWER_ATTEMPT_FENCE",          "SUPERSEDED">> }

\* transitionJob and transitionAttempt allow an event exactly when the table
\* has a row for it; these are the pairs of states some event connects.
JobMoves(from, to) == \E move \in jobTransitions : move[1] = from /\ move[3] = to
AttemptMoves(from, to) ==
  \E move \in attemptTransitions : move[1] = from /\ move[3] = to

(***************************************************************************)
(* decideResultCommit.  A snapshot is what the committer read under its    *)
(* row locks; accepted is {} or the one identity the scan has accepted.    *)
(* A submission names the attempt by its fence (the two are issued         *)
(* together and never recombined) and carries a payload digest.  The order *)
(* of the tests is the code's: it decides which code a refusal carries.    *)
(* Before it stand variants with one test gone or turned; nothing uses     *)
(* them but the checks that a property notices the difference.             *)
(***************************************************************************)
decideResultCommit_ignoringLease(snapshot, submission, t) ==
  IF snapshot.job = "RUNNING" /\ submission.fence = snapshot.fence
     /\ snapshot.attempt = "RUNNING"
  THEN "PRIMARY_COMMIT" ELSE "STALE_ATTEMPT"

decideResultCommit_lastDigestWins(snapshot, submission, t) ==
  IF submission.fence # snapshot.fence THEN "STALE_ATTEMPT"
  ELSE IF submission \in snapshot.accepted THEN "ALREADY_COMMITTED"
  ELSE IF snapshot.attempt \in {"RUNNING", "SUCCEEDED"} /\ t < snapshot.lease
    THEN "PRIMARY_COMMIT"
  ELSE "LEASE_EXPIRED"

decideResultCommit(snapshot, submission, t) ==
  IF snapshot.job = "SUCCEEDED" THEN
    IF snapshot.accepted = {} THEN "INVALID_STATE"
    ELSE IF \A a \in snapshot.accepted : a.fence # submission.fence
      THEN "STALE_ATTEMPT"
    ELSE IF submission \notin snapshot.accepted THEN "RESULT_DIGEST_CONFLICT"
    ELSE "ALREADY_COMMITTED"
  ELSE IF snapshot.job # "RUNNING" THEN "JOB_NOT_RUNNING"
  ELSE IF snapshot.accepted # {} THEN "INVALID_STATE"
  ELSE IF submission.fence # snapshot.fence THEN "STALE_ATTEMPT"
  ELSE IF snapshot.attempt # "RUNNING" THEN "ATTEMPT_NOT_RUNNING"
  ELSE IF t >= snapshot.lease THEN "LEASE_EXPIRED"
  ELSE IF t >= snapshot.deadline THEN "ATTEMPT_DEADLINE_EXCEEDED"
  ELSE "PRIMARY_COMMIT"
=============================================================================
