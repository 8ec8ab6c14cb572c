--------------------------- MODULE ScanLifecycle ----------------------------
(***************************************************************************)
(* What the scan execution protocol promises about one scan, with no       *)
(* clocks, leases, rows or readings: the job and its attempts move by the  *)
(* tables of fsm.ts only, attempts are numbered by strictly increasing     *)
(* fences, at most one is live and none exceeds the budget; the job fails  *)
(* only when the budget is spent, and succeeds in the one step in which    *)
(* its live, started attempt succeeds and a result is accepted.            *)
(* GuestScanStore is shown to implement this module.                       *)
(***************************************************************************)
EXTENDS ScanProtocol

CONSTANTS Fences, MaxAttempts, Digests

VARIABLES
  job,       \* a job state, or "ABSENT" once the scan is removed
  attempts,  \* the state of each attempt, "NONE" before it exists
  accepted   \* {} or the one accepted result

vars == <<job, attempts, accepted>>

IsLive(f) == attempts[f] \in LiveAttemptStates

\* Attempt f does not move, or it was live and an event of the table that
\* does not make it succeed ended it.
Stops(f) ==
  IF IsLive(f)
  THEN /\ attempts'[f] \notin LiveAttemptStates \cup {"SUCCEEDED"}
       /\ AttemptMoves(attempts[f], attempts'[f])
  ELSE attempts'[f] = attempts[f]

Init ==
  /\ job = "QUEUED"
  /\ attempts = [f \in Fences |-> "NONE"]
  /\ accepted = {}

\* The next attempt of the budget takes the lease; whatever attempt was live stops.
Begin(f) ==
  /\ f <= MaxAttempts
  /\ job = "RUNNING" \/ JobMoves(job, "RUNNING")
  /\ \A g \in Fences : attempts[g] = "NONE" <=> f <= g
  /\ attempts'[f] = "LEASED"
  /\ \A g \in Fences \ {f} : Stops(g)
  /\ job' = "RUNNING"
  /\ UNCHANGED accepted

\* The holder of the lease starts its scanner.
Start(f) ==
  /\ job = "RUNNING"
  /\ AttemptMoves(attempts[f], "RUNNING")
  /\ attempts' = [attempts EXCEPT ![f] = "RUNNING"]
  /\ UNCHANGED <<job, accepted>>

\* The started attempt's result becomes the result of the scan.
Accept(f, d) ==
  /\ JobMoves(job, "SUCCEEDED")
  /\ AttemptMoves(attempts[f], "SUCCEEDED")
  /\ attempts'[f] = "SUCCEEDED"
  /\ \A g \in Fences \ {f} : ~IsLive(g) /\ attempts'[g] = attempts[g]
  /\ job' = "SUCCEEDED"
  /\ accepted' = {[fence |-> f, digest |-> d]}

\* The job ends without a result, and its live attempt with it; it fails for want of
\* attempts only.
End(terminal) ==
  /\ JobMoves(job, terminal)
  /\ terminal = "FAILED" => attempts[MaxAttempts] # "NONE"
  /\ \A f \in Fences : Stops(f)
  /\ job' = terminal
  /\ UNCHANGED accepted

\* Retention or replacement removes the scan with all it has.
Remove ==
  /\ job # "ABSENT"
  /\ job' = "ABSENT"
  /\ attempts' = [f \in Fences |-> "NONE"]
  /\ accepted' = {}

Next ==
  \/ \E f \in Fences : Begin(f) \/ Start(f)
  \/ \E f \in Fences, d \in Digests : Accept(f, d)
  \/ \E terminal \in {"FAILED", "CANCELLED", "EXPIRED"} : End(terminal)
  \/ Remove

Spec == Init /\ [][Next]_vars
=============================================================================
