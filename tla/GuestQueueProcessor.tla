------------------------ MODULE GuestQueueProcessor ------------------------
(***************************************************************************)
(* The workers that scan: guest-queue/processor.ts run by several slots    *)
(* over one BullMQ job, composed with the rows of GuestScanStore.          *)
(*                                                                         *)
(* A slot awaits acquire, start, the context, the runner with its          *)
(* heartbeat, commit and, when that is refused, the rejection sink; each   *)
(* await is a value of pc, so everything else may happen meanwhile.  A     *)
(* database call may be applied and its reply lost, or not be applied at   *)
(* all; both reach the processor as a retryable failure.  A process may    *)
(* crash at any await.  The processor's answer (acknowledge or retry) is a *)
(* separate call to Redis that a crash can still prevent.                  *)
(*                                                                         *)
(* The queue is BullMQ as bullmq.ts configures it, one job id for a scan:  *)
(* adding a job that exists is a no-op, a failed delivery is retried with  *)
(* exponential backoff up to an attempt limit, and a delivery whose lock   *)
(* lapses (the process died, or only failed to renew the lock) is stalled: *)
(* it is delivered again, and the answer of the slot that had it is void.  *)
(***************************************************************************)
EXTENDS GuestScanStore

CONSTANTS
  Workers,            \* slots: concurrency times processes
  Nobody,             \* no slot
  TransportAttempts,  \* TRANSPORT_ATTEMPTS, 12 in the code
  MaxStalled          \* stalls a job survives, 1 by BullMQ's default

ASSUME QueueAssumption ==
  /\ Nobody \notin Workers
  /\ TransportAttempts \in Nat \ {0}
  /\ MaxStalled \in Nat
  /\ MaxLeaseVersion >= HardDeadlineSeconds  \* so that the bound cuts no renewal

VARIABLES
  queue,      \* the BullMQ job of the scan
  worker,     \* what each slot awaits and the lease it was shown
  rejections  \* guest_result_rejection_events: fence and code

systemVars == <<vars, queue, worker, rejections>>

Job == [state : {"NONE", "WAITING", "ACTIVE", "COMPLETED", "FAILED"},
        holder : Workers \cup {Nobody}, failures : 0..TransportAttempts,
        stalls : 0..(MaxStalled + 1), notBefore : Nat]

Idle == [pc |-> "idle", fence |-> 0, version |-> 0, expiry |-> 0,
         deadline |-> 0, beat |-> "none", lost |-> FALSE, word |-> ""]

\* The pcs at which a slot acts for the attempt it leased.
Leased == {"start", "context", "run", "drain", "commit"}
Holding(w) == worker[w].pc \in Leased

RefusalCodes == {"RESULT_SUBMISSION_REJECTED", "INVALID_STATE", "JOB_NOT_RUNNING",
                 "ATTEMPT_NOT_RUNNING", "STALE_ATTEMPT", "LEASE_EXPIRED",
                 "ATTEMPT_DEADLINE_EXCEEDED", "RESULT_DIGEST_CONFLICT",
                 "GUEST_PERSISTENCE_UNAVAILABLE"}

Goes(w, pc) == worker' = [worker EXCEPT ![w].pc = pc]
Acknowledges(w) == worker' = [worker EXCEPT ![w] = [Idle EXCEPT !.pc = "settle", !.word = "ack"]]
Retries(w) == worker' = [worker EXCEPT ![w] = [Idle EXCEPT !.pc = "settle", !.word = "retry"]]
Rejects(w, code) ==
  worker' = [worker EXCEPT ![w] = [Idle EXCEPT
    !.pc = "reject", !.fence = worker[w].fence, !.word = code]]

\* What the processor keeps of the lease that acquire returned.
LeaseShown(f, row) == [Idle EXCEPT !.pc = "start", !.fence = f,
  !.version = row.version, !.expiry = row.lease, !.deadline = row.deadline]
-----------------------------------------------------------------------------
\* BullMQ.

\* queue.add with the scan's job id, at the end of every create or replay.
Enqueue ==
  /\ queue.state = "NONE"
  /\ queue' = [queue EXCEPT !.state = "WAITING", !.notBefore = now]
  /\ UNCHANGED <<vars, worker, rejections>>

Deliver(w) ==
  /\ queue.state = "WAITING" /\ now >= queue.notBefore
  /\ worker[w].pc = "idle"
  /\ queue' = [queue EXCEPT !.state = "ACTIVE", !.holder = w, !.notBefore = 0]
  /\ worker' = [worker EXCEPT ![w] = [Idle EXCEPT !.pc = "acquire"]]
  /\ UNCHANGED <<vars, rejections>>

Ended(state) == [queue EXCEPT !.state = state, !.holder = Nobody, !.notBefore = 0]

\* The lock of the active job lapses.
Stall ==
  /\ queue.state = "ACTIVE"
  /\ queue' = IF queue.stalls < MaxStalled
       THEN [Ended("WAITING") EXCEPT !.stalls = @ + 1]
       ELSE [Ended("FAILED") EXCEPT !.stalls = @ + 1]
  /\ UNCHANGED <<vars, worker, rejections>>

Backoff_fixed(failures) == 1

\* queueOptions: exponential from one second.
Backoff(failures) == 2 ^ (failures - 1)

AfterFailure_swallowed(failures) == Ended("COMPLETED")
\* A failed delivery: retried after its backoff while attempts remain.  (The
\* delay is cut at the horizon, where time stops.)
AfterFailure(failures) ==
  IF failures < TransportAttempts
  THEN [Ended("WAITING") EXCEPT !.failures = failures,
          !.notBefore = Earlier(now + Backoff(failures), Horizon)]
  ELSE [Ended("FAILED") EXCEPT !.failures = failures]

\* The answer of a delivery reaches Redis; it counts if the lock is held.
Settle(w) ==
  /\ worker[w].pc = "settle"
  /\ queue' = IF queue.state = "ACTIVE" /\ queue.holder = w
              THEN IF worker[w].word = "ack" THEN Ended("COMPLETED")
                   ELSE AfterFailure(queue.failures + 1)
              ELSE queue
  /\ worker' = [worker EXCEPT ![w] = Idle]
  /\ UNCHANGED <<vars, rejections>>

\* removeOnComplete and removeOnFail, by age or by count.
Forget ==
  /\ queue.state \in {"COMPLETED", "FAILED"}
  /\ queue' = [Ended("NONE") EXCEPT !.failures = 0, !.stalls = 0]
  /\ UNCHANGED <<vars, worker, rejections>>
-----------------------------------------------------------------------------
\* processor.ts.  Calls to the store are its actions; a reply that is lost, a
\* refusal and an outage all answer "retry later".

NotAcquirable_whenHeld == jobState # "QUEUED"

\* acquire answers NOT_ACQUIRABLE.
NotAcquirable == jobState \notin {"QUEUED", "RUNNING"}

AcquireAnswered(w) ==
  /\ worker[w].pc = "acquire"
  /\ \/ \E t \in Readings :
          /\ AcquireFirst(t) \/ AcquireReplacement(t)
          /\ worker' = [worker EXCEPT
               ![w] = LeaseShown(currentFence', attempt'[currentFence'])]
     \/ /\ \E t \in Readings : AcquireExhausted(t) \/ AcquireExpired(t)
        /\ Acknowledges(w)
     \/ NotAcquirable /\ Acknowledges(w) /\ UNCHANGED vars
  /\ UNCHANGED <<queue, rejections>>

\* LEASE_HELD, or the database failed before or after the transaction.
AcquireUnanswered(w) ==
  /\ worker[w].pc = "acquire"
  /\ UNCHANGED vars \/ \E t \in Readings : Acquire(t)
  /\ Retries(w)
  /\ UNCHANGED <<queue, rejections>>

StartAnswered(w) ==
  /\ worker[w].pc = "start"
  /\ \E t \in Readings : StartAttempt(worker[w].fence, worker[w].version, t)
  /\ Goes(w, "context")
  /\ UNCHANGED <<queue, rejections>>

\* RETRY_START.
StartUnanswered(w) ==
  /\ worker[w].pc = "start"
  /\ \/ UNCHANGED vars
     \/ \E t \in Readings : StartAttempt(worker[w].fence, worker[w].version, t)
  /\ Retries(w)
  /\ UNCHANGED <<queue, rejections>>

\* load: the lease as shown to this slot must not have ended.
ContextLoaded(w) ==
  /\ worker[w].pc = "context"
  /\ \E t \in Readings : t < worker[w].expiry /\ t < worker[w].deadline
  /\ Goes(w, "run")
  /\ UNCHANGED <<vars, queue, rejections>>

\* RETRY_CONTEXT: the lease ended or no artifact approval is to be had.
ContextMissing(w) ==
  /\ worker[w].pc = "context"
  /\ Retries(w)
  /\ UNCHANGED <<vars, queue, rejections>>

\* The heartbeat timer fires: one renewal at a time, none after an abort.
SendBeat(w) ==
  /\ worker[w].pc = "run" /\ worker[w].beat = "none" /\ ~worker[w].lost
  /\ worker' = [worker EXCEPT ![w].beat = "sent"]
  /\ UNCHANGED <<vars, queue, rejections>>

RenewedView_ahead(w) ==
  [worker[w] EXCEPT !.beat = "none", !.version = @ + 1, !.expiry = @ + LeaseSeconds]

\* The lease as the renewal's answer shows it.
RenewedView(w) ==
  [worker[w] EXCEPT !.beat = "none",
     !.version = attempt'[worker[w].fence].version,
     !.expiry = attempt'[worker[w].fence].lease]

BeatAnswered(w) ==
  /\ worker[w].beat = "sent"
  /\ \E t \in Readings : RenewLease(worker[w].fence, worker[w].version, t)
  /\ worker' = [worker EXCEPT ![w] = RenewedView(w)]
  /\ UNCHANGED <<queue, rejections>>

\* A refused or unanswered renewal: heartbeatLost, and the runner is aborted.
BeatLost(w) ==
  /\ worker[w].beat = "sent"
  /\ \/ UNCHANGED vars
     \/ \E t \in Readings : RenewLease(worker[w].fence, worker[w].version, t)
  /\ worker' = [worker EXCEPT ![w].beat = "none", ![w].lost = TRUE]
  /\ UNCHANGED <<queue, rejections>>

\* The runner returns; it signs no result after the attempt's hard deadline.
RunReturns(w) ==
  /\ worker[w].pc = "run"
  /\ \E word \in {"result", "failure"} :
       /\ word = "result" => \E t \in Readings : t < worker[w].deadline
       /\ worker' = [worker EXCEPT ![w].pc = "drain", ![w].word = word]
  /\ UNCHANGED <<vars, queue, rejections>>

\* The runner throws: RETRY_SUPERVISOR without awaiting a renewal in flight,
\* which may still be applied before this slot settles.
RunThrows(w) ==
  /\ worker[w].pc = "run"
  /\ worker' = [worker EXCEPT ![w].pc = "settle", ![w].word = "retry"]
  /\ UNCHANGED <<vars, queue, rejections>>

MayCommit_anyway(w) == worker[w].word = "result"
MayCommit(w) == ~worker[w].lost /\ worker[w].word = "result"

\* The renewal in flight has been awaited: RETRY_HEARTBEAT, RETRY_SUPERVISOR,
\* or on to the commit.
RunConcluded(w) ==
  /\ worker[w].pc = "drain" /\ worker[w].beat = "none"
  /\ IF MayCommit(w) THEN Goes(w, "commit") ELSE Retries(w)
  /\ UNCHANGED <<vars, queue, rejections>>

\* commit decides on the submission, or refuses an envelope out of hand.
CommitAnswered(w) ==
  /\ worker[w].pc = "commit"
  /\ \/ \E digest \in Digests, t \in Readings :
          LET submission == [fence |-> worker[w].fence, digest |-> digest]
              decision == CommitDecision(submission, t)
          IN \/ CommitResult(submission, t) /\ Acknowledges(w)
             \/ decision = "ALREADY_COMMITTED" /\ Acknowledges(w) /\ UNCHANGED vars
             \/ /\ decision \in RefusalCodes
                /\ Rejects(w, decision) /\ UNCHANGED vars
     \/ Rejects(w, "RESULT_SUBMISSION_REJECTED") /\ UNCHANGED vars
  /\ UNCHANGED <<queue, rejections>>

\* The database failed before or after the transaction, or the call threw.
CommitUnanswered(w) ==
  /\ worker[w].pc = "commit"
  /\ \/ UNCHANGED vars
     \/ \E digest \in Digests, t \in Readings :
          CommitResult([fence |-> worker[w].fence, digest |-> digest], t)
  /\ Rejects(w, "GUEST_PERSISTENCE_UNAVAILABLE") \/ Retries(w)
  /\ UNCHANGED <<queue, rejections>>

MayRecord_anyway(w, t) == TRUE

\* The foreign key to the attempt and the retention window of the insert.
MayRecord(w, t) ==
  /\ attempt[worker[w].fence].state # "NONE"
  /\ CreatedAt <= t /\ t < DeletionDeadline

\* record, and RETRY_COMMIT.
RejectionRecorded(w) ==
  /\ worker[w].pc = "reject"
  /\ \E t \in Readings : MayRecord(w, t)
  /\ rejections' = rejections \cup
       {[fence |-> worker[w].fence, code |-> worker[w].word]}
  /\ Retries(w)
  /\ UNCHANGED <<vars, queue>>

\* RETRY_REJECTION_SINK.
RejectionNotRecorded(w) ==
  /\ worker[w].pc = "reject"
  /\ Retries(w)
  /\ UNCHANGED <<vars, queue, rejections>>

\* The process dies; what it had sent to the database may be lost with it.
Crash(w) ==
  /\ worker[w].pc # "idle"
  /\ worker' = [worker EXCEPT ![w] = Idle]
  /\ UNCHANGED <<vars, queue, rejections>>
-----------------------------------------------------------------------------
\* Everything else that touches the rows, with the cascade of a deletion.
Elsewhere ==
  /\ \/ Tick
     \/ \E t \in Readings : \/ CancelScan(t) \/ CancelAgain(t)
                            \/ DeleteDueScan(t) \/ ReplaceExpiredScan(t)
  /\ rejections' = IF jobState' = "ABSENT" THEN {} ELSE rejections
  /\ UNCHANGED <<queue, worker>>

WorkerStep(w) ==
  \/ AcquireAnswered(w) \/ AcquireUnanswered(w)
  \/ StartAnswered(w) \/ StartUnanswered(w)
  \/ ContextLoaded(w) \/ ContextMissing(w)
  \/ SendBeat(w) \/ BeatAnswered(w) \/ BeatLost(w)
  \/ RunReturns(w) \/ RunThrows(w) \/ RunConcluded(w)
  \/ CommitAnswered(w) \/ CommitUnanswered(w)
  \/ RejectionRecorded(w) \/ RejectionNotRecorded(w)
  \/ Settle(w)

SystemInit ==
  /\ Init
  /\ queue = [state |-> "NONE", holder |-> Nobody, failures |-> 0, stalls |-> 0,
              notBefore |-> 0]
  /\ worker = [w \in Workers |-> Idle]
  /\ rejections = {}

SystemNext ==
  \/ Elsewhere
  \/ Enqueue \/ Stall \/ Forget
  \/ \E w \in Workers : Deliver(w) \/ WorkerStep(w) \/ Crash(w)

SystemSpec == SystemInit /\ [][SystemNext]_systemVars

\* Once the access window is over, when no lease can be held any more, acquire is
\* answered: an outage of PostgreSQL does not outlast the window.
AcquiresDecided ==
  \A w \in Workers :
    now >= AccessExpiry /\ worker[w].pc = "acquire" => worker'[w].word # "retry"

\* Time passes, BullMQ delivers waiting jobs and notices dead holders, a live
\* slot's calls return (PostgreSQL answers or the connection breaks; the code sets no
\* statement timeout) and so does its runner (the supervisor has a deadline).
HolderGone == queue.state = "ACTIVE" /\ worker[queue.holder].pc = "idle"
SystemFairSpec ==
  /\ SystemInit /\ [][SystemNext /\ AcquiresDecided]_systemVars
  /\ WF_systemVars(Elsewhere /\ Tick)
  /\ WF_systemVars(\E w \in Workers : Deliver(w))
  /\ WF_systemVars(HolderGone /\ Stall)
  /\ \A w \in Workers : /\ WF_systemVars(WorkerStep(w))
                        /\ WF_systemVars(RunReturns(w) \/ RunThrows(w))
-----------------------------------------------------------------------------
\* A job the queue counts as done needs no further delivery: the scan reached
\* a terminal state or is gone, whatever replies, stalls and crashes came
\* between, and whichever slot's acknowledgement was the one that counted.
AckedMeansOver ==
  queue.state = "COMPLETED" => jobState \in TerminalJobStates \cup {"ABSENT"}

\* A slot never believes in more lease than the database has granted: while
\* its attempt exists, the version and expiry it was shown are not ahead.
ViewsBehindStore ==
  \A w \in Workers :
    Holding(w) /\ jobState # "ABSENT" =>
      /\ worker[w].version <= attempt[worker[w].fence].version
      /\ worker[w].expiry <= attempt[worker[w].fence].lease
      /\ worker[w].deadline = attempt[worker[w].fence].deadline

\* A recorded rejection is the truth about its attempt: that attempt's result
\* was not accepted, unless the reason is an outage, which cannot know; and a
\* worker late, stalled or overtaken never leaves one of the codes that count
\* as security relevant beyond a rejected envelope.
RejectionsAreTrue ==
  \A r \in rejections :
    /\ r.code # "GUEST_PERSISTENCE_UNAVAILABLE" =>
         attempt[r.fence].state # "SUCCEEDED"
    /\ r.code \notin {"INVALID_STATE", "RESULT_DIGEST_CONFLICT"}

\* A result is committed only by a slot that never missed a renewal: the lease
\* that the commit checks was, for its slot, unbroken since it was acquired.
CommittedUnbroken ==
  [][\A r \in results' \ results :
       \E w \in Workers :
         /\ worker[w].pc = "commit" /\ worker[w].fence = r.fence
         /\ worker[w].version = attempt[r.fence].version
         /\ worker[w].expiry = attempt[r.fence].lease]_systemVars

\* A scan once enqueued ends with no help from retention, replacement or cancellation,
\* unless its deliveries stalled too often: the failures of a job last longer than its
\* scan can be acquired, so that the last delivery, if no earlier one, ends the scan.
EnqueuedScanEnds ==
  queue.state = "WAITING" ~>
    \/ jobState \notin {"QUEUED", "RUNNING"}
    \/ queue.state = "FAILED" /\ queue.stalls > MaxStalled
=============================================================================
