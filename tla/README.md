# A TLA+ model of OutScan's guest scans

OutScan lets an anonymous visitor ask for a safe scan of a web address. The API
admits the request and writes a scan row; a BullMQ job carries the scan's ID to a
worker; the worker leases an attempt, runs a scanner process under a supervisor,
and commits one signed result; the visitor reads it for half an hour; retention
deletes everything after 24 hours. These modules model the parts of `apps/api/src`
that keep this correct when processes crash, calls repeat, replies are lost, keys
rotate, clocks disagree and the scanned host misbehaves. Paths below are relative to
`src/apps/api/src` unless they start with `docs/` or `db/` (`src/docs`,
`src/apps/api/db`).

Contents: [1 the system](#1-the-system), [2 the modules](#2-the-modules),
[3 the runs](#3-the-runs), [4 fairness](#4-fairness),
[5 the proofs](#5-the-proofs), [6 what the models leave out](#6-what-the-models-leave-out),
[7 observations](#7-observations), [8 what could follow](#8-what-could-follow).

## 1 The system

### 1.1 Components

| component | state | operations | what makes it correct |
|---|---|---|---|
| scan protocol (`scan-protocol/`) | none: two transition tables and a decision | `transitionJob`, `transitionAttempt`, `decideResultCommit` | a table admits no way out of an ended state; a result is accepted from the current running attempt only |
| lease store (`guest-persistence/postgres-lease*.ts`) | `guest_scans`, `guest_scan_attempts` | acquire, start, renew | one lease holder, leases within deadline and access window, three attempts at most |
| result commit (`postgres-result-commit.ts`) | the same, `guest_results` | `commitResult` | one accepted result, stored exactly when the job succeeded |
| cancellation (`postgres-cancel.ts`) | the same | `cancel` | final; ends a live attempt with the right word |
| retention batch (`postgres-retention.ts`) | all guest tables | `runBatch` | deletes due rows only, gives back units still held |
| rejection events (`postgres-result-rejection.ts`) | `guest_result_rejection_events` | `record` | says only what happened, once |
| queue and worker slots (`guest-queue/`) | a BullMQ job; per slot the lease it believes in and its heartbeat | `enqueue`, the processor, settle | an acknowledged job is over; a slot never believes more than the rows say |
| admission (`postgres-idempotency.ts`, `postgres-abuse*.ts`, `guest-abuse/`, `guest-idempotency/`) | scans and reservations, windowed and active counters, control row, keyrings | `createOrReplay`, release | limits hold under races, key rotation and clock differences; counters equal reservations |
| scan creation and HTTP routes (`guest-scan/create.ts`, `guest-http/`) | the requests under way | create, read | commit before enqueue; one scan per idempotency key and window; what failed half-way can be repeated |
| guest sessions (`guest-session/`, `postgres-session-revocation.ts`) | revoked sessions, the mounted ring of cookie keys | bootstrap, revoke, is_revoked, prune | a revoked session gets no further, at any server |
| result read and token (`guest-scan/result-read.ts`, `snapshot.ts`, `postgres-result-read.ts`, `guest-crypto/`) | each server's token keys | load, authorise | opens within the window of its scan, and only then |
| scanner run (`guest-scanner/`, `target/`) | budget, deadline, the flow and request under way | resolve, pin, request, redirect, report | no host but approved addresses; budget and deadline; an honest document |
| address policy (`target/ip-policy.ts`, `resolver.ts`) | none | classify, resolve | one forbidden address refuses the answer |
| scanner output and policy (`scanner-output/`, `scanner-policy/`) | none | project, canonicalise, authorise | what is accepted once is accepted by every later stage |
| result envelopes (`result-envelope/`) | none | sign, verify | bound to the attempt, its time and its key |
| result view (`guest-result/view.ts`, `guest-http/result-projection.ts`) | none | view, rebuild | shows what the stored projection says |
| queue telemetry (`guest-telemetry/`) | active counters, pending batch, flush in flight, batch table | record, flush, stop | every outcome counted once; stop ends |
| retention runtime (`guest-retention/`) | cycle and run records | cycles, stop | records tell what a cycle did; a cycle that says it succeeded left nothing; due rows are deleted |
| worker process (`guest-worker/`) | slots, telemetry, pools | ready, close | orderly stop ends |
| supervisor (`supervisor/`) | one run: phase, deadline, signals sent | run, escalate | no scanner outlives its run; answers in time; signs only clean results |
| scanner IPC reader (`scanner-ipc/`) | header and payload buffers | `readScannerIpcFrame` | judgement independent of chunking |
| trusted files (`trusted-files/`, mounted providers) | none | read | identity and permissions checked |
| notifications (`notifications/`) | a delivery's state | transition | bounded attempts |
| Yandex Metrika (`integrations/`) | none | import | — |
| schema and migrations (`db/migrations`, `db/migrate.ts`) | tables; ledger | checks, triggers, cascades; migrate | refuses illegal rows |
| capability registry, web and admin front ends | none | — | — |

`PROJECT.json` says for each which modules model it, and why the others do not
appear.

### 1.2 How they interact

    browser --cookie, idempotency key--> routes --> creation --> createOrReplay
       ^                                   |           |              |
       |                                   |        enqueue      (transactions)
       |                                   |           |              v
       +--- view <--- authorise <--- load -+           |   guest_scans, attempts, results,
                                       ^               |   reservations, counters <-- retention
                                       |               v              ^
                                       |   BullMQ job --> worker slot | acquire, start, renew, commit
                                       |                    |   \---> telemetry --> batches
                                       |                    v
                                       |               supervisor --spawn, TERM, KILL--> scanner --> DNS, target
                                       |                    ^------- stdout, one frame ----/
                                       +--- projection, envelope ---/

PostgreSQL is the only authority: a slot, a supervisor or a queue job may be
wrong about a scan, and the store's transactions must refuse what follows from
that. The queue carries an ID only. What comes out of the scanner process is not
trusted: it is projected, signed, verified, stored, checked again and rebuilt.

### 1.3 What is hard here

* Every transaction uses a time read *before* it waits for its row locks
  (`postgres-lease.ts:45`), so two transactions may commit in one order and carry
  times in the other.
* A reply may be lost after COMMIT, a worker may die at any await, BullMQ then
  delivers again; the old worker may also be merely slow and still call.
* Several API servers share counters and rows with different clocks and, during a
  key rotation, different digests of one network and different token keys.
* A request reads keys, then revocations, then rows, each at an await of its own;
  any of them may have changed by the time the next is used.
* The commit of a scan and its enqueueing are two steps; either may fail alone.
* A telemetry batch may be stored and the answer lost.
* A scanner may start after its run was given up, and its output, exit, abort and
  deadline arrive in any order.
* The scanned host and its DNS choose addresses, redirects, lengths and delays.
* Six stages check a result again, each by rules of its own: one that is stricter
  than an earlier one hides a result that was accepted.

The complete list, each at its line and with the properties that would notice it
go wrong, is `hazards` in `PROJECT.json`.

## 2 The modules

Operators keep the names of the functions, tables and columns they stand for where
there is one. An operator called `Name_word`, placed before `Name`, is a *mistaken
variant* of it: what the code could plausibly have been. No specification uses
them; each is there to show that a property would notice the mistake
(`mutants` in `PROJECT.json`). `map` gives for every definition the source lines it
stands for.

| module | models | actions |
|---|---|---|
| `ScanProtocol` | transition tables and `decideResultCommit` | (operators) |
| `ScanLifecycle` | what a guest scan promises: the abstract specification | begin, start, accept, end, remove |
| `GuestScanStore` | one scan's rows and every transaction on them | one per outcome of acquire, start, renew, commit, cancel, replace, retention |
| `GuestQueueProcessor` | worker slots over one BullMQ job, extends `GuestScanStore` | one per await and answer of the processor, and BullMQ's own |
| `GuestAdmission` | `createOrReplay`, counters, keyrings, retention of both | create, end, batch, control row, redeploy |
| `GuestAdmissionRate` | the same with a history of admissions | — |
| `GuestService` | the requests of a browser at several servers | one per await and answer of the three routes; operators' and workers' steps |
| `ScannerRun` | one run of the scanner against DNS and a peer, and its document's way to the browser | one per event: answers, connection, head, chunk, end, timer; report, supervise, store |
| `TargetPolicy` | decisions on addresses | (operators, used by `ScannerRun`) |
| `PagePosture` | decisions on a response: framing, redirects, headers, security.txt | (operators, used by `ScannerRun`) |
| `ResultPath` | projection, envelope, store, view, rebuilt body | (operators, used by `ScannerRun`) |
| `QueueTelemetry` | recording, flush scheduling, stop, batch table | record, flush, store answers or fails, stop, final flush, restart |
| `RetentionRuntime` | retention processes: batches, cycle records, scheduler | select, commit, prune, store, each answered or failing; timer, stop, crash |
| `SupervisorRun` | one run of a scanner under `run-guest.ts` | launcher, scanner, run, timers |
| `ScannerIpcRead` | the frame reader over a chunked stream | chunk, end, interruption |
| `Sums` | the sum of a function over a finite set | (operator, used by `GuestAdmission`, `ResultPath`, `QueueTelemetry`) |
| `*_proofs` | theorems (section 5); `Sums_proofs` has the facts about sums that three others use | |
| `MC*` | values and symmetry for TLC | |

`GuestQueueProcessor` composes the worker slots with the store's transactions;
`GuestService` uses a summary of what both leave in a scan's row; `ScannerRun` composes
network, document and the stages behind it.

### GuestScanStore

The state is the rows of one scan plus `now`, the true time. The caller is not
modelled: *any* operation may be called at *any* time with *any* fence and lease
version, so late calls of retired workers are included for free. The code locks
the scan row `FOR UPDATE` and runs SERIALIZABLE with at most three tries
(`postgres-lease-support.ts`), so a transaction is one action; retention runs READ
COMMITTED but deletes only rows it has locked with `SKIP LOCKED`. A transaction that
throws or that a CHECK or a trigger refuses changes nothing and has no action; the
guards `ScanWritable` and `AttemptWritable` are those checks (`updated_at` never goes back,
no write behind the deletion deadline). Time is in seconds; a transaction uses a
*reading* within `Drift` of `now`, which stands for clock differences and for the time
between the reading and the lock.

### GuestQueueProcessor

A slot is a record: `pc`, one value for each await of `processor.ts`, and the lease as
that slot last heard of it. Each call has two outcomes, answered and unanswered, and
in the second the transaction may or may not have happened. The heartbeat runs
beside the supervisor, so a renewal may be in flight when the run returns (pc
`drain`). BullMQ is modelled from how the code uses it (`bullmq.ts`: attempts,
exponential backoff, `maxStalledCount`, job ID = scan ID) and marked external: a job may stall,
be delivered again, fail for good and be forgotten. A crash may happen at any
moment of any slot. `Elsewhere` lets cancellation, retention and other workers' calls
happen beside the slots. A renewal still running when the runner throws is not
followed by the slot any more; that late call is covered by `GuestScanStore`, where
renewals come from anybody.

### GuestAdmission, GuestAdmissionRate

Here a scan is its session, idempotency key, digest, creation time and whether its
reservation is held. `createOrReplay` reads the windows of all digests its server can
derive, sums them, refuses or counts under the active digest. Refusals and replays change no
row and have no action. Servers are redeployed one at a time with the two-stage rule of
`docs/OPERATIONS.md:73` ("deploy the active+retained multi-digest reader everywhere, then select
the new active key; keep old keys for at least 24 hours plus clock/deployment skew"):
that rule is an assumption of the model (`KeyringValid`, `Outlived`), because the code cannot
enforce it across processes. `GuestAdmissionRate` adds the set of admissions with
true times, which no action reads.

### GuestService

One browser with one idempotency key, its jar of cookies, and tabs whose requests are under
way at once. A request is a record; `pc` names the await its handler is at, and one action runs
from one await to the next: keys of the cookie, revocation, store, enqueue, answered. Each await may
fail, and each answer may be lost, after which the browser repeats the request. Servers have clocks
of their own (`Skew`) and their own keys for result tokens (a rotation that has not reached all of
them); the ring of cookie keys is a mounted file read anew for each request; revocations are judged by
the database's clock. `early` is a history field: whether the request, when sent, was already barred.
Rows and results carry the times the workers left in them. A token is the pair of a scan and the key it was derived
with, a MAC verifies under its own key. Of a scan in a worker's hands nothing is told but its success: a scan
that ended otherwise opens no result, as one that never ends.

### ScannerRun, TargetPolicy, PagePosture, ResultPath

The run resolves its target, fetches the page and the security.txt over HTTPS, each as a flow of
redirects resolved anew at every hop and pinned to one address, and writes a document. DNS, the peer,
timers and time act at the awaits; the clock (`Date.now`) may be stepped once, timers are not
affected. `approved` and `fresh`, fields of the request under way, record by *true* time what its
answer was, so `OnlyPinned` does not repeat the guard it checks. A header or a line is the parts the code splits it into, a
list of a document is its set of entries and whether one repeats, a digest is the document itself. What
the sandbox writes is not trusted, so any other document (`OtherDocuments`) may take the scanner's place;
both then pass the projection, the canonical form, the envelope, the commit's verification, the store's check, the view and
the route's rebuilt body as one function after another.

### QueueTelemetry

One worker process after another (`Restart`), each with active counters, at most one
pending batch and at most one flush in flight. A store call has an effect or not, and
is answered or not, independently. The clock may step back between readings. A stop closes the transport
first, which may fail: then jobs may go on (`broken`) and the stop is no success.
`recorded`, `lost`, `everStored` and `failedBefore` are history: what was recorded, what a dead or
stopped process took with it, what the table ever held, whether a flush had failed.

### RetentionRuntime

Rows are only due or not, of three kinds (scans, windows, revocations). A batch selects and locks rows in one step
and deletes them at its COMMIT in another, so a second process, as during a deployment, skips what the first
holds (`FOR UPDATE SKIP LOCKED`) and yet sees it in `MORE_WORK_SQL`. `pruneExpired` is two statements and two steps. Every
call may fail, or be applied without an answer. A cycle's record is built in `record`, with a
history field `actual` of what was really deleted; `stored` is the row the cycle left in the
table, kept until the next cycle begins. Rows that other transactions hold for a moment are skipped
by a batch and stay due; only admission's replacement of a scan appears beside the batches (`Replaced`).

### SupervisorRun

The run's own await is `pc`; launch, process, stdout and completion are the scanner's side and move on
their own in any order. The deadline is a time of the wall clock (`overallDeadline = Date.now() + timeoutMs`,
`run-guest.ts:140`): each await, and each chunk of the output, reads the clock (`Remaining`) and sets a `timer` for what is
left, or stops at once (`AwaitWithin`). `StepClock` moves the clock either way at any moment; `behind` is history, the most it was ever
behind since the run began, and the properties state their bounds with it. Timers run steadily and
are urgent: they fire within the second in which they are due. Synchronous code between two readings is one instant. KILL is never
refused. `budget` and `grace` are fixed per behaviour and range over sets. What precedes the launch (a bad
context, a refused authorisation, an abort before the start) has no effect and is left out. A
frame on `stdout` is what `ScannerIpcRead` calls `OK`.

### ScannerIpcRead

The stream is arbitrary: its length, whether its header carries the magic, and the length
declared. A byte is known by its position, so `payload` says which byte of the stream is in which place of the
buffer, and *equal to the payload sent* is a statement about positions.

## 3 The runs

Every run checks deadlock off, because each model reaches a last second or the end
of a run; what must eventually happen is stated as a property.

| run | question | bounds and why they are enough |
|---|---|---|
| `guest_scan_store` | is one scan's life right under every order of calls? | lease 2, deadline 4, three attempts as in the code, access 9 and retention 11, so that all three attempts can lapse before access ends *and* access can end before they do; Drift 1, so readings go back; renewals capped by lease, deadline and window all happen |
| `queue_processor` | do two slots over one job stay behind the store? | two slots: the current and one retired holder; two attempts; three deliveries; two digests so that rival results differ |
| `queue_ends` | does an enqueued scan end without retention? | one slot, four deliveries whose backoff (1+2+4) outlasts an access window of 5, as the code's 12 attempts (2047 s) outlast 1800 s; with a backoff that does not grow the property fails |
| `guest_admission` | are counters exact and limits kept across rotation? | three sessions against a network limit of two, two servers, two keys, Drift 1: a server that has not seen the new key, and one that no longer reads the old one |
| `admission_rate` | what do the windows bound, and does an announced wait suffice? | a window of each kind (3 s with limit 3 for the session, 4 s with limit 2 for the network), clocks a second wrong, two idempotency keys, retention, rotation; the horizon is past the end of the first windows |
| `guest_service` | is what a browser is told true, and what was committed not lost? | two tabs that repeat requests for ever; two servers, one a second ahead and without the token key the other derives with; a cookie key rotated and removed; one session revoked and pruned; access 2 and retention 4 within 3 seconds, so windows end by one clock and not by the other; two scans, so a key is used again after its window |
| `scanner_run` | does a run keep to its limits and is what is shown what happened? | one public address of each family and a private one; answers that fail, mix or expire; four policies, whose requests, redirects or bytes run out, or that are refused; eight responses (whole, cut, lying about their length, oversized, redirecting up, down and away); documents at and beyond the limits; the clock stepped by one either way |
| `queue_telemetry` | is every outcome counted once, does a stop end? | a success and two outcomes that raise different alerts, counters that saturate at 1, three records, two seconds |
| `retention` | are records true, does SUCCEEDED mean done? | two processes, two scans and a revocation, batches of one and cycles of two, so that a cycle succeeds, stops at its limit or meets locked rows; Drift 1, so the clock goes back within a cycle; one failure, of any call or by a crash, is enough to separate what happened from what was answered |
| `retention_ends` | do due rows go? | two processes, a scan and a revocation, right clocks, one failure |
| `supervisor_run` | is no scanner left and no bad result signed? | a budget shorter and one longer than the start may take, graces 0, 1 and 2; the clock stepped by up to 2 seconds either way, as often as it likes, so that timers are set again later and earlier than the deadline; the horizon of 9 is past the last bound (4 + 2 + 2) |
| `scanner_ipc` | does chunking matter? | header of 2, declared lengths 0, 1, the limit and above it; streams up to 7 bytes in up to 4 chunks: every cut inside header, at its end, in payload, behind the frame |

A type invariant is a theorem where the module has proofs (section 5); the runs spend their
time on the other properties.

What they show, property by property, is in the comment above each property. The
central ones:

* **`OneLeaseHolder`, `LeaseNotTakenEarly`** — at most one attempt is live and it
  is the current one; nobody takes a lease before it ends by the taker's reading.
* **`ConcurrencyReleasedOnce`, `UnitsComeBack`, `ActiveCountersExact`** — the units a scan adds to
  the active counters come back once, on every path.
* **`ImplementsLifecycle`** — with the fence as attempt, the store implements `ScanLifecycle`, which begins no attempt
  beyond the budget and fails a scan only when the last attempt was begun.
* **`ViewsBehindStore`, `CommittedUnbroken`** — a slot's copy of its lease is never ahead of the row, and a
  result is committed only by a slot whose copy never fell behind either: its lease was unbroken.
* **`AckedMeansOver`, `EnqueuedScanEnds`** — a completed job leaves no unfinished scan; and a
  scan ends by itself unless its job was given up for stalls. A job out of transport attempts is no excuse: the backoff has to carry its last
  delivery past the access window, where acquire finds the scan over or ends it.
* **`RejectionsAreTrue`** — a recorded rejection never contradicts the row, and a late or overtaken worker never leaves
  a code that counts as security relevant.
* **`RateBounded`** — fixed windows do not give *limit per window length*. An interval of a window's length sees
  what was counted in windows that end during it, one admission less than the limit for each row, and the limit once more: for
  a session up to 2·limit − 1, for a network, which has a row for each key of a rotation, more than that (a limit of 3 with two
  keys may let 6 through; the bound proved is 7). When clocks disagree, the interval is shorter by the disagreement.
  `docs/OPERATIONS.md:73` says "3/10m", which fixed windows can only mean this way.
* **`RetryAfterSuffices`** — the announced wait covers the windows of all digests of the network, so
  after it nothing counted at the refusal counts any more.
* **`NetworkConcurrency`** — four scans of a network at once (two here), across the digests of
  a rotation.
* **`ToldMeansQueued`, `CommittedCanBeQueued`** — no browser holds a scan that was never enqueued; and a scan
  committed but not enqueued can be, by repeating the request, for as long as its window lasts, at some server.
* **`OneScanAtATime`** — two tabs with one idempotency key never get two scans whose windows overlap, whatever
  servers, clocks and lost answers come between.
* **`RevocationTakesEffect`** — a request sent after a revocation, or after the removal of its key, never gets past the
  check while that lasts, though keys and revocations are read at two awaits and pruned meanwhile.
* **`ResultsOpenInTheWindow`** — a result opens only within its window by the clock that judges, and does open
  there at every server that has its key.
* **`OnlyPinned`, `RequestsAreCounted`, `NothingOutlivesTheRun`, `RunEnds`** — a run connects only to addresses of an
  answer in which all were public, while the answer lived; what left is within the policy's budget and in
  the document; no request outlives the deadline unless the clock was stepped; and the run ends whatever the peer does.
* **`ShownIsTrue`, `AcceptedIsShown`** — what a browser sees of a result is what happened on the wire; and a document the supervisor
  accepts passes every later check.
* **`CountedOnce`** — every outcome is in exactly one place, and a pending batch is
  always one the table accepts, or it would block all later ones.
* **`SucceededMeansDone`, `RecordsAreTrue`, `DueRowsGo`** — a retention cycle reports success only when no due row is
  left, also not in the hands of another process; its record never claims a deletion that did not happen; and the
  timer survives every way in which a cycle ends.
* **`ScannerStoppedInTime`, `ReturnsInTime`, `CleanResult`** — the run answers within budget and grace, and a scanner that still runs after
  these (or the start's timeout, if longer) has been sent KILL, even if its launch ended after the run; a clock stepped back prolongs
  both by what it was ever behind and by no more, in however many chunks the output comes. Without `behind` in the bound TLC finds both
  violated. A result is signed only
  when the scanner exited with zero by itself, after one whole frame.
* **`ReadsTheStream`** — the reader's judgement is a function of the stream, and a payload
  accepted is byte by byte the one sent.

Bounds named `Horizon`, `LastSecond`, `MaxSessions`, `MaxScans`, `MaxLeaseVersion`, `MaxRecords`, `MaxFailures`, `MaxStream`,
`MaxChunks` and `MaxKeys` only keep TLC finite; they are in the
guards (not state constraints), so the liveness properties are checked on whole behaviours. The clock goes
on to the last second, which no deadline of the run lies beyond, except in `guest_service`, where the deletion of a scan is
reached by the clock that is ahead.

## 4 Fairness

* `GuestScanStore`: time passes, and a retention batch that stays possible happens (the retention
  process loops for ever, `guest-retention/runtime.ts`). Nothing is assumed of workers: `UnitsComeBack` holds though
  all of them die.
* `GuestQueueProcessor`: BullMQ delivers a job that is due and notices a holder that is gone; a live slot's calls
  return, answered or not, and its runner returns. The runner's return is the code's doing (the supervisor's
  deadline, `SupervisorRun`; the signing-key provider it then awaits reads a local file). That calls return is an assumption on PostgreSQL: it answers, or the
  connection breaks. The code bounds connecting by five seconds (`db/config.ts:45`) and sets no statement timeout, so a
  server that accepts a statement and stays silent would hold its slot. Crashes are not fair, and not excluded.
  Retention is *not* fair in `queue_ends`: the scan has to end without it. `queue_ends` assumes one thing more (`AcquiresDecided`): once the access
  window is over, `acquire` is answered, so that an outage of PostgreSQL does not outlast the window. Where it does, the last
  delivery may fail unanswered and leave a scan that only retention ends.
* `QueueTelemetry`: the ten-second timer fires, a store call returns (the same assumption on PostgreSQL), the transport's close
  returns or throws (it waits for jobs that have deadlines), and the final flush is made once it can be.
* `RetentionRuntime`: the interval timer fires, calls return, a stop that may end does. Starting a process is not fair, so
  `DueRowsGo` speaks of processes that are there.
* `ScannerRun`: DNS answers or gives up (the resolver is configured with a timeout and a number of tries), the code goes on,
  time passes and timers fire. Nothing is assumed of the peer: it may stay silent, send for ever or redirect to itself.
* `GuestService`, `SupervisorRun`, `ScannerIpcRead`, `GuestAdmission`: none. "In time" is a safety property there.

## 5 The proofs

The theorems hold for every value of the constants that satisfies the module's named
assumptions (`StoreAssumption`, `QueueAssumption`, `AdmissionAssumption`, `ServiceAssumption`, `TelemetryAssumption`, `RetentionAssumption`,
`SupervisorAssumption`, `IpcAssumption`, `TargetAssumption`, `ResultPathAssumption`, `RunAssumption`, `DocumentAssumption`): the leases, windows and
budgets of the code as well as those of the runs, any drift, any number of attempts, slots, policies and responses.

**`GuestQueueProcessor_proofs`, the store.** The safety invariants of the store are not inductive one by one: the range of
`currentFence` needs the attempt budget, the release of units needs to know the job state, the accepted result needs
that a running job has none. Their conjunction is, with one addition, `QueuedHasNoAttempt` (a queued job
has no current attempt, so the first acquire may issue fence 1): `IInv`. `InductiveInvariant` proves it with
one lemma per action, and the acquire, cancel and terminate actions share `JobEndsIInv`. From it follow the
safety invariants (four of them the run's) and, in the same module, its action properties (`FinishedScansKept`,
`AcceptsOnlyFromHolder`, `LeaseKept`).

**`GuestQueueProcessor_proofs`, the refinement.** `StoreImplementsLifecycle`: initial states map to initial states and every step to a
step of `ScanLifecycle` or a stutter. `TableMoves` and `LiveMoves` say which moves the transition
tables allow; each store action is then one lemma.

**`GuestQueueProcessor_proofs`, the slots.** All safety properties of `queue_processor`, for any number of slots and deliveries.
The actions of the slots that write rows are the store's own, with what the slot does beside, so by `SlotsUseTheStore`, a lemma and no more than that, all that is
proved of the store holds of the composed system (`RowsKeepTheirInvariant`). The model caps lease versions; that the cap never
refuses a renewal the code would make needs `VersionsBounded`: each renewal moves the expiry at least a second
towards the deadline, hence `QueueAssumption`'s `MaxLeaseVersion >= HardDeadlineSeconds`. For the slots, `Moves(S, R)` says
what a step of the rows may do to attempts that exist (success only to one of `S`, renewal only to one of `R`), and `SlotsInv`
says what a slot knows: no two slots hold one fence, a copy is behind its row, and *equal* to it as long as no renewal was missed;
a slot about to acknowledge knows that the scan is over. With `QueueShape` (the fields of a job)
the conjunction `SystemInv` is inductive, one lemma per action of a slot. `AcknowledgedIsOver`, `ViewsStayBehind`,
`RecordedRejectionsTrue` and `CommitsAreUnbroken` follow.

**`GuestService_proofs`.** A request of the service holds, between two awaits, what it read before the first; `IInv` types requests by
their await and says what such a copy is still worth. `Barred`: a session barred when its request was sent is barred
at each later check, because revocations are not undone and removed keys never come back. `Timely`: the clock reading of a request
that waits to store is at most `Patience` old. `RowOk` relates a row to its result. The *claims* are the scans promised to
a browser, told or still on the way, and by `Matched` a claim is either what the row says now, or its window is over and
the row's window begins after it: a row is deleted only after `RetentionSeconds`, which by `ServiceAssumption` is no less than the access
window, the patience of a request and the largest skew together. `RequestKeeps` and `QuietKeeps` carry what an action leaves alone, so that each
action's lemma is about what it changes. The properties of `guest_service` follow, for any number of tabs, sessions, servers, clocks and keyrings.

**`RetentionRuntime_proofs`.** `IInv` speaks of one process at a time (`Local`): what its record counts (`Counted`: at each await, how far the
rows really deleted are ahead of those reported, and how many its batches may have deleted), what it claims (`Judged`: the
flags that agree at the store, readings no further from true time than `Drift`, and that the answer "no more work" means that no due row is left) and
what it left in the table (`Left`). Rows only go and time does not go back, so `LocalKeeps` carries it through the steps of other processes, and one
lemma per action does the rest. `RecordsTellTheTruth` and `SuccessMeansDone` follow for any number of processes, rows, batches and failures.

**`ScannerRun_proofs`.** `IInv` adds to the shape of the state the budget (`WithinBudget`: nothing leaves unreserved, nothing is reserved beyond the policy),
the run's own count (`Reported`) and the dates (`Dated`: without a step of the clock a resolution carries true time, and a
request's timer ends by the deadline). `BudgetKept`, `OnlyApprovedContacted` and `DeadlineKept` follow for every policy, DNS answer, peer and response.

**`ScannerRun_proofs`, the document.** `AcceptedShown` first says of any document what the later stages make of it, as facts about the
operators of `ResultPath`: a canonical form is acceptable again and produces itself (`AcceptableAgain`, `ProducedAgain`: replacing evidence
keeps what is acceptable, except for its size, which is measured again), a signed one commits within its times (`CommitOfSigned`), its
projection is sanitised (`ProjectionSanitized`) and the route sends its view unchanged (`ViewSent`). `OwnAccepted` and `OwnShown`
say the same of this scanner's document, whatever outcomes it reports. The state's part is `ShowInv`: nothing is found of a target that did
not resolve (`ResolvedFirst`), what was found was heard to its announced end over the pinned connection (`Heard`), a run that began was
accepted and, without a step of the clock, in the past (`Begun`), and document, envelope and store hold what was written (`Handed`).
`ShownTrue` and `AcceptedShown` follow for every peer and answer and for every other document. They need `DocumentAssumption`, which the
code's constants satisfy: an envelope lives no longer than the verifier allows, the guest ceiling of requests is within the 40 that a
projection admits, the output limit, which for guests is always the ceiling of 2 MiB (`guest-queue/context.ts:100`), has room for the seven
redacted findings this scanner may report; and other documents, parsed from JSON, are finite and have the keys that the projection insists on.

**`SupervisorRun_proofs`.** `IInv` relates the await to the rest: a run past its launch has a handle
(`HandleHeld`), a reported exit happened (`ExitTrue`), no timer is overdue (`TimersKept`), a run on its way to a
signed result has sent no signal (`Unstopped`), no timer was set for later than the budget and what the clock was ever behind (`TimersKept` as well), and a run that has answered left no scanner but one that was killed or
whose launch has not returned (`NoneForgotten`). `NoScannerLeft` and `RunReturnsInTime` follow, because
`Tick` cannot pass a due timer and a step of the clock leaves those that are set alone.

**`SupervisorRun_proofs`, the reader.** `ReadIInv` says where the reader is (`Positions`: header, buffer and stream offsets
agree) and what it holds (`Filling`: each place of the buffer has the byte that belongs there).
`ReaderJudgesStream` follows for all header sizes, limits, chunk counts and streams.

**`Sums_proofs`.** A counter is a sum over the scans, batches or findings that it counts. The operators of the community modules fold a set in an order that is chosen,
so every fact about them is an induction. The library's induction theorems take a predicate, which the provers cannot instantiate;
`NaturalInduction` and `SetInduction` are stated for a *set* of numbers, or of subsets, instead, and proved by a least counterexample
(`LeastNatural`, from the well-foundedness of `<`). `SumAdd`: a sum is an integer and grows by the value of an element that is added;
`SumSubset`, `SumMember` and `SumBound` compare sums; `SumOfCounts`: summing the sizes of the parts of a set counts the set.

**`GuestAdmission_proofs`, the counters.** `CountersAreExact` and `NetworksKeepTheirLimit`. The first is nearly inductive: it needs that a session has one scan for a
key (`OneScanEach`), so that a replacement ends one reservation. The second is not: that a server sums what it reads bounds the network only
if it reads *every* digest under which a reservation is held. `RingsRead` (each server reads what any server counts under) covers
the keys in use; for a key that was dropped, `ScansDated` bounds the age of what was counted under it, so that by `Outlived` no reservation is
left that has to be read (`ScansRead`). Older reservations are past their deletion deadline, which the property leaves to retention.
`WaitSuffices` is a fact about `RetryAfter` and what is read for it.

**`GuestAdmission_proofs`, the rate.** The invariant speaks of intervals that are not over (`Open`), as the rows do not tell what a deleted one counted.
`WindowsTrue` relates each row to the history: if it is absent, every open interval saw one admission less than the limit at most (`NotCounting`);
if it is there, it began in some second, counted all admissions since, and an interval that is open longer saw at most one less than the limit besides
(`Counting`). At each admission the digests that are read cover all that an open interval saw (`AdmissionsRead`), and `SumBound` adds them up: hence
`MostAdmitted`, and `PartiesBounded` is the property itself, of a session or a network. The bound is not always attained.

**`QueueTelemetry_proofs`.** For `OutcomesCountedOnce` the invariant follows the ids: all of them were drawn before (`IdsDrawn`), so that a batch that is made is none of
those that are stored or pending, and what these count (`Held`) grows by just what the active counters lose; storing a batch again, or without an
answer, leaves `Held` as it is. `ClockRuns` (the first outcome starts the clock) makes each batch one the table accepts. `CleanStopStores`
rests on `Stages`: a batch without a flush in flight is left only by a failure, and a final flush that is under way has taken the active counters unless there was one.

Only model-checked: the six liveness properties (`UnitsComeBack`, `EnqueuedScanEnds`, `StopEnds`, `NothingWaits`, `DueRowsGo`, `RunEnds`): fairness and
ENABLED are outside TLAPS. Every safety property of every run is a theorem.

## 6 What the models leave out

* Refusals and replays of admission change no row: no action in `GuestAdmission` (they are actions of `GuestService`, which has no
  counters). Malformed stored rows, which no transaction writes, are not states of the models, nor is the repair of them in retention.
* Row locks inside a transaction: the models take serializability from PostgreSQL. The lock orders of retention (session counter
  first, `postgres-retention.ts:163`) and of release (network counter first, `postgres-abuse.ts:192`) can deadlock; PostgreSQL ends that
  with 40P01, which the models see as a call that failed and changed nothing. In `GuestScanStore`
  a batch always succeeds; that due rows go although batches fail is `DueRowsGo`.
* Nothing in `src` writes `guest_abuse_control`, `result_access_revoked_at` or calls `cancel`; the first and the last may happen at any time,
  the second is left out.
* Requests that are malformed are answered before any await and change nothing.
* The window lengths of the models are at most the retention, as in the code (both 24 hours at most).
* `SupervisorRun`: a clock stepped back so far (some 270 seconds) that what is left exceeds the reader's longest timeout
  (`scanner-ipc/model.ts:2`), which ends the run at once. The failure of a signal of the child itself (`PROCESS_ERROR`). A malformed launcher handle is a failed launch followed by
  KILL. The offline container launcher, which only a verification script uses: a container's life is the Docker daemon's.
* `QueueTelemetry`: batches of other worker processes (IDs are unique).
* `RetentionRuntime`: rows that become due are given from the start; the counts of released units in the record; the deletion of
  records after 30 days and a repeated record ID (`randomUUID`).
* `ScannerRun`: retries of a flow, which the run sets to zero; the configuration of the resolver; the order of a document's lists.
* Byte-level parsing and formatting without state (addresses and the table of their ranges, hostnames, URLs, headers, cookies, JSON, canonical
  JSON, HMACs): the decisions on what was parsed are modelled, the parsing is data. Character by character it is work for unit tests, which the repository has.
* Not modelled at all: notifications (a transition table that nothing in the repository calls, so every behaviour around it would be invented), trusted
  files and mounted providers (file system checks), the migration runner and the configuration of processes (they keep no state
  a model would relate), the Yandex Metrika import (an HTTP client without state), the capability registry and the front ends (static).

## 7 Observations

No run shows a violation; ten things met while modelling are worth knowing.

* After a failed store, the final flush of a stop stores the pending batch only; outcomes recorded since are
  lost although the stop reports success (`guest-telemetry/runtime.ts:252`). `docs/OPERATIONS.md:26` promises
  "one final flush", which this is; `CleanStopStoresAll` states exactly what a clean stop does store.
* A scanner whose state is unknown (its `wait` rejects) gets KILL at once, where `docs/OPERATIONS.md:35` says "TERM
  then KILL after a bounded grace". The fixed launcher's `wait` does not reject; only another
  implementation of the port meets this.
* A retention cycle during which the clock goes back reports `INVALID_RETENTION_RUNTIME` and leaves no record, although its
  batches deleted rows (`guest-retention/runtime.ts:259`). The deletions are right; only the account of them is missing.
* A replay read by a server whose clock is behind the creator's finds more than 1800 seconds left and is answered 503
  (`guest-scan/create.ts:208`), and so is one at a server without the token's key. `CommittedCanBeQueued` says what remains: another server accepts it.
* A result committed by a clock ahead of the reader's is not shown until the reader's clock has reached it; `ResultsOpenInTheWindow` states
  the window with that bound.
* While network keys are rotated, a network has a window for each key its servers read, and these end at different times: an interval of a
  window's length may then see as many admissions as twice the limit, and more with more keys. The limit of each moment is kept
  (`RateBounded`, `NetworkConcurrency`).
* The supervisor's deadline is read off the wall clock at every await and chunk (`supervisor/run-guest.ts:140`, `scanner-ipc/read.ts:84`): a clock stepped
  back during a run prolongs the run, and the scanner's life, by the step (`ReturnsInTime`, `ScannerStoppedInTime` have it in their bounds). A
  monotonic clock would not.
* An outage of PostgreSQL during the last delivery of a job gives the job up with the scan as it is; retention ends such a scan after
  its deletion deadline (see [fairness](#4-fairness)).
* No statement timeout is set on the pools (`db/config.ts`), see [fairness](#4-fairness).
* The run waits for the signing key without a deadline (`supervisor/run-guest.ts`), hence the exception in
  `ReturnsInTime`; the lease's heartbeat goes on meanwhile.

## 8 What could follow

The behaviour the repository keeps state for is modelled. What a next step would add, in this order:

1. Counters with their row locks held between statements, should the code stop relying on SERIALIZABLE or on 40P01.
2. `NotificationDelivery`, as soon as something calls the transition table and stores its state.
