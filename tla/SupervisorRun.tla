---------------------------- MODULE SupervisorRun ----------------------------
(***************************************************************************)
(* One run of the scanner under its supervisor: runGuestScannerAttempt     *)
(* after its checks of the request, the launcher of the process, the       *)
(* deadline over launch, output and exit, the abort by a lost heartbeat,   *)
(* and the escalation from TERM to KILL.                                   *)
(*                                                                         *)
(* The scanner is arbitrary: it may write anything, exit or not, close its *)
(* output before it exits or after, and ignore TERM; KILL is never refused.*)
(*                                                                         *)
(* The deadline is a time of the wall clock, which may be stepped at any   *)
(* moment: each await, and each chunk of the output, reads the clock and   *)
(* sets a timer for what is then left.  Timers themselves run steadily and *)
(* fire within the second in which they are due.                           *)
(***************************************************************************)
EXTENDS Integers

CONSTANTS
  Budgets,      \* seconds a run may have: the policy's, cut by the hard deadline
  Graces,       \* termination_grace_ms in seconds
  InitTimeout,  \* PROCESS_INITIALIZATION_TIMEOUT_MS in seconds
  Step,         \* bound: how far the wall clock is stepped off
  Horizon       \* bound: the last second

ASSUME SupervisorAssumption ==
  /\ Budgets \subseteq Nat \ {0} /\ Graces \subseteq Nat
  /\ InitTimeout \in Nat \ {0} /\ Step \in Nat /\ Horizon \in Nat

VARIABLES
  now,          \* steady seconds since the run began
  offset,       \* what Date.now() is ahead of that, by steps of the clock
  behind,       \* history: the most it was ever behind
  budget, grace,
  aborted,      \* the AbortSignal of the queue processor
  pc,           \* the await at which the run is
  timer,        \* the second in which the timer of this await fires
  verdict,      \* the result of the run, decided before STOP and at DONE
  stopAt,       \* when the grace ends
  launch,       \* the promise of the launcher
  process,      \* the operating system's process
  completion,   \* the promise of handle.wait()
  stdout,       \* what readScannerIpcFrame makes of the output
  signals       \* the signals that were sent

config == <<budget, grace>>
clock == <<offset, behind>>
scanner == <<process, completion, stdout>>
vars == <<now, clock, config, aborted, pc, timer, verdict, stopAt, launch, scanner, signals>>

Awaits == {"LAUNCH", "READ", "EXIT", "KEY", "STOP", "DONE"}
Failures ==
  {"INVALID_RUNTIME_CONTEXT", "RUN_ABORTED", "RUN_TIMEOUT", "SCANNER_LAUNCH_FAILED",
   "SCANNER_PROCESS_FAILED", "SCANNER_OUTPUT_REJECTED",
   "RESULT_SIGNING_KEY_UNAVAILABLE", "RESULT_SIGNING_FAILED"}

\* The awaits that the deadline and the abort cut short.
Cut == {"LAUNCH", "READ", "EXIT"}
-----------------------------------------------------------------------------
Finish(result) ==
  pc' = "DONE" /\ verdict' = result /\ UNCHANGED <<timer, stopAt, signals>>

FirstSignals == {"TERM"} \cup IF grace = 0 THEN {"KILL"} ELSE {}

\* stopScannerWithEscalation until its wait, and what the run answers after it.
StopScanner(result) ==
  /\ signals' = signals \cup FirstSignals
  /\ pc' = IF grace = 0 THEN "DONE" ELSE "STOP"
  /\ stopAt' = IF grace = 0 THEN 0 ELSE now + grace
  /\ verdict' = result
  /\ UNCHANGED timer

Remaining_whole == budget

\* overallDeadline - Date.now(): what is left of the budget by the wall clock.
Remaining == budget - (now + offset)

\* The run goes on to an await with a timer for what is left, or stops at once if
\* nothing is.
AwaitWithin(await) ==
  IF Remaining <= 0 THEN StopScanner("RUN_TIMEOUT")
  ELSE pc' = await /\ timer' = now + Remaining /\ UNCHANGED <<verdict, stopAt, signals>>

\* The await at hand is given up; before there is a handle there is nothing to stop.
GiveUp(result) ==
  \/ pc = "LAUNCH" /\ Finish(result)
  \/ pc \in {"READ", "EXIT"} /\ StopScanner(result)

Abort ==
  /\ ~aborted /\ aborted' = TRUE
  /\ \/ GiveUp("RUN_ABORTED")
     \/ pc \notin Cut /\ UNCHANGED <<pc, timer, verdict, stopAt, signals>>
  /\ UNCHANGED <<now, clock, config, launch, scanner>>

DeadlineDue == now >= timer

Deadline ==
  /\ DeadlineDue
  /\ GiveUp("RUN_TIMEOUT")
  /\ UNCHANGED <<now, clock, config, aborted, launch, scanner>>
-----------------------------------------------------------------------------
LateSignals_none == {}
LateSignals == {"KILL"}

\* The process is started and has its input: the handle goes to the run, or, when
\* the run gave up the launch, to the callback that kills it.
LaunchReturns ==
  /\ launch = "STARTING" /\ process # "NONE"
  /\ launch' = "HANDED"
  /\ \/ pc = "LAUNCH" /\ AwaitWithin("READ")
     \/ /\ pc = "DONE" /\ signals' = signals \cup LateSignals
        /\ UNCHANGED <<pc, timer, verdict, stopAt>>
  /\ UNCHANGED <<now, clock, config, aborted, scanner>>

\* The start or the input fails or takes too long: the launcher kills its child.
LaunchFails ==
  /\ launch = "STARTING"
  /\ launch' = "FAILED"
  /\ signals' = signals \cup {"KILL"}
  /\ \/ /\ pc = "LAUNCH" /\ pc' = "DONE" /\ verdict' = "SCANNER_LAUNCH_FAILED"
     \/ /\ pc = "DONE" /\ UNCHANGED <<pc, verdict>>
  /\ UNCHANGED <<now, clock, config, aborted, timer, stopAt, scanner>>

\* A scanner that exits as asked may do so with any code.
ScannerExits ==
  /\ process = "RUNNING" /\ process' = "EXITED"
  /\ completion' \in IF completion = "PENDING" THEN {"CLEAN", "UNCLEAN"} ELSE {completion}
  /\ UNCHANGED <<now, clock, config, aborted, pc, timer, verdict, stopAt, launch, stdout, signals>>

\* The output ends after one whole frame, or becomes one the reader rejects.
OutputDecided ==
  /\ process # "NONE" /\ stdout = "OPEN"
  /\ stdout' \in {"FRAME", "REJECTED"}
  /\ UNCHANGED <<now, clock, config, aborted, pc, timer, verdict, stopAt, launch, process, completion, signals>>

\* The handle cannot tell: its wait rejects or answers nonsense.
WaitFails ==
  /\ launch = "HANDED" /\ completion = "PENDING" /\ completion' = "ERROR"
  /\ UNCHANGED <<now, clock, config, aborted, pc, timer, verdict, stopAt, launch, process, stdout, signals>>
-----------------------------------------------------------------------------
\* A chunk of the output that decides nothing: the reader awaits the next one.
ChunkRead ==
  /\ pc = "READ" /\ AwaitWithin("READ")
  /\ UNCHANGED <<now, clock, config, aborted, launch, scanner>>

Read ==
  /\ pc = "READ"
  /\ \/ stdout = "FRAME" /\ AwaitWithin("EXIT")
     \/ stdout = "REJECTED" /\ StopScanner("SCANNER_OUTPUT_REJECTED")
  /\ UNCHANGED <<now, clock, config, aborted, launch, scanner>>

Succeeded_any == completion \in {"CLEAN", "UNCLEAN"}
Succeeded == completion = "CLEAN"

\* After the exit: its code, then the output's canonical form and the clock.
ExitKnown ==
  /\ pc = "EXIT"
  /\ \/ /\ Succeeded
        /\ \/ pc' = "KEY" /\ UNCHANGED <<timer, verdict, stopAt, signals>>
           \/ \E code \in {"SCANNER_OUTPUT_REJECTED", "INVALID_RUNTIME_CONTEXT", "RUN_TIMEOUT"} :
                Finish(code)
     \/ completion = "UNCLEAN" /\ ~Succeeded /\ Finish("SCANNER_PROCESS_FAILED")
     \/ completion = "ERROR" /\ StopScanner("SCANNER_PROCESS_FAILED")
  /\ UNCHANGED <<now, clock, config, aborted, launch, scanner>>

\* The provider of the signing key answers, in its own time.
KeyAnswers ==
  /\ pc = "KEY"
  /\ \E code \in {"OK", "RESULT_SIGNING_KEY_UNAVAILABLE", "RESULT_SIGNING_FAILED"} : Finish(code)
  /\ UNCHANGED <<now, clock, config, aborted, launch, scanner>>

\* The scanner exits within the grace.
StopSettled ==
  /\ pc = "STOP" /\ completion \in {"CLEAN", "UNCLEAN"}
  /\ pc' = "DONE"
  /\ UNCHANGED <<now, clock, config, aborted, timer, verdict, stopAt, launch, scanner, signals>>

GraceOver == now >= stopAt

\* The grace is over, or the handle cannot tell whether the scanner exited.
Escalate ==
  /\ pc = "STOP" /\ (GraceOver \/ completion = "ERROR")
  /\ signals' = signals \cup {"KILL"}
  /\ pc' = "DONE"
  /\ UNCHANGED <<now, clock, config, aborted, timer, verdict, stopAt, launch, scanner>>

TimerDue ==
  \/ pc \in Cut /\ DeadlineDue
  \/ pc = "STOP" /\ GraceOver
  \/ launch = "STARTING" /\ now >= InitTimeout

Tick ==
  /\ ~TimerDue
  /\ now < Horizon /\ now' = now + 1
  /\ UNCHANGED <<clock, config, aborted, pc, timer, verdict, stopAt, launch, scanner, signals>>

\* The wall clock is stepped, either way and as often as it likes.
StepClock ==
  /\ \E o \in -Step..Step :
       offset' = o /\ behind' = IF behind + o < 0 THEN -o ELSE behind
  /\ UNCHANGED <<now, config, aborted, pc, timer, verdict, stopAt, launch, scanner, signals>>

\* The request was authorised, the signal not aborted, and the launcher was called.
Init ==
  /\ now = 0 /\ offset = 0 /\ behind = 0 /\ budget \in Budgets /\ grace \in Graces
  /\ aborted = FALSE /\ pc = "LAUNCH" /\ timer = budget /\ verdict = "NONE" /\ stopAt = 0
  /\ launch = "STARTING" /\ process \in {"NONE", "RUNNING"}
  /\ completion = "PENDING" /\ stdout = "OPEN" /\ signals = {}

Next ==
  \/ Abort \/ Deadline
  \/ LaunchReturns \/ LaunchFails
  \/ ScannerExits \/ OutputDecided \/ WaitFails
  \/ ChunkRead \/ Read \/ ExitKnown \/ KeyAnswers \/ StopSettled \/ Escalate
  \/ Tick \/ StepClock

Spec == Init /\ [][Next]_vars
-----------------------------------------------------------------------------
TypeOK ==
  /\ now \in 0..Horizon /\ budget \in Budgets /\ grace \in Graces
  /\ offset \in -Step..Step /\ behind \in 0..Step /\ timer \in Int
  /\ aborted \in BOOLEAN /\ pc \in Awaits
  /\ verdict \in Failures \cup {"NONE", "OK"} /\ stopAt \in Nat
  /\ launch \in {"STARTING", "HANDED", "FAILED"}
  /\ process \in {"NONE", "RUNNING", "EXITED"}
  /\ completion \in {"PENDING", "CLEAN", "UNCLEAN", "ERROR"}
  /\ stdout \in {"OPEN", "FRAME", "REJECTED"} /\ signals \subseteq {"TERM", "KILL"}
  /\ pc \in {"STOP", "DONE"} <=> verdict # "NONE"

\* A result is signed only for a scanner that wrote one whole frame and exited
\* with code zero by itself: none that was told to stop.
CleanResult ==
  verdict = "OK" =>
    stdout = "FRAME" /\ process = "EXITED" /\ completion = "CLEAN" /\ signals = {}

\* Awaits end when the budget does by the wall clock, so that a clock stepped back
\* prolongs a run by as much as it was ever behind, and by no more.
LastAnswer == budget + behind + grace
LastSignal == IF LastAnswer > InitTimeout THEN LastAnswer ELSE InitTimeout

\* No scanner outlives its run unnoticed: once the budget and the grace are over, or
\* the time a start may take if that is longer, a process still there was killed,
\* even one whose launch ended after the run did, and however the clock was stepped.
ScannerStoppedInTime ==
  process = "RUNNING" /\ now > LastSignal => "KILL" \in signals

\* The run answers its caller within budget and grace, and what the clock was stepped
\* back, whatever the scanner and the launcher do and in however many chunks the
\* output comes; only the provider of the signing key may hold it longer.
ReturnsInTime == now > LastAnswer => pc \in {"KEY", "DONE"}
=============================================================================
