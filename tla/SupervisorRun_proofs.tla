------------------------ MODULE SupervisorRun_proofs ------------------------
(***************************************************************************)
(* Proofs that a run of the scanner ends in time and leaves no scanner     *)
(* behind, for every set of budgets and graces, every time a start may     *)
(* take, every scanner and every step of the clock; and that the reader of *)
(* its output judges the bytes and not their chunks, for every size of     *)
(* header, payload and stream.                                             *)
(***************************************************************************)
EXTENDS SupervisorRun, ScannerIpcRead, TLAPS

\* The awaits follow the launch: the run has a handle in all but the first and
\* waits for the launcher only in the first.
HandleHeld ==
  /\ pc \in {"READ", "EXIT", "KEY", "STOP"} \/ verdict = "OK" => launch = "HANDED"
  /\ pc = "LAUNCH" => launch = "STARTING"

\* An exit that was reported happened.
ExitTrue == completion \in {"CLEAN", "UNCLEAN"} => process = "EXITED"

\* No timer is overdue, and none was set for later than the clock was ever behind.
TimersKept ==
  /\ 0 <= behind + offset
  /\ pc \in Cut => now <= timer /\ timer <= budget + behind
  /\ pc = "STOP" => now <= stopAt /\ stopAt <= LastAnswer
  /\ launch = "STARTING" => now <= InitTimeout

\* The way to a signed result, step by step.
Unstopped ==
  /\ pc \in Cut \cup {"KEY"} => signals = {}
  /\ pc \in {"EXIT", "KEY"} => stdout = "FRAME"
  /\ pc = "KEY" => completion = "CLEAN"
  /\ verdict = "OK" => pc = "DONE"

\* A run that answered left no scanner unless it was killed, or its start is not over.
NoneForgotten ==
  pc = "DONE" /\ process = "RUNNING" => "KILL" \in signals \/ launch = "STARTING"

\* The inductive invariant.
IInv ==
  /\ TypeOK /\ CleanResult
  /\ HandleHeld /\ ExitTrue /\ TimersKept /\ Unstopped /\ NoneForgotten

-----------------------------------------------------------------------------
LEMMA InitIInv == Init => IInv
<1> SUFFICES ASSUME Init PROVE IInv
  OBVIOUS
<1>1. budget \in Nat /\ budget > 0
  BY SupervisorAssumption DEF Init
<1>2. now \in 0..Horizon /\ stopAt \in Nat
  BY SupervisorAssumption DEF Init
<1>3. aborted \in BOOLEAN
  BY DEF Init
<1>4. offset \in -Step..Step /\ behind \in 0..Step /\ timer \in Int
  BY <1>1, SupervisorAssumption DEF Init
<1>5. TypeOK
  BY <1>2, <1>3, <1>4 DEF Init, TypeOK, Awaits, Failures
<1>6. TimersKept
  BY <1>1, SupervisorAssumption DEF Init, TimersKept
<1> QED
  BY <1>5, <1>6
  DEF Init, IInv, CleanResult, HandleHeld, ExitTrue, Unstopped, NoneForgotten, Cut

LEMMA Seconds ==
  ASSUME IInv
  PROVE  /\ now \in Nat /\ budget \in Nat /\ grace \in Nat /\ stopAt \in Nat
         /\ offset \in Int /\ behind \in Nat /\ timer \in Int
         /\ LastAnswer \in Nat /\ budget + behind <= LastAnswer
<1>1. /\ now \in 0..Horizon /\ offset \in -Step..Step /\ behind \in 0..Step
      /\ budget \in Nat /\ grace \in Nat /\ stopAt \in Nat /\ timer \in Int
  BY SupervisorAssumption DEF IInv, TypeOK
<1> QED
  BY <1>1, SupervisorAssumption DEF LastAnswer

\* Stopping a scanner sends TERM, and KILL when there is no grace.
LEMMA StopKeeps ==
  ASSUME IInv, NEW result \in Failures, pc \in Cut, StopScanner(result),
         launch' = "HANDED", UNCHANGED <<now, clock, config, scanner>>, aborted' \in BOOLEAN
  PROVE  IInv'
<1>1. TimersKept'
  <2>1. now <= timer /\ timer <= budget + behind /\ 0 <= behind + offset
    BY DEF IInv, TimersKept
  <2>2. pc' \in {"STOP", "DONE"} /\ launch' # "STARTING" /\ (pc' = "STOP" => stopAt' = now + grace)
    BY DEF StopScanner
  <2>3. UNCHANGED <<now, offset, behind, budget, grace, LastAnswer>>
    BY DEF clock, config, LastAnswer
  <2>4. now + grace <= LastAnswer
    BY <2>1, Seconds DEF LastAnswer
  <2> QED
    BY <2>1, <2>2, <2>3, <2>4, Seconds DEF TimersKept, Cut
<1>2. TypeOK'
  <2>1. stopAt' \in Nat
    BY Seconds DEF StopScanner
  <2> QED
    BY <2>1 DEF IInv, TypeOK, StopScanner, FirstSignals, Awaits, Failures, config, clock, scanner
<1> QED
  BY <1>1, <1>2
  DEF IInv, CleanResult, HandleHeld, ExitTrue, Unstopped, NoneForgotten, Failures, Cut,
      StopScanner, FirstSignals, scanner

\* Giving up an await stops the scanner, unless there is no handle yet.
LEMMA GiveUpKeeps ==
  ASSUME IInv, NEW result \in Failures, GiveUp(result),
         UNCHANGED <<now, clock, config, launch, scanner>>, aborted' \in BOOLEAN
  PROVE  IInv'
<1>1. CASE pc = "LAUNCH" /\ Finish(result)
  <2>1. UNCHANGED <<timer, stopAt, launch>> /\ pc' = "DONE"
    BY <1>1 DEF Finish
  <2>2. TimersKept'
    BY <2>1 DEF IInv, TimersKept, LastAnswer, Cut, config, clock
  <2> QED
    BY <1>1, <2>1, <2>2
    DEF IInv, TypeOK, CleanResult, HandleHeld, ExitTrue, Unstopped, NoneForgotten,
        Awaits, Failures, Cut, Finish, config, clock, scanner
<1>2. CASE pc \in {"READ", "EXIT"} /\ StopScanner(result)
  <2>1. launch' = "HANDED" /\ pc \in Cut
    BY <1>2 DEF IInv, HandleHeld, Cut
  <2> QED
    BY <1>2, <2>1, StopKeeps
<1> QED
  BY <1>1, <1>2 DEF GiveUp

\* An await has a timer for what is left by the wall clock, and is not begun when
\* nothing is.
LEMMA AwaitKeeps ==
  ASSUME IInv, NEW await \in {"READ", "EXIT"}, pc \in {"LAUNCH", "READ"}, AwaitWithin(await),
         await = "EXIT" => stdout = "FRAME",
         launch' = "HANDED", UNCHANGED <<now, clock, config, aborted, scanner>>
  PROVE  IInv'
<1>1. aborted' \in BOOLEAN /\ pc \in Cut
  BY DEF IInv, TypeOK, Cut
<1>2. CASE Remaining <= 0
  BY <1>1, <1>2, StopKeeps DEF AwaitWithin, Failures
<1>3. CASE ~(Remaining <= 0)
  <2>1. /\ pc' = await /\ timer' = now + Remaining
        /\ UNCHANGED <<verdict, stopAt, signals, now, offset, behind, budget, grace>>
    BY <1>3 DEF AwaitWithin, clock, config
  <2>2. now < timer' /\ timer' = budget - offset /\ timer' \in Int
    BY <1>3, <2>1, Seconds DEF Remaining
  <2>3. TimersKept'
    <3>1. 0 <= behind + offset
      BY DEF IInv, TimersKept
    <3>2. now' <= timer' /\ timer' <= budget' + behind' /\ 0 <= behind' + offset'
      BY <2>1, <2>2, <3>1, Seconds
    <3> QED
      BY <2>1, <3>2 DEF TimersKept
  <2>4. TypeOK'
    BY <2>1, <2>2 DEF IInv, TypeOK, Awaits, Cut, config, clock, scanner
  <2> QED
    BY <2>1, <2>3, <2>4
    DEF IInv, CleanResult, HandleHeld, ExitTrue, Unstopped, NoneForgotten, Cut, scanner
<1> QED
  BY <1>2, <1>3

\* A step that leaves times, timers and the run's await alone keeps the timers.
LEMMA TimersRest ==
  ASSUME IInv, UNCHANGED <<now, clock, config, timer, stopAt>>,
         pc' = pc \/ pc' \notin Cut \cup {"STOP"} , launch' # "STARTING" \/ launch' = launch
  PROVE  TimersKept'
BY DEF IInv, TimersKept, LastAnswer, clock, config

LEMMA LaunchKeeps ==
  ASSUME IInv, LaunchReturns \/ LaunchFails
  PROVE  IInv'
<1>1. CASE LaunchReturns
  <2>1. CASE pc = "LAUNCH" /\ AwaitWithin("READ")
    BY <1>1, <2>1, AwaitKeeps DEF LaunchReturns
  <2>2. CASE pc = "DONE" /\ signals' = signals \cup LateSignals /\ UNCHANGED <<pc, timer, verdict, stopAt>>
    <3>1. TimersKept'
      BY <1>1, <2>2, TimersRest DEF LaunchReturns
    <3> QED
      BY <1>1, <2>2, <3>1
      DEF IInv, TypeOK, CleanResult, HandleHeld, ExitTrue, Unstopped, NoneForgotten,
          Awaits, Failures, Cut, LaunchReturns, LateSignals, config, clock, scanner
  <2> QED
    BY <1>1, <2>1, <2>2 DEF LaunchReturns
<1>2. CASE LaunchFails
  <2>1. TimersKept'
    BY <1>2, TimersRest DEF LaunchFails, Cut
  <2> QED
    BY <1>2, <2>1
    DEF IInv, TypeOK, CleanResult, HandleHeld, ExitTrue, Unstopped, NoneForgotten,
        Awaits, Failures, Cut, LaunchFails, config, clock, scanner
<1> QED
  BY <1>1, <1>2

LEMMA ScannerKeeps ==
  ASSUME IInv, ScannerExits \/ OutputDecided \/ WaitFails
  PROVE  IInv'
<1>1. TimersKept'
  BY TimersRest DEF ScannerExits, OutputDecided, WaitFails
<1>2. CASE ScannerExits
  BY <1>1, <1>2
  DEF IInv, TypeOK, CleanResult, HandleHeld, ExitTrue, Unstopped,
      NoneForgotten, Cut, ScannerExits, config, clock
<1>3. CASE OutputDecided
  BY <1>1, <1>3
  DEF IInv, TypeOK, CleanResult, HandleHeld, ExitTrue, Unstopped,
      NoneForgotten, Cut, OutputDecided, config, clock
<1>4. CASE WaitFails
  BY <1>1, <1>4
  DEF IInv, TypeOK, CleanResult, HandleHeld, ExitTrue, Unstopped,
      NoneForgotten, Cut, WaitFails, config, clock
<1> QED
  BY <1>2, <1>3, <1>4

LEMMA RunKeeps ==
  ASSUME IInv, ChunkRead \/ Read \/ ExitKnown \/ KeyAnswers \/ StopSettled \/ Escalate
  PROVE  IInv'
<1> USE DEF Awaits, Failures, Cut, config, clock, scanner
<1>1. pc \in {"READ", "EXIT"} => launch = "HANDED"
  BY DEF IInv, HandleHeld
<1>2. aborted \in BOOLEAN
  BY DEF IInv, TypeOK
<1>3. CASE ChunkRead
  BY <1>1, <1>3, AwaitKeeps DEF ChunkRead
<1>4. CASE Read
  BY <1>1, <1>2, <1>4, AwaitKeeps, StopKeeps DEF Read
<1>5. CASE ExitKnown
  <2>1. CASE Succeeded /\ pc' = "KEY" /\ UNCHANGED <<timer, verdict, stopAt, signals>>
    <3>1. TimersKept'
      BY <1>5, <2>1, TimersRest DEF ExitKnown
    <3> QED
      BY <1>5, <2>1, <3>1
      DEF ExitKnown, Succeeded, IInv, TypeOK, CleanResult, HandleHeld, ExitTrue,
          Unstopped, NoneForgotten
  <2>2. ASSUME NEW code \in Failures, completion \in {"CLEAN", "UNCLEAN"}, Finish(code)
        PROVE  IInv'
    <3>1. TimersKept'
      BY <1>5, <2>2, TimersRest DEF ExitKnown, Finish
    <3> QED
      BY <1>5, <2>2, <3>1
      DEF ExitKnown, Finish, IInv, TypeOK, CleanResult, HandleHeld, ExitTrue,
          Unstopped, NoneForgotten
  <2>3. CASE completion = "ERROR" /\ StopScanner("SCANNER_PROCESS_FAILED")
    BY <1>1, <1>2, <1>5, <2>3, StopKeeps DEF ExitKnown
  <2> QED
    BY <1>5, <2>1, <2>2, <2>3 DEF ExitKnown, Succeeded
<1>6. CASE KeyAnswers
  <2>1. TimersKept'
    BY <1>6, TimersRest DEF KeyAnswers, Finish
  <2> QED
    BY <1>6, <2>1
    DEF KeyAnswers, Finish, IInv, TypeOK, CleanResult, HandleHeld, ExitTrue,
        Unstopped, NoneForgotten
<1>7. CASE StopSettled
  <2>1. TimersKept'
    BY <1>7, TimersRest DEF StopSettled
  <2> QED
    BY <1>7, <2>1
    DEF StopSettled, IInv, TypeOK, CleanResult, HandleHeld, ExitTrue,
        Unstopped, NoneForgotten
<1>8. CASE Escalate
  <2>1. TimersKept'
    BY <1>8, TimersRest DEF Escalate
  <2> QED
    BY <1>8, <2>1
    DEF Escalate, IInv, TypeOK, CleanResult, HandleHeld, ExitTrue,
        Unstopped, NoneForgotten
<1> QED
  BY <1>3, <1>4, <1>5, <1>6, <1>7, <1>8

\* Time passes only while no timer is due.
LEMMA TickKeeps ==
  ASSUME IInv, Tick
  PROVE  IInv'
<1>1. now \in Nat /\ now' = now + 1 /\ now' \in 0..Horizon
  BY SupervisorAssumption DEF IInv, TypeOK, Tick
<1>2. TimersKept'
  <2>1. UNCHANGED <<offset, behind, budget, grace, pc, timer, stopAt, launch>>
        /\ LastAnswer' = LastAnswer
    BY DEF Tick, clock, config, LastAnswer
  <2>2. /\ pc \in Cut => now < timer
        /\ pc = "STOP" => now < stopAt
        /\ launch = "STARTING" => now < InitTimeout
    BY <1>1, Seconds, SupervisorAssumption DEF Tick, TimerDue, DeadlineDue, GraceOver
  <2> QED
    BY <1>1, <2>1, <2>2, Seconds, SupervisorAssumption DEF IInv, TimersKept
<1> QED
  BY <1>1, <1>2
  DEF IInv, TypeOK, CleanResult, HandleHeld, ExitTrue, Unstopped, NoneForgotten,
      Tick, config, clock, scanner

\* A step of the clock leaves the timers that are set as they are.
LEMMA StepKeeps ==
  ASSUME IInv, StepClock
  PROVE  IInv'
<1>1. UNCHANGED <<now, budget, grace, pc, timer, stopAt, launch>>
  BY DEF StepClock, config
<1>2. PICK o \in -Step..Step : offset' = o /\ behind' = IF behind + o < 0 THEN -o ELSE behind
  BY DEF StepClock
<1>3. behind \in 0..Step /\ Step \in Nat /\ o \in Int /\ -Step <= o
  BY <1>2, SupervisorAssumption DEF IInv, TypeOK
<1>4. /\ offset' \in -Step..Step /\ behind' \in 0..Step
      /\ 0 <= behind' + offset' /\ behind <= behind'
  BY <1>2, <1>3
<1>5. TimersKept'
  <2>1. LastAnswer <= LastAnswer' /\ LastAnswer' \in Int /\ budget + behind <= budget' + behind'
    BY <1>1, <1>4, Seconds, SupervisorAssumption DEF LastAnswer
  <2>2. (pc \in Cut => now <= timer /\ timer <= budget + behind)
        /\ (pc = "STOP" => now <= stopAt /\ stopAt <= LastAnswer)
        /\ (launch = "STARTING" => now <= InitTimeout)
    BY DEF IInv, TimersKept
  <2>3. pc \in Cut => timer <= budget' + behind'
    BY <1>1, <1>4, <2>1, <2>2, Seconds, SupervisorAssumption
  <2>4. pc = "STOP" => stopAt <= LastAnswer'
    BY <2>1, <2>2, Seconds
  <2> QED
    BY <1>1, <1>4, <2>2, <2>3, <2>4 DEF TimersKept
<1> QED
  BY <1>1, <1>2, <1>4, <1>5
  DEF IInv, TypeOK, CleanResult, HandleHeld, ExitTrue, Unstopped, NoneForgotten,
      StepClock, config, scanner

LEMMA NextIInv == IInv /\ [Next]_vars => IInv'
<1> SUFFICES ASSUME IInv, [Next]_vars PROVE IInv'
  OBVIOUS
<1>1. CASE Abort
  <2>1. CASE GiveUp("RUN_ABORTED")
    BY <1>1, <2>1, GiveUpKeeps DEF Abort, Failures
  <2>2. CASE pc \notin Cut /\ UNCHANGED <<pc, timer, verdict, stopAt, signals>>
    <3>1. TimersKept'
      BY <1>1, <2>2, TimersRest DEF Abort
    <3> QED
      BY <1>1, <2>2, <3>1
      DEF Abort, IInv, TypeOK, CleanResult, HandleHeld, ExitTrue, Unstopped,
          NoneForgotten, Cut, config, clock, scanner
  <2> QED
    BY <1>1, <2>1, <2>2 DEF Abort
<1>2. CASE Deadline
  <2>1. aborted' \in BOOLEAN
    BY <1>2 DEF Deadline, IInv, TypeOK
  <2> QED
    BY <1>2, <2>1, GiveUpKeeps DEF Deadline, Failures
<1>3. CASE UNCHANGED vars
  BY <1>3
  DEF vars, IInv, TypeOK, CleanResult, HandleHeld, ExitTrue, TimersKept, LastAnswer,
      Unstopped, NoneForgotten, Cut, config, clock, scanner
<1> QED
  BY <1>1, <1>2, <1>3, LaunchKeeps, ScannerKeeps, RunKeeps, TickKeeps, StepKeeps DEF Next

\* Past the last answer no await is left that a timer ends.
LEMMA AllAnswered ==
  ASSUME IInv, now > LastAnswer
  PROVE  pc \notin Cut /\ pc # "STOP"
BY Seconds DEF IInv, TimersKept

\* IInv holds of every reachable state of a run.
THEOREM RunInvariant == Spec => []IInv
BY InitIInv, NextIInv, PTL DEF Spec

\* The variables of a run stay well typed.
THEOREM RunTyped == Spec => []TypeOK
<1>1. IInv => TypeOK
  BY DEF IInv
<1> QED
  BY <1>1, RunInvariant, PTL

\* Only the result of a scanner that ended well by itself is signed.
THEOREM ResultsAreClean == Spec => []CleanResult
<1>1. IInv => CleanResult
  BY DEF IInv
<1> QED
  BY <1>1, RunInvariant, PTL

\* The run answers within budget and grace, prolonged by what its clock was ever behind.
THEOREM RunReturnsInTime == Spec => []ReturnsInTime
<1>1. IInv => ReturnsInTime
  <2> SUFFICES ASSUME IInv, now > LastAnswer PROVE pc \in {"KEY", "DONE"}
    BY DEF ReturnsInTime
  <2>1. pc \notin Cut /\ pc # "STOP"
    BY AllAnswered
  <2> QED
    BY <2>1 DEF IInv, TypeOK, Awaits, Cut
<1> QED
  BY <1>1, RunInvariant, PTL

\* No scanner is left running unless it was killed, however the clock was stepped.
THEOREM NoScannerLeft == Spec => []ScannerStoppedInTime
<1>1. IInv => ScannerStoppedInTime
  <2> SUFFICES ASSUME IInv, process = "RUNNING", now > LastSignal PROVE "KILL" \in signals
    BY DEF ScannerStoppedInTime
  <2>1. now > LastAnswer /\ now > InitTimeout
    BY Seconds, SupervisorAssumption DEF LastSignal
  <2>2. launch # "STARTING"
    BY <2>1, Seconds, SupervisorAssumption DEF IInv, TimersKept
  <2>3. pc \notin Cut /\ pc # "STOP"
    BY <2>1, AllAnswered
  <2>4. pc # "KEY"
    BY DEF IInv, Unstopped, ExitTrue
  <2>5. pc = "DONE"
    BY <2>3, <2>4 DEF IInv, TypeOK, Awaits, Cut
  <2> QED
    BY <2>2, <2>5 DEF IInv, NoneForgotten
<1> QED
  BY <1>1, RunInvariant, PTL
-----------------------------------------------------------------------------
(***************************************************************************)
(* The reader of the scanner's output.                                     *)
(***************************************************************************)
\* While the reader goes on, its offsets are where the stream is.
Positions ==
  /\ judgement = "NONE" => chunks <= MaxChunks
  /\ headerOffset = Least(sent, HeaderBytes)
  /\ judgement = "NONE" /\ sent < HeaderBytes => length = 0 /\ payloadOffset = 0
  /\ judgement = "NONE" /\ sent >= HeaderBytes =>
       /\ HeaderVerdict = "NONE" /\ length = stream.declared
       /\ payloadOffset = sent - HeaderBytes

\* The buffer holds the payload's bytes in their order.
Filling == payload = [i \in 1..payloadOffset |-> HeaderBytes + i]

\* The inductive invariant.
ReadIInv == ReadTypeOK /\ Positions /\ Filling /\ ReadsTheStream
-----------------------------------------------------------------------------
\* The numbers of a state.
LEMMA Numbers ==
  ASSUME ReadTypeOK
  PROVE  /\ HeaderBytes \in Nat /\ HeaderBytes > 0 /\ MaxPayload \in Nat /\ MaxChunks \in Nat
         /\ stream.size \in Nat /\ stream.declared \in Nat
         /\ sent \in Nat /\ sent <= stream.size
         /\ headerOffset \in Nat /\ headerOffset <= HeaderBytes
         /\ length \in Nat /\ length <= MaxPayload
         /\ payloadOffset \in Nat /\ payloadOffset <= length
         /\ chunks \in Nat
<1>1. stream.size \in 0..MaxStream /\ stream.declared \in Lengths
  BY DEF ReadTypeOK, Streams
<1>2. stream.size \in Nat /\ stream.declared \in Nat
  <2>1. Lengths \subseteq Nat /\ MaxStream \in Nat
    BY IpcAssumption
  <2>2. stream.declared \in Nat
    BY <1>1, <2>1
  <2>3. stream.size \in Nat
    BY <1>1, <2>1
  <2> QED
    BY <2>2, <2>3
<1>3. /\ sent \in 0..stream.size /\ headerOffset \in 0..HeaderBytes
      /\ length \in 0..MaxPayload /\ payloadOffset \in 0..length
      /\ chunks \in 0..(MaxChunks + 1)
  BY DEF ReadTypeOK
<1>4. HeaderBytes \in Nat \ {0} /\ MaxPayload \in Nat /\ MaxChunks \in Nat
  BY IpcAssumption
<1>5. sent \in Nat /\ headerOffset \in Nat /\ length \in Nat /\ chunks \in Nat
  BY <1>2, <1>3, <1>4
<1> QED
  BY <1>2, <1>3, <1>4, <1>5

LEMMA InitReadIInv == ReadInit => ReadIInv
<1> SUFFICES ASSUME ReadInit PROVE ReadIInv
  OBVIOUS
<1>1. stream \in Streams /\ stream.size \in Nat
  BY IpcAssumption DEF ReadInit, Streams
<1>2. payload = [i \in 1..payloadOffset |-> HeaderBytes + i] /\ payload \in [1..payloadOffset -> 1..stream.size]
  BY DEF ReadInit
<1>3. ReadTypeOK
  BY <1>1, <1>2, IpcAssumption DEF ReadInit, ReadTypeOK, Judgements
<1>4. Positions
  BY IpcAssumption DEF ReadInit, Positions, Least
<1> QED
  BY <1>2, <1>3, <1>4 DEF ReadInit, ReadIInv, Filling, ReadsTheStream, Decided

\* What a chunk does to the offsets, in one place.
LEMMA ChunkOffsets ==
  ASSUME ReadIInv, judgement = "NONE", NEW n \in 0..(stream.size - sent)
  PROVE  /\ n \in Nat /\ sent + n \in 0..stream.size
         /\ headerOffset + HeaderOf(n) = Least(sent + n, HeaderBytes)
         /\ HeaderRefused(n) => sent + n >= HeaderBytes /\ HeaderVerdict # "NONE"
         /\ ~HeaderRefused(n) =>
              /\ sent + n < HeaderBytes =>
                   /\ LengthAfter(n) = 0 /\ PayloadOf(n) = 0 /\ payloadOffset = 0
                   /\ HeaderOf(n) = n
              /\ sent + n >= HeaderBytes =>
                   /\ HeaderVerdict = "NONE" /\ LengthAfter(n) = stream.declared
                   /\ payloadOffset + PayloadOf(n) = Least(stream.declared, sent + n - HeaderBytes)
                   /\ Trailing(n) <=> sent + n > HeaderBytes + stream.declared
              /\ PayloadOf(n) \in Nat
              /\ PayloadOf(n) > 0 => sent + HeaderOf(n) - payloadOffset = HeaderBytes
<1>1. ReadTypeOK /\ Positions
  BY DEF ReadIInv
<1>2. CASE sent < HeaderBytes
  <2>1. headerOffset = sent /\ length = 0 /\ payloadOffset = 0
    BY <1>1, <1>2, Numbers DEF Positions, Least
  <2>2. CASE sent + n < HeaderBytes
    BY <1>1, <1>2, <2>1, <2>2, Numbers
    DEF HeaderOf, HeaderRefused, LengthAfter, PayloadOf, Trailing, Least
  <2>3. CASE sent + n >= HeaderBytes
    BY <1>1, <1>2, <2>1, <2>3, Numbers
    DEF HeaderOf, HeaderRefused, LengthAfter, PayloadOf, Trailing, Least
  <2> QED
    BY <1>1, <2>2, <2>3, Numbers
<1>3. CASE sent >= HeaderBytes
  <2>1. /\ headerOffset = HeaderBytes /\ length = stream.declared
        /\ payloadOffset = sent - HeaderBytes /\ HeaderVerdict = "NONE"
    BY <1>1, <1>3, Numbers DEF Positions, Least
  <2> QED
    BY <1>1, <1>3, <2>1, Numbers
    DEF HeaderOf, HeaderRefused, LengthAfter, PayloadOf, Trailing, Least
<1> QED
  BY <1>1, <1>2, <1>3, Numbers

\* The judgement of a header agrees with that of the stream it begins.
LEMMA HeaderDeserved ==
  ASSUME ReadTypeOK, sent >= HeaderBytes \/ stream.size >= HeaderBytes
  PROVE  /\ HeaderVerdict # "NONE" => HeaderVerdict = Deserved
         /\ HeaderVerdict # "NONE" => HeaderVerdict \in {"INVALID_FRAME", "OUTPUT_TOO_LARGE"}
         /\ HeaderVerdict = "NONE" =>
              /\ stream.declared \in 1..MaxPayload /\ stream.magic
              /\ Deserved = IF stream.size # HeaderBytes + stream.declared
                            THEN "INVALID_FRAME" ELSE "OK"
<1>1. stream.size >= HeaderBytes /\ stream.magic \in BOOLEAN
  BY Numbers DEF ReadTypeOK, Streams
<1> QED
  BY <1>1, Numbers DEF HeaderVerdict, Deserved

LEMMA ChunkKeeps ==
  ASSUME ReadIInv, judgement = "NONE", NEW n \in 0..(stream.size - sent), Chunk(n)
  PROVE  ReadIInv'
<1>1. ReadTypeOK /\ Filling /\ Positions
  BY DEF ReadIInv
<1>2. stream' = stream /\ HeaderVerdict' = HeaderVerdict /\ Deserved' = Deserved
  BY DEF Chunk, HeaderVerdict, Deserved
<1>3. CASE HeaderRefused(n) /\ judgement' = HeaderVerdict /\ UNCHANGED <<length, payload, payloadOffset>>
  <2>1. HeaderVerdict = Deserved /\ judgement' \in {"INVALID_FRAME", "OUTPUT_TOO_LARGE"}
    BY <1>1, <1>3, ChunkOffsets, Numbers, HeaderDeserved
  <2>2. headerOffset' = Least(sent', HeaderBytes) /\ sent' \in 0..stream.size
    BY <1>3, ChunkOffsets DEF Chunk
  <2>3. ReadTypeOK'
    <3>1. chunks' \in 0..(MaxChunks + 1) /\ judgement' \in Judgements
      BY <1>1, <2>1, IpcAssumption DEF ReadTypeOK, Chunk, Judgements, Decided
    <3>2. sent' \in Nat
      BY <2>2, Numbers, <1>1 DEF ReadTypeOK, Streams
    <3>3. headerOffset' \in 0..HeaderBytes
      BY <2>2, <3>2, IpcAssumption DEF Least
    <3> QED BY <1>1, <1>2, <1>3, <2>2, <3>1, <3>3 DEF ReadTypeOK
  <2>4. Positions' /\ Filling'
    BY <1>1, <1>3, <2>1, <2>2 DEF Positions, Filling
  <2> QED
    BY <1>2, <1>3, <2>1, <2>3, <2>4 DEF ReadIInv, ReadsTheStream, Decided
<1>4. CASE /\ ~HeaderRefused(n) /\ length' = LengthAfter(n) /\ payload' = Filled(n)
           /\ payloadOffset' = payloadOffset + PayloadOf(n)
           /\ judgement' = IF Trailing(n) THEN "INVALID_FRAME" ELSE "NONE"
  <2>1. headerOffset' = Least(sent', HeaderBytes) /\ sent' = sent + n /\ sent' \in 0..stream.size
    BY <1>4, ChunkOffsets DEF Chunk
  <2>2. CASE sent + n < HeaderBytes
    <3>1. length' = 0 /\ payloadOffset' = 0 /\ judgement' = "NONE"
      BY <1>1, <1>4, <2>2, ChunkOffsets, Numbers DEF Trailing
    <3>2. payload' = [i \in 1..payloadOffset' |-> HeaderBytes + i]
      BY <1>4, <3>1 DEF Filled
    <3>3. payload' \in [1..payloadOffset' -> 1..stream.size]
      BY <3>1, <3>2
    <3>4. ReadTypeOK'
      <4>1. headerOffset' \in 0..HeaderBytes
        BY <1>1, <2>1, <2>2, Numbers DEF Least
      <4>2. chunks' \in 0..(MaxChunks + 1) /\ judgement' \in Judgements
        BY <1>1, <3>1, IpcAssumption DEF ReadTypeOK, Chunk, Judgements
      <4>3. length' \in 0..MaxPayload /\ payloadOffset' \in 0..length'
        BY <3>1, IpcAssumption
      <4> QED BY <1>1, <1>2, <2>1, <3>3, <4>1, <4>2, <4>3 DEF ReadTypeOK
    <3> QED
      BY <1>1, <2>1, <2>2, <3>1, <3>2, <3>4, Numbers
      DEF ReadIInv, Positions, Filling, ReadsTheStream, Decided, Chunk
  <2>3. CASE sent + n >= HeaderBytes
    <3>1. /\ HeaderVerdict = "NONE" /\ length' = stream.declared
          /\ payloadOffset' = Least(stream.declared, sent + n - HeaderBytes)
          /\ Trailing(n) <=> sent + n > HeaderBytes + stream.declared
      BY <1>4, <2>3, ChunkOffsets
    <3>2. stream.declared \in 1..MaxPayload
      BY <1>1, <2>1, <2>3, <3>1, HeaderDeserved, Numbers
    <3>3. payload' = [i \in 1..payloadOffset' |-> HeaderBytes + i]
      <4>1. \A i \in 1..(payloadOffset + PayloadOf(n)) :
              (IF i <= payloadOffset THEN payload[i] ELSE sent + HeaderOf(n) + i - payloadOffset)
                = HeaderBytes + i
        <5> TAKE i \in 1..(payloadOffset + PayloadOf(n))
        <5>1. PayloadOf(n) \in Nat /\ payloadOffset \in Nat /\ sent \in Nat /\ HeaderBytes \in Nat
          BY <1>1, <1>4, ChunkOffsets, Numbers
        <5>2. CASE i <= payloadOffset
          BY <1>1, <5>1, <5>2 DEF Filling
        <5>3. CASE i > payloadOffset
          <6>1. PayloadOf(n) > 0
            BY <5>1, <5>3
          <6>2. sent + HeaderOf(n) - payloadOffset = HeaderBytes
            BY <1>4, <6>1, ChunkOffsets
          <6>3. HeaderOf(n) \in Int
            BY <1>1, Numbers DEF HeaderOf, Least
          <6> QED
            BY <5>1, <5>3, <6>2, <6>3
        <5> QED
          BY <5>1, <5>2, <5>3
      <4> QED
        BY <1>4, <4>1 DEF Filled
    <3>4. payloadOffset' \in 0..length'
      BY <1>1, <2>3, <3>1, <3>2, Numbers DEF Least
    <3>5. payload' \in [1..payloadOffset' -> 1..stream.size]
      <4>1. \A i \in 1..payloadOffset' : HeaderBytes + i \in 1..stream.size
        BY <1>1, <2>1, <2>3, <3>1, <3>2, Numbers DEF Least
      <4> QED
        BY <3>3, <4>1
    <3>6. ReadTypeOK'
      <4>1. headerOffset' \in 0..HeaderBytes
        BY <1>1, <2>1, <2>3, Numbers DEF Least
      <4>2. chunks' \in 0..(MaxChunks + 1) /\ judgement' \in Judgements
        BY <1>1, <1>4, Numbers DEF Chunk, Judgements, Decided
      <4>3. length' \in 0..MaxPayload
        BY <3>1, <3>2, Numbers
      <4> QED
        BY <1>1, <1>2, <2>1, <3>4, <3>5, <4>1, <4>2, <4>3 DEF ReadTypeOK
    <3>7. judgement' = "INVALID_FRAME" => Deserved = "INVALID_FRAME"
      BY <1>1, <1>4, <2>1, <2>3, <3>1, HeaderDeserved, Numbers
    <3>8. Positions'
      BY <1>1, <1>2, <1>4, <2>1, <2>3, <3>1, <3>2, Numbers DEF Positions, Chunk, Least
    <3> QED
      BY <1>2, <1>4, <3>3, <3>6, <3>7, <3>8 DEF ReadIInv, Filling, ReadsTheStream, Decided
  <2> QED
    BY <1>1, <2>2, <2>3, Numbers
<1> QED
  BY <1>3, <1>4 DEF Chunk

LEMMA DoneKeeps ==
  ASSUME ReadIInv, judgement = "NONE", Done
  PROVE  ReadIInv'
<1>1. ReadTypeOK /\ Filling /\ Positions
  BY DEF ReadIInv
<1>2. UNCHANGED <<stream, sent, headerOffset, length, payload, payloadOffset, chunks>>
  BY DEF Done
<1>3. /\ judgement' \in Decided /\ judgement' = Deserved
      /\ judgement' = "OK" => payloadOffset = stream.declared
  <2>1. CASE sent < HeaderBytes
    BY <1>1, <2>1 DEF Done, Positions, Complete, Deserved, Decided
  <2>2. CASE sent >= HeaderBytes
    <3>1. /\ HeaderVerdict = "NONE" /\ length = stream.declared
          /\ payloadOffset = stream.size - HeaderBytes
      BY <1>1, <2>2 DEF Positions, Done
    <3>2. stream.declared \in 1..MaxPayload
          /\ Deserved = IF stream.size # HeaderBytes + stream.declared
                        THEN "INVALID_FRAME" ELSE "OK"
      BY <1>1, <2>2, <3>1, HeaderDeserved
    <3> QED
      BY <1>1, <3>1, <3>2, Numbers DEF Done, Complete, Decided
  <2> QED
    BY <1>1, <2>1, <2>2, Numbers
<1>4. ReadTypeOK'
  BY <1>1, <1>2, <1>3 DEF ReadTypeOK, Judgements
<1>5. Positions' /\ Filling'
  BY <1>1, <1>2, <1>3 DEF Positions, Filling, Decided
<1>6. Deserved' = Deserved
  BY <1>2 DEF Deserved
<1> QED
  BY <1>1, <1>2, <1>3, <1>4, <1>5, <1>6 DEF ReadIInv, Filling, ReadsTheStream

LEMMA OtherKeeps ==
  ASSUME ReadIInv, (judgement = "NONE" /\ (TooFragmented \/ Interrupted)) \/ UNCHANGED readVars
  PROVE  ReadIInv'
<1>1. UNCHANGED <<stream, sent, headerOffset, length, payload, payloadOffset>>
  BY DEF TooFragmented, Interrupted, readVars
<1>2. Deserved' = Deserved /\ HeaderVerdict' = HeaderVerdict
  BY <1>1 DEF Deserved, HeaderVerdict
<1>3. /\ judgement' \in Judgements
      /\ \/ judgement' = judgement /\ chunks' = chunks
         \/ judgement' \notin {"NONE"} \cup Decided
  BY DEF ReadIInv, ReadTypeOK, TooFragmented, Interrupted, Interruptions, Judgements, Decided, readVars
<1>4. chunks' \in 0..(MaxChunks + 1)
  <2>1. ReadTypeOK /\ chunks \in 0..(MaxChunks + 1) /\ (judgement = "NONE" => chunks <= MaxChunks)
    BY DEF ReadIInv, ReadTypeOK, Positions
  <2>2. chunks' = chunks \/ (judgement = "NONE" /\ chunks' = chunks + 1)
    BY DEF TooFragmented, Interrupted, readVars
  <2> QED
    BY <2>1, <2>2, Numbers
<1> QED
  BY <1>1, <1>2, <1>3, <1>4
  DEF ReadIInv, ReadTypeOK, Positions, Filling, ReadsTheStream, Decided

LEMMA NextReadIInv == ReadIInv /\ [ReadNext]_readVars => ReadIInv'
BY ChunkKeeps, DoneKeeps, OtherKeeps DEF ReadNext

\* ReadIInv holds of every reachable state of the reader.
THEOREM ReaderInvariant == ReadSpec => []ReadIInv
BY InitReadIInv, NextReadIInv, PTL DEF ReadSpec

\* The buffer never exceeds the payload allowed, and holds bytes that arrived.
THEOREM ReaderTyped == ReadSpec => []ReadTypeOK
<1>1. ReadIInv => ReadTypeOK
  BY DEF ReadIInv
<1> QED
  BY <1>1, ReaderInvariant, PTL

\* The judgement of a stream does not depend on how it is cut into chunks.
THEOREM ReaderJudgesStream == ReadSpec => []ReadsTheStream
<1>1. ReadIInv => ReadsTheStream
  BY DEF ReadIInv
<1> QED
  BY <1>1, ReaderInvariant, PTL
=============================================================================
