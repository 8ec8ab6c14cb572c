-------------------------- MODULE ScannerRun_proofs --------------------------
(***************************************************************************)
(* Proofs that a run of the scanner stays within its budget of requests    *)
(* and its deadline and contacts only approved addresses, for every set of *)
(* policies, answers, peers and responses; that a document the supervisor  *)
(* accepts passes every later check, whoever wrote it; and that what is    *)
(* shown of the run's own document is what happened on the wire.           *)
(***************************************************************************)
EXTENDS ScannerRun, Sums_proofs, FiniteSetTheorems, TLAPS

Lookups == [asked : Int, families : SUBSET {4, 6}, at : Int]

\* The fields of a flow and of a request; what the proofs do not need may be anything.
FlowFields == {"name", "protocol", "redirects", "bytes"}
FlowShape ==
  /\ flow = [x \in FlowFields |-> flow[x]]
  /\ flow.name \in {"page", "text"} /\ flow.protocol = "https:"
ExchangeFields ==
  {"pin", "protocol", "by", "connected", "response", "received", "approved", "fresh"}
ExchangeShape ==
  exchange = [x \in ExchangeFields |-> exchange[x]] /\ exchange.by \in Int

\* The shape of the state, as far as the proofs need it.
Typed ==
  /\ time \in Nat /\ offset \in Int /\ startedAt \in Int /\ policy \in Policies
  /\ pc \in {"start", "hop", "lookup", "exchange", "report", "written", "signed", "stored", "refused"}
  /\ requestCount \in Nat /\ left \in Nat
  /\ lookup \in Lookups
  /\ pc = "start" => flow.name = "target"
  /\ pc = "lookup" => FlowShape \/ flow.name = "target"
  /\ pc \in {"hop", "exchange"} => FlowShape
  /\ pc = "exchange" => ExchangeShape

\* Nothing leaves unreserved, and nothing is reserved beyond the policy.
WithinBudget ==
  left <= requestCount /\ (requestCount = 0 \/ requestCount <= policy.requests)

\* A run reports its own count, and no document is there before one is written.
Reported ==
  /\ pc = "start" => startedAt = 0
  /\ pc \in {"start", "hop", "lookup", "exchange", "report"} => document = NoDocument
  /\ pc \in {"written", "signed", "stored", "refused"} /\ startedAt # 0 /\ document # NoDocument =>
       document.requests = requestCount

\* While the clock was never stepped, a resolution is dated by true time, and the
\* timer of a request ends by the deadline.
Dated ==
  /\ offset = 0 => lookup.asked = lookup.at
  /\ pc = "exchange" => time <= exchange.by
  /\ pc = "exchange" /\ offset = 0 => exchange.by <= Deadline

\* The inductive invariant.
IInv == Typed /\ WithinBudget /\ Reported /\ Dated /\ OnlyPinned
-----------------------------------------------------------------------------
\* Of two operations the budget allows none, the first or both.
LEMMA ReservableOfTwo ==
  ASSUME NEW count \in Nat, policy.requests \in Nat,
         count = 0 \/ count <= policy.requests
  PROVE  /\ Cardinality(Reservable(count, 2)) \in Nat
         /\ count + Cardinality(Reservable(count, 2)) <= policy.requests
            \/ count + Cardinality(Reservable(count, 2)) = 0
<1> DEFINE R == Reservable(count, 2)
<1>1. CASE count + 2 <= policy.requests
  <2>1. R = {1, 2}
    BY <1>1 DEF Reservable
  <2>2. IsFiniteSet({1}) /\ Cardinality({1}) = 1
    BY FS_Singleton
  <2>3. Cardinality({1} \cup {2}) = Cardinality({1}) + 1
    BY <2>2, FS_AddElement
  <2>4. R = {1} \cup {2}
    BY <2>1
  <2> QED
    BY <1>1, <2>2, <2>3, <2>4
<1>2. CASE count + 1 = policy.requests
  <2>1. R = {1}
    BY <1>2 DEF Reservable
  <2>2. Cardinality({1}) = 1
    BY FS_Singleton
  <2> QED
    BY <1>2, <2>1, <2>2
<1>3. CASE count >= policy.requests
  <2>1. R = {}
    BY <1>3 DEF Reservable
  <2>2. Cardinality({}) = 0
    BY FS_EmptySet
  <2> QED
    BY <1>3, <2>1, <2>2
<1> QED
  BY <1>1, <1>2, <1>3

\* The timeout of a request is one of three, and not above the time that remains.
LEMMA TimeoutFits ==
  ASSUME NEW remaining \in Nat, policy.duration \in Nat
  PROVE  Timeout(remaining) \in Nat /\ Timeout(remaining) <= remaining
<1> DEFINE S == {MaxTimeout, policy.duration, remaining}
<1>1. MaxTimeout \in Nat
  BY RunAssumption
<1>2. PICK x \in S : \A y \in S : x <= y
  BY <1>1
<1>3. \A m, n \in Nat : m <= n <=> n >= m
  OBVIOUS
<1>4. Min(S) \in S /\ \A y \in S : Min(S) <= y
  BY <1>2 DEF Min
<1> QED
  BY <1>1, <1>4 DEF Timeout

LEMMA InitIInv == Init => IInv
<1> SUFFICES ASSUME Init PROVE IInv
  OBVIOUS
<1>1. Typed
  BY RunAssumption DEF Init, Typed, Lookups, NoLookup
<1>2. WithinBudget /\ Reported /\ Dated /\ OnlyPinned
  BY DEF Init, WithinBudget, Reported, Dated, OnlyPinned, NoLookup
<1> QED
  BY <1>1, <1>2 DEF IInv

\* A resolution or a flow that ends leaves a new flow or the report to write.
LEMMA EndsKeeps ==
  ASSUME IInv, pc \in {"hop", "lookup", "exchange"}, NEW result, Ends(result),
         UNCHANGED <<time, offset, policy, startedAt, outcome>>,
         requestCount' \in Nat, left' \in Nat, left' <= requestCount',
         requestCount' = 0 \/ requestCount' <= policy.requests
  PROVE  IInv'
<1> USE DEF IInv, Ends, outcome
<1>1. pc' \in {"hop", "report"} /\ lookup' = NoLookup
  OBVIOUS
<1>2. pc' = "hop" => FlowShape'
  BY DEF Following, Flow, Idle, FlowShape, FlowFields, None
<1>3. Typed'
  BY <1>1, <1>2 DEF Typed, NoLookup, Lookups
<1>4. WithinBudget'
  BY DEF WithinBudget
<1>5. Reported'
  BY <1>1 DEF Reported
<1>6. Dated' /\ OnlyPinned'
  BY <1>1 DEF Dated, OnlyPinned, NoLookup
<1> QED
  BY <1>3, <1>4, <1>5, <1>6

\* Asking stays within the budget and dates the resolution.
LEMMA AskKeeps ==
  ASSUME Typed, WithinBudget, Ask, UNCHANGED policy
  PROVE  /\ requestCount' \in Nat /\ left' \in Nat /\ WithinBudget'
         /\ lookup' \in Lookups /\ lookup'.asked = Now /\ lookup'.at = time
<1>1. policy.requests \in Nat
  BY RunAssumption DEF Typed
<1>2. requestCount \in Nat /\ left \in Nat /\ left <= requestCount
  BY DEF Typed, WithinBudget
<1> DEFINE n == Cardinality(Reservable(requestCount, 2))
<1>3. n \in Nat /\ (requestCount + n <= policy.requests \/ requestCount + n = 0)
  BY <1>1, <1>2, ReservableOfTwo DEF WithinBudget
<1>4. requestCount' = requestCount + n /\ left' = left + n
  BY DEF Ask
<1>5. lookup' \in Lookups /\ lookup'.asked = Now /\ lookup'.at = time
  BY DEF Ask, Lookups, Typed, Now
<1> HIDE DEF n
<1> QED
  BY <1>1, <1>2, <1>3, <1>4, <1>5 DEF WithinBudget

\* What a pin that is not refused relies on: every address of the answer is public,
\* and the answer has not expired.
LEMMA PinnableMeans ==
  ASSUME Typed, NEW r4 \in AnswersTo(4), NEW r6 \in AnswersTo(6), NEW pin,
         Resolution(r4, r6, lookup.asked).ok,
         Pinnable(Resolution(r4, r6, lookup.asked), pin, Now)
  PROVE  LET target == Resolution(r4, r6, lookup.asked)
         IN /\ \A a \in target.addresses \cup {pin} : Public(a)
            /\ target.resolved = lookup.asked /\ target.expires \in Int
            /\ Now < target.expires
<1> DEFINE target == Resolution(r4, r6, lookup.asked)
<1>1. target.resolved = lookup.asked /\ target.expires = lookup.asked + LeastTtl(r4, r6)
  BY DEF Resolution
<1>2. r4.ttl \in Nat /\ r6.ttl \in Nat
  BY RunAssumption DEF AnswersTo, Empty
<1>3. target.expires \in Int
  BY <1>1, <1>2 DEF LeastTtl, Typed, Lookups
<1>4. Classified(target.addresses) /\ pin \in target.addresses /\ Now < target.expires
  BY DEF Pinnable
<1> HIDE DEF target
<1>5. \A a \in target.addresses \cup {pin} : Public(a)
  BY <1>4 DEF Classified
<1> QED
  BY <1>1, <1>3, <1>4, <1>5 DEF target

\* A request is counted before it is made, and made only to an approved address, with a
\* timer that ends by the deadline.
LEMMA DispatchKeeps ==
  ASSUME IInv, pc = "lookup", flow.name # "target",
         NEW r4 \in AnswersTo(4), NEW r6 \in AnswersTo(6),
         Resolution(r4, r6, lookup.asked).ok, Deadline - Now >= LeastRemaining,
         Dispatch(Resolution(r4, r6, lookup.asked)),
         UNCHANGED <<time, offset, policy, startedAt, outcome>>
  PROVE  IInv'
<1> DEFINE target == Resolution(r4, r6, lookup.asked)
<1>1. requestCount \in Nat /\ left \in Nat /\ left <= requestCount /\ policy.requests \in Nat
      /\ policy.duration \in Nat
  BY RunAssumption DEF IInv, Typed, WithinBudget
<1>2. requestCount = 0 \/ requestCount <= policy.requests
  BY DEF IInv, WithinBudget
<1>3. CASE Reservable(requestCount, 1) = {}
  BY <1>1, <1>2, <1>3, EndsKeeps DEF Dispatch
<1>4. CASE Reservable(requestCount, 1) # {}
  <2>1. requestCount + 1 <= policy.requests
    BY <1>1, <1>4 DEF Reservable
  <2>2. requestCount' = requestCount + 1
    BY <1>4 DEF Dispatch
  <2>3. PICK pin \in Pins(target) :
          \/ ~Pinnable(target, pin, Now) /\ Ends(Failed) /\ UNCHANGED left
          \/ /\ Pinnable(target, pin, Now)
             /\ left' = left + 1
             /\ exchange' =
                  [pin |-> pin, protocol |-> flow.protocol, by |-> time + Timeout(Deadline - Now),
                   connected |-> None, response |-> NoResponse, received |-> 0,
                   approved |-> \A a \in target.addresses \cup {pin} : Public(a),
                   fresh |-> time - lookup.at < target.expires - target.resolved]
             /\ pc' = "exchange"
             /\ UNCHANGED <<flow, lookup, found>>
    BY <1>4 DEF Dispatch
  <2>4. CASE ~Pinnable(target, pin, Now) /\ Ends(Failed) /\ UNCHANGED left
    BY <1>1, <2>1, <2>2, <2>4, EndsKeeps
  <2>5. CASE Pinnable(target, pin, Now) /\ pc' = "exchange"
    <3>1. /\ left' = left + 1 /\ pc' = "exchange" /\ UNCHANGED <<flow, lookup, found>>
          /\ exchange' =
                  [pin |-> pin, protocol |-> flow.protocol, by |-> time + Timeout(Deadline - Now),
                   connected |-> None, response |-> NoResponse, received |-> 0,
                   approved |-> \A a \in target.addresses \cup {pin} : Public(a),
                   fresh |-> time - lookup.at < target.expires - target.resolved]
      BY <2>3, <2>5
    <3>2. /\ \A a \in target.addresses \cup {pin} : Public(a)
          /\ target.resolved = lookup.asked /\ target.expires \in Int
          /\ Now < target.expires
      BY <2>5, PinnableMeans DEF IInv
    <3> HIDE DEF target
    <3>3. Deadline \in Int /\ Now \in Int /\ Deadline - Now \in Nat
      BY <1>1, RunAssumption DEF IInv, Typed, Deadline, Now
    <3>4. Timeout(Deadline - Now) \in Nat /\ Timeout(Deadline - Now) <= Deadline - Now
      BY <1>1, <3>3, TimeoutFits
    <3>5. FlowShape /\ lookup \in Lookups /\ time \in Nat /\ offset \in Int
      BY DEF IInv, Typed
    <3>6. Typed'
      <4>1. ExchangeShape'
        BY <3>1, <3>4, <3>5 DEF ExchangeShape, ExchangeFields
      <4> QED
        BY <1>1, <2>2, <3>1, <3>5, <4>1 DEF IInv, Typed, FlowShape
    <3>7. WithinBudget'
      BY <1>1, <2>1, <2>2, <3>1 DEF WithinBudget
    <3>8. Reported'
      BY <3>1 DEF IInv, Reported, outcome
    <3>9. Dated'
      <4>1. Now = time + offset /\ Deadline' = Deadline
        BY DEF Now, Deadline
      <4>2. exchange'.by = time + Timeout(Deadline - Now)
        BY <3>1
      <4>3. offset = 0 => lookup.asked = lookup.at
        BY DEF IInv, Dated
      <4>4. time <= exchange'.by /\ (offset = 0 => exchange'.by <= Deadline)
        BY <3>3, <3>4, <3>5, <4>1, <4>2
      <4> QED
        BY <3>1, <4>1, <4>3, <4>4 DEF Dated
    <3>10. OnlyPinned'
      <4>1. exchange'.approved
        BY <3>1, <3>2
      <4>2. exchange'.protocol = "https:" /\ exchange'.connected = None
        BY <3>1, <3>5 DEF FlowShape
      <4>3. offset = 0 => time - lookup.at < target.expires - target.resolved
        BY <3>2, <3>5 DEF IInv, Dated, Now, Lookups
      <4>4. offset = 0 => exchange'.fresh
        BY <3>1, <4>3
      <4> QED
        BY <4>1, <4>2, <4>4 DEF OnlyPinned
    <3> QED
      BY <3>6, <3>7, <3>8, <3>9, <3>10 DEF IInv
  <2> QED
    BY <2>3, <2>4, <2>5
<1> QED
  BY <1>3, <1>4

\* An event of the request under way that does not end it.
LEMMA EventKeeps ==
  ASSUME IInv, pc = "exchange", NEW field \in {"connected", "response", "received"}, NEW value,
         exchange' = [exchange EXCEPT ![field] = value],
         field = "connected" => value = exchange.pin,
         UNCHANGED <<time, offset, policy, pc, requestCount, left, startedAt, flow, lookup,
                     found, outcome>>
  PROVE  IInv'
<1>1. ExchangeShape /\ exchange.connected \in {None, exchange.pin}
  BY DEF IInv, Typed, OnlyPinned
<1>2. /\ ExchangeShape' /\ exchange'.by = exchange.by /\ exchange'.pin = exchange.pin
      /\ exchange'.approved = exchange.approved /\ exchange'.protocol = exchange.protocol
      /\ exchange'.fresh = exchange.fresh /\ exchange'.connected \in {None, exchange.pin}
  BY <1>1 DEF ExchangeShape, ExchangeFields
<1>3. Typed'
  BY <1>2 DEF IInv, Typed, FlowShape
<1>4. WithinBudget' /\ Reported'
  BY DEF IInv, WithinBudget, Reported, outcome
<1>5. Dated'
  BY <1>2 DEF IInv, Dated, Deadline
<1>6. OnlyPinned'
  BY <1>2 DEF IInv, OnlyPinned
<1> QED
  BY <1>3, <1>4, <1>5, <1>6 DEF IInv

\* Nothing ends a request but Ends, with the count as it was.
LEMMA FailsKeeps ==
  ASSUME IInv, pc \in {"hop", "lookup", "exchange"}, NEW result, Ends(result),
         UNCHANGED <<time, offset, policy, requestCount, left, startedAt, outcome>>
  PROVE  IInv'
<1>1. /\ requestCount \in Nat /\ left \in Nat /\ left <= requestCount
      /\ requestCount = 0 \/ requestCount <= policy.requests
  BY DEF IInv, Typed, WithinBudget
<1> QED
  BY <1>1, EndsKeeps

LEMMA BeginKeeps == IInv /\ Begin => IInv'
<1> SUFFICES ASSUME IInv, Begin PROVE IInv'
  OBVIOUS
<1>1. CASE Accepted(policy) /\ startedAt' = Now /\ pc' = "lookup" /\ Ask
           /\ UNCHANGED <<time, offset, policy, flow, exchange, found, outcome>>
  <2>1. /\ requestCount' \in Nat /\ left' \in Nat /\ WithinBudget'
        /\ lookup' \in Lookups /\ lookup'.asked = Now /\ lookup'.at = time
    BY <1>1, AskKeeps DEF IInv
  <2>2. flow.name = "target"
    BY DEF IInv, Reported, Typed, Begin
  <2> QED
    BY <1>1, <2>1, <2>2
    DEF IInv, Typed, Reported, Dated, OnlyPinned, Now, FlowShape, outcome, Begin
<1>2. CASE pc' = "refused" /\ UNCHANGED <<time, offset, scan, outcome>>
  BY <1>2 DEF IInv, Typed, WithinBudget, Reported, Dated, OnlyPinned, scan, outcome, Begin
<1> QED
  BY <1>1, <1>2 DEF Begin

LEMMA HopKeeps == IInv /\ Hop => IInv'
<1> SUFFICES ASSUME IInv, Hop PROVE IInv'
  OBVIOUS
<1>1. CASE Ends(Failed) /\ UNCHANGED <<requestCount, left>>
  BY <1>1, FailsKeeps DEF Hop
<1>2. CASE Ask /\ pc' = "lookup" /\ UNCHANGED <<flow, exchange, found>>
  <2>1. /\ requestCount' \in Nat /\ left' \in Nat /\ WithinBudget'
        /\ lookup' \in Lookups /\ lookup'.asked = Now /\ lookup'.at = time
    BY <1>2, AskKeeps DEF IInv, Hop
  <2> QED
    BY <1>2, <2>1
    DEF Hop, IInv, Typed, Reported, Dated, OnlyPinned, Now, FlowShape, outcome
<1> QED
  BY <1>1, <1>2 DEF Hop

LEMMA ResolvedKeeps == IInv /\ Resolved => IInv'
<1> SUFFICES ASSUME IInv, Resolved PROVE IInv'
  OBVIOUS
<1>1. pc = "lookup" /\ UNCHANGED <<time, offset, policy, startedAt, outcome>>
  BY DEF Resolved
<1>2. PICK r4 \in AnswersTo(4), r6 \in AnswersTo(6) :
       LET result == Resolution(r4, r6, lookup.asked)
       IN \/ /\ flow.name = "target"
             /\ Ends([ok |-> result.ok,
                      six |-> result.ok /\ \E a \in result.addresses : Family[a] = 6])
             /\ UNCHANGED <<requestCount, left>>
          \/ /\ flow.name # "target"
             /\ ~result.ok \/ Deadline - Now < LeastRemaining
             /\ Ends(Failed) /\ UNCHANGED <<requestCount, left>>
          \/ /\ flow.name # "target" /\ result.ok /\ Deadline - Now >= LeastRemaining
             /\ Dispatch(result)
  BY DEF Resolved
<1> DEFINE result == Resolution(r4, r6, lookup.asked)
<1> DEFINE six == result.ok /\ \E a \in result.addresses : Family[a] = 6
<1>3. ASSUME NEW end, Ends(end), UNCHANGED <<requestCount, left>>
      PROVE  IInv'
  BY <1>1, <1>3, FailsKeeps
<1>4. CASE flow.name # "target" /\ result.ok /\ Deadline - Now >= LeastRemaining
           /\ Dispatch(result)
  BY <1>1, <1>4, DispatchKeeps
<1>5. CASE Ends([ok |-> result.ok, six |-> six]) /\ UNCHANGED <<requestCount, left>>
  BY <1>3, <1>5
<1>6. CASE Ends(Failed) /\ UNCHANGED <<requestCount, left>>
  BY <1>3, <1>6
<1>7. \/ Ends([ok |-> result.ok, six |-> six]) /\ UNCHANGED <<requestCount, left>>
      \/ Ends(Failed) /\ UNCHANGED <<requestCount, left>>
      \/ flow.name # "target" /\ result.ok /\ Deadline - Now >= LeastRemaining /\ Dispatch(result)
  BY <1>2
<1> HIDE DEF result, six
<1> QED
  BY <1>4, <1>5, <1>6, <1>7

\* A redirect that is followed stays on HTTPS.
LEMMA EndKeeps == IInv /\ End => IInv'
<1> SUFFICES ASSUME IInv, End PROVE IInv'
  OBVIOUS
<1> USE DEF End
<1>1. pc = "exchange" /\ FlowShape
  BY DEF Responded, IInv, Typed
<1>2. CASE \E result : Ends(result)
  BY <1>1, <1>2, FailsKeeps
<1>3. CASE Received /\ ~\E result : Ends(result)
  <2>1. /\ Redirect(exchange.response, flow.protocol) = "FOLLOW"
        /\ flow' = [flow EXCEPT !.redirects = @ + 1, !.bytes = flow.bytes + exchange.received,
                                !.protocol = RedirectProtocol(exchange.response)]
        /\ lookup' = NoLookup /\ pc' = "hop"
    BY <1>3 DEF Received
  <2>2. RedirectProtocol(exchange.response) = "https:"
    BY <1>1, <2>1 DEF Redirect, RedirectProtocol, FlowShape
  <2>3. FlowShape'
    BY <1>1, <2>1, <2>2 DEF FlowShape, FlowFields
  <2>4. UNCHANGED <<time, offset, policy, requestCount, left, startedAt, document>>
    BY DEF outcome
  <2> HIDE DEF End
  <2>5. Typed'
    BY <2>1, <2>3, <2>4 DEF IInv, Typed, NoLookup, Lookups
  <2>6. WithinBudget' /\ Reported'
    BY <1>1, <2>1, <2>4 DEF IInv, WithinBudget, Reported
  <2>7. Dated' /\ OnlyPinned'
    BY <2>1 DEF Dated, OnlyPinned, NoLookup
  <2> QED
    BY <2>5, <2>6, <2>7 DEF IInv
<1> QED
  BY <1>2, <1>3

LEMMA ExchangeKeeps ==
  IInv /\ ((\E a \in Peers : Connect(a)) \/ (\E response \in Responses : Respond(response))
           \/ (\E n \in 1..PageBytes : Data(n)) \/ Broken \/ TimedOut)
    => IInv'
<1> SUFFICES ASSUME IInv,
             \/ \E a \in Peers : Connect(a)
             \/ \E response \in Responses : Respond(response)
             \/ \E n \in 1..PageBytes : Data(n)
             \/ Broken
             \/ TimedOut
      PROVE  IInv'
  OBVIOUS
<1>1. ASSUME pc = "exchange", Fails PROVE IInv'
  BY <1>1, FailsKeeps DEF Fails
<1>2. ASSUME NEW a \in Peers, Connect(a) PROVE IInv'
  <2>1. CASE Matches(a) /\ exchange' = [exchange EXCEPT !["connected"] = a]
    BY <1>2, <2>1, EventKeeps DEF Connect, Matches, Fails, Ends
  <2> QED
    BY <1>1, <1>2, <2>1 DEF Connect
<1>3. ASSUME NEW response \in Responses, Respond(response) PROVE IInv'
  <2>1. CASE exchange' = [exchange EXCEPT !["response"] = response] /\ ~Fails
    BY <1>3, <2>1, EventKeeps DEF Respond
  <2> QED
    BY <1>1, <1>3, <2>1 DEF Respond
<1>4. ASSUME NEW n \in 1..PageBytes, Data(n) PROVE IInv'
  <2>1. CASE exchange' = [exchange EXCEPT !["received"] = exchange.received + n] /\ ~Fails
    BY <1>4, <2>1, EventKeeps DEF Data, Responded
  <2> QED
    BY <1>1, <1>4, <2>1 DEF Data, Responded
<1>5. CASE Broken \/ TimedOut
  BY <1>1, <1>5 DEF Broken, TimedOut, TimerSet
<1> QED
  BY <1>2, <1>3, <1>4, <1>5

\* The document's way, and time.
LEMMA RestKeeps ==
  IInv /\ (Report \/ Replaced \/ Supervise \/ Store \/ Tick \/ StepClock \/ UNCHANGED vars)
    => IInv'
<1> SUFFICES ASSUME IInv,
             \/ Report \/ Replaced \/ Supervise \/ Store
             \/ Tick \/ StepClock \/ UNCHANGED vars
      PROVE  IInv'
  OBVIOUS
<1> USE DEF IInv, Typed, WithinBudget, Reported, Dated, OnlyPinned, FlowShape, ExchangeShape,
            Deadline, scan, outcome
<1>1. CASE Report
  BY <1>1 DEF Report, Document
<1>2. CASE Replaced
  BY <1>2 DEF Replaced
<1>3. CASE Supervise
  BY <1>3 DEF Supervise
<1>4. CASE Store
  BY <1>4 DEF Store
<1>5. CASE Tick
  BY <1>5 DEF Tick
<1>6. CASE StepClock
  BY <1>6, RunAssumption DEF StepClock
<1>7. CASE UNCHANGED vars
  BY <1>7 DEF vars
<1> QED
  BY <1>1, <1>2, <1>3, <1>4, <1>5, <1>6, <1>7

LEMMA NextIInv == IInv /\ [Next]_vars => IInv'
BY BeginKeeps, HopKeeps, ResolvedKeeps, EndKeeps, ExchangeKeeps, RestKeeps DEF Next

\* The conjunction of what follows with the shape of the state holds in every run.
THEOREM InductiveInvariant == Spec => []IInv
<1>1. Init => IInv
  BY InitIInv
<1>2. IInv /\ [Next]_vars => IInv'
  BY NextIInv
<1> QED
  BY <1>1, <1>2, PTL DEF Spec

\* Whatever the peer redirects to and whatever fails, no more queries and connections
\* leave than the policy allows, and the document reports them all: reserve counts
\* before it allows.
THEOREM BudgetKept == Spec => []RequestsAreCounted
<1>1. IInv => RequestsAreCounted
  <2> SUFFICES ASSUME IInv PROVE RequestsAreCounted
    OBVIOUS
  <2>1. left \in Nat /\ requestCount \in Nat /\ policy.requests \in Nat /\ left <= requestCount
        /\ left <= policy.requests
    BY RunAssumption DEF IInv, Typed, WithinBudget
  <2>2. pc \in {"start", "hop", "lookup", "exchange", "report", "written", "signed", "stored", "refused"}
    BY DEF IInv, Typed
  <2> QED
    BY <2>1, <2>2 DEF IInv, Reported, RequestsAreCounted, Own
<1> QED
  BY <1>1, InductiveInvariant, PTL

\* Requests are under way only to addresses of an answer all of whose addresses were
\* public, over TLS, and to the address they are pinned to.
THEOREM OnlyApprovedContacted == Spec => []OnlyPinned
<1>1. IInv => OnlyPinned
  BY DEF IInv
<1> QED
  BY <1>1, InductiveInvariant, PTL

\* While the clock is not stepped no request outlives the policy's duration: its timer
\* is cut to what remains.
THEOREM DeadlineKept == Spec => []NothingOutlivesTheRun
<1>1. IInv => NothingOutlivesTheRun
  BY RunAssumption DEF IInv, Typed, Dated, ExchangeShape, Deadline, NothingOutlivesTheRun
<1> QED
  BY <1>1, InductiveInvariant, PTL
-----------------------------------------------------------------------------
(***************************************************************************)
(* The way of a document: what its canonical form keeps, and that what is  *)
(* accepted once passes every later check.                                 *)
(***************************************************************************)

\* What is known of a document that was read, whoever wrote it.
Sound(doc) ==
  /\ DOMAIN doc = DocumentFields
  /\ IsFiniteSet(doc.findings) /\ IsFiniteSet(doc.warnings.entries)
  /\ \A f \in doc.findings : DOMAIN f = FindingFields

\* A function's values on a finite set are finitely many, and no more than its elements.
LEMMA ImageBound ==
  ASSUME NEW S, IsFiniteSet(S), NEW f
  PROVE  /\ IsFiniteSet({f[x] : x \in S})
         /\ Cardinality({f[x] : x \in S}) <= Cardinality(S)
<1> DEFINE T == {f[x] : x \in S}
           g == [x \in S |-> f[x]]
<1>1. g \in Surjection(S, T)
  BY DEF Surjection
<1> HIDE DEF g, T
<1>2. IsFiniteSet(T) /\ Cardinality(T) <= Cardinality(S)
  BY <1>1, FS_Surjection
<1> QED
  BY <1>2 DEF T

LEMMA CanonicalFields ==
  ASSUME NEW doc, DOMAIN doc = DocumentFields
  PROVE  /\ DOMAIN Canonical(doc) = DocumentFields
         /\ Canonical(doc).padding = 0
         /\ Canonical(doc).findings = {[f EXCEPT !.evidence = Redaction] : f \in doc.findings}
         /\ \A x \in DocumentFields \ {"padding", "findings"} : Canonical(doc)[x] = doc[x]
  BY DEF Canonical, DocumentFields

\* Evidence that was replaced may be replaced again, and findings keep their fingerprint.
LEMMA RedactedFindings ==
  ASSUME NEW F, \A f \in F : DOMAIN f = FindingFields
  PROVE  LET redacted == {[f EXCEPT !.evidence = Redaction] : f \in F}
         IN /\ \A f \in redacted : DOMAIN f = FindingFields /\ f.evidence = Redaction
            /\ {[f EXCEPT !.evidence = Redaction] : f \in redacted} = redacted
            /\ {f.fingerprint : f \in redacted} = {f.fingerprint : f \in F}
<1> DEFINE R(f) == [f EXCEPT !.evidence = Redaction]
<1>1. ASSUME NEW f \in F
      PROVE  DOMAIN R(f) = FindingFields /\ R(f).evidence = Redaction
             /\ R(f).fingerprint = f.fingerprint
  BY DEF FindingFields
<1>2. ASSUME NEW f \in F PROVE R(R(f)) = R(f)
  BY DEF FindingFields
<1> HIDE DEF R
<1>3. {R(f) : f \in {R(g) : g \in F}} = {R(g) : g \in F}
  BY <1>2
<1>4. {f.fingerprint : f \in {R(g) : g \in F}} = {f.fingerprint : f \in F}
  BY <1>1
<1>5. \A f \in {R(g) : g \in F} : DOMAIN f = FindingFields /\ f.evidence = Redaction
  BY <1>1
<1> QED
  BY <1>3, <1>4, <1>5 DEF R

\* The canonical form is its own, and a document like the one it is of.
LEMMA CanonicalSound ==
  ASSUME NEW doc, Sound(doc)
  PROVE  /\ Sound(Canonical(doc))
         /\ Canonical(Canonical(doc)) = Canonical(doc)
         /\ Cardinality(Canonical(doc).findings) <= Cardinality(doc.findings)
         /\ FindingCount(Canonical(doc).findings) = FindingCount(doc.findings)
         /\ \A f \in Canonical(doc).findings : f.evidence = Redaction
<1> DEFINE c == Canonical(doc)
           cc == Canonical(c)
<1>1. /\ DOMAIN c = DocumentFields /\ c.padding = 0
      /\ c.findings = {[f EXCEPT !.evidence = Redaction] : f \in doc.findings}
      /\ \A x \in DocumentFields \ {"padding", "findings"} : c[x] = doc[x]
  BY CanonicalFields DEF Sound
<1>2. /\ \A f \in c.findings : DOMAIN f = FindingFields /\ f.evidence = Redaction
      /\ {[f EXCEPT !.evidence = Redaction] : f \in c.findings} = c.findings
      /\ FindingCount(c.findings) = FindingCount(doc.findings)
  BY <1>1, RedactedFindings DEF Sound, FindingCount
<1>3. IsFiniteSet(c.findings) /\ Cardinality(c.findings) <= Cardinality(doc.findings)
  <2> DEFINE redact == [f \in doc.findings |-> [f EXCEPT !.evidence = Redaction]]
  <2>1. c.findings = {redact[f] : f \in doc.findings}
    BY <1>1
  <2> HIDE DEF redact, c
  <2> QED
    BY <2>1, ImageBound DEF Sound
<1>4. c.warnings = doc.warnings
  BY <1>1 DEF DocumentFields
<1>5. Sound(c)
  BY <1>1, <1>2, <1>3, <1>4 DEF Sound
<1>6. cc = c
  <2>1. cc = [[c EXCEPT !.padding = 0] EXCEPT !.findings = c.findings]
    BY <1>1, <1>2 DEF Canonical, DocumentFields
  <2>2. c = [x \in DOMAIN c |-> c[x]]
    BY DEF Canonical
  <2> HIDE DEF c
  <2> QED
    BY <1>1, <2>1, <2>2 DEF DocumentFields
<1> QED
  BY <1>1, <1>2, <1>3, <1>5, <1>6

\* What Acceptable says of a document, field by field.
LEMMA AcceptableAgain ==
  ASSUME NEW doc, Sound(doc), Acceptable(doc), Size(Canonical(doc)) <= MaxBytes
  PROVE  Acceptable(Canonical(doc)) /\ Project(Canonical(doc)) = Project(doc)
<1> DEFINE c == Canonical(doc)
<1>1. /\ DOMAIN doc = DocumentFields
      /\ \A x \in DocumentFields \ {"padding", "findings"} : c[x] = doc[x]
  BY CanonicalFields DEF Sound
<1>2. /\ c.readable = doc.readable /\ c.hostname = doc.hostname
      /\ c.observations = doc.observations /\ c.coverage = doc.coverage
      /\ c.warnings = doc.warnings /\ c.duration = doc.duration /\ c.requests = doc.requests
  BY <1>1 DEF DocumentFields
<1>3. /\ Cardinality(c.findings) <= Cardinality(doc.findings)
      /\ FindingCount(c.findings) = FindingCount(doc.findings)
      /\ IsFiniteSet(c.findings) /\ IsFiniteSet(doc.findings)
  BY CanonicalSound DEF Sound
<1>4. /\ Cardinality(c.findings) \in Nat /\ Cardinality(doc.findings) \in Nat
      /\ MaxFindings \in Nat
  BY <1>3, FS_CardinalityType, ResultPathAssumption
<1>evidence. \A f \in c.findings : f.evidence <= MaxEvidence
  BY CanonicalSound, DocumentAssumption, ResultPathAssumption
<1> HIDE DEF c
<1>5. Acceptable(c)
  BY <1>2, <1>3, <1>4, <1>evidence DEF Acceptable, c
<1> QED
  BY <1>2, <1>3, <1>5 DEF Project, c

\* A document that was produced is produced again from its canonical form.
LEMMA ProducedAgain ==
  ASSUME NEW doc, Sound(doc), Produce(doc).ok
  PROVE  /\ Acceptable(doc) /\ Size(Canonical(doc)) <= MaxBytes
         /\ Produce(doc) = [ok |-> TRUE, payload |-> Canonical(doc), projection |-> Project(doc)]
         /\ Produce(Canonical(doc)) = Produce(doc)
<1>1. Project(doc).ok /\ Size(Canonical(doc)) <= MaxBytes
  BY DEF Produce, Refused
<1>2. Acceptable(doc)
  BY <1>1 DEF Project, Refused
<1>3. /\ Project(Canonical(doc)) = Project(doc)
      /\ Canonical(Canonical(doc)) = Canonical(doc)
  BY <1>1, <1>2, AcceptableAgain, CanonicalSound
<1> QED
  BY <1>1, <1>2, <1>3 DEF Produce

\* What was signed is committed as it was accepted, if its key is known and it is
\* current, and otherwise refused.
LEMMA CommitOfSigned ==
  ASSUME NEW doc, Sound(doc), Produce(doc).ok, NEW issued \in Int, NEW now \in Int,
         NEW env, env = Sign(Produce(doc).payload, issued)
  PROVE  /\ Commit(env, now) \in {Refused, Project(doc)}
         /\ SigningKey \in Keyring /\ now \in env.issued - MaxSkew .. env.expires - 1
              => Commit(env, now) = Project(doc)
<1> DEFINE c == Canonical(doc)
<1>1. /\ Produce(doc) = [ok |-> TRUE, payload |-> c, projection |-> Project(doc)]
      /\ Produce(c) = Produce(doc) /\ Size(c) <= MaxBytes
  BY ProducedAgain
<1> HIDE DEF c
<1>2. /\ env.payload = c /\ env.digest = c /\ env.size = Size(c) /\ env.key = SigningKey
      /\ env.issued = issued /\ env.expires = issued + Lifetime
  BY <1>1 DEF Sign
<1>3. Lifetime \in 1..MaxLifetime /\ MaxLifetime \in Nat /\ MaxSkew \in Nat
  BY DocumentAssumption, ResultPathAssumption
<1>4. Commit(env, now) = IF Verified(env, now) THEN Project(doc) ELSE Refused
  BY <1>1, <1>2 DEF Commit
<1>5. SigningKey \in Keyring /\ now \in env.issued - MaxSkew .. env.expires - 1
        => Verified(env, now)
  BY <1>1, <1>2, <1>3 DEF Verified, Current
<1> QED
  BY <1>4, <1>5

\* The entries of a list without repeated identifiers, found by them.
LEMMA FoundById ==
  ASSUME NEW list, Distinct(list)
  PROVE  /\ DOMAIN ById(list.entries) = {e.id : e \in list.entries}
         /\ \A e \in list.entries : ById(list.entries)[e.id] = e
<1> DEFINE ids == {e.id : e \in list.entries}
           by == [i \in ids |-> CHOOSE e \in list.entries : e.id = i]
<1>1. ASSUME NEW e \in list.entries
      PROVE  (CHOOSE d \in list.entries : d.id = e.id) = e
  BY DEF Distinct
<1>2. ById(list.entries) = by
  BY DEF ById
<1> QED
  BY <1>1, <1>2

\* What is accepted of a scanner passes the checks on its way out.
LEMMA ProjectionSanitized ==
  ASSUME NEW doc, Sound(doc), Acceptable(doc)
  PROVE  Sanitized(Project(doc))
<1> DEFINE p == Project(doc)
           observed == ById(doc.observations.entries)
<1>1. /\ Observed(doc.observations) /\ CoveredList(doc.coverage)
      /\ doc.hostname # "malformed" /\ doc.duration \in 0..MaxDuration
      /\ doc.requests \in 0..MaxRequests
      /\ Cardinality(doc.findings) <= MaxFindings
      /\ Cardinality(doc.warnings.entries) <= MaxWarnings
  BY DEF Acceptable
<1>2. /\ p.ok /\ p.hostname = doc.hostname /\ p.risks = FindingCount(doc.findings)
      /\ p.posture = [c \in DOMAIN observed |-> observed[c].outcome]
      /\ p.coverage = ById(doc.coverage.entries)
      /\ p.warnings = Cardinality(doc.warnings.entries)
      /\ p.duration = doc.duration /\ p.requests = doc.requests
  BY DEF Project
<1>3. /\ DOMAIN p.posture \subseteq Checks
      /\ \A c \in DOMAIN p.posture : p.posture[c] \in Outcomes
  <2>1. /\ DOMAIN observed = {e.id : e \in doc.observations.entries}
        /\ \A e \in doc.observations.entries : observed[e.id] = e
    BY <1>1, FoundById DEF Observed
  <2>2. \A e \in doc.observations.entries : e.id \in Checks /\ e.outcome \in Outcomes
    BY <1>1 DEF Observed
  <2> HIDE DEF p, observed
  <2> QED
    BY <1>2, <2>1, <2>2
<1>4. /\ DOMAIN p.coverage # {} /\ DOMAIN p.coverage \subseteq Groups
      /\ \A g \in DOMAIN p.coverage :
           p.coverage[g].status \in Statuses /\ p.coverage[g].completeness \in Completenesses
  <2>1. /\ DOMAIN p.coverage = {e.id : e \in doc.coverage.entries}
        /\ \A e \in doc.coverage.entries : p.coverage[e.id] = e
    BY <1>1, <1>2, FoundById DEF CoveredList
  <2>2. /\ doc.coverage.entries # {}
        /\ \A e \in doc.coverage.entries :
             e.id \in Groups /\ e.status \in Statuses /\ e.completeness \in Completenesses
    BY <1>1 DEF CoveredList
  <2> HIDE DEF p
  <2> QED
    BY <2>1, <2>2
<1>5. p.risks \in 0..MaxFindings
  <2> DEFINE prints == [f \in doc.findings |-> f.fingerprint]
             F == {prints[f] : f \in doc.findings}
  <2>1. {f.fingerprint : f \in doc.findings} = F
    OBVIOUS
  <2>2. IsFiniteSet(F) /\ Cardinality(F) <= Cardinality(doc.findings)
    BY ImageBound DEF Sound
  <2>3. p.risks = Cardinality(F)
    BY <1>2, <2>1 DEF FindingCount
  <2> HIDE DEF prints, F, p
  <2>4. Cardinality(F) \in Nat /\ Cardinality(doc.findings) \in Nat /\ MaxFindings \in Nat
    BY <2>2, FS_CardinalityType, ResultPathAssumption DEF Sound
  <2> QED
    BY <1>1, <2>2, <2>3, <2>4
<1>6. p.warnings \in 0..MaxWarnings
  <2>1. Cardinality(doc.warnings.entries) \in Nat /\ MaxWarnings \in Nat
    BY FS_CardinalityType, ResultPathAssumption DEF Sound
  <2> HIDE DEF p
  <2> QED
    BY <1>1, <1>2, <2>1
<1> HIDE DEF p
<1> QED
  BY <1>1, <1>2, <1>3, <1>4, <1>5, <1>6 DEF Sanitized, p

\* The state a group is shown in, given back, is shown as it was.
LEMMA StateRestored ==
  ASSUME NEW item, item.status \in Statuses, item.completeness \in Completenesses
  PROVE  /\ PublicState(Restored(PublicState(item))) = PublicState(item)
         /\ Restored(PublicState(item)).status \in Statuses
         /\ Restored(PublicState(item)).completeness \in Completenesses
         /\ PublicState(item) # "MISSING"
  BY DEF PublicState, Restored, Statuses, Completenesses

\* The identifiers of a list made of a function.
LEMMA EntryIds ==
  ASSUME NEW f, NEW D
  PROVE  {e.id : e \in {[id |-> c, outcome |-> f[c]] : c \in D}} = D
<1> DEFINE L == {[id |-> c, outcome |-> f[c]] : c \in D}
<1>1. ASSUME NEW c \in D PROVE \E e \in L : e.id = c
  <2>1. [id |-> c, outcome |-> f[c]] \in L
    OBVIOUS
  <2> QED
    BY <2>1
<1>2. \A e \in L : e.id \in D
  OBVIOUS
<1> HIDE DEF L
<1> QED
  BY <1>1, <1>2 DEF L

\* Every check is shown in some section.
LEMMA AllShown ==
  ASSUME NEW f, DOMAIN f \subseteq Checks
  PROVE  LET sections == [s \in Sections |-> {[id |-> c, outcome |-> f[c]] :
                                                c \in SectionChecks[s] \cap DOMAIN f}]
         IN UNION {sections[s] : s \in Sections} = {[id |-> c, outcome |-> f[c]] : c \in DOMAIN f}
<1> DEFINE sections == [s \in Sections |-> {[id |-> c, outcome |-> f[c]] :
                                              c \in SectionChecks[s] \cap DOMAIN f}]
           all == {[id |-> c, outcome |-> f[c]] : c \in DOMAIN f}
<1>1. \A c \in DOMAIN f : \E s \in Sections : c \in SectionChecks[s]
  BY DEF Checks
<1>2. UNION {sections[s] : s \in Sections} \subseteq all
  OBVIOUS
<1>3. ASSUME NEW c \in DOMAIN f
      PROVE  [id |-> c, outcome |-> f[c]] \in UNION {sections[s] : s \in Sections}
  BY <1>1
<1>4. all \subseteq UNION {sections[s] : s \in Sections}
  BY <1>3
<1> QED
  BY <1>2, <1>4

\* The view of what passes the checks is rebuilt as it was, and sent.
LEMMA ViewSent ==
  ASSUME NEW p, Sanitized(p)
  PROVE  View(p).ok /\ Sent(View(p)) = View(p)
<1> DEFINE posture == [c \in DOMAIN p.posture |-> p.posture[c]]
           groups == [g \in Groups |->
             IF g \in DOMAIN p.coverage THEN PublicState(p.coverage[g]) ELSE "MISSING"]
           sections == [s \in Sections |-> {[id |-> c, outcome |-> p.posture[c]] :
                                              c \in SectionChecks[s] \cap DOMAIN p.posture}]
           v == View(p)
           entries == UNION {v.sections[s] : s \in Sections}
           chosen == [c \in {e.id : e \in entries} |->
                        (CHOOSE e \in entries : e.id = c).outcome]
           covered == {g \in Groups : v.groups[g] # "MISSING"}
           restored == [g \in covered |-> Restored(v.groups[g])]
           q == [ok |-> TRUE, hostname |-> v.hostname, risks |-> v.risks,
                 warnings |-> v.warnings, duration |-> 0, requests |-> 0,
                 posture |-> chosen, coverage |-> restored]
<1>1. /\ DOMAIN p.posture \subseteq Checks
      /\ \A c \in DOMAIN p.posture : p.posture[c] \in Outcomes
      /\ DOMAIN p.coverage # {} /\ DOMAIN p.coverage \subseteq Groups
      /\ \A g \in DOMAIN p.coverage :
           p.coverage[g].status \in Statuses /\ p.coverage[g].completeness \in Completenesses
      /\ p.hostname # "malformed"
      /\ p.risks \in 0..MaxFindings /\ p.warnings \in 0..MaxWarnings
  BY DEF Sanitized
<1>2. v = [ok |-> TRUE, hostname |-> p.hostname, risks |-> p.risks, warnings |-> p.warnings,
           sections |-> sections, groups |-> groups, state |-> Summary(groups),
           complete |-> Cardinality({g \in Groups : groups[g] = "COMPLETE"})]
  BY DEF View
<1> HIDE DEF v
<1>3. v.sections = sections /\ v.groups = groups
  BY <1>2
<1>4. entries = {[id |-> c, outcome |-> p.posture[c]] : c \in DOMAIN p.posture}
  BY <1>1, <1>3, AllShown
<1> HIDE DEF sections, groups, entries
<1>5. DOMAIN chosen = DOMAIN p.posture /\ \A c \in DOMAIN p.posture : chosen[c] = p.posture[c]
  <2>1. {e.id : e \in entries} = DOMAIN p.posture
    BY <1>4, EntryIds
  <2>2. ASSUME NEW c \in DOMAIN p.posture
        PROVE  (CHOOSE e \in entries : e.id = c).outcome = p.posture[c]
    <3>1. [id |-> c, outcome |-> p.posture[c]] \in entries
      BY <1>4
    <3>2. \A e \in entries : e.id = c => e.outcome = p.posture[c]
      BY <1>4
    <3> QED
      BY <3>1, <3>2
  <2> QED
    BY <2>1, <2>2
<1>6. /\ covered = DOMAIN p.coverage
      /\ \A g \in covered : /\ groups[g] = PublicState(p.coverage[g])
                            /\ restored[g] = Restored(PublicState(p.coverage[g]))
  BY <1>1, <1>3, StateRestored DEF groups
<1>7. /\ DOMAIN restored = DOMAIN p.coverage
      /\ \A g \in DOMAIN restored :
           /\ restored[g].status \in Statuses /\ restored[g].completeness \in Completenesses
           /\ PublicState(restored[g]) = PublicState(p.coverage[g])
  BY <1>1, <1>6, StateRestored
<1> HIDE DEF chosen, restored, covered
<1>8. /\ q.ok /\ q.hostname = p.hostname /\ q.risks = p.risks /\ q.warnings = p.warnings
      /\ q.duration = 0 /\ q.requests = 0 /\ q.posture = chosen /\ q.coverage = restored
  BY <1>2
<1> HIDE DEF q
<1>9. Sanitized(q)
  <2>1. 0 \in 0..MaxDuration /\ 0 \in 0..MaxRequests
    BY ResultPathAssumption
  <2> QED
    BY <1>1, <1>5, <1>7, <1>8, <2>1 DEF Sanitized
<1>10. [g \in Groups |-> IF g \in DOMAIN q.coverage THEN PublicState(q.coverage[g])
                         ELSE "MISSING"] = groups
  BY <1>7, <1>8 DEF groups
<1>11. [s \in Sections |-> {[id |-> c, outcome |-> q.posture[c]] :
                              c \in SectionChecks[s] \cap DOMAIN q.posture}] = sections
  BY <1>5, <1>8 DEF sections
<1>12. View(q) = v
  BY <1>2, <1>8, <1>9, <1>10, <1>11 DEF View
<1>13. Sent(v) = IF v.ok /\ View(q).ok /\ View(q) = v THEN v ELSE Refused
  BY DEF Sent, q, chosen, restored, covered, entries
<1> QED
  BY <1>2, <1>12, <1>13 DEF v
-----------------------------------------------------------------------------
(***************************************************************************)
(* What this scanner writes: an outcome for every check, and findings for  *)
(* those that need attention.                                              *)
(***************************************************************************)

OwnFindings(outcome_of) ==
  {[fingerprint |-> c, evidence |-> 1, place |-> 1] : c \in {c \in Reportable : outcome_of[c] = "ATTENTION"}}
OwnCoverage ==
  {[id |-> g, status |-> Coverage(g).status, completeness |-> Coverage(g).completeness] : g \in Groups}
OwnDocument(outcome_of, duration) ==
  [readable |-> TRUE, hostname |-> "target", padding |-> 0,
   observations |-> Once({[id |-> c, outcome |-> outcome_of[c]] : c \in Checks}),
   findings |-> OwnFindings(outcome_of), coverage |-> Once(OwnCoverage),
   warnings |-> Once({[id |-> w] : w \in Warnings}),
   duration |-> duration, requests |-> requestCount]

\* What a function gives for 1..n is at most n elements.
LEMMA AtMost ==
  ASSUME NEW n \in Nat, NEW f, NEW T, T \subseteq {f[i] : i \in 1..n}
  PROVE  IsFiniteSet(T) /\ Cardinality(T) <= n
<1> DEFINE U == {f[i] : i \in 1..n}
<1>1. IsFiniteSet(1..n) /\ Cardinality(1..n) = n
  BY FS_Interval
<1>2. IsFiniteSet(U) /\ Cardinality(U) <= n
  BY <1>1, ImageBound
<1>3. IsFiniteSet(T) /\ Cardinality(T) <= Cardinality(U)
  BY <1>2, FS_Subset
<1>4. Cardinality(T) \in Nat /\ Cardinality(U) \in Nat
  BY <1>2, <1>3, FS_CardinalityType
<1> QED
  BY <1>2, <1>3, <1>4

\* At most seven checks are reported, and at most six warnings.
LEMMA FewReported ==
  /\ IsFiniteSet(Reportable) /\ Cardinality(Reportable) <= 7
  /\ IsFiniteSet(Warnings) /\ Cardinality(Warnings) <= 6
<1>1. IsFiniteSet(Reportable) /\ Cardinality(Reportable) <= 7
  <2> DEFINE f == [i \in 1..7 |->
         CASE i = 1 -> "HTTP_HSTS" [] i = 2 -> "HTTP_CSP" [] i = 3 -> "HTTP_X_CONTENT_TYPE_OPTIONS"
           [] i = 4 -> "HTTP_FRAME_PROTECTION" [] i = 5 -> "HTTP_REFERRER_POLICY"
           [] i = 6 -> "HTTP_PERMISSIONS_POLICY" [] OTHER -> "SECURITY_TXT"]
  <2>1. \A c \in Reportable : \E i \in 1..7 : f[i] = c
    BY DEF Reportable, HeaderChecks
  <2> HIDE DEF f
  <2>2. Reportable \subseteq {f[i] : i \in 1..7}
    BY <2>1
  <2> QED
    BY <2>2, AtMost
<1>2. IsFiniteSet(Warnings) /\ Cardinality(Warnings) <= 6
  <2> DEFINE f == [i \in 1..6 |->
         CASE i = 1 -> "MAIL_SECURITY_POSTURE" [] i = 2 -> "PUBLIC_INFRASTRUCTURE"
           [] i = 3 -> "RDAP_ENRICHMENT" [] i = 4 -> "CT_ENRICHMENT"
           [] i = 5 -> (IF found.target.ok THEN "HTTPS_PROBE" ELSE "TARGET_RESOLUTION")
           [] OTHER -> "SECURITY_TXT"]
  <2>1. \A w \in Warnings : \E i \in 1..6 : f[i] = w
    BY DEF Warnings, Unavailable
  <2> HIDE DEF f
  <2>2. Warnings \subseteq {f[i] : i \in 1..6}
    BY <2>1
  <2> QED
    BY <2>2, AtMost
<1> QED
  BY <1>1, <1>2

\* Evidence of the same length for every finding takes as much as their number times it.
LEMMA SizeOfEven ==
  ASSUME NEW doc, doc.padding = 0, IsFiniteSet(doc.findings), NEW k \in Nat,
         \A f \in doc.findings : f.evidence = k
  PROVE  Size(doc) \in Int /\ Size(doc) <= Cardinality(doc.findings) * k
<1> DEFINE evidence == [f \in doc.findings |-> f.evidence]
           S == doc.findings
<1>1. \A f \in S : evidence[f] = k
  OBVIOUS
<1>2. Size(doc) = 0 + Sum(evidence, S)
  BY DEF Size
<1>3. IsFiniteSet({}) /\ Sum(evidence, {}) = 0
  BY SumEmpty, FS_EmptySet
<1>4. IsFiniteSet(S) /\ Cardinality(S) \in Nat
  BY FS_CardinalityType
<1> HIDE DEF evidence, S
<1>5. Sum(evidence, S) <= Sum(evidence, {}) + Cardinality(S) * k
  <2>1. /\ \A x \in S : evidence[x] \in Int /\ evidence[x] <= k
        /\ \A x \in {} : evidence[x] \in Nat
    BY <1>1
  <2> QED
    BY <1>3, <1>4, <2>1, SumBound
<1>6. Sum(evidence, S) \in Int
  BY <1>1, <1>4, SumInt
<1>7. Cardinality(S) * k \in Nat
  BY <1>4
<1>8. Size(doc) \in Int /\ Size(doc) <= Cardinality(S) * k
  BY <1>2, <1>3, <1>5, <1>6, <1>7
<1> QED
  BY <1>8 DEF S

\* The findings are as many as the checks that need attention.
LEMMA OwnFindingsFew ==
  ASSUME NEW o
  PROVE  LET attention == {c \in Reportable : o[c] = "ATTENTION"}
         IN /\ IsFiniteSet(OwnFindings(o)) /\ Cardinality(OwnFindings(o)) <= 7
            /\ \A f \in OwnFindings(o) : DOMAIN f = FindingFields /\ f.evidence = 1
            /\ FindingCount(OwnFindings(o)) = Cardinality(attention)
<1> DEFINE A == {c \in Reportable : o[c] = "ATTENTION"}
           finding == [c \in A |-> [fingerprint |-> c, evidence |-> 1, place |-> 1]]
<1>1. OwnFindings(o) = {finding[c] : c \in A}
  BY DEF OwnFindings
<1>2. \A c \in A : /\ DOMAIN finding[c] = FindingFields /\ finding[c].evidence = 1
                   /\ finding[c].fingerprint = c
  BY DEF FindingFields
<1>3. IsFiniteSet(A) /\ Cardinality(A) <= Cardinality(Reportable)
  BY FewReported, FS_Subset
<1> HIDE DEF finding, A
<1>4. IsFiniteSet(OwnFindings(o)) /\ Cardinality(OwnFindings(o)) <= Cardinality(A)
  BY <1>1, <1>3, ImageBound
<1>5. /\ Cardinality(OwnFindings(o)) \in Nat /\ Cardinality(A) \in Nat
      /\ Cardinality(Reportable) \in Nat
  BY <1>3, <1>4, FewReported, FS_CardinalityType
<1>6. {f.fingerprint : f \in OwnFindings(o)} = A
  <2>1. ASSUME NEW c \in A PROVE \E f \in OwnFindings(o) : f.fingerprint = c
    BY <1>1, <1>2
  <2>2. \A f \in OwnFindings(o) : f.fingerprint \in A
    BY <1>1, <1>2
  <2> QED
    BY <2>1, <2>2
<1>7. \A f \in OwnFindings(o) : DOMAIN f = FindingFields /\ f.evidence = 1
  BY <1>1, <1>2
<1>8. Cardinality(OwnFindings(o)) <= 7
  BY <1>3, <1>4, <1>5, FewReported
<1> QED
  BY <1>4, <1>6, <1>7, <1>8 DEF FindingCount, A

LEMMA OwnSound == ASSUME NEW o, NEW d PROVE Sound(OwnDocument(o, d))
<1> DEFINE doc == OwnDocument(o, d)
           warning == [w \in Warnings |-> [id |-> w]]
<1>1. /\ DOMAIN doc = DocumentFields /\ doc.findings = OwnFindings(o)
      /\ doc.warnings.entries = {[id |-> w] : w \in Warnings}
  BY DEF OwnDocument, DocumentFields, Once
<1>2. {[id |-> w] : w \in Warnings} = {warning[w] : w \in Warnings}
  OBVIOUS
<1> HIDE DEF doc, warning
<1>3. IsFiniteSet(doc.warnings.entries)
  BY <1>1, <1>2, FewReported, ImageBound
<1>4. IsFiniteSet(doc.findings) /\ \A f \in doc.findings : DOMAIN f = FindingFields
  BY <1>1, OwnFindingsFew
<1> QED
  BY <1>1, <1>3, <1>4 DEF Sound, doc

\* The coverage of a group has a known status and completeness.
LEMMA CoverageKnown ==
  ASSUME NEW g
  PROVE  Coverage(g).status \in Statuses /\ Coverage(g).completeness \in Completenesses
<1>1. ASSUME NEW ok, NEW c \in {"COMPLETE", "PARTIAL", "UNKNOWN"}
      PROVE  Covered(ok, c).status \in Statuses /\ Covered(ok, c).completeness \in Completenesses
  BY DEF Covered, Statuses, Completenesses
<1>2. \/ Coverage(g) = Covered(found.target.ok, "COMPLETE")
      \/ Coverage(g) = Covered(found.target.ok, "PARTIAL")
      \/ Coverage(g) = Covered(found.page.ok, "COMPLETE")
      \/ Coverage(g) = Covered(found.page.ok, "PARTIAL")
      \/ Coverage(g) = Covered(FALSE, "UNKNOWN")
  BY DEF Coverage
<1> QED
  BY <1>1, <1>2

\* Whatever the outcomes, the supervisor accepts what this scanner writes.
LEMMA OwnAccepted ==
  ASSUME NEW o \in [Checks -> Outcomes], NEW d \in 0..MaxDuration, requestCount \in 0..MaxRequests
  PROVE  Acceptable(OwnDocument(o, d)) /\ Supervised(OwnDocument(o, d))
<1> DEFINE doc == OwnDocument(o, d)
           L == {[id |-> c, outcome |-> o[c]] : c \in Checks}
           W == {[id |-> w] : w \in Warnings}
<1>1. /\ doc.readable /\ doc.hostname = "target" /\ doc.padding = 0
      /\ doc.observations.entries = L /\ ~doc.observations.repeated
      /\ doc.findings = OwnFindings(o)
      /\ doc.coverage.entries = OwnCoverage /\ ~doc.coverage.repeated
      /\ doc.warnings.entries = W /\ ~doc.warnings.repeated
      /\ doc.duration = d /\ doc.requests = requestCount
  BY DEF OwnDocument, Once
<1>2. Sound(doc)
  BY OwnSound
<1> HIDE DEF doc
<1>3. Observed(doc.observations)
  <2>1. \A e \in L : e.id \in Checks /\ e.outcome \in Outcomes
    OBVIOUS
  <2>2. \A e, f \in L : e.id = f.id => e = f
    OBVIOUS
  <2> QED
    BY <1>1, <2>1, <2>2 DEF Observed, Distinct
<1>4. CoveredList(doc.coverage)
  <2>1. OwnCoverage # {}
    BY DEF OwnCoverage, Groups
  <2>2. \A e \in OwnCoverage :
          e.id \in Groups /\ e.status \in Statuses /\ e.completeness \in Completenesses
    BY CoverageKnown DEF OwnCoverage
  <2>3. \A e, f \in OwnCoverage : e.id = f.id => e = f
    BY DEF OwnCoverage
  <2> QED
    BY <1>1, <2>1, <2>2, <2>3 DEF CoveredList, Distinct
<1>5. Distinct(doc.warnings) /\ Cardinality(doc.warnings.entries) <= MaxWarnings
  <2> DEFINE warning == [w \in Warnings |-> [id |-> w]]
  <2>1. W = {warning[w] : w \in Warnings}
    OBVIOUS
  <2>2. \A e, f \in W : e.id = f.id => e = f
    OBVIOUS
  <2> HIDE DEF warning, W
  <2>3. IsFiniteSet(W) /\ Cardinality(W) <= Cardinality(Warnings)
    BY <2>1, FewReported, ImageBound
  <2>4. Cardinality(W) \in Nat /\ Cardinality(Warnings) \in Nat /\ MaxWarnings \in Nat
    BY <2>3, FewReported, FS_CardinalityType, ResultPathAssumption
  <2> QED
    BY <1>1, <2>2, <2>3, <2>4, FewReported, DocumentAssumption DEF Distinct
<1>6. /\ IsFiniteSet(doc.findings) /\ Cardinality(doc.findings) \in 0..7
      /\ \A f \in doc.findings : f.evidence = 1
  <2>1. /\ IsFiniteSet(doc.findings) /\ Cardinality(doc.findings) <= 7
        /\ \A f \in doc.findings : f.evidence = 1
    BY <1>1, OwnFindingsFew
  <2>2. Cardinality(doc.findings) \in Nat
    BY <2>1, FS_CardinalityType
  <2> QED
    BY <2>1, <2>2
<1>7. Size(doc) <= MaxBytes
  <2>1. Size(doc) \in Int /\ Size(doc) <= Cardinality(doc.findings) * 1
    BY <1>1, <1>6, SizeOfEven
  <2>2. 7 <= MaxBytes /\ MaxBytes \in Int
    BY DocumentAssumption, ResultPathAssumption
  <2>3. Cardinality(doc.findings) \in Int /\ Cardinality(doc.findings) <= 7
    BY <1>6
  <2> QED
    BY <2>1, <2>2, <2>3
<1>8. Acceptable(doc)
  <2>1. Cardinality(doc.findings) <= MaxFindings
    <3>1. 7 <= MaxFindings /\ MaxFindings \in Int
      BY DocumentAssumption, ResultPathAssumption
    <3>2. Cardinality(doc.findings) \in Int /\ Cardinality(doc.findings) <= 7
      BY <1>6
    <3> QED
      BY <3>1, <3>2
  <2>2. \A f \in doc.findings : f.evidence <= MaxEvidence
    BY <1>6, DocumentAssumption, ResultPathAssumption
  <2> QED
    BY <1>1, <1>3, <1>4, <1>5, <1>7, <2>1, <2>2 DEF Acceptable
<1>9. Size(Canonical(doc)) <= MaxBytes
  <2> DEFINE c == Canonical(doc)
  <2>1. /\ c.padding = 0 /\ IsFiniteSet(c.findings)
        /\ \A f \in c.findings : f.evidence = Redaction
        /\ Cardinality(c.findings) <= Cardinality(doc.findings)
    BY <1>2, CanonicalSound, CanonicalFields DEF Sound
  <2>2. Cardinality(c.findings) \in Nat /\ Redaction \in Nat /\ MaxBytes \in Nat
    BY <2>1, FS_CardinalityType, ResultPathAssumption
  <2> HIDE DEF c
  <2>3. Size(c) \in Int /\ Size(c) <= Cardinality(c.findings) * Redaction
    BY <2>1, <2>2, SizeOfEven
  <2>4. Cardinality(c.findings) * Redaction <= 7 * Redaction
    BY <1>6, <2>1, <2>2
  <2>5. 7 * Redaction <= MaxBytes
    BY DocumentAssumption
  <2>6. 7 * Redaction \in Int /\ Cardinality(c.findings) * Redaction \in Int
    BY <2>2
  <2> QED
    BY <2>2, <2>3, <2>4, <2>5, <2>6 DEF c
<1>10. Project(doc).ok /\ Project(doc).hostname = "target"
  BY <1>1, <1>8 DEF Project
<1>11. Supervised(doc)
  BY <1>9, <1>10 DEF Supervised, Produce
<1> QED
  BY <1>8, <1>11 DEF doc

\* The checks shown with one of some outcomes.
Marked(shown, outcomes) ==
  {e.id : e \in {e \in UNION {shown.sections[s] : s \in Sections} : e.outcome \in outcomes}}

\* What is shown of a document of this scanner is what it found.
LEMMA OwnShown ==
  ASSUME NEW o \in [Checks -> Outcomes], NEW d \in 0..MaxDuration, requestCount \in 0..MaxRequests
  PROVE  LET p == Project(OwnDocument(o, d))
             shown == Sent(View(p))
         IN /\ shown.ok /\ p.duration = d
            /\ \A outcomes : Marked(shown, outcomes) = {c \in Checks : o[c] \in outcomes}
            /\ shown.risks = Cardinality({c \in Reportable : o[c] = "ATTENTION"})
            /\ shown.groups["TLS_CERTIFICATE_POSTURE"] = "COMPLETE" => found.page.ok
<1> DEFINE doc == OwnDocument(o, d)
           p == Project(doc)
           L == {[id |-> c, outcome |-> o[c]] : c \in Checks}
           v == View(p)
           sections == [s \in Sections |-> {[id |-> c, outcome |-> p.posture[c]] :
                                              c \in SectionChecks[s] \cap DOMAIN p.posture}]
           groups == [g \in Groups |->
             IF g \in DOMAIN p.coverage THEN PublicState(p.coverage[g]) ELSE "MISSING"]
<1>1. Acceptable(doc) /\ Sound(doc)
  BY OwnAccepted, OwnSound
<1>2. Sanitized(p) /\ v.ok /\ Sent(v) = v
  BY <1>1, ProjectionSanitized, ViewSent
<1>3. /\ p.duration = d /\ p.risks = FindingCount(OwnFindings(o))
      /\ p.posture = [c \in DOMAIN ById(L) |-> ById(L)[c].outcome]
      /\ p.coverage = ById(OwnCoverage)
  BY <1>1 DEF Project, OwnDocument, Once
<1>4. v.sections = sections /\ v.groups = groups /\ v.risks = p.risks
  BY <1>2 DEF View
<1>5. Distinct(doc.observations) /\ Distinct(doc.coverage)
      /\ doc.observations.entries = L /\ doc.coverage.entries = OwnCoverage
  BY <1>1 DEF Acceptable, Observed, CoveredList, OwnDocument, Once
<1> HIDE DEF doc, p, v, L
<1>6. DOMAIN p.posture = Checks /\ \A c \in Checks : p.posture[c] = o[c]
  <2>1. /\ DOMAIN ById(L) = {e.id : e \in L}
        /\ \A e \in L : ById(L)[e.id] = e
    BY <1>5, FoundById
  <2>2. {e.id : e \in L} = Checks
    BY EntryIds DEF L
  <2>3. ASSUME NEW c \in Checks PROVE ById(L)[c].outcome = o[c]
    <3>1. [id |-> c, outcome |-> o[c]] \in L
      BY DEF L
    <3> QED
      BY <2>1, <3>1
  <2> QED
    BY <1>3, <2>1, <2>2, <2>3
<1>7. UNION {v.sections[s] : s \in Sections} = {[id |-> c, outcome |-> p.posture[c]] : c \in DOMAIN p.posture}
  BY <1>4, <1>6, AllShown
<1>8. ASSUME NEW outcomes PROVE Marked(v, outcomes) = {c \in Checks : o[c] \in outcomes}
  <2> DEFINE E == {[id |-> c, outcome |-> p.posture[c]] : c \in DOMAIN p.posture}
  <2>1. Marked(v, outcomes) = {e.id : e \in {e \in E : e.outcome \in outcomes}}
    BY <1>7 DEF Marked
  <2>2. ASSUME NEW c \in Checks, o[c] \in outcomes
        PROVE  \E e \in {e \in E : e.outcome \in outcomes} : e.id = c
    <3>1. [id |-> c, outcome |-> p.posture[c]] \in E
      BY <1>6
    <3> QED
      BY <1>6, <2>2, <3>1
  <2>3. ASSUME NEW e \in {e \in E : e.outcome \in outcomes}
        PROVE  e.id \in Checks /\ o[e.id] \in outcomes
    BY <1>6, <2>3
  <2> HIDE DEF E
  <2> QED
    BY <2>1, <2>2, <2>3
<1>9. v.risks = Cardinality({c \in Reportable : o[c] = "ATTENTION"})
  BY <1>3, <1>4, OwnFindingsFew
<1>10. v.groups["TLS_CERTIFICATE_POSTURE"] = "COMPLETE" => found.page.ok
  <2> DEFINE tls == "TLS_CERTIFICATE_POSTURE"
             item == [id |-> tls, status |-> Coverage(tls).status, completeness |-> Coverage(tls).completeness]
  <2>1. item \in OwnCoverage /\ tls \in Groups
    BY DEF OwnCoverage, Groups
  <2>2. /\ DOMAIN ById(OwnCoverage) = {e.id : e \in OwnCoverage}
        /\ \A e \in OwnCoverage : ById(OwnCoverage)[e.id] = e
    BY <1>5, FoundById
  <2>3. ById(OwnCoverage)[tls] = item /\ tls \in DOMAIN ById(OwnCoverage)
    <3>1. item.id = tls
      OBVIOUS
    <3> HIDE DEF item, tls
    <3> QED
      BY <2>1, <2>2, <3>1
  <2>4. v.groups[tls] = PublicState(item)
    <3> HIDE DEF item, tls
    <3> QED
      BY <1>3, <1>4, <2>1, <2>3
  <2>5. Coverage(tls) = Covered(found.page.ok, "COMPLETE")
    BY DEF Coverage
  <2> QED
    BY <2>4, <2>5 DEF PublicState, Covered
<1> QED
  BY <1>2, <1>3, <1>8, <1>9, <1>10 DEF p, v, doc
-----------------------------------------------------------------------------
(***************************************************************************)
(* What a run has seen when it writes, and what becomes of its document.   *)
(***************************************************************************)

\* Nothing is found of a target that did not resolve.
ResolvedFirst ==
  /\ found = [x \in {"target", "page", "text"} |-> found[x]]
  /\ pc = "start" \/ (pc = "lookup" /\ flow.name = "target") => ~found.page.ok /\ ~found.text.ok
  /\ pc \in {"hop", "lookup", "exchange"} /\ flow.name # "target" => found.target.ok
  /\ found.page.ok \/ found.text.ok => found.target.ok

\* A response under way is heard over the pinned, public connection, and one that was
\* found was heard to its end.
Heard ==
  /\ pc = "exchange" =>
       /\ exchange.connected # None => Public(exchange.connected)
       /\ exchange.response # NoResponse =>
            exchange.connected # None /\ exchange.response \in Responses
  /\ found.page.ok =>
       /\ found.page.protocol = "https:" /\ Public(found.page.from)
       /\ found.page.response.complete /\ found.page.received = found.page.response.body
       /\ Declared(found.page.response) =>
            DeclaredLength(found.page.response) = found.page.received
  /\ found.text.ok => found.text.response \in Responses

\* A run that began was accepted, and until the clock is stepped did so in the past.
Begun ==
  /\ startedAt # 0 => Accepted(policy)
  /\ offset = 0 => startedAt <= time

\* Outcomes a run may report, d after its beginning.
OutcomesTrue(o, d) ==
  /\ o["HTTP_HSTS"] = "PASS" =>
       found.page.ok /\ Hsts(Single(found.page.response, "strict-transport-security"))
  /\ o["SECURITY_TXT"] = "PASS" =>
       LET lines == found.text.response.lines
       IN /\ found.text.ok /\ Cardinality(Places(lines, "expires")) = 1
          /\ offset = 0 => \A i \in Places(lines, "expires") : lines[i].arg > startedAt + d
  /\ ~found.target.ok => \A c \in Checks : o[c] = "UNKNOWN"

OwnWritten ==
  /\ requestCount \in 0..MaxRequests
  /\ \E o \in [Checks -> Outcomes], d \in 0..MaxDuration :
       document = OwnDocument(o, d) /\ OutcomesTrue(o, d)

\* The document is what was written, was accepted when it is signed, and is committed
\* as the clock has it.
Handed ==
  /\ pc \in {"written", "signed", "stored"} => Sound(document)
  /\ pc \in {"signed", "stored"} =>
       /\ Produce(document).ok /\ envelope.issued \in Int
       /\ envelope = Sign(Produce(document).payload, envelope.issued)
  /\ pc = "stored" => stored = Commit(envelope, Now)
  /\ Own => OwnWritten

ShowInv == ResolvedFirst /\ Heard /\ Begun /\ Handed
-----------------------------------------------------------------------------
\* The duration that is reported is cut to what a result may have, and is over by now.
LEMMA DurationCut ==
  ASSUME Now \in Int, startedAt \in Int
  PROVE  /\ Duration \in 0..MaxDuration
         /\ startedAt <= Now => startedAt + Duration <= Now
<1> DEFINE least == Min({MaxDuration, Now - startedAt})
<1>1. MaxDuration \in Nat /\ Now - startedAt \in Int
  BY ResultPathAssumption
<1>2. /\ least \in Int /\ least <= MaxDuration /\ least <= Now - startedAt
  <2>1. \E x \in {MaxDuration, Now - startedAt} : \A y \in {MaxDuration, Now - startedAt} : x <= y
    BY <1>1
  <2> QED
    BY <1>1, <2>1 DEF Min
<1>3. Duration = Max({0, least})
  BY DEF Duration
<1> HIDE DEF least
<1>4. Max({0, least}) \in {0, least} /\ Max({0, least}) >= 0
  <2>1. \E x \in {0, least} : \A y \in {0, least} : x >= y
    BY <1>2
  <2> QED
    BY <1>2, <2>1 DEF Max
<1> QED
  BY <1>1, <1>2, <1>3, <1>4

\* A check that is reported is a check of the posture.
LEMMA ReportableChecks ==
  /\ Reportable \subseteq Checks /\ {"HTTP_HSTS", "SECURITY_TXT"} \subseteq Checks
  /\ HeaderChecks \subseteq Checks
<1>1. /\ "NAMES" \in Sections /\ "WEB" \in Sections
      /\ SectionChecks["NAMES"] = {"DNS_DNSSEC", "DNS_CAA", "SECURITY_TXT"}
      /\ SectionChecks["WEB"] = HeaderChecks \cup {"HTTP_PROTOCOL"}
  BY DEF Sections, SectionChecks
<1>2. SectionChecks["NAMES"] \subseteq Checks /\ SectionChecks["WEB"] \subseteq Checks
  BY <1>1 DEF Checks
<1> QED
  BY <1>1, <1>2 DEF Reportable, HeaderChecks

\* The document is made of an outcome for each check.
LEMMA DocumentIsOwn == Document = OwnDocument([c \in Checks |-> Outcome(c)], Duration)
<1> DEFINE o == [c \in Checks |-> Outcome(c)]
<1>1. \A c \in Checks : o[c] = Outcome(c)
  OBVIOUS
<1> HIDE DEF o
<1>2. {[id |-> c, outcome |-> Outcome(c)] : c \in Checks} = {[id |-> c, outcome |-> o[c]] : c \in Checks}
  BY <1>1
<1>3. {c \in Reportable : Outcome(c) = "ATTENTION"} = {c \in Reportable : o[c] = "ATTENTION"}
  BY <1>1, ReportableChecks
<1>4. Document = OwnDocument(o, Duration)
  BY <1>2, <1>3 DEF Document, OwnDocument, OwnFindings, OwnCoverage
<1> QED
  BY <1>4 DEF o

\* What a run reports is what it found.
LEMMA ReportedTrue ==
  ASSUME IInv, ShowInv, startedAt # 0
  PROVE  LET o == [c \in Checks |-> Outcome(c)]
         IN /\ o \in [Checks -> Outcomes] /\ Duration \in 0..MaxDuration
            /\ Document = OwnDocument(o, Duration)
            /\ OutcomesTrue(o, Duration)
            /\ requestCount \in 0..MaxRequests
<1> DEFINE o == [c \in Checks |-> Outcome(c)]
<1>1. Now \in Int /\ startedAt \in Int
  BY DEF IInv, Typed, Now
<1>2. /\ Duration \in 0..MaxDuration
      /\ startedAt <= Now => startedAt + Duration <= Now
  BY <1>1, DurationCut
<1>3. \A c : Outcome(c) \in Outcomes
  BY DEF Outcome, Outcomes
<1>4. Document = OwnDocument(o, Duration)
  BY DocumentIsOwn
<1>5. o["HTTP_HSTS"] = "PASS" =>
        found.page.ok /\ Hsts(Single(found.page.response, "strict-transport-security"))
  <2>1. o["HTTP_HSTS"] = Outcome("HTTP_HSTS")
    BY ReportableChecks
  <2>2. Outcome("HTTP_HSTS") = "PASS" => found.page.ok /\ "HTTP_HSTS" \in HeadersPassed(found.page.response)
    BY DEF Outcome, HeaderChecks
  <2>3. "HTTP_HSTS" \in HeadersPassed(found.page.response)
          => Hsts(Single(found.page.response, "strict-transport-security"))
    BY DEF HeadersPassed
  <2> QED
    BY <2>1, <2>2, <2>3
<1>6. ASSUME o["SECURITY_TXT"] = "PASS"
      PROVE  LET lines == found.text.response.lines
             IN /\ found.text.ok /\ Cardinality(Places(lines, "expires")) = 1
                /\ offset = 0 =>
                     \A i \in Places(lines, "expires") : lines[i].arg > startedAt + Duration
  <2> DEFINE lines == found.text.response.lines
  <2>1. o["SECURITY_TXT"] = Outcome("SECURITY_TXT")
    BY ReportableChecks
  <2>2. found.text.ok /\ SecurityTxtPasses(found.text.response, Now)
    BY <1>6, <2>1 DEF Outcome, HeaderChecks
  <2>3. /\ LinesAccepted(lines, Now) /\ Cardinality(Places(lines, "expires")) = 1
    BY <2>2 DEF SecurityTxtPasses, SecurityTxtBody
  <2>4. \A i \in 1..Len(lines) : lines[i].arg \in Int
    BY <2>2, DocumentAssumption DEF ShowInv, Heard
  <2> HIDE DEF lines
  <2>5. \A i \in Places(lines, "expires") : lines[i].arg > Now /\ lines[i].arg \in Int
    BY <2>3, <2>4 DEF Places, LinesAccepted, LineAccepted
  <2>6. offset = 0 => startedAt + Duration <= Now
    BY <1>2, <1>1 DEF ShowInv, Begun, Now, IInv, Typed
  <2>7. offset = 0 => \A i \in Places(lines, "expires") : lines[i].arg > startedAt + Duration
    BY <1>1, <1>2, <2>5, <2>6
  <2> QED
    BY <2>2, <2>3, <2>7 DEF lines
<1>7. ~found.target.ok => \A c \in Checks : o[c] = "UNKNOWN"
  BY DEF ShowInv, ResolvedFirst, Outcome
<1>8. requestCount \in 0..MaxRequests
  <2>1. policy.requests <= Ceiling["requests"] /\ policy.requests \in Nat
    BY RunAssumption, DocumentAssumption DEF ShowInv, Begun, Accepted, Authorized, IInv, Typed
  <2>2. Ceiling["requests"] \in 0..MaxRequests /\ MaxRequests \in Nat
    BY DocumentAssumption, ResultPathAssumption
  <2>3. requestCount \in Nat /\ (requestCount = 0 \/ requestCount <= policy.requests)
    BY DEF IInv, Typed, WithinBudget
  <2> QED
    BY <2>1, <2>2, <2>3
<1> QED
  BY <1>2, <1>3, <1>4, <1>5, <1>6, <1>7, <1>8 DEF OutcomesTrue

LEMMA InitShowInv == Init => ShowInv
<1> SUFFICES ASSUME Init PROVE ShowInv
  OBVIOUS
<1>1. ResolvedFirst
  BY DEF Init, ResolvedFirst, Failed
<1>2. Heard
  BY DEF Init, Heard, Failed
<1>3. Begun
  BY RunAssumption DEF Init, Begun
<1>4. Handed
  BY DEF Init, Handed, Own
<1> QED
  BY <1>1, <1>2, <1>3, <1>4 DEF ShowInv

\* What a flow may come to: a page heard to its end over the pinned connection, or a
\* response the peer sent.
TrueResult(result) ==
  /\ flow.name = "page" /\ result.ok =>
       /\ result.protocol = "https:" /\ Public(result.from)
       /\ result.response.complete /\ result.received = result.response.body
       /\ Declared(result.response) => DeclaredLength(result.response) = result.received
  /\ flow.name = "text" /\ result.ok => result.response \in Responses

\* Before a document is there, nothing of it can be wrong.
LEMMA NothingHanded ==
  ASSUME document' = NoDocument, pc' \in {"hop", "lookup", "exchange", "report", "refused"}
  PROVE  Handed'
  BY DEF Handed, Own

LEMMA EndsShows ==
  ASSUME IInv, ShowInv, pc \in {"hop", "lookup", "exchange"}, NEW result, Ends(result),
         TrueResult(result), UNCHANGED <<time, offset, policy, startedAt, outcome>>
  PROVE  ShowInv'
<1>1. /\ found' = [found EXCEPT ![flow.name] = result] /\ flow' = Following(result)
      /\ pc' \in {"hop", "report"} /\ (pc' = "hop" <=> Following(result) # Idle)
  BY DEF Ends
<1>2. /\ (pc = "lookup" /\ flow.name = "target") \/ flow.name \in {"page", "text"}
      /\ document = NoDocument
  BY DEF IInv, Typed, FlowShape, Reported
<1>3. ResolvedFirst /\ Heard /\ Begun
  BY DEF ShowInv
<1>4. ASSUME pc = "lookup", flow.name = "target" PROVE ResolvedFirst' /\ Heard'
  <2>1. /\ found'.target = result /\ found'.page = found.page /\ found'.text = found.text
        /\ found' = [x \in {"target", "page", "text"} |-> found'[x]]
    BY <1>1, <1>3, <1>4 DEF ResolvedFirst
  <2>2. ~found.page.ok /\ ~found.text.ok
    BY <1>3, <1>4 DEF ResolvedFirst
  <2>3. pc' = "hop" => result.ok
    BY <1>1, <1>4 DEF Following
  <2>4. ResolvedFirst'
    BY <1>1, <2>1, <2>2, <2>3 DEF ResolvedFirst
  <2>5. Heard'
    BY <1>1, <2>1, <2>2 DEF Heard
  <2> QED
    BY <2>4, <2>5
<1>5. ASSUME flow.name = "page" PROVE ResolvedFirst' /\ Heard'
  <2>1. /\ found'.page = result /\ found'.target = found.target /\ found'.text = found.text
        /\ found' = [x \in {"target", "page", "text"} |-> found'[x]]
    BY <1>1, <1>3, <1>5 DEF ResolvedFirst
  <2>2. found.target.ok
    BY <1>2, <1>3, <1>5 DEF ResolvedFirst
  <2>3. ResolvedFirst'
    BY <1>1, <2>1, <2>2 DEF ResolvedFirst
  <2>4. Heard'
    BY <1>1, <1>3, <1>5, <2>1 DEF Heard, TrueResult
  <2> QED
    BY <2>3, <2>4
<1>6. ASSUME flow.name = "text" PROVE ResolvedFirst' /\ Heard'
  <2>1. /\ found'.text = result /\ found'.target = found.target /\ found'.page = found.page
        /\ found' = [x \in {"target", "page", "text"} |-> found'[x]]
    BY <1>1, <1>3, <1>6 DEF ResolvedFirst
  <2>2. found.target.ok
    BY <1>2, <1>3, <1>6 DEF ResolvedFirst
  <2>3. ResolvedFirst'
    BY <1>1, <2>1, <2>2 DEF ResolvedFirst
  <2>4. Heard'
    BY <1>1, <1>3, <1>6, <2>1 DEF Heard, TrueResult
  <2> QED
    BY <2>3, <2>4
<1>7. Begun'
  BY <1>3 DEF Begun, Accepted, Authorized
<1>8. Handed'
  BY <1>1, <1>2, NothingHanded DEF outcome
<1> QED
  BY <1>2, <1>4, <1>5, <1>6, <1>7, <1>8 DEF ShowInv

\* A failure claims nothing.
LEMMA FailureShows ==
  ASSUME IInv, ShowInv, pc \in {"hop", "lookup", "exchange"}, Ends(Failed),
         UNCHANGED <<time, offset, policy, startedAt, outcome>>
  PROVE  ShowInv'
<1>1. TrueResult(Failed)
  BY DEF TrueResult, Failed
<1> QED
  BY <1>1, EndsShows

\* A step that finds nothing new and leaves the document to be written.
LEMMA MoveShows ==
  ASSUME IInv, ShowInv, pc \in {"start", "hop", "lookup", "exchange"},
         UNCHANGED <<time, offset, policy, found, outcome>>,
         \/ startedAt' = startedAt
         \/ startedAt' = Now /\ Accepted(policy),
         \/ pc' = "lookup" /\ flow' = flow /\ pc \in {"start", "hop"}
         \/ pc' \in {"hop", "exchange"} /\ found.target.ok
         \/ pc' = "refused",
         pc' = "exchange" =>
            /\ exchange'.connected # None => Public(exchange'.connected)
            /\ exchange'.response # NoResponse =>
                 exchange'.connected # None /\ exchange'.response \in Responses
  PROVE  ShowInv'
<1>1. ResolvedFirst /\ Heard /\ Begun /\ time \in Int /\ offset \in Int
  BY DEF ShowInv, IInv, Typed
<1>2. ResolvedFirst'
  <2>1. found' = found /\ (pc = "start" => flow.name = "target")
        /\ (pc = "hop" => flow.name \in {"page", "text"})
    BY DEF IInv, Typed, FlowShape
  <2>2. CASE pc' = "lookup" /\ flow' = flow /\ pc = "start"
    BY <1>1, <2>1, <2>2 DEF ResolvedFirst
  <2>3. CASE pc' = "lookup" /\ flow' = flow /\ pc = "hop"
    BY <1>1, <2>1, <2>3 DEF ResolvedFirst
  <2>4. CASE pc' \in {"hop", "exchange"} /\ found.target.ok
    BY <1>1, <2>1, <2>4 DEF ResolvedFirst
  <2>5. CASE pc' = "refused"
    BY <1>1, <2>1, <2>5 DEF ResolvedFirst
  <2> QED
    BY <2>2, <2>3, <2>4, <2>5
<1>3. Heard'
  BY <1>1 DEF Heard
<1>4. Begun'
  BY <1>1 DEF Begun, Now, Accepted, Authorized
<1>5. document' = NoDocument /\ pc' \in {"hop", "lookup", "exchange", "refused"}
  BY DEF IInv, Reported, outcome
<1>6. Handed'
  BY <1>5, NothingHanded
<1> QED
  BY <1>2, <1>3, <1>4, <1>6 DEF ShowInv

LEMMA BeginShows == IInv /\ ShowInv /\ Begin => ShowInv'
<1> SUFFICES ASSUME IInv, ShowInv, Begin PROVE ShowInv'
  OBVIOUS
<1>1. CASE Accepted(policy)
  BY <1>1, MoveShows DEF Begin
<1>2. CASE ~Accepted(policy)
  BY <1>2, MoveShows DEF Begin, scan
<1> QED
  BY <1>1, <1>2

LEMMA HopShows == IInv /\ ShowInv /\ Hop => ShowInv'
<1> SUFFICES ASSUME IInv, ShowInv, Hop PROVE ShowInv'
  OBVIOUS
<1>1. CASE Ends(Failed)
  BY <1>1, FailureShows DEF Hop
<1>2. CASE pc' = "lookup" /\ UNCHANGED <<flow, exchange, found>>
  BY <1>2, MoveShows DEF Hop
<1> QED
  BY <1>1, <1>2 DEF Hop

LEMMA ResolvedShows == IInv /\ ShowInv /\ Resolved => ShowInv'
<1> SUFFICES ASSUME IInv, ShowInv, Resolved PROVE ShowInv'
  OBVIOUS
<1>1. pc = "lookup" /\ UNCHANGED <<time, offset, policy, startedAt, outcome>>
  BY DEF Resolved
<1>2. \/ flow.name = "target" /\ \E result : Ends(result)
      \/ Ends(Failed)
      \/ flow.name # "target" /\ \E target : Dispatch(target)
  <2>1. PICK r4 \in AnswersTo(4), r6 \in AnswersTo(6) :
         LET result == Resolution(r4, r6, lookup.asked)
         IN \/ /\ flow.name = "target"
               /\ Ends([ok |-> result.ok,
                        six |-> result.ok /\ \E a \in result.addresses : Family[a] = 6])
               /\ UNCHANGED <<requestCount, left>>
            \/ /\ flow.name # "target"
               /\ ~result.ok \/ Deadline - Now < LeastRemaining
               /\ Ends(Failed) /\ UNCHANGED <<requestCount, left>>
            \/ /\ flow.name # "target" /\ result.ok /\ Deadline - Now >= LeastRemaining
               /\ Dispatch(result)
    BY DEF Resolved
  <2> DEFINE result == Resolution(r4, r6, lookup.asked)
             end == [ok |-> result.ok,
                     six |-> result.ok /\ \E a \in result.addresses : Family[a] = 6]
  <2>2. \/ flow.name = "target" /\ Ends(end)
        \/ Ends(Failed)
        \/ flow.name # "target" /\ Dispatch(result)
    BY <2>1
  <2> HIDE DEF result, end
  <2> QED
    BY <2>2
<1>3. CASE flow.name = "target" /\ \E result : Ends(result)
  <2>1. PICK result : Ends(result)
    BY <1>3
  <2>2. TrueResult(result)
    BY <1>3 DEF TrueResult
  <2> QED
    BY <1>1, <2>1, <2>2, EndsShows
<1>4. CASE Ends(Failed)
  BY <1>1, <1>4, FailureShows
<1>5. CASE flow.name # "target" /\ \E target : Dispatch(target)
  <2>1. PICK target : Dispatch(target)
    BY <1>5
  <2>2. \/ Ends(Failed)
        \/ /\ pc' = "exchange" /\ UNCHANGED found
           /\ exchange'.connected = None /\ exchange'.response = NoResponse
    BY <2>1 DEF Dispatch
  <2>3. found.target.ok
    BY <1>1, <1>5 DEF ShowInv, ResolvedFirst
  <2> QED
    BY <1>1, <1>4, <2>2, <2>3, MoveShows
<1> QED
  BY <1>2, <1>3, <1>4, <1>5

\* What a whole response gives is true of it.
LEMMA EndShows == IInv /\ ShowInv /\ End => ShowInv'
<1> SUFFICES ASSUME IInv, ShowInv, End PROVE ShowInv'
  OBVIOUS
<1>1. /\ pc = "exchange" /\ exchange.response # NoResponse
      /\ exchange.response.complete => exchange.received = exchange.response.body
      /\ UNCHANGED <<time, offset, policy, requestCount, left, startedAt, outcome>>
  BY DEF End, Responded
<1>2. /\ exchange.connected # None /\ Public(exchange.connected)
      /\ exchange.response \in Responses /\ exchange.protocol = "https:"
      /\ flow.name \in {"page", "text"} /\ found.target.ok
  BY <1>1 DEF ShowInv, Heard, ResolvedFirst, IInv, OnlyPinned, Typed, FlowShape
<1>3. CASE Ends(Failed)
  BY <1>1, <1>3, FailureShows
<1>4. CASE Whole /\ Received /\ ~Ends(Failed)
  <2> DEFINE whole == Redirect(exchange.response, flow.protocol) = "NONE"
             ended == [ok |-> TRUE, whole |-> whole,
                       response |-> exchange.response, protocol |-> exchange.protocol,
                       from |-> exchange.connected, received |-> exchange.received]
  <2>1. \/ Ends(ended)
        \/ pc' = "hop" /\ UNCHANGED found
    BY <1>4 DEF Received
  <2>2. TrueResult(ended)
    BY <1>1, <1>2, <1>4 DEF TrueResult, Whole
  <2> HIDE DEF ended
  <2>3. CASE Ends(ended)
    BY <1>1, <2>2, <2>3, EndsShows
  <2>4. CASE pc' = "hop" /\ UNCHANGED found
    BY <1>1, <1>2, <2>4, MoveShows
  <2> QED
    BY <2>1, <2>3, <2>4
<1> QED
  BY <1>3, <1>4 DEF End

LEMMA ExchangeShows ==
  IInv /\ ShowInv
  /\ ((\E a \in Peers : Connect(a)) \/ (\E response \in Responses : Respond(response))
      \/ (\E n \in 1..PageBytes : Data(n)) \/ Broken \/ TimedOut)
    => ShowInv'
<1> SUFFICES ASSUME IInv, ShowInv,
             \/ \E a \in Peers : Connect(a)
             \/ \E response \in Responses : Respond(response)
             \/ \E n \in 1..PageBytes : Data(n)
             \/ Broken
             \/ TimedOut
      PROVE  ShowInv'
  OBVIOUS
<1>1. ASSUME pc = "exchange", Fails PROVE ShowInv'
  BY <1>1, FailureShows DEF Fails
<1>2. ASSUME pc = "exchange" PROVE ExchangeShape /\ found.target.ok
  BY <1>2 DEF IInv, Typed, FlowShape, ShowInv, ResolvedFirst
<1>3. ASSUME NEW a \in Peers, Connect(a) PROVE ShowInv'
  <2>1. CASE Matches(a) /\ ~Fails
    <3>1. /\ pc = "exchange" /\ exchange' = [exchange EXCEPT !.connected = a] /\ Public(a)
          /\ UNCHANGED <<time, offset, policy, pc, startedAt, flow, found, outcome>>
      BY <1>3, <2>1 DEF Connect, Matches
    <3>2. exchange'.connected = a /\ exchange'.response = exchange.response
      BY <1>2, <3>1 DEF ExchangeShape, ExchangeFields
    <3>3. /\ exchange'.connected # None => Public(exchange'.connected)
          /\ exchange'.response # NoResponse => exchange'.response \in Responses
      BY <3>1, <3>2 DEF ShowInv, Heard
    <3>4. exchange.connected = None /\ exchange.response = NoResponse
      BY <1>3, <3>1 DEF Connect, ShowInv, Heard
    <3> QED
      BY <1>2, <3>1, <3>2, <3>3, <3>4, MoveShows
  <2> QED
    BY <1>1, <1>3, <2>1 DEF Connect
<1>4. ASSUME NEW response \in Responses, Respond(response) PROVE ShowInv'
  <2>1. CASE ~ResponseRefused(response) /\ ~Fails
    <3>1. /\ pc = "exchange" /\ exchange' = [exchange EXCEPT !.response = response]
          /\ exchange.connected # None
          /\ UNCHANGED <<time, offset, policy, pc, startedAt, flow, found, outcome>>
      BY <1>4, <2>1 DEF Respond, ResponseRefused
    <3>2. exchange'.connected = exchange.connected /\ exchange'.response = response
      BY <1>2, <3>1 DEF ExchangeShape, ExchangeFields
    <3>3. Public(exchange'.connected)
      BY <3>1, <3>2 DEF ShowInv, Heard
    <3> QED
      BY <1>2, <1>4, <3>1, <3>2, <3>3, MoveShows
  <2> QED
    BY <1>1, <1>4, <2>1 DEF Respond
<1>5. ASSUME NEW n \in 1..PageBytes, Data(n) PROVE ShowInv'
  <2>1. CASE ~Oversized(exchange.received + n) /\ ~Fails
    <3>1. /\ pc = "exchange" /\ exchange' = [exchange EXCEPT !.received = exchange.received + n]
          /\ UNCHANGED <<time, offset, policy, pc, startedAt, flow, found, outcome>>
      BY <1>5, <2>1 DEF Data, Responded
    <3>2. exchange'.connected = exchange.connected /\ exchange'.response = exchange.response
      BY <1>2, <3>1 DEF ExchangeShape, ExchangeFields
    <3>3. /\ exchange.connected # None => Public(exchange.connected)
          /\ exchange.response # NoResponse =>
               exchange.connected # None /\ exchange.response \in Responses
      BY <3>1 DEF ShowInv, Heard
    <3> QED
      BY <1>2, <3>1, <3>2, <3>3, MoveShows
  <2> QED
    BY <1>1, <1>5, <2>1 DEF Data, Responded
<1>6. CASE Broken \/ TimedOut
  BY <1>1, <1>6 DEF Broken, TimedOut, TimerSet
<1> QED
  BY <1>3, <1>4, <1>5, <1>6

\* From the writing on, what was found does not change; the clock may be stepped, once.
LEMMA WrittenStays ==
  ASSUME IInv, ShowInv, UNCHANGED <<requestCount, startedAt, found, document>>,
         offset' = 0 => offset = 0, Own'
  PROVE  OwnWritten'
<1>1. OwnWritten
  BY DEF Own, ShowInv, Handed
<1>2. PICK o \in [Checks -> Outcomes], d \in 0..MaxDuration :
        document = OwnDocument(o, d) /\ OutcomesTrue(o, d)
  BY <1>1 DEF OwnWritten
<1>3. OwnDocument(o, d)' = OwnDocument(o, d)
  BY DEF OwnDocument, OwnCoverage, Coverage, Warnings
<1>4. OutcomesTrue(o, d)'
  BY <1>2 DEF OutcomesTrue
<1> QED
  BY <1>1, <1>2, <1>3, <1>4 DEF OwnWritten

\* What is there of the run when nothing of it changes but its document and the clock.
LEMMA RunStays ==
  ASSUME ShowInv, UNCHANGED <<policy, startedAt, flow, found>>,
         pc' \in {"written", "signed", "stored", "refused"},
         time' = time, offset' = offset
  PROVE  ResolvedFirst' /\ Heard' /\ Begun'
<1>1. ResolvedFirst'
  BY DEF ShowInv, ResolvedFirst
<1>2. Heard'
  BY DEF ShowInv, Heard
<1>3. Begun'
  BY DEF ShowInv, Begun, Accepted, Authorized
<1> QED
  BY <1>1, <1>2, <1>3

LEMMA ReportShows == IInv /\ ShowInv /\ Report => ShowInv'
<1> SUFFICES ASSUME IInv, ShowInv, Report PROVE ShowInv'
  OBVIOUS
<1> DEFINE o == [c \in Checks |-> Outcome(c)]
           d == Duration
<1>1. /\ pc' = "written" /\ document' = Document /\ pc = "report"
      /\ UNCHANGED <<time, offset, policy, requestCount, startedAt, flow, found>>
  BY DEF Report, scan
<1>2. Sound(document')
  BY <1>1, DocumentIsOwn, OwnSound
<1>3. ASSUME startedAt # 0 PROVE OwnWritten'
  <2>1. /\ o \in [Checks -> Outcomes] /\ d \in 0..MaxDuration
        /\ Document = OwnDocument(o, d) /\ OutcomesTrue(o, d) /\ requestCount \in 0..MaxRequests
    BY <1>3, ReportedTrue
  <2> HIDE DEF o, d
  <2>2. \E outcomes \in [Checks -> Outcomes], duration \in 0..MaxDuration :
          /\ Document = OwnDocument(outcomes, duration)
          /\ OutcomesTrue(outcomes, duration)
    BY <2>1
  <2>3. PICK outcomes \in [Checks -> Outcomes], duration \in 0..MaxDuration :
          /\ Document = OwnDocument(outcomes, duration)
          /\ OutcomesTrue(outcomes, duration)
    BY <2>2
  <2>4. OwnDocument(outcomes, duration)' = OwnDocument(outcomes, duration)
    BY <1>1 DEF OwnDocument, OwnCoverage, Coverage, Warnings
  <2>5. OutcomesTrue(outcomes, duration)'
    BY <1>1, <2>3 DEF OutcomesTrue
  <2> QED
    BY <1>1, <2>1, <2>3, <2>4, <2>5 DEF OwnWritten
<1>4. Handed'
  BY <1>1, <1>2, <1>3 DEF Handed, Own
<1> QED
  BY <1>1, <1>4, RunStays DEF ShowInv

LEMMA ReplacedShows == IInv /\ ShowInv /\ Replaced => ShowInv'
<1> SUFFICES ASSUME IInv, ShowInv, Replaced PROVE ShowInv'
  OBVIOUS
<1>1. /\ pc' = "written" /\ document' \in OtherDocuments /\ pc = "start"
      /\ UNCHANGED <<time, offset, policy, requestCount, startedAt, flow, found>>
  BY DEF Replaced, scan
<1>2. Sound(document')
  BY <1>1, DocumentAssumption DEF Sound
<1>3. startedAt' = 0
  BY <1>1 DEF IInv, Reported
<1>4. Handed'
  BY <1>1, <1>2, <1>3 DEF Handed, Own
<1> QED
  BY <1>1, <1>4, RunStays DEF ShowInv

LEMMA SuperviseShows == IInv /\ ShowInv /\ Supervise => ShowInv'
<1> SUFFICES ASSUME IInv, ShowInv, Supervise PROVE ShowInv'
  OBVIOUS
<1>1. /\ pc = "written" /\ pc' \in {"signed", "refused"}
      /\ UNCHANGED <<time, offset, policy, requestCount, startedAt, flow, found, document>>
      /\ pc' = "signed" => Supervised(document) /\ envelope' = Sign(Produce(document).payload, Now)
  BY DEF Supervise, scan
<1>2. Sound(document) /\ Now \in Int
  BY <1>1 DEF ShowInv, Handed, IInv, Typed, Now
<1>3. pc' = "signed" =>
        /\ Produce(document').ok /\ envelope'.issued \in Int
        /\ envelope' = Sign(Produce(document').payload, envelope'.issued)
  <2> SUFFICES ASSUME pc' = "signed" PROVE /\ Produce(document').ok /\ envelope'.issued = Now
                                           /\ envelope' = Sign(Produce(document').payload, Now)
    BY <1>2
  <2>1. Sign(Produce(document).payload, Now).issued = Now
    BY DEF Sign
  <2> QED
    BY <1>1, <2>1 DEF Supervised
<1>4. Own' => OwnWritten'
  BY <1>1, WrittenStays
<1>5. Handed'
  BY <1>1, <1>2, <1>3, <1>4 DEF Handed
<1> QED
  BY <1>1, <1>5, RunStays DEF ShowInv

LEMMA StoreShows == IInv /\ ShowInv /\ Store => ShowInv'
<1> SUFFICES ASSUME IInv, ShowInv, Store PROVE ShowInv'
  OBVIOUS
<1>1. /\ pc = "signed" /\ pc' = "stored" /\ stored' = Commit(envelope, Now)
      /\ UNCHANGED <<time, offset, policy, requestCount, startedAt, flow, found, document, envelope>>
  BY DEF Store, scan
<1>2. /\ Sound(document) /\ Produce(document).ok /\ envelope.issued \in Int
      /\ envelope = Sign(Produce(document).payload, envelope.issued)
  BY <1>1 DEF ShowInv, Handed
<1>3. Now' = Now
  BY <1>1 DEF Now
<1>4. Own' => OwnWritten'
  BY <1>1, WrittenStays
<1>5. Handed'
  BY <1>1, <1>2, <1>3, <1>4 DEF Handed
<1> QED
  BY <1>1, <1>5, RunStays DEF ShowInv

\* Time, which does not pass once a result is stored.
LEMMA TimeShows == IInv /\ ShowInv /\ (Tick \/ StepClock) => ShowInv'
<1> SUFFICES ASSUME IInv, ShowInv, Tick \/ StepClock PROVE ShowInv'
  OBVIOUS
<1>1. /\ UNCHANGED <<pc, policy, requestCount, startedAt, flow, exchange, found, document,
                     envelope, stored>>
      /\ pc # "stored"
      /\ (time' = time + 1 /\ offset' = offset) \/ (time' = time /\ offset = 0)
  BY DEF Tick, StepClock, scan, outcome
<1>2. ResolvedFirst' /\ Heard'
  BY <1>1 DEF ShowInv, ResolvedFirst, Heard
<1>3. Begun'
  BY <1>1 DEF ShowInv, Begun, Accepted, Authorized, IInv, Typed
<1>4. Own' => OwnWritten'
  BY <1>1, WrittenStays
<1>5. Handed'
  BY <1>1, <1>4 DEF ShowInv, Handed
<1> QED
  BY <1>2, <1>3, <1>5 DEF ShowInv

LEMMA StutterShows == IInv /\ ShowInv /\ UNCHANGED vars => ShowInv'
<1> SUFFICES ASSUME IInv, ShowInv, UNCHANGED vars PROVE ShowInv'
  OBVIOUS
<1>1. Own' => OwnWritten'
  BY WrittenStays DEF vars
<1>2. Handed'
  BY <1>1 DEF vars, ShowInv, Handed, Now
<1> QED
  BY <1>2 DEF vars, ShowInv, ResolvedFirst, Heard, Begun, Accepted, Authorized

LEMMA NextShowInv == IInv /\ ShowInv /\ [Next]_vars => ShowInv'
BY BeginShows, HopShows, ResolvedShows, EndShows, ExchangeShows, ReportShows, ReplacedShows,
   SuperviseShows, StoreShows, TimeShows, StutterShows DEF Next

\* What a run has found and what becomes of its document agree in every state.
THEOREM ShowInvariant == Spec => [](IInv /\ ShowInv)
<1>1. Spec => []IInv
  BY InductiveInvariant
<1> QED
  BY <1>1, InitShowInv, NextShowInv, PTL DEF Spec

\* A value that occurs is the first one, if it occurs once.
LEMMA FirstOfOne ==
  ASSUME NEW parts, NEW name, NEW i, Places(parts, name) = {i}, i \in Int
  PROVE  First(parts, name) = parts[i]
<1>1. (CHOOSE k \in Places(parts, name) : \A j \in Places(parts, name) : k <= j) = i
  OBVIOUS
<1> QED
  BY <1>1 DEF First

\* A header that passes as HSTS asks for it, once and for a positive time.
LEMMA HstsAsked ==
  ASSUME NEW value, Hsts(value)
  PROVE  First(value, "max-age").arg > 0
<1>1. PICK i \in 1..Len(value) : value[i].name = "max-age" /\ value[i].arg > 0
  BY DEF Hsts
<1>2. Places(value, "max-age") = {i}
  BY <1>1 DEF Hsts, NoRepeats, Places
<1> QED
  BY <1>1, <1>2, FirstOfOne

\* A document the supervisor accepts and the committer gets while its envelope lives is
\* stored and shown, whoever wrote it: the canonical form is its own, and every later
\* check asks no more than the first.
THEOREM AcceptedShown == Spec => []AcceptedIsShown
<1>1. IInv /\ ShowInv => AcceptedIsShown
  <2> SUFFICES ASSUME IInv, ShowInv, pc = "stored", SigningKey \in Keyring,
                      Now \in envelope.issued - MaxSkew .. envelope.expires - 1
               PROVE  /\ stored = Produce(document).projection
                      /\ Sent(View(stored)).ok
    BY DEF AcceptedIsShown
  <2>1. /\ Sound(document) /\ Produce(document).ok /\ envelope.issued \in Int
        /\ envelope = Sign(Produce(document).payload, envelope.issued)
        /\ stored = Commit(envelope, Now)
    BY DEF ShowInv, Handed
  <2>2. Now \in Int
    BY DEF IInv, Typed, Now
  <2>3. stored = Project(document)
    BY <2>1, <2>2, CommitOfSigned
  <2>4. Acceptable(document) /\ Produce(document).projection = Project(document)
    BY <2>1, ProducedAgain
  <2>5. View(stored).ok /\ Sent(View(stored)) = View(stored)
    BY <2>1, <2>3, <2>4, ProjectionSanitized, ViewSent
  <2> QED
    BY <2>3, <2>4, <2>5
<1> QED
  BY <1>1, ShowInvariant, PTL

\* Whatever the network did, the supervisor accepts what this scanner writes, and what is
\* shown of it is what the run found: TLS and HSTS only of a page heard to its end over the
\* pinned connection, a security.txt only if it is not expired when the run ends, as many
\* potential risks as checks that need attention, and nothing of an unresolved target.
THEOREM ShownTrue == Spec => []ShownIsTrue
<1>1. IInv /\ ShowInv => ShownIsTrue
  <2> SUFFICES ASSUME IInv, ShowInv, Own PROVE ShownIsTrue
    BY DEF ShownIsTrue
  <2>1. PICK o \in [Checks -> Outcomes], d \in 0..MaxDuration :
          document = OwnDocument(o, d) /\ OutcomesTrue(o, d)
    BY DEF ShowInv, Handed, OwnWritten
  <2>2. requestCount \in 0..MaxRequests
    BY DEF ShowInv, Handed, OwnWritten
  <2>3. Supervised(document)
    BY <2>1, <2>2, OwnAccepted
  <2>4. ASSUME pc = "stored", stored.ok
        PROVE  LET shown == Sent(View(stored))
                   marked(outcomes) == Marked(shown, outcomes)
                   page == found.page.response
               IN /\ shown.ok
                  /\ shown.groups["TLS_CERTIFICATE_POSTURE"] = "COMPLETE" =>
                       /\ found.page.protocol = "https:" /\ Public(found.page.from)
                       /\ page.complete /\ found.page.received = page.body
                       /\ Declared(page) => DeclaredLength(page) = found.page.received
                  /\ "HTTP_HSTS" \in marked({"PASS"}) =>
                       First(Single(page, "strict-transport-security"), "max-age").arg > 0
                  /\ offset = 0 /\ "SECURITY_TXT" \in marked({"PASS"}) =>
                       First(found.text.response.lines, "expires").arg > startedAt + stored.duration
                  /\ shown.risks = Cardinality(marked({"ATTENTION"}) \cap Reportable)
                  /\ ~found.target.ok => marked({"PASS", "ATTENTION"}) = {}
    <3> DEFINE shown == Sent(View(stored))
               page == found.page.response
               lines == found.text.response.lines
    <3>1. /\ Sound(document) /\ Produce(document).ok /\ envelope.issued \in Int
          /\ envelope = Sign(Produce(document).payload, envelope.issued)
          /\ stored = Commit(envelope, Now) /\ Now \in Int
      BY <2>4 DEF ShowInv, Handed, IInv, Typed, Now
    <3>2. stored = Project(document)
      BY <2>4, <3>1, CommitOfSigned DEF Refused
    <3>3. /\ shown.ok /\ stored.duration = d
          /\ \A outcomes : Marked(shown, outcomes) = {c \in Checks : o[c] \in outcomes}
          /\ shown.risks = Cardinality({c \in Reportable : o[c] = "ATTENTION"})
          /\ shown.groups["TLS_CERTIFICATE_POSTURE"] = "COMPLETE" => found.page.ok
      BY <2>1, <2>2, <3>2, OwnShown
    <3> HIDE DEF shown
    <3>4. shown.groups["TLS_CERTIFICATE_POSTURE"] = "COMPLETE" =>
            /\ found.page.protocol = "https:" /\ Public(found.page.from)
            /\ page.complete /\ found.page.received = page.body
            /\ Declared(page) => DeclaredLength(page) = found.page.received
      BY <3>3 DEF ShowInv, Heard
    <3>5. "HTTP_HSTS" \in Marked(shown, {"PASS"}) =>
            First(Single(page, "strict-transport-security"), "max-age").arg > 0
      BY <2>1, <3>3, HstsAsked DEF OutcomesTrue
    <3>6. ASSUME offset = 0, "SECURITY_TXT" \in Marked(shown, {"PASS"})
          PROVE  First(lines, "expires").arg > startedAt + stored.duration
      <4>1. /\ found.text.ok /\ Cardinality(Places(lines, "expires")) = 1
            /\ \A i \in Places(lines, "expires") : lines[i].arg > startedAt + d
        BY <2>1, <3>3, <3>6 DEF OutcomesTrue
      <4>2. PICK i : Places(lines, "expires") = {i}
        <5>1. Len(lines) \in Nat
          BY <4>1, DocumentAssumption DEF ShowInv, Heard
        <5> HIDE DEF lines
        <5>2. IsFiniteSet(1..Len(lines))
          BY <5>1, FS_Interval
        <5>3. Places(lines, "expires") \subseteq 1..Len(lines)
          BY DEF Places
        <5>4. IsFiniteSet(Places(lines, "expires"))
          BY <5>2, <5>3, FS_Subset
        <5> QED
          BY <4>1, <5>4, FS_Singleton
      <4>3. i \in Int
        BY <4>2 DEF Places
      <4> HIDE DEF lines
      <4>4. First(lines, "expires") = lines[i]
        BY <4>2, <4>3, FirstOfOne
      <4> QED
        BY <3>3, <4>1, <4>2, <4>4
    <3>7. shown.risks = Cardinality(Marked(shown, {"ATTENTION"}) \cap Reportable)
      <4>1. Marked(shown, {"ATTENTION"}) \cap Reportable = {c \in Reportable : o[c] = "ATTENTION"}
        BY <3>3, ReportableChecks
      <4> QED
        BY <3>3, <4>1
    <3>8. ~found.target.ok => Marked(shown, {"PASS", "ATTENTION"}) = {}
      BY <2>1, <3>3 DEF OutcomesTrue
    <3> QED
      BY <3>3, <3>4, <3>5, <3>6, <3>7, <3>8 DEF shown
  <2> QED
    BY <2>3, <2>4 DEF ShownIsTrue, Marked
<1> QED
  BY <1>1, ShowInvariant, PTL
=============================================================================
