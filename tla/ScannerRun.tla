------------------------------ MODULE ScannerRun ------------------------------
(***************************************************************************)
(* One run of the guest scanner (guest-scanner/run.ts): it resolves the    *)
(* target, fetches its page and its security.txt over HTTPS, each as a     *)
(* flow of redirects on the target's own hostname (target/safe-http-flow), *)
(* every hop resolved anew and sent to a pinned address                    *)
(* (target/pinned-transport), and writes its document.  The document then  *)
(* goes the way of ResultPath: signed by the supervisor, committed, shown. *)
(*                                                                         *)
(* The code runs alone between two awaits; DNS servers, the peer, timers   *)
(* and time act at the awaits, and time also between any two readings of   *)
(* the clock.  The clock is Date.now, which an administrator or NTP may    *)
(* step; timers are not affected by that, and fire when they are due.  The *)
(* two queries of a resolution are awaited together, so only the pair of   *)
(* their answers matters.  The flows allow no retries (max_retries is 0),  *)
(* so the branches that retry are left out.                                *)
(***************************************************************************)
EXTENDS ResultPath, TargetPolicy, PagePosture

CONSTANTS
  Policies,       \* policies a run may be asked to execute
  Capabilities,   \* ALLOWED_CAPABILITIES.GUEST_SAFE
  Required,       \* REQUIRED_CAPABILITIES
  Ceiling,        \* BUDGET_CEILINGS.GUEST_SAFE
  Answers,        \* what DNS may answer to the query of each family
  Peers,          \* addresses a socket may turn out to be connected to
  Responses,      \* responses a peer may send
  PageBytes, TextBytes, \* most bytes read of the page and of security.txt
  LeastRemaining, \* 100 ms
  MaxTimeout,     \* longest timeout of one request
  OtherDocuments, \* documents of a scanner that is not this one
  Step,           \* how far the clock may be stepped, back or forth
  Horizon         \* bound: time stops then, except for a request under way

ASSUME RunAssumption ==
  /\ {PageBytes, TextBytes, LeastRemaining, MaxTimeout, Step, Horizon} \subseteq Nat
  /\ Answers \in [{4, 6} -> SUBSET [kind : {"DATA", "NO_DATA", "NOT_FOUND", "FAILED"},
       wellFormed : BOOLEAN, addresses : SUBSET Addresses, ttl : Nat]]
  /\ Peers \subseteq Addresses
  /\ \A p \in Policies : p.duration \in Nat /\ p.requests \in Nat

\* Of the other documents, what reading them makes sure of; of this scanner's, that its
\* limits leave room for its checks.
ASSUME DocumentAssumption ==
  /\ Lifetime \in 1..MaxLifetime
  /\ "requests" \in DOMAIN Ceiling /\ Ceiling["requests"] \in 0..MaxRequests
  /\ 7 <= MaxFindings /\ 7 <= MaxBytes /\ 7 * Redaction <= MaxBytes /\ 6 <= MaxWarnings
  /\ 1 <= MaxEvidence /\ Redaction <= MaxEvidence
  /\ \A doc \in OtherDocuments :
       /\ DOMAIN doc = DocumentFields /\ doc.padding \in Nat
       /\ IsFiniteSet(doc.findings) /\ IsFiniteSet(doc.warnings.entries)
       /\ \A f \in doc.findings : DOMAIN f = FindingFields /\ f.evidence \in Nat
  /\ \A r \in Responses :
       Len(r.lines) \in Nat /\ \A i \in 1..Len(r.lines) : r.lines[i].arg \in Int

VARIABLES
  time,         \* true time
  offset,       \* how far the clock is ahead of it
  policy,
  pc,
  requestCount, \* what the run has reserved of its budget
  left,         \* queries and connections that left the process
  startedAt,    \* the clock when the run began
  flow,         \* the flow being executed
  lookup,       \* the resolution under way: the clock before it, what was asked
  exchange,     \* the request under way
  found,        \* what the resolution and the two flows came to
  document,     \* what the run wrote
  envelope,     \* the signed document
  stored        \* the projection in the store

vars == <<time, offset, policy, pc, requestCount, left, startedAt, flow, lookup, exchange,
          found, document, envelope, stored>>
scan == <<policy, requestCount, left, startedAt, flow, lookup, exchange, found>>
outcome == <<document, envelope, stored>>

Now == time + offset
None == "NONE"
NoLookup == [asked |-> 0, families |-> {}, at |-> 0]
NoDocument == [readable |-> FALSE]
NoResponse == [status |-> 0]
NoExchange == [pin |-> None]
Failed == [ok |-> FALSE]
Idle == [name |-> None]
Flow(name) == [name |-> name, protocol |-> "https:", redirects |-> 0, bytes |-> 0]
Deadline == startedAt + policy.duration
-----------------------------------------------------------------------------
\* authorizeScannerExecution, for the profile of guests: capabilities it has, budgets
\* within its ceilings.
Authorized(p) ==
  /\ p.capabilities \subseteq Capabilities
  /\ \A b \in DOMAIN Ceiling : p[b] <= Ceiling[b]

\* scannerInput: what the policy asks for is allowed and enough for a run.
Accepted(p) ==
  /\ Authorized(p) /\ Required \subseteq p.capabilities
  /\ p.duration >= 1 /\ p.requests >= 3 /\ p.response >= 1 /\ p.total >= 1

\* The limits the run gives each flow.
Limits(name) ==
  IF name = "page"
  THEN [response |-> Min({policy.response, PageBytes}), total |-> policy.total]
  ELSE [response |-> Min({policy.response, TextBytes}), total |-> TextBytes]

Reservable_fromHere(count, n) == {i \in 1..n : count + i <= policy.requests + 1}

\* reserve: which of the next n operations the budget allows.
Reservable(count, n) == {i \in 1..n : count + i <= policy.requests}

\* Both families are asked at once, that of IPv4 first.
Ask ==
  LET allowed == Reservable(requestCount, 2)
  IN /\ requestCount' = requestCount + Cardinality(allowed)
     /\ left' = left + Cardinality(allowed)
     /\ lookup' = [asked |-> Now, families |-> {f \in {4, 6} : f \div 2 - 1 \in allowed}, at |-> time]

Begin ==
  /\ pc = "start"
  /\ \/ /\ Accepted(policy)
        /\ startedAt' = Now /\ pc' = "lookup" /\ Ask
        /\ UNCHANGED <<time, offset, policy, flow, exchange, found, outcome>>
     \/ /\ ~Accepted(policy)
        /\ pc' = "refused"
        /\ UNCHANGED <<time, offset, scan, outcome>>

\* The flow after this one; none after the last, or if the target did not resolve.
Following(result) ==
  IF flow.name = "target" /\ result.ok THEN Flow("page")
  ELSE IF flow.name = "page" THEN Flow("text") ELSE Idle

\* The resolution or a flow has come to a result.
Ends(result) ==
  /\ found' = [found EXCEPT ![flow.name] = result]
  /\ flow' = Following(result)
  /\ pc' = IF Following(result) = Idle THEN "report" ELSE "hop"
  /\ lookup' = NoLookup /\ exchange' = NoExchange

\* One turn of executeSafeHttpFlow: nothing is asked at or after the deadline.
Hop ==
  /\ pc = "hop"
  /\ \/ /\ Limits(flow.name).total < Limits(flow.name).response \/ Now >= Deadline
        /\ Ends(Failed)
        /\ UNCHANGED <<requestCount, left>>
     \/ /\ Limits(flow.name).total >= Limits(flow.name).response /\ Now < Deadline
        /\ Ask /\ pc' = "lookup"
        /\ UNCHANGED <<flow, exchange, found>>
  /\ UNCHANGED <<time, offset, policy, startedAt, outcome>>

\* A query the budget refused is rejected at once.
AnswersTo(f) == IF f \in lookup.families THEN Answers[f] ELSE {Empty("FAILED")}

Timeout_own(remaining) == MaxTimeout

\* The request's timer: it never runs past the deadline.
Timeout(remaining) == Min({MaxTimeout, policy.duration, remaining})

\* The transport is called with the first address; a request the budget allows
\* is counted though its pin may still be refused.  approved and fresh record, by true
\* time, what the answer was that the request relies on.
Dispatch(target) ==
  \/ /\ Reservable(requestCount, 1) = {}
     /\ Ends(Failed)
     /\ UNCHANGED <<requestCount, left>>
  \/ /\ Reservable(requestCount, 1) # {}
     /\ requestCount' = requestCount + 1
     /\ \E pin \in Pins(target) :
          \/ /\ ~Pinnable(target, pin, Now)
             /\ Ends(Failed) /\ UNCHANGED left
          \/ /\ Pinnable(target, pin, Now)
             /\ left' = left + 1
             /\ exchange' =
                  [pin |-> pin, protocol |-> flow.protocol, by |-> time + Timeout(Deadline - Now),
                   connected |-> None, response |-> NoResponse, received |-> 0,
                   approved |-> \A a \in target.addresses \cup {pin} : Public(a),
                   fresh |-> time - lookup.at < target.expires - target.resolved]
             /\ pc' = "exchange"
             /\ UNCHANGED <<flow, lookup, found>>

Resolved ==
  /\ pc = "lookup"
  /\ \E r4 \in AnswersTo(4), r6 \in AnswersTo(6) :
       LET result == Resolution(r4, r6, lookup.asked)
       IN \/ /\ flow.name = "target"
             /\ Ends([ok |-> result.ok,
                      six |-> result.ok /\ \E a \in result.addresses : Family[a] = 6])
             /\ UNCHANGED <<requestCount, left>>
          \/ /\ flow.name # "target"
             /\ ~result.ok \/ Deadline - Now < LeastRemaining
             /\ Ends(Failed) /\ UNCHANGED <<requestCount, left>>
          \/ /\ flow.name # "target" /\ result.ok /\ Deadline - Now >= LeastRemaining
             /\ Dispatch(result)
  /\ UNCHANGED <<time, offset, policy, startedAt, outcome>>
-----------------------------------------------------------------------------
Fails ==
  /\ Ends(Failed)
  /\ UNCHANGED <<time, offset, policy, requestCount, left, startedAt, outcome>>

Matches_any(a) == Public(a)

\* The address the socket reports, in its own normal form, is the pin.
Matches(a) == a = exchange.pin /\ Public(a)

\* The socket is connected, for HTTPS after the handshake.
Connect(a) ==
  /\ pc = "exchange" /\ exchange.connected = None
  /\ \/ ~Matches(a) /\ Fails
     \/ /\ Matches(a)
        /\ exchange' = [exchange EXCEPT !.connected = a]
        /\ UNCHANGED <<time, offset, policy, pc, requestCount, left, startedAt, flow, lookup, found, outcome>>

\* The head of a response, which is refused if no connection was seen to succeed.
ResponseRefused(response) ==
  \/ exchange.connected = None
  \/ response.status \notin 100..599 \/ ~response.head \/ ~Framed(response)
  \/ DeclaredLength(response) > Limits(flow.name).response

Respond(response) ==
  /\ pc = "exchange" /\ exchange.response = NoResponse
  /\ \/ ResponseRefused(response) /\ Fails
     \/ /\ ~ResponseRefused(response)
        /\ exchange' = [exchange EXCEPT !.response = response]
        /\ UNCHANGED <<time, offset, policy, pc, requestCount, left, startedAt, flow, lookup, found, outcome>>

Responded == pc = "exchange" /\ exchange.response # NoResponse

Oversized(received) == received > Limits(flow.name).response

\* A chunk of the body.
Data(n) ==
  /\ Responded /\ exchange.received + n <= exchange.response.body
  /\ \/ Oversized(exchange.received + n) /\ Fails
     \/ /\ ~Oversized(exchange.received + n)
        /\ exchange' = [exchange EXCEPT !.received = @ + n]
        /\ UNCHANGED <<time, offset, policy, pc, requestCount, left, startedAt, flow, lookup, found, outcome>>

Whole_anyLength == exchange.response.complete

\* The message is complete, and as long as it said.
Whole ==
  /\ exchange.response.complete
  /\ Declared(exchange.response) => DeclaredLength(exchange.response) = exchange.received

\* What the flow makes of a whole response.
Received ==
  LET response == exchange.response
      bytes == flow.bytes + exchange.received
      kind == Redirect(response, flow.protocol)
      ended == [ok |-> TRUE, whole |-> kind = "NONE", response |-> response,
                protocol |-> exchange.protocol, from |-> exchange.connected,
                received |-> exchange.received]
  IN \/ /\ Now >= Deadline \/ bytes > Limits(flow.name).total \/ kind \in {"INVALID", "DOWNGRADE"}
        /\ Ends(Failed)
     \/ /\ Now < Deadline /\ bytes <= Limits(flow.name).total
        /\ \/ kind \in {"NONE", "CROSS_HOST"} /\ Ends(ended)
           \/ /\ kind = "FOLLOW" /\ flow.redirects >= policy.redirects
              /\ Ends(Failed)
           \/ /\ kind = "FOLLOW" /\ flow.redirects < policy.redirects
              /\ flow' = [flow EXCEPT !.redirects = @ + 1, !.bytes = bytes,
                                      !.protocol = RedirectProtocol(response)]
              /\ lookup' = NoLookup /\ exchange' = NoExchange /\ pc' = "hop"
              /\ UNCHANGED found

\* The response ends once its body is there, or earlier and then not complete.
End ==
  /\ Responded
  /\ exchange.response.complete => exchange.received = exchange.response.body
  /\ \/ ~Whole /\ Ends(Failed)
     \/ Whole /\ Received
  /\ UNCHANGED <<time, offset, policy, requestCount, left, startedAt, outcome>>

\* An error of the request or its response, or an aborted response.
Broken == pc = "exchange" /\ Fails

TimerSet_untilHead == pc = "exchange" /\ exchange.response = NoResponse

\* The timer of the request, which nothing but its end clears.
TimerSet == pc = "exchange"

TimedOut == TimerSet /\ time >= exchange.by /\ Fails
-----------------------------------------------------------------------------
\* What the run makes of a check.
Outcome(check) ==
  CASE check = "DNS_AAAA_PRESENT" /\ found.target.ok ->
         IF found.target.six THEN "PASS" ELSE "ATTENTION"
    [] check \in {"TLS_CERTIFICATE", "HTTP_PROTOCOL"} /\ found.page.ok -> "PASS"
    [] check \in HeaderChecks /\ found.page.ok ->
         IF check \in HeadersPassed(found.page.response) THEN "PASS" ELSE "ATTENTION"
    [] check = "SECURITY_TXT" /\ found.text.ok ->
         IF found.text.whole /\ SecurityTxtPasses(found.text.response, Now) THEN "PASS" ELSE "ATTENTION"
    [] OTHER -> "UNKNOWN"

Covered(ok, completeness) ==
  IF ok THEN [status |-> "SUCCESS", completeness |-> completeness]
  ELSE [status |-> "FAILED", completeness |-> "UNKNOWN"]

Coverage(group) ==
  CASE group = "TARGET_RESOLUTION" -> Covered(found.target.ok, "COMPLETE")
    [] group = "DNS_DOMAIN_POSTURE" -> Covered(found.target.ok, "PARTIAL")
    [] group = "TLS_CERTIFICATE_POSTURE" -> Covered(found.page.ok, "COMPLETE")
    [] group = "HTTP_SECURITY_POSTURE" -> Covered(found.page.ok, "PARTIAL")
    [] OTHER -> Covered(FALSE, "UNKNOWN")

Warnings ==
  Unavailable
  \cup (IF found.target.ok THEN {} ELSE {"TARGET_RESOLUTION"})
  \cup (IF found.target.ok /\ ~found.page.ok THEN {"HTTPS_PROBE"} ELSE {})
  \cup (IF found.target.ok /\ ~found.text.ok THEN {"SECURITY_TXT"} ELSE {})

Duration_raw == Now - startedAt
Duration == Max({0, Min({MaxDuration, Now - startedAt})})

\* The checks whose failure is a finding; HTTP_PROTOCOL would be one, but never fails.
Reportable == HeaderChecks \cup {"SECURITY_TXT"}

\* buildOutput
Document ==
  [readable |-> TRUE, hostname |-> "target", padding |-> 0,
   observations |-> Once({[id |-> c, outcome |-> Outcome(c)] : c \in Checks}),
   findings |-> {[fingerprint |-> c, evidence |-> 1, place |-> 1] :
                  c \in {c \in Reportable : Outcome(c) = "ATTENTION"}},
   coverage |-> Once({[id |-> g, status |-> Coverage(g).status,
                       completeness |-> Coverage(g).completeness] : g \in Groups}),
   warnings |-> Once({[id |-> w] : w \in Warnings}),
   duration |-> Duration, requests |-> requestCount]

Report ==
  /\ pc = "report"
  /\ document' = Document /\ pc' = "written"
  /\ UNCHANGED <<time, offset, scan, envelope, stored>>

\* Instead of this scanner's, any other document is read: what comes out of the
\* sandbox is not trusted.
Replaced ==
  /\ pc = "start"
  /\ document' \in OtherDocuments /\ pc' = "written"
  /\ UNCHANGED <<time, offset, scan, envelope, stored>>

\* The supervisor accepts a document about the target, and signs its canonical form.
Supervised(doc) ==
  LET produced == Produce(doc) IN produced.ok /\ produced.projection.hostname = "target"

Supervise ==
  /\ pc = "written"
  /\ \/ /\ Supervised(document)
        /\ envelope' = Sign(Produce(document).payload, Now) /\ pc' = "signed"
     \/ /\ ~Supervised(document)
        /\ pc' = "refused" /\ UNCHANGED envelope
  /\ UNCHANGED <<time, offset, scan, document, stored>>

\* The result is committed, or refused for good.
Store ==
  /\ pc = "signed"
  /\ stored' = Commit(envelope, Now) /\ pc' = "stored"
  /\ UNCHANGED <<time, offset, scan, document, envelope>>

Tick ==
  /\ time < Horizon \/ pc = "exchange"
  /\ pc = "exchange" => time < exchange.by
  /\ pc \notin {"refused", "stored"}
  /\ time' = time + 1
  /\ UNCHANGED <<offset, pc, scan, outcome>>

StepClock ==
  /\ offset = 0 /\ pc \notin {"refused", "stored"}
  /\ offset' \in {-Step, Step}
  /\ UNCHANGED <<time, pc, scan, outcome>>

Init ==
  /\ time = Step + 1 /\ offset = 0 /\ policy \in Policies /\ pc = "start"
  /\ requestCount = 0 /\ left = 0 /\ startedAt = 0
  /\ flow = [name |-> "target"] /\ lookup = NoLookup /\ exchange = NoExchange
  /\ found = [target |-> Failed, page |-> Failed, text |-> Failed]
  /\ document = NoDocument /\ envelope = NoDocument /\ stored = Refused

Next ==
  \/ Begin \/ Hop \/ Resolved
  \/ \E a \in Peers : Connect(a)
  \/ \E response \in Responses : Respond(response)
  \/ \E n \in 1..PageBytes : Data(n)
  \/ End \/ Broken \/ TimedOut
  \/ Report \/ Replaced \/ Supervise \/ Store
  \/ Tick \/ StepClock

Spec == Init /\ [][Next]_vars

\* DNS answers or gives up, for the resolver has a timeout and a number of tries; the
\* code goes on; time passes and timers fire.  The peer promises nothing.
FairSpec ==
  /\ Spec /\ WF_vars(Tick)
  /\ WF_vars(Begin \/ Hop \/ Resolved \/ TimedOut \/ Report \/ Supervise \/ Store)
-----------------------------------------------------------------------------
\* The document was written by this run.
Own == startedAt # 0 /\ document # NoDocument

\* Whatever the peer redirects to and whatever fails, a run lets no more queries and
\* connections out than its policy allows, and its document owns up to all of them.
RequestsAreCounted ==
  /\ left <= policy.requests
  /\ Own => document.requests >= left

\* A request is only ever under way to an address of an answer in which every address
\* was public, over TLS, and, unless the clock was stepped, when the answer was younger
\* than its time to live; and it is read from the connection to that address only.
OnlyPinned ==
  pc = "exchange" =>
    /\ exchange.approved /\ exchange.protocol = "https:"
    /\ exchange.connected \in {None, exchange.pin}
    /\ offset = 0 => exchange.fresh

\* A run comes to a document, and this to its fate, however long the peer keeps silent,
\* goes on sending or redirects to itself.
RunEnds == startedAt # 0 ~> pc \in {"stored", "refused"}

\* Unless the clock was stepped, no request outlives the duration of the policy.
NothingOutlivesTheRun ==
  pc = "exchange" /\ offset = 0 => time <= Deadline

\* Whatever the network did, the supervisor accepts what this scanner writes, and what
\* the store holds of it is shown and is what happened: TLS is complete only if the page
\* was read to its announced end over TLS from the pinned, public address; HSTS passes only
\* if that page asked for it, once and for a positive time; a security.txt passes only if it
\* is not expired by the end of the run (unless the clock was stepped); the checks marked are the potential risks; nothing
\* is claimed of a target that did not resolve.
ShownIsTrue ==
  Own =>
    /\ Supervised(document)
    /\ pc = "stored" /\ stored.ok =>
         LET shown == Sent(View(stored))
             marked(outcomes) == {e.id : e \in {e \in UNION {shown.sections[s] : s \in Sections} :
                                                  e.outcome \in outcomes}}
             page == found.page.response
         IN /\ shown.ok
            /\ shown.groups["TLS_CERTIFICATE_POSTURE"] = "COMPLETE" =>
                 /\ found.page.protocol = "https:" /\ Public(found.page.from)
                 /\ page.complete /\ found.page.received = page.body
                 /\ Declared(page) => DeclaredLength(page) = found.page.received
            /\ "HTTP_HSTS" \in marked({"PASS"}) =>
                 First(Single(page, "strict-transport-security"), "max-age").arg > 0
            /\ offset = 0 /\ "SECURITY_TXT" \in marked({"PASS"}) =>
                 First(found.text.response.lines, "expires").arg > startedAt + stored.duration
            /\ shown.risks = Cardinality(marked({"ATTENTION"}) \cap Reportable)
            /\ ~found.target.ok => marked({"PASS", "ATTENTION"}) = {}

\* A document the supervisor accepts and the committer gets while its envelope lives is
\* stored and shown, whoever wrote it: canonicalising it once more changes nothing, and
\* every later check of it passes.
AcceptedIsShown ==
  pc = "stored" /\ SigningKey \in Keyring /\ Now \in envelope.issued - MaxSkew .. envelope.expires - 1 =>
    /\ stored = Produce(document).projection
    /\ Sent(View(stored)).ok
=============================================================================
