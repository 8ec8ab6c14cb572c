-------------------------- MODULE GuestService_proofs --------------------------
(***************************************************************************)
(* Proofs of what a browser may rely on, for every number of tabs,         *)
(* sessions and servers, any clocks, keyrings and times that               *)
(* ServiceAssumption allows.                                               *)
(***************************************************************************)
EXTENDS GuestService, TLAPS

\* Requests by the await they are at, and the answers that carry something.
Asking ==
  [pc : {"keys", "revocation"}, kind : {"session"}, cookie : Cookies \cup {NoCookie}, active : Nat]
  \cup [pc : {"keys", "revocation"}, kind : {"scan"}, cookie : Cookies, active : Nat,
        target : Targets, barred : Nat]
Storing == [pc : {"store"}, kind : {"scan"}, server : Servers, session : Sessions,
            target : Targets, now : Nat, early : {FALSE}]
Enqueueing == [pc : {"enqueue"}, kind : {"scan"}, session : Sessions, target : Targets,
               scan : Scans, expires : Nat, early : {FALSE}]
Loading == [pc : {"load"}, kind : {"read"}, server : Servers, scan : Scans,
            session : Sessions, now : Nat, had : BOOLEAN]
CookieAnswers == [pc : {"answered"}, kind : {"session"}, code : {204},
                  cookie : [session : Sessions, version : CookieKeys]]
ScanAnswers == [pc : {"answered"}, kind : {"scan"}, code : {200}, early : {FALSE}, answer : Answer]
ReadAnswers == [pc : {"answered"}, kind : {"read"}, code : {200, 404}, server : Servers,
                scan : Scans, now : Nat, had : BOOLEAN, loaded : Nat]
Requests == Asking \cup Storing \cup Enqueueing \cup Loading
              \cup CookieAnswers \cup ScanAnswers \cup ReadAnswers \cup {Idle}

Keys == UNION {TokenKeys[s] : s \in Servers}
Result == [completed : Nat, created : Nat, key : Keys]

Types ==
  /\ clock \in Nat
  /\ ring \in [active : CookieKeys, all : SUBSET Nat]
  /\ \A v \in ring.all : v <= ring.active
  /\ revoked \in [Sessions -> Nat]
  /\ issued \in Nat
  /\ jar \in Cookies \cup {NoCookie} /\ jar.version <= ring.active
  /\ rows \in [Sessions -> Row \cup {NoRow}]
  /\ created \in 0..MaxScans
  /\ results \in [Scans -> Result \cup {NoResult}]
  /\ requests \in [Tabs -> Requests]
  /\ answers \subseteq Answer

\* No key a request has seen comes back after its removal, and a session that was
\* barred when the request was sent is barred at each of its checks, or is no more.
Barred(r) ==
  /\ r.pc \in {"keys", "revocation"} =>
       /\ r.cookie.version <= ring.active
       /\ r.active <= ring.active /\ (r.pc = "revocation" => r.active \in CookieKeys)
       /\ r.kind = "scan" /\ clock < r.barred =>
            \/ revoked[r.cookie.session] >= r.barred
            \/ r.pc = "keys" /\ r.cookie.version \notin ring.all
  /\ r.pc = "answered" /\ r.kind = "session" => r.cookie.version <= ring.active

\* The reading a request stores with is not old.
Timely(r) ==
  r.pc = "store" => r.now <= Reading(r.server) /\ Reading(r.server) <= r.now + Patience

Told(r) == r.pc = "answered" /\ r.kind = "scan" => r.answer.scan \in queued

\* What a request for a result knows of it, and how it was answered.
Read(r) ==
  /\ r.pc = "load" =>
       /\ \E a \in answers : a.session = r.session /\ a.scan = r.scan
       /\ r.had => results[r.scan] # NoResult
  /\ r.pc = "answered" /\ r.kind = "read" =>
       LET x == results[r.scan]
           within == x # NoResult /\ r.now \in x.completed..(x.created + AccessSeconds - 1)
       IN /\ r.had => x # NoResult
          /\ r.code = 200 => within
          /\ /\ within /\ r.had /\ r.now >= x.created
             /\ x.key \in TokenKeys[r.server]
             /\ r.loaded + LargestSkew < x.created + AccessSeconds
             => r.code = 200

RequestOk(r) == Barred(r) /\ Timely(r) /\ Told(r) /\ Read(r)

\* A row has a scan of its own, a server that knows its key and has reached its
\* creation, and the result it says it has.
RowOk(s) ==
  LET row == rows[s] IN
  row # NoRow =>
    /\ row.scan <= created
    /\ \A z \in Sessions \ {s} : rows[z].scan # row.scan
    /\ \E srv \in Servers : row.key \in TokenKeys[srv] /\ row.created <= Reading(srv)
    /\ row.created <= row.updated
    /\ row.job = "QUEUED" => results[row.scan] = NoResult
    /\ row.job = "SUCCEEDED" =>
         /\ results[row.scan] =
              [completed |-> row.updated, created |-> row.created, key |-> row.key]
         /\ row.updated < Expiry(row)

RowsOk ==
  /\ \A s \in Sessions : RowOk(s)
  /\ \A x \in Scans : x > created => results[x] = NoResult

\* The scans that were promised: told to the browser, or on the way to it.
Claimed(r) ==
  IF r.pc = "enqueue"
  THEN {[session |-> r.session, target |-> r.target, scan |-> r.scan, expires |-> r.expires]}
  ELSE IF r.pc = "answered" /\ r.kind = "scan" THEN {r.answer} ELSE {}
Claims == answers \cup UNION {Claimed(requests[t]) : t \in Tabs}

\* A promise is what the row says, or its window is over and the row, if there is one,
\* begins after it.
Matched(c) ==
  LET row == rows[c.session] IN
  \/ row # NoRow /\ row.scan = c.scan /\ row.target = c.target /\ Expiry(row) = c.expires
  \/ /\ c.expires <= clock + LargestSkew
     /\ \/ row # NoRow /\ row.scan # c.scan /\ c.expires <= row.created
        \/ row = NoRow /\ c.expires + Patience <= clock
ClaimOk(c) ==
  /\ c.scan <= created
  /\ \A s \in Sessions : rows[s].scan = c.scan => s = c.session
  /\ results[c.scan] # NoResult => results[c.scan].created + AccessSeconds = c.expires
  /\ Matched(c)

Compatible(a, b) ==
  a.session = b.session =>
    \/ a = b
    \/ a.scan # b.scan /\ (\/ a.expires <= b.expires - AccessSeconds
                           \/ b.expires <= a.expires - AccessSeconds)

ClaimsOk ==
  /\ \A c \in Claims : ClaimOk(c)
  /\ \A a, b \in Claims : Compatible(a, b)
  /\ \A a \in answers : a.scan \in queued

\* The inductive invariant.
IInv == Types /\ (\A t \in Tabs : RequestOk(requests[t])) /\ RowsOk /\ ClaimsOk
-----------------------------------------------------------------------------
\* What a request is, by its pc and kind.
LEMMA Shapes ==
  ASSUME NEW r \in Requests
  PROVE  /\ r.pc \in {"keys", "revocation"} =>
              /\ r \in Asking
              /\ r.kind \in {"session", "scan"} /\ r.active \in Nat
              /\ r.cookie \in Cookies \cup {NoCookie}
              /\ r.kind = "scan" => r.cookie \in Cookies /\ r.target \in Targets /\ r.barred \in Nat
         /\ r.pc = "store" => r \in Storing
         /\ r.pc = "enqueue" => r \in Enqueueing
         /\ r.pc = "load" => r \in Loading
         /\ r.pc = "answered" =>
              /\ r.kind \in {"session", "scan", "read"}
              /\ r.kind = "session" => r \in CookieAnswers
              /\ r.kind = "scan" => r \in ScanAnswers
              /\ r.kind = "read" => r \in ReadAnswers
         /\ r.pc \in {"keys", "revocation", "store", "enqueue", "load", "answered", "idle"}
<1>1. CASE r \in Asking
  BY <1>1 DEF Asking
<1>2. CASE r \in Storing
  BY <1>2 DEF Storing
<1>3. CASE r \in Enqueueing
  BY <1>3 DEF Enqueueing
<1>4. CASE r \in Loading
  BY <1>4 DEF Loading
<1>5. CASE r \in CookieAnswers
  BY <1>5 DEF CookieAnswers
<1>6. CASE r \in ScanAnswers
  BY <1>6 DEF ScanAnswers
<1>7. CASE r \in ReadAnswers
  BY <1>7 DEF ReadAnswers
<1>8. CASE r = Idle
  BY <1>8 DEF Idle
<1> QED
  BY <1>1, <1>2, <1>3, <1>4, <1>5, <1>6, <1>7, <1>8 DEF Requests

\* What the fields of a request tell of it.
LEMMA FieldsTell ==
  ASSUME NEW r \in Requests
  PROVE  /\ "answer" \in DOMAIN r => r.pc = "answered" /\ r.kind = "scan"
         /\ "loaded" \in DOMAIN r => r.pc = "answered" /\ r.kind = "read"
         /\ "early" \in DOMAIN r => r.early \in {FALSE}
<1>1. CASE r \in Asking
  BY <1>1 DEF Asking
<1>2. CASE r \in Storing
  BY <1>2 DEF Storing
<1>3. CASE r \in Enqueueing
  BY <1>3 DEF Enqueueing
<1>4. CASE r \in Loading
  BY <1>4 DEF Loading
<1>5. CASE r \in CookieAnswers
  BY <1>5 DEF CookieAnswers
<1>6. CASE r \in ScanAnswers
  BY <1>6 DEF ScanAnswers
<1>7. CASE r \in ReadAnswers
  BY <1>7 DEF ReadAnswers
<1>8. CASE r = Idle
  BY <1>8 DEF Idle
<1> QED
  BY <1>1, <1>2, <1>3, <1>4, <1>5, <1>6, <1>7, <1>8 DEF Requests

LEMMA Idled == Idle \in Requests /\ RequestOk(Idle) /\ Claimed(Idle) = {}
BY DEF Requests, Idle, RequestOk, Barred, Timely, Told, Read, Claimed

LEMMA ClaimsTyped ==
  ASSUME IInv
  PROVE  Claims \subseteq Answer
<1>1. \A q \in Requests : Claimed(q) \subseteq Answer
  <2> SUFFICES ASSUME NEW q \in Requests PROVE Claimed(q) \subseteq Answer
    OBVIOUS
  <2>1. CASE q.pc = "enqueue"
    <3> DEFINE claim == [session |-> q.session, target |-> q.target, scan |-> q.scan,
                         expires |-> q.expires]
    <3>1. q \in Enqueueing
      BY <2>1, Shapes
    <3>2. claim \in Answer
      BY <3>1 DEF Enqueueing, Answer
    <3>3. Claimed(q) = {claim}
      BY <2>1 DEF Claimed
    <3> QED
      BY <3>2, <3>3
  <2>2. CASE q.pc = "answered" /\ q.kind = "scan"
    BY <2>2, Shapes DEF Claimed, ScanAnswers
  <2> QED
    BY <2>1, <2>2 DEF Claimed
<1> QED
  BY <1>1 DEF IInv, Types, Claims

\* A step of one request keeps the invariant, if what it promises anew fits the rows and
\* the promises made before, and the browser learns of nothing but promises.
LEMMA RequestKeeps ==
  ASSUME IInv,
         UNCHANGED <<clock, ring, revoked, rows, created, results>>,
         issued' \in Nat,
         jar' \in Cookies \cup {NoCookie}, jar'.version <= ring.active,
         queued \subseteq queued', answers \subseteq answers', answers' \subseteq Claims,
         \A a \in answers' : a.scan \in queued',
         NEW t \in Tabs, NEW r, r \in Requests, Barred(r), Timely(r), Read(r),
         r.pc = "answered" /\ r.kind = "scan" => r.answer.scan \in queued',
         \A c \in Claimed(r) : /\ c \in Answer /\ ClaimOk(c)
                               /\ \A b \in Claims : Compatible(b, c),
         requests' = [requests EXCEPT ![t] = r]
  PROVE  IInv'
<1>1. \A u \in Tabs : requests'[u] = IF u = t THEN r ELSE requests[u]
  BY DEF IInv, Types
<1>2. Claims \subseteq Answer
  BY ClaimsTyped
<1>3. Types'
  BY <1>2 DEF IInv, Types
<1>4. (\A u \in Tabs : RequestOk(requests[u]))'
  <2> SUFFICES ASSUME NEW u \in Tabs PROVE RequestOk(requests[u])'
    OBVIOUS
  <2>1. /\ Barred(requests'[u]) /\ Timely(requests'[u]) /\ Read(requests'[u])
        /\ requests'[u].pc = "answered" /\ requests'[u].kind = "scan" =>
             requests'[u].answer.scan \in queued'
    BY <1>1 DEF IInv, RequestOk, Told
  <2>2. Barred(requests[u])' /\ Timely(requests[u])' /\ Told(requests[u])'
    BY <2>1 DEF Barred, Timely, Told, Reading
  <2>3. Read(requests[u])'
    BY <2>1 DEF Read
  <2> QED
    BY <2>2, <2>3 DEF RequestOk
<1>5. RowsOk'
  BY DEF IInv, RowsOk, RowOk, Reading, Expiry
<1>6. Claims' \subseteq Claims \cup Claimed(r)
  <2>1. \A u \in Tabs : Claimed(requests'[u]) \subseteq Claimed(requests[u]) \cup Claimed(r)
    BY <1>1
  <2> QED
    BY <2>1 DEF Claims, Claimed
<1>7. ClaimsOk'
  <2>1. \A c \in Claims' : ClaimOk(c)
    BY <1>6 DEF IInv, ClaimsOk
  <2>2. \A c \in Claims' : ClaimOk(c)'
    BY <2>1 DEF ClaimOk, Matched, Expiry
  <2>3. \A c \in Claimed(r) : Claimed(r) = {c}
    BY DEF Claimed
  <2>4. \A a, b \in Claims' : Compatible(a, b)
    <3> SUFFICES ASSUME NEW a \in Claims', NEW b \in Claims' PROVE Compatible(a, b)
      OBVIOUS
    <3>1. CASE a \in Claims /\ b \in Claims
      BY <3>1 DEF IInv, ClaimsOk
    <3>2. CASE a \in Claims /\ b \in Claimed(r)
      BY <3>2
    <3>3. CASE a \in Claimed(r) /\ b \in Claims
      BY <3>3 DEF Compatible
    <3>4. CASE a \in Claimed(r) /\ b \in Claimed(r)
      BY <3>4, <2>3 DEF Compatible
    <3> QED
      BY <1>6, <3>1, <3>2, <3>3, <3>4
  <2> QED
    BY <2>2, <2>4 DEF ClaimsOk
<1> QED
  BY <1>3, <1>4, <1>5, <1>7 DEF IInv

\* A step of one request that promises nothing.
LEMMA QuietKeeps ==
  ASSUME IInv,
         UNCHANGED <<clock, ring, revoked, rows, created, queued, results, answers>>,
         issued' \in Nat, UNCHANGED jar,
         NEW t \in Tabs, NEW r, r \in Requests, RequestOk(r), Claimed(r) = {},
         requests' = [requests EXCEPT ![t] = r]
  PROVE  IInv'
<1>1. jar' \in Cookies \cup {NoCookie} /\ jar'.version <= ring.active
  BY DEF IInv, Types
<1>2. /\ queued \subseteq queued' /\ answers \subseteq answers' /\ answers' \subseteq Claims
      /\ \A a \in answers' : a.scan \in queued'
  BY DEF IInv, ClaimsOk, Claims
<1>3. /\ Barred(r) /\ Timely(r) /\ Read(r)
      /\ r.pc = "answered" /\ r.kind = "scan" => r.answer.scan \in queued'
  BY DEF RequestOk, Told
<1>4. UNCHANGED <<clock, ring, revoked, rows, created, results>>
  OBVIOUS
<1> QED
  BY <1>1, <1>2, <1>3, <1>4, RequestKeeps
-----------------------------------------------------------------------------
\* A request that ends without an answer.
LEMMA EndKeeps ==
  ASSUME IInv, NEW t \in Tabs, UNCHANGED issued, UNCHANGED jar,
         UNCHANGED <<clock, ring, revoked, rows, created, queued, results, answers>>,
         requests' = [requests EXCEPT ![t] = Idle]
  PROVE  IInv'
<1>1. issued' \in Nat
  BY DEF IInv, Types
<1> QED
  BY <1>1, Idled, QuietKeeps

LEMMA FailKeeps ==
  ASSUME IInv, NEW t \in Tabs,
         KeysUnavailable(t) \/ RevocationUnavailable(t) \/ StoreUnavailable(t)
           \/ LoadFails(t) \/ StoreRefuses(t) \/ Lose(t)
  PROVE  IInv'
<1>1. /\ UNCHANGED <<clock, ring, revoked, issued, jar, rows, created, queued, results, answers>>
      /\ requests' = [requests EXCEPT ![t] = Idle]
  BY DEF KeysUnavailable, RevocationUnavailable, StoreUnavailable, LoadFails, StoreRefuses,
         Lose, Answered
<1> QED
  BY <1>1, EndKeeps

LEMMA PresentedTyped ==
  ASSUME Types
  PROVE  /\ Presented \in Cookies \cup {NoCookie}
         /\ Presented.version <= ring.active
         /\ 0 <= ring.active
BY ServiceAssumption DEF Types, Presented, NoCookie, Cookies

LEMMA SendSessionKeeps ==
  ASSUME IInv, NEW t \in Tabs, SendSession(t)
  PROVE  IInv'
<1> DEFINE r == [pc |-> "keys", kind |-> "session", cookie |-> Presented, active |-> 0]
<1>1. r \in Requests
  BY PresentedTyped DEF IInv, Requests, Asking
<1>2. RequestOk(r)
  BY PresentedTyped DEF IInv, RequestOk, Barred, Timely, Told, Read
<1>3. Claimed(r) = {}
  BY DEF Claimed
<1>4. issued' \in Nat
  BY DEF IInv, Types, SendSession, Send
<1> HIDE DEF r
<1>5. /\ UNCHANGED <<clock, ring, revoked, rows, created, queued, results, answers>>
      /\ UNCHANGED jar
      /\ requests' = [requests EXCEPT ![t] = r]
  BY DEF SendSession, Send, r
<1> QED
  BY <1>1, <1>2, <1>3, <1>4, <1>5, QuietKeeps

LEMMA SendScanKeeps ==
  ASSUME IInv, NEW t \in Tabs, NEW target \in Targets, SendScan(t, target)
  PROVE  IInv'
<1> DEFINE cookie == Presented
           r == [pc |-> "keys", kind |-> "scan", cookie |-> cookie, active |-> 0,
                 target |-> target, barred |-> BarredUntil(cookie)]
<1>1. /\ cookie \in Cookies /\ cookie.version <= ring.active /\ 0 <= ring.active
  BY PresentedTyped DEF IInv, SendScan
<1>2. UNCHANGED issued /\ UNCHANGED jar
      /\ UNCHANGED <<clock, ring, revoked, rows, created, queued, results, answers>>
      /\ requests' = [requests EXCEPT ![t] = r]
  BY DEF SendScan, Send
<1> HIDE DEF cookie
<1>3. cookie.session \in Sessions /\ BarredUntil(cookie) \in Nat
  BY <1>1, ServiceAssumption DEF IInv, Types, Cookies, BarredUntil
<1>4. r \in Requests
  BY <1>1, <1>3 DEF Requests, Asking
<1>5. cookie.version \notin ring.all \/ revoked[cookie.session] >= BarredUntil(cookie)
  BY <1>3 DEF BarredUntil, IInv, Types
<1>6. RequestOk(r)
  BY <1>1, <1>5 DEF RequestOk, Barred, Timely, Told, Read
<1>7. Claimed(r) = {} /\ issued' \in Nat
  BY <1>2 DEF Claimed, IInv, Types
<1> HIDE DEF r
<1> QED
  BY <1>2, <1>4, <1>6, <1>7, QuietKeeps

LEMMA SendReadKeeps ==
  ASSUME IInv, NEW t \in Tabs, NEW srv \in Servers, NEW answer \in answers,
         SendRead(t, srv, answer)
  PROVE  IInv'
<1> DEFINE had == results[answer.scan] # NoResult
           r == [pc |-> "load", kind |-> "read", server |-> srv, scan |-> answer.scan,
                 session |-> answer.session, now |-> Reading(srv), had |-> had]
<1>1. answer.scan \in Scans /\ answer.session \in Sessions
  BY DEF IInv, Types, Answer
<1>2. Reading(srv) \in Nat
  BY ServiceAssumption DEF Reading, IInv, Types
<1>3. r \in Requests
  BY <1>1, <1>2 DEF Requests, Loading
<1>4. RequestOk(r)
  BY <1>1 DEF RequestOk, Barred, Timely, Told, Read
<1>5. Claimed(r) = {}
  BY DEF Claimed
<1>6. UNCHANGED issued /\ UNCHANGED jar
      /\ UNCHANGED <<clock, ring, revoked, rows, created, queued, results, answers>>
      /\ requests' = [requests EXCEPT ![t] = r]
  BY DEF SendRead, Send
<1> HIDE DEF r
<1>7. issued' \in Nat
  BY <1>6 DEF IInv, Types
<1> QED
  BY <1>3, <1>4, <1>5, <1>6, <1>7, QuietKeeps
-----------------------------------------------------------------------------
\* A new cookie, under a key that is or was active.
LEMMA IssueKeeps ==
  ASSUME IInv, NEW t \in Tabs, NEW active \in CookieKeys, active <= ring.active,
         Issue(t, active), UNCHANGED jar,
         UNCHANGED <<clock, ring, revoked, rows, created, queued, results, answers>>
  PROVE  IInv'
<1> DEFINE r == [pc |-> "answered", kind |-> "session", code |-> 204,
                 cookie |-> [session |-> issued + 1, version |-> active]]
<1>1. issued + 1 \in Sessions /\ issued' \in Nat
  BY ServiceAssumption DEF IInv, Types, Issue, Sessions
<1>2. r \in Requests
  BY <1>1 DEF Requests, CookieAnswers
<1>3. RequestOk(r)
  BY DEF RequestOk, Barred, Timely, Told, Read
<1>4. Claimed(r) = {}
  BY DEF Claimed
<1>5. requests' = [requests EXCEPT ![t] = r]
  BY DEF Issue
<1> HIDE DEF r
<1> QED
  BY <1>1, <1>2, <1>3, <1>4, <1>5, QuietKeeps

LEMMA KeysAnsweredKeeps ==
  ASSUME IInv, NEW t \in Tabs, KeysAnswered(t)
  PROVE  IInv'
<1> DEFINE old == requests[t]
<1>1. old \in Requests /\ RequestOk(old) /\ old.pc = "keys"
  BY DEF IInv, Types, KeysAnswered
<1>2. UNCHANGED jar
      /\ UNCHANGED <<clock, ring, revoked, rows, created, queued, results, answers>>
  BY DEF KeysAnswered
<1>3. ring.active \in CookieKeys /\ ring.active \in Nat
  BY ServiceAssumption DEF IInv, Types
<1>4. CASE /\ Authentic(old.cookie) /\ UNCHANGED issued
           /\ requests' = [requests EXCEPT ![t].pc = "revocation",
                                           ![t].active = CurrentKeys.active]
  <2> DEFINE r == [old EXCEPT !.pc = "revocation", !.active = ring.active]
  <2>1. r \in Asking /\ r.pc = "revocation" /\ r.active = ring.active
        /\ r.kind = old.kind /\ r.cookie = old.cookie
        /\ (r.kind = "scan" => r.barred = old.barred)
    BY <1>1, <1>3, Shapes DEF Asking
  <2>2. requests' = [requests EXCEPT ![t] = r]
    BY <1>4 DEF CurrentKeys, IInv, Types
  <2> HIDE DEF r
  <2>3. RequestOk(r)
    BY <2>1, <1>1, <1>3, <1>4 DEF RequestOk, Barred, Timely, Told, Read, Authentic, CurrentKeys
  <2>4. Claimed(r) = {} /\ r \in Requests
    BY <2>1 DEF Claimed, Requests
  <2>5. issued' \in Nat
    BY <1>4 DEF IInv, Types
  <2> QED
    BY <1>2, <2>2, <2>3, <2>4, <2>5, QuietKeeps
<1>5. CASE Issue(t, CurrentKeys.active)
  BY <1>2, <1>3, <1>5, IssueKeeps DEF CurrentKeys
<1>6. CASE Answered(t, 401) /\ UNCHANGED issued
  BY <1>2, <1>6, EndKeeps DEF Answered
<1> QED
  BY <1>4, <1>5, <1>6 DEF KeysAnswered

LEMMA BootstrapAnsweredKeeps ==
  ASSUME IInv, NEW t \in Tabs, BootstrapAnswered(t)
  PROVE  IInv'
<1>1. requests[t] \in Requests /\ RequestOk(requests[t]) /\ requests[t].pc = "revocation"
  BY DEF IInv, Types, BootstrapAnswered
<1>2. requests[t].active \in CookieKeys /\ requests[t].active <= ring.active
  BY <1>1 DEF RequestOk, Barred
<1>3. UNCHANGED jar
      /\ UNCHANGED <<clock, ring, revoked, rows, created, queued, results, answers>>
  BY DEF BootstrapAnswered
<1>4. CASE Issue(t, requests[t].active)
  BY <1>2, <1>3, <1>4, IssueKeeps
<1>5. CASE Answered(t, 204) /\ UNCHANGED issued
  BY <1>3, <1>5, EndKeeps DEF Answered
<1> QED
  BY <1>4, <1>5 DEF BootstrapAnswered

\* A request that was barred when it was sent does not get past the check.
LEMMA RevocationAnsweredKeeps ==
  ASSUME IInv, NEW t \in Tabs, RevocationAnswered(t)
  PROVE  IInv'
<1> DEFINE old == requests[t]
<1>1. old \in Requests /\ RequestOk(old) /\ old.pc = "revocation" /\ old.kind = "scan"
  BY DEF IInv, Types, RevocationAnswered
<1>2. /\ UNCHANGED issued /\ UNCHANGED jar
      /\ UNCHANGED <<clock, ring, revoked, rows, created, queued, results, answers>>
      /\ issued' \in Nat
  BY DEF RevocationAnswered, IInv, Types
<1>3. CASE IsRevoked(old.cookie.session)
  <2>1. requests' = [requests EXCEPT ![t] = Idle]
    BY <1>3 DEF RevocationAnswered, Answered
  <2> QED
    BY <1>2, <2>1, EndKeeps
<1>4. CASE ~IsRevoked(old.cookie.session)
  <2>1. old \in Asking /\ old.cookie \in Cookies /\ old.target \in Targets /\ old.barred \in Nat
    BY <1>1, Shapes
  <2>2. old.cookie.session \in Sessions /\ revoked[old.cookie.session] \in Nat
    BY <2>1 DEF Cookies, IInv, Types
  <2>3. (clock < old.barred) = FALSE
    BY <1>1, <1>4, <2>1, <2>2 DEF RequestOk, Barred, IsRevoked, IInv, Types
  <2>4. PICK srv \in Servers : requests' = [requests EXCEPT ![t] =
            [pc |-> "store", kind |-> "scan", server |-> srv,
             session |-> old.cookie.session, target |-> old.target,
             now |-> Reading(srv), early |-> clock < old.barred]]
    BY <1>4 DEF RevocationAnswered
  <2> DEFINE r == [pc |-> "store", kind |-> "scan", server |-> srv,
                   session |-> old.cookie.session, target |-> old.target,
                   now |-> Reading(srv), early |-> FALSE]
  <2>5. requests' = [requests EXCEPT ![t] = r]
    BY <2>3, <2>4
  <2>6. Reading(srv) \in Nat /\ Patience \in Nat
    BY ServiceAssumption DEF Reading, IInv, Types
  <2>7. r \in Requests
    BY <2>1, <2>2, <2>6 DEF Requests, Storing
  <2>8. RequestOk(r) /\ Claimed(r) = {}
    BY <2>6 DEF RequestOk, Barred, Timely, Told, Read, Claimed
  <2> HIDE DEF r
  <2> QED
    BY <1>2, <2>5, <2>7, <2>8, QuietKeeps
<1> QED
  BY <1>3, <1>4
-----------------------------------------------------------------------------
LEMMA LargestSkewIs ==
  /\ LargestSkew \in Nat
  /\ \A srv \in Servers : Skew[srv] <= LargestSkew
<1> DEFINE D == {Skew[s] : s \in Servers}
           Largest(d) == \A s \in Servers : Skew[s] <= d
<1>1. \E d \in D : Largest(d)
  BY ServiceAssumption
<1>2. LargestSkew = CHOOSE d \in D : Largest(d)
  BY DEF LargestSkew
<1> HIDE DEF Largest
<1>3. LargestSkew \in D /\ Largest(LargestSkew)
  BY <1>1, <1>2
<1> QED
  BY <1>3, ServiceAssumption DEF Largest

\* While no clock has passed the window of a promised scan with a result, the row is
\* there and has it.
LEMMA StillThere ==
  ASSUME IInv, NEW a \in answers, results[a.scan] # NoResult,
         clock + LargestSkew < results[a.scan].created + AccessSeconds
  PROVE  LET row == rows[a.session] IN
         /\ row \in Row /\ row # NoRow /\ row.scan = a.scan /\ row.job = "SUCCEEDED"
         /\ results[a.scan] =
              [completed |-> row.updated, created |-> row.created, key |-> row.key]
         /\ row.updated < Expiry(row) /\ row.created <= row.updated
<1>1. ClaimOk(a) /\ a \in Answer
  BY DEF IInv, ClaimsOk, Claims, Types
<1>2. rows[a.session] # NoRow /\ rows[a.session].scan = a.scan
  <2>1. results[a.scan].created + AccessSeconds = a.expires
    BY <1>1 DEF ClaimOk
  <2>2. a.expires \in Nat /\ clock \in Nat /\ LargestSkew \in Nat
    BY <1>1, LargestSkewIs DEF Answer, IInv, Types
  <2>3. ~(a.expires <= clock + LargestSkew)
    BY <2>1, <2>2
  <2> QED
    BY <1>1, <2>3 DEF ClaimOk, Matched
<1>3. a.session \in Sessions /\ rows[a.session] \in Row /\ RowOk(a.session)
  BY <1>1, <1>2 DEF Answer, IInv, Types, RowsOk
<1>4. rows[a.session].job \in {"QUEUED", "SUCCEEDED"}
  BY <1>3 DEF Row
<1> QED
  BY <1>2, <1>3, <1>4 DEF RowOk

LEMMA LoadAnsweredKeeps ==
  ASSUME IInv, NEW t \in Tabs, LoadAnswered(t)
  PROVE  IInv'
<1> DEFINE q == requests[t]
           row == rows[q.session]
           x == results[q.scan]
           opens == /\ Joined(q)
                    /\ ScanReadable(row) /\ ResultFits(row, results[row.scan])
                    /\ q.now < Deadline(row)
                    /\ Authorized(row, q) /\ Shown(row, q)
           r == [pc |-> "answered", kind |-> "read", code |-> IF opens THEN 200 ELSE 404,
                 server |-> q.server, scan |-> q.scan, now |-> q.now, had |-> q.had,
                 loaded |-> clock]
           within == x # NoResult /\ q.now \in x.completed..(x.created + AccessSeconds - 1)
<1>1. q \in Requests /\ RequestOk(q) /\ q.pc = "load" /\ q \in Loading
  BY Shapes DEF IInv, Types, LoadAnswered
<1>2. /\ UNCHANGED issued /\ UNCHANGED jar
      /\ UNCHANGED <<clock, ring, revoked, rows, created, queued, results, answers>>
      /\ issued' \in Nat
  BY DEF LoadAnswered, IInv, Types
<1>3. requests' = [requests EXCEPT ![t] = r]
  BY DEF LoadAnswered
<1>4. /\ q.server \in Servers /\ q.scan \in Scans /\ q.session \in Sessions
      /\ q.now \in Nat /\ q.had \in BOOLEAN /\ clock \in Nat
  BY <1>1 DEF Loading, IInv, Types
<1>5. PICK a \in answers : a.session = q.session /\ a.scan = q.scan
  BY <1>1 DEF RequestOk, Read
<1>6. q.had => x # NoResult
  BY <1>1 DEF RequestOk, Read
<1>7. opens => within
  <2> SUFFICES ASSUME opens PROVE within
    OBVIOUS
  <2>1. row.scan = q.scan /\ x # NoResult /\ row.job = "SUCCEEDED"
    BY DEF Joined, ScanReadable
  <2>2. row \in Row /\ RowOk(q.session) /\ row # NoRow
    <3>1. q.scan # 0
      BY <1>4 DEF Scans
    <3>2. row # NoRow
      BY <2>1, <3>1 DEF NoRow
    <3> QED
      BY <1>4, <3>2 DEF IInv, Types, RowsOk
  <2>3. x.completed = row.updated /\ x.created = row.created
    BY <2>1, <2>2 DEF RowOk
  <2>4. x.completed <= q.now
    BY <2>1 DEF Shown
  <2>5. q.now < row.created + AccessSeconds
    BY <1>4, <2>2, ServiceAssumption DEF Authorized, Expiry, Row
  <2>6. row.created \in Nat /\ row.updated \in Nat /\ AccessSeconds \in Nat
    BY <2>2, ServiceAssumption DEF Row
  <2> QED
    BY <1>4, <2>1, <2>3, <2>4, <2>5, <2>6
<1>8. ASSUME within, q.had, q.now >= x.created, x.key \in TokenKeys[q.server],
             clock + LargestSkew < x.created + AccessSeconds
      PROVE  opens
  <2>1. /\ row \in Row /\ row # NoRow /\ row.scan = q.scan /\ row.job = "SUCCEEDED"
        /\ x = [completed |-> row.updated, created |-> row.created, key |-> row.key]
        /\ row.updated < Expiry(row) /\ row.created <= row.updated
    BY <1>5, <1>8, StillThere
  <2>2. /\ row.created \in Nat /\ row.updated \in Nat
        /\ AccessSeconds \in Nat \ {0} /\ RetentionSeconds \in Nat
        /\ AccessSeconds <= RetentionSeconds
    <3>1. PICK srv \in Servers : AccessSeconds + Patience + Skew[srv] <= RetentionSeconds
      BY ServiceAssumption
    <3>2. {AccessSeconds, RetentionSeconds} \subseteq Nat \ {0} /\ Patience \in Nat /\ Skew[srv] \in Nat
      BY ServiceAssumption
    <3> QED
      BY <2>1, <3>1, <3>2 DEF Row
  <2>3. x.completed = row.updated /\ x.created = row.created /\ x.key = row.key
    BY <2>1
  <2>4. q.now \in row.updated..(row.created + AccessSeconds - 1)
    BY <1>8, <2>3
  <2>5. Joined(q) /\ Shown(row, q)
    BY <1>8, <2>1, <2>3, <2>4, <2>2, <1>4 DEF Joined, Shown
  <2>6. ScanReadable(row) /\ ResultFits(row, results[row.scan]) /\ q.now < Deadline(row)
    BY <1>4, <2>1, <2>2, <2>3, <2>4 DEF ScanReadable, ResultFits, Deadline, Expiry
  <2>7. Authorized(row, q)
    BY <1>4, <1>8, <2>2, <2>3, <2>4 DEF Authorized, Derivable, Expiry
  <2> QED
    BY <2>5, <2>6, <2>7
<1> HIDE DEF opens
<1>9. r \in Requests
  BY <1>4 DEF Requests, ReadAnswers
<1>10. RequestOk(r)
  <2>1. r.code = 200 <=> opens
    OBVIOUS
  <2>2. Barred(r) /\ Timely(r) /\ Told(r)
    BY DEF Barred, Timely, Told
  <2>3. Read(r)
    BY <1>6, <1>7, <1>8, <2>1 DEF Read
  <2> QED
    BY <2>2, <2>3 DEF RequestOk
<1>11. Claimed(r) = {}
  BY DEF Claimed
<1> HIDE DEF r
<1> QED
  BY <1>2, <1>3, <1>9, <1>10, <1>11, QuietKeeps
-----------------------------------------------------------------------------
\* Enqueued or not, the job is added before the browser is told.
LEMMA EnqueuedKeeps ==
  ASSUME IInv, NEW t \in Tabs, Enqueued(t)
  PROVE  IInv'
<1> DEFINE q == requests[t]
           claim == [session |-> q.session, target |-> q.target, scan |-> q.scan,
                     expires |-> q.expires]
           r == [pc |-> "answered", kind |-> "scan", code |-> 200, early |-> q.early,
                 answer |-> claim]
<1>1. q \in Enqueueing /\ q.pc = "enqueue"
  BY Shapes DEF IInv, Types, Enqueued
<1>2. /\ UNCHANGED <<clock, ring, revoked, rows, created, results>>
      /\ UNCHANGED <<issued, jar, answers>>
      /\ queued' = queued \cup {q.scan}
  BY DEF Enqueued
<1>3. requests' = [requests EXCEPT ![t] = r]
  BY DEF Enqueued, Success, IInv, Types
<1>4. claim \in Answer /\ r \in Requests
  BY <1>1 DEF Enqueueing, Answer, Requests, ScanAnswers
<1>5. claim \in Claims
  BY <1>1 DEF Claims, Claimed
<1>6. \A c \in Claimed(r) : /\ c \in Answer /\ ClaimOk(c)
                            /\ \A b \in Claims : Compatible(b, c)
  BY <1>4, <1>5 DEF Claimed, IInv, ClaimsOk
<1>7. /\ issued' \in Nat /\ jar' \in Cookies \cup {NoCookie} /\ jar'.version <= ring.active
      /\ queued \subseteq queued' /\ answers \subseteq answers' /\ answers' \subseteq Claims
      /\ \A a \in answers' : a.scan \in queued'
  BY <1>2 DEF IInv, Types, ClaimsOk, Claims
<1>8. r.answer.scan \in queued'
  BY <1>2
<1>9. Barred(r) /\ Timely(r) /\ Read(r)
  BY DEF Barred, Timely, Read
<1> HIDE DEF r
<1> QED
  BY <1>2, <1>3, <1>4, <1>6, <1>7, <1>8, <1>9, RequestKeeps

LEMMA EnqueueFailsKeeps ==
  ASSUME IInv, NEW t \in Tabs, EnqueueFails(t)
  PROVE  IInv'
<1>1. /\ UNCHANGED <<clock, ring, revoked, rows, created, results>>
      /\ UNCHANGED <<issued, jar, answers>>
      /\ queued \subseteq queued'
      /\ requests' = [requests EXCEPT ![t] = Idle]
  BY DEF EnqueueFails, WhenEnqueueFails, Answered
<1>2. /\ issued' \in Nat /\ jar' \in Cookies \cup {NoCookie} /\ jar'.version <= ring.active
      /\ answers \subseteq answers' /\ answers' \subseteq Claims
      /\ \A a \in answers' : a.scan \in queued'
  BY <1>1 DEF IInv, Types, ClaimsOk, Claims
<1>3. Barred(Idle) /\ Timely(Idle) /\ Read(Idle) /\ Idle.pc # "answered"
  BY Idled DEF RequestOk, Idle
<1> QED
  BY <1>1, <1>2, <1>3, Idled, RequestKeeps

LEMMA ReceiveKeeps ==
  ASSUME IInv, NEW t \in Tabs, Receive(t)
  PROVE  IInv'
<1> DEFINE q == requests[t]
<1>1. q \in Requests /\ RequestOk(q) /\ q.pc = "answered"
  BY DEF IInv, Types, Receive
<1>2. /\ UNCHANGED <<clock, ring, revoked, rows, created, results>>
      /\ UNCHANGED <<issued, queued>>
      /\ requests' = [requests EXCEPT ![t] = Idle]
      /\ jar' = IF "cookie" \in DOMAIN q THEN Kept(q.cookie) ELSE jar
      /\ answers' = IF "answer" \in DOMAIN q THEN answers \cup {q.answer} ELSE answers
  BY DEF Receive
<1>3. /\ "cookie" \in DOMAIN q => q.kind = "session"
      /\ "answer" \in DOMAIN q => q.kind = "scan"
  <2>1. CASE q \in CookieAnswers
    BY <2>1 DEF CookieAnswers
  <2>2. CASE q \in ScanAnswers
    BY <2>2 DEF ScanAnswers
  <2>3. CASE q \in ReadAnswers
    BY <2>3 DEF ReadAnswers
  <2> QED
    BY <1>1, <2>1, <2>2, <2>3, Shapes
<1>4. jar' \in Cookies \cup {NoCookie} /\ jar'.version <= ring.active
  <2>1. CASE "cookie" \in DOMAIN q
    <3>1. q \in CookieAnswers /\ q.cookie.version <= ring.active
      BY <1>1, <1>3, <2>1, Shapes DEF RequestOk, Barred
    <3>2. q.cookie.session \in Sessions /\ q.cookie.version \in CookieKeys
      BY <3>1 DEF CookieAnswers
    <3>3. clock + SessionSeconds \in Nat
      BY ServiceAssumption DEF IInv, Types
    <3>4. Kept(q.cookie) \in Cookies /\ Kept(q.cookie).version = q.cookie.version
      BY <3>2, <3>3 DEF Kept, Cookies
    <3> QED
      BY <1>2, <2>1, <3>1, <3>4
  <2>2. CASE "cookie" \notin DOMAIN q
    BY <1>2, <2>2 DEF IInv, Types
  <2> QED
    BY <2>1, <2>2
<1>5. /\ answers \subseteq answers' /\ answers' \subseteq Claims
      /\ \A a \in answers' : a.scan \in queued'
  <2>1. CASE "answer" \in DOMAIN q
    <3>1. q.kind = "scan" /\ q.answer.scan \in queued
      BY <1>1, <1>3, <2>1 DEF RequestOk, Told
    <3>2. q.answer \in Claims
      BY <1>1, <3>1 DEF Claims, Claimed
    <3> QED
      BY <1>2, <2>1, <3>1, <3>2 DEF IInv, ClaimsOk, Claims
  <2>2. CASE "answer" \notin DOMAIN q
    BY <1>2, <2>2 DEF IInv, ClaimsOk, Claims
  <2> QED
    BY <2>1, <2>2
<1>6. Barred(Idle) /\ Timely(Idle) /\ Read(Idle) /\ Idle.pc # "answered"
  BY Idled DEF RequestOk, Idle
<1>7. issued' \in Nat /\ queued \subseteq queued'
  BY <1>2 DEF IInv, Types
<1> QED
  BY <1>2, <1>4, <1>5, <1>6, <1>7, Idled, RequestKeeps
-----------------------------------------------------------------------------
\* The scan of a row may be promised.
LEMMA RowMayBePromised ==
  ASSUME IInv, NEW s \in Sessions, rows[s] # NoRow,
         NEW c, c = [session |-> s, target |-> rows[s].target, scan |-> rows[s].scan,
                     expires |-> Expiry(rows[s])]
  PROVE  c \in Answer /\ ClaimOk(c) /\ \A b \in Claims : Compatible(b, c)
<1>1. rows[s] \in Row /\ RowOk(s)
  BY DEF IInv, Types, RowsOk
<1>2. /\ rows[s].created \in Nat /\ AccessSeconds \in Nat /\ rows[s].scan \in Scans
      /\ rows[s].target \in Targets /\ rows[s].job \in {"QUEUED", "SUCCEEDED"}
  BY <1>1, ServiceAssumption DEF Row
<1>3. c \in Answer
  BY <1>2 DEF Answer, Expiry
<1>4. ClaimOk(c)
  <2>1. c.scan <= created /\ \A z \in Sessions : rows[z].scan = c.scan => z = c.session
    BY <1>1 DEF RowOk
  <2>2. results[c.scan] # NoResult => results[c.scan].created + AccessSeconds = c.expires
    BY <1>1, <1>2 DEF RowOk, Expiry
  <2>3. Matched(c)
    BY DEF Matched
  <2> QED
    BY <2>1, <2>2, <2>3 DEF ClaimOk
<1>5. ASSUME NEW b \in Claims, b.session = s
      PROVE  Compatible(b, c)
  <2>1. Matched(b) /\ b \in Answer
    BY ClaimsTyped DEF IInv, ClaimsOk, ClaimOk
  <2>2. CASE b.scan = c.scan
    <3>1. b.target = c.target /\ b.expires = c.expires
      BY <1>5, <2>1, <2>2 DEF Matched
    <3>2. b = c
      BY <1>3, <1>5, <2>1, <2>2, <3>1 DEF Answer
    <3> QED
      BY <3>2 DEF Compatible
  <2>3. CASE b.scan # c.scan
    <3>1. b.expires <= rows[s].created
      BY <1>5, <2>1, <2>3 DEF Matched
    <3>2. b.expires <= c.expires - AccessSeconds
      BY <1>2, <2>1, <3>1 DEF Expiry, Answer
    <3> QED
      BY <2>3, <3>2 DEF Compatible
  <2> QED
    BY <2>2, <2>3
<1> QED
  BY <1>3, <1>4, <1>5 DEF Compatible

LEMMA ReplayMeans ==
  ASSUME NEW row, NEW r, Decision(row, r) = "REPLAY"
  PROVE  row # NoRow /\ row.target = r.target /\ ~Replaceable(row, r.now)
BY DEF Decision, SameRequest

LEMMA StoreReplayKeeps ==
  ASSUME IInv, NEW t \in Tabs, StoreReplay(t)
  PROVE  IInv'
<1> DEFINE q == requests[t]
           row == StoredRow(q)
           r == [pc |-> "enqueue", kind |-> "scan", session |-> q.session,
                 target |-> q.target, scan |-> row.scan, expires |-> Expiry(row),
                 early |-> q.early]
           claim == [session |-> q.session, target |-> q.target, scan |-> row.scan,
                     expires |-> Expiry(row)]
<1>1. q \in Storing /\ q.session \in Sessions /\ q.early = FALSE /\ q.target \in Targets
  <2>1. q \in Storing
    BY Shapes DEF IInv, Types, StoreReplay
  <2> QED
    BY <2>1 DEF Storing
<1>2. row # NoRow /\ row.target = q.target /\ row = rows[q.session]
  BY ReplayMeans DEF StoreReplay, StoredRow
<1>3. claim \in Answer /\ ClaimOk(claim) /\ \A b \in Claims : Compatible(b, claim)
  <2>1. claim = [session |-> q.session, target |-> rows[q.session].target,
                 scan |-> rows[q.session].scan, expires |-> Expiry(rows[q.session])]
    BY <1>2
  <2>2. rows[q.session] # NoRow
    BY <1>2
  <2> HIDE DEF claim
  <2> QED
    BY <1>1, <2>1, <2>2, RowMayBePromised
<1>4. /\ UNCHANGED <<clock, ring, revoked, rows, created, queued, results, answers>>
      /\ UNCHANGED <<issued, jar>>
  BY DEF StoreReplay
<1>5. CASE requests' = [requests EXCEPT ![t] = Idle]
  BY <1>4, <1>5, EndKeeps
<1>6. CASE requests' = [requests EXCEPT ![t] = r]
  <2>1. claim.scan \in Scans /\ claim.expires \in Nat
    BY <1>3 DEF Answer
  <2>2. r \in Requests
    BY <1>1, <2>1 DEF Requests, Enqueueing
  <2>3. Claimed(r) = {claim}
    BY DEF Claimed
  <2>4. Barred(r) /\ Timely(r) /\ Read(r) /\ r.pc # "answered"
    BY DEF Barred, Timely, Read
  <2>5. /\ issued' \in Nat /\ jar' \in Cookies \cup {NoCookie} /\ jar'.version <= ring.active
        /\ queued \subseteq queued' /\ answers \subseteq answers' /\ answers' \subseteq Claims
        /\ \A a \in answers' : a.scan \in queued'
    BY <1>4 DEF IInv, Types, ClaimsOk, Claims
  <2>6. \A c \in Claimed(r) : c \in Answer /\ ClaimOk(c) /\ \A b \in Claims : Compatible(b, c)
    BY <1>3, <2>3
  <2> HIDE DEF r, claim
  <2> QED
    BY <1>4, <1>6, <2>2, <2>4, <2>5, <2>6, RequestKeeps
<1> QED
  BY <1>5, <1>6 DEF StoreReplay, Accept, Answered
-----------------------------------------------------------------------------
LEMMA MayInsertMeans ==
  ASSUME NEW row, NEW r, Decision(row, r) \in {"CREATE", "REPLACE_EXPIRED"}
  PROVE  row = NoRow \/ Replaceable(row, r.now)
BY DEF Decision

\* A new row takes the place of none, or of one whose window is over.
LEMMA InsertKeeps ==
  ASSUME IInv, NEW q \in Storing, Timely(q),
         rows[q.session] = NoRow \/ Replaceable(rows[q.session], q.now),
         created < MaxScans, created' = created + 1,
         rows' = [rows EXCEPT ![q.session] =
           [scan |-> created + 1, target |-> q.target, created |-> q.now,
            key |-> ActiveTokenKey[q.server], job |-> "QUEUED", updated |-> q.now]],
         UNCHANGED <<clock, results>>
  PROVE  /\ rows' \in [Sessions -> Row \cup {NoRow}] /\ created' \in 0..MaxScans
         /\ RowsOk'
         /\ \A c \in Claims :
              /\ ClaimOk(c)'
              /\ c.session = q.session => c.scan # created' /\ c.expires <= q.now
<1> DEFINE s == q.session
           n == [scan |-> created + 1, target |-> q.target, created |-> q.now,
                 key |-> ActiveTokenKey[q.server], job |-> "QUEUED", updated |-> q.now]
<1>1. /\ s \in Sessions /\ q.server \in Servers /\ q.target \in Targets /\ q.now \in Nat
      /\ q.pc = "store"
  BY DEF Storing
<1>2. /\ clock \in Nat /\ created \in Nat /\ MaxScans \in Nat /\ Patience \in Nat
      /\ AccessSeconds \in Nat /\ Skew[q.server] \in Nat /\ LargestSkew \in Nat
      /\ Skew[q.server] <= LargestSkew
  BY <1>1, LargestSkewIs, ServiceAssumption DEF IInv, Types
<1>3. q.now <= clock + LargestSkew /\ clock <= q.now + Patience /\ q.now <= Reading(q.server)
  BY <1>1, <1>2 DEF Timely, Reading
<1>4. n \in Row
  <2>1. created + 1 \in Scans
    BY <1>2 DEF Scans
  <2>2. n.key \in UNION {TokenKeys[z] : z \in Servers}
    BY <1>1, ServiceAssumption
  <2> QED
    BY <1>1, <2>1, <2>2 DEF Row
<1>5. rows \in [Sessions -> Row \cup {NoRow}]
  BY DEF IInv, Types
<1>6. rows' = [rows EXCEPT ![s] = n]
  OBVIOUS
<1>7. /\ rows'[s] = n /\ \A z \in Sessions \ {s} : rows'[z] = rows[z]
      /\ n.scan = created + 1 /\ n.created = q.now /\ n.updated = q.now
      /\ n.job = "QUEUED" /\ n.target = q.target /\ n.key = ActiveTokenKey[q.server]
      /\ n # NoRow
  BY <1>1, <1>5, <1>6 DEF NoRow
<1> HIDE DEF n
<1>8. \A z \in Sessions : rows[z].scan <= created /\ rows[z].scan \in Nat
  <2> SUFFICES ASSUME NEW z \in Sessions PROVE rows[z].scan <= created /\ rows[z].scan \in Nat
    OBVIOUS
  <2>1. CASE rows[z] = NoRow
    BY <1>2, <2>1 DEF NoRow
  <2>2. CASE rows[z] # NoRow
    <3>1. rows[z] \in Row /\ RowOk(z)
      BY <2>2, <1>5 DEF IInv, RowsOk
    <3>2. rows[z].scan \in Nat
      BY <3>1 DEF Row, Scans
    <3> QED
      BY <2>2, <3>1, <3>2 DEF RowOk
  <2> QED
    BY <2>1, <2>2
<1>9. RowsOk'
  <2>1. RowOk(s)'
    <3>1. results'[created + 1] = NoResult
      <4>1. created + 1 \in Scans /\ created + 1 > created
        BY <1>2 DEF Scans
      <4> QED
        BY <4>1 DEF IInv, RowsOk
    <3>2. \A z \in Sessions \ {s} : rows'[z].scan # rows'[s].scan
      BY <1>2, <1>7, <1>8
    <3>3. rows'[s].key \in TokenKeys[q.server] /\ rows'[s].created <= Reading(q.server)'
      BY <1>1, <1>3, <1>7, ServiceAssumption DEF Reading
    <3>4. rows'[s].scan <= created' /\ rows'[s].created <= rows'[s].updated
      BY <1>1, <1>2, <1>7
    <3>5. results'[rows'[s].scan] = NoResult /\ rows'[s].job # "SUCCEEDED"
      BY <1>7, <3>1
    <3> QED
      BY <1>1, <3>2, <3>3, <3>4, <3>5 DEF RowOk
  <2>2. ASSUME NEW z \in Sessions \ {s} PROVE RowOk(z)'
    <3>1. RowOk(z) /\ rows'[z] = rows[z]
      BY <1>7 DEF IInv, RowsOk
    <3>2. \A y \in Sessions \ {z} : rows'[z] # NoRow => rows'[y].scan # rows'[z].scan
      BY <1>1, <1>2, <1>7, <1>8, <3>1 DEF RowOk
    <3>3. rows[z].scan <= created'
      BY <1>2, <1>8
    <3> QED
      BY <3>1, <3>2, <3>3 DEF RowOk, Reading, Expiry
  <2>3. \A x \in Scans : x > created' => results'[x] = NoResult
    BY <1>2 DEF IInv, RowsOk, Scans
  <2> QED
    BY <2>1, <2>2, <2>3 DEF RowsOk
<1>10. ASSUME NEW c \in Claims
       PROVE  ClaimOk(c)' /\ (c.session = s => c.scan # created' /\ c.expires <= q.now)
  <2>1. c \in Answer /\ ClaimOk(c)
    BY ClaimsTyped DEF IInv, ClaimsOk
  <2>2. c.session \in Sessions /\ c.scan \in Nat /\ c.expires \in Nat /\ c.scan <= created
    BY <2>1 DEF Answer, Scans, ClaimOk
  <2>3. c.session = s => c.expires <= q.now
    <3> SUFFICES ASSUME c.session = s PROVE c.expires <= q.now
      OBVIOUS
    <3>1. CASE rows[s] = NoRow
      BY <1>2, <1>3, <1>1, <2>1, <2>2, <3>1 DEF ClaimOk, Matched
    <3>2. CASE rows[s] # NoRow
      <4>1. rows[s].created \in Nat /\ q.now >= rows[s].created + AccessSeconds
        BY <1>1, <1>5, <3>2 DEF Replaceable, Expiry, Row
      <4> QED
        BY <1>1, <1>2, <2>1, <2>2, <3>2, <4>1 DEF ClaimOk, Matched, Expiry
    <3> QED
      BY <3>1, <3>2
  <2>4. Matched(c)'
    <3>1. CASE c.session = s
      <4>1. rows'[c.session] # NoRow /\ rows'[c.session].scan # c.scan
            /\ c.expires <= rows'[c.session].created
        BY <1>2, <1>7, <2>2, <2>3, <3>1
      <4>2. c.expires <= clock' + LargestSkew
        BY <1>1, <1>2, <1>3, <2>2, <2>3, <3>1
      <4> QED
        BY <4>1, <4>2 DEF Matched
    <3>2. CASE c.session # s
      BY <1>7, <2>1, <2>2, <3>2 DEF ClaimOk, Matched, Expiry
    <3> QED
      BY <3>1, <3>2
  <2>5. \A z \in Sessions : rows'[z].scan = c.scan => z = c.session
    BY <1>2, <1>7, <2>1, <2>2 DEF ClaimOk
  <2>6. c.scan <= created' /\ c.scan # created'
    BY <1>2, <2>2
  <2> QED
    BY <2>1, <2>3, <2>4, <2>5, <2>6 DEF ClaimOk
<1>11. created' \in 0..MaxScans
  BY <1>2
<1>12. rows' \in [Sessions -> Row \cup {NoRow}]
  BY <1>4, <1>5, <1>6
<1> QED
  BY <1>9, <1>10, <1>11, <1>12

\* createOrReplay inserts; the answer arrives, with a promise or not, or is lost.
LEMMA StoreNewKeeps ==
  ASSUME IInv, NEW t \in Tabs, StoreNew(t)
  PROVE  IInv'
<1>0. PICK q \in Requests, k \in Scans : q = requests[t] /\ k = created + 1
  <2>1. created + 1 \in Scans
    BY ServiceAssumption DEF StoreNew, IInv, Types, Scans
  <2> QED
    BY <2>1 DEF IInv, Types
<1> DEFINE s == q.session
           n == [scan |-> k, target |-> q.target, created |-> q.now,
                 key |-> ActiveTokenKey[q.server], job |-> "QUEUED", updated |-> q.now]
           claim == [session |-> s, target |-> q.target, scan |-> k,
                     expires |-> q.now + AccessSeconds]
           r == [pc |-> "enqueue", kind |-> "scan", session |-> s, target |-> q.target,
                 scan |-> k, expires |-> q.now + AccessSeconds, early |-> q.early]
<1>1. /\ q \in Storing /\ Timely(q)
      /\ s \in Sessions /\ q.early = FALSE /\ q.target \in Targets /\ q.now \in Nat
  <2>1. q \in Storing /\ Timely(q)
    BY <1>0, Shapes DEF IInv, Types, StoreNew, RequestOk
  <2> QED
    BY <2>1 DEF Storing
<1>2. /\ rows[s] = NoRow \/ Replaceable(rows[s], q.now)
      /\ created < MaxScans /\ created' = k /\ k = created + 1
      /\ rows' = [rows EXCEPT ![s] = n]
      /\ UNCHANGED <<clock, results>>
      /\ UNCHANGED <<ring, revoked, issued, jar, queued, answers>>
  BY <1>0, MayInsertMeans DEF StoreNew, StoredRow
<1>3. requests' = [requests EXCEPT ![t] = Idle] \/ requests' = [requests EXCEPT ![t] = r]
  <2>1. Accept(t, n) \/ Answered(t, 503)
    BY <1>0 DEF StoreNew
  <2>2. Expiry(n) = q.now + AccessSeconds /\ n.scan = k
    BY DEF Expiry
  <2> HIDE DEF n
  <2> QED
    BY <1>0, <2>1, <2>2 DEF Accept, Answered
<1>4. /\ rows' \in [Sessions -> Row \cup {NoRow}] /\ created' \in 0..MaxScans
      /\ RowsOk'
      /\ \A c \in Claims : /\ ClaimOk(c)'
                           /\ c.session = s => c.scan # created' /\ c.expires <= q.now
  BY <1>1, <1>2, InsertKeeps
<1>5. /\ k \in Scans /\ AccessSeconds \in Nat
      /\ rows \in [Sessions -> Row \cup {NoRow}]
  BY <1>2, ServiceAssumption DEF IInv, Types, Scans
<1>6. rows'[s] = n
  BY <1>1, <1>2, <1>5
<1>7. claim \in Answer
  BY <1>1, <1>5 DEF Answer
<1>8. ClaimOk(claim)'
  <2>1. n # NoRow /\ n.scan = claim.scan /\ n.target = claim.target
        /\ Expiry(n) = claim.expires /\ n.job = "QUEUED"
    BY DEF NoRow, Expiry
  <2>2. claim.session = s /\ claim.scan = created'
    BY <1>2
  <2> HIDE DEF n, claim
  <2>3. Matched(claim)'
    BY <1>6, <2>1, <2>2 DEF Matched, Expiry
  <2>4. RowOk(s)'
    BY <1>1, <1>4 DEF RowsOk
  <2>5. rows'[s].scan = claim.scan /\ results'[claim.scan] = NoResult
    BY <1>6, <2>1, <2>4 DEF RowOk
  <2>6. \A z \in Sessions : rows'[z].scan = claim.scan => z = claim.session
    BY <1>6, <2>1, <2>2, <2>4, <2>5 DEF RowOk
  <2>7. claim.scan <= created'
    BY <1>4, <2>2
  <2> QED
    BY <2>3, <2>5, <2>6, <2>7 DEF ClaimOk
<1>9. \A b \in Claims : Compatible(b, claim) /\ Compatible(claim, b)
  <2> SUFFICES ASSUME NEW b \in Claims, b.session = s
               PROVE  Compatible(b, claim) /\ Compatible(claim, b)
    BY DEF Compatible
  <2>1. b.scan # k /\ b.expires <= q.now /\ b.expires \in Nat
    BY <1>2, <1>4, ClaimsTyped DEF Answer
  <2>2. b.expires <= claim.expires - AccessSeconds /\ b.scan # claim.scan
    BY <1>1, <1>5, <2>1
  <2> HIDE DEF claim
  <2> QED
    BY <2>2 DEF Compatible
<1>10. r \in Requests
  <2>1. q.now + AccessSeconds \in Nat
    BY <1>1, <1>5
  <2>2. q.early \in {FALSE}
    BY <1>1 DEF Storing
  <2> QED
    BY <1>1, <1>5, <2>1, <2>2 DEF Requests, Enqueueing
<1>11. Claimed(r) = {claim}
  BY DEF Claimed
<1>12. PICK new \in {Idle, r} : requests' = [requests EXCEPT ![t] = new]
  BY <1>3
<1> HIDE DEF r, n, claim
<1>13. /\ new \in Requests /\ Claimed(new) \subseteq {claim} /\ RequestOk(new)
  <2>1. RequestOk(r)
    BY DEF RequestOk, Barred, Timely, Told, Read, r
  <2> QED
    BY <1>10, <1>11, <1>12, <2>1, Idled
<1>14. \A u \in Tabs : requests'[u] = IF u = t THEN new ELSE requests[u]
  BY <1>12 DEF IInv, Types
<1>15. Types'
  BY <1>2, <1>4, <1>12, <1>13 DEF IInv, Types
<1>16. (\A u \in Tabs : RequestOk(requests[u]))'
  <2> SUFFICES ASSUME NEW u \in Tabs PROVE RequestOk(requests[u])'
    OBVIOUS
  <2>1. RequestOk(requests'[u])
    BY <1>13, <1>14 DEF IInv
  <2> QED
    BY <1>2, <2>1 DEF RequestOk, Barred, Timely, Told, Read, Reading
<1>17. Claims' \subseteq Claims \cup {claim}
  <2>1. \A u \in Tabs : Claimed(requests'[u]) \subseteq Claimed(requests[u]) \cup {claim}
    BY <1>13, <1>14
  <2> QED
    BY <1>2, <2>1 DEF Claims, Claimed
<1>18. ClaimsOk'
  <2>1. \A c \in Claims' : ClaimOk(c)'
    BY <1>4, <1>8, <1>17
  <2>2. \A a, b \in Claims' : Compatible(a, b)
    <3>1. Compatible(claim, claim)
      BY DEF Compatible
    <3> QED
      BY <1>9, <1>17, <3>1 DEF IInv, ClaimsOk
  <2>3. \A a \in answers' : a.scan \in queued'
    BY <1>2 DEF IInv, ClaimsOk
  <2> QED
    BY <2>1, <2>2, <2>3 DEF ClaimsOk
<1> QED
  BY <1>4, <1>15, <1>16, <1>18 DEF IInv
-----------------------------------------------------------------------------
\* Time passes while no reading is too old.
LEMMA TickKeeps ==
  ASSUME IInv, Tick
  PROVE  IInv'
<1>1. /\ UNCHANGED <<ring, revoked, issued, jar, rows, created, queued, results,
                     requests, answers>>
      /\ clock' = clock + 1 /\ clock \in Nat /\ clock' \in Nat
  BY DEF Tick, IInv, Types
<1>2. Types'
  BY <1>1 DEF IInv, Types
<1>3. \A srv \in Servers : Reading(srv)' = Reading(srv) + 1 /\ Reading(srv) \in Nat
  BY <1>1, ServiceAssumption DEF Reading
<1>4. (\A u \in Tabs : RequestOk(requests[u]))'
  <2> SUFFICES ASSUME NEW u \in Tabs PROVE RequestOk(requests[u])'
    OBVIOUS
  <2>1. PICK q \in Requests : q = requests[u]
    BY DEF IInv, Types
  <2>2. RequestOk(q) /\ requests'[u] = q
    BY <1>1, <2>1 DEF IInv
  <2>3. Timely(q)'
    <3> SUFFICES ASSUME q.pc = "store"
                 PROVE  q.now <= Reading(q.server)' /\ Reading(q.server)' <= q.now + Patience
      BY DEF Timely
    <3>1. Reading(q.server) < q.now + Patience
      BY <2>1 DEF Tick
    <3>2. q.now <= Reading(q.server) /\ q.server \in Servers /\ q.now \in Nat /\ Patience \in Nat
      <4>1. q \in Storing
        BY Shapes
      <4> QED
        BY <2>2, <4>1, ServiceAssumption DEF RequestOk, Timely, Storing
    <3> QED
      BY <1>3, <3>1, <3>2
  <2>4. Barred(q)'
    <3> SUFFICES ASSUME q.pc \in {"keys", "revocation"}, q.kind = "scan", clock' < q.barred
                 PROVE  clock < q.barred
      BY <1>1, <2>2 DEF RequestOk, Barred
    <3>1. q.barred \in Nat
      BY Shapes
    <3> QED
      BY <1>1, <3>1
  <2>5. Told(q)' /\ Read(q)'
    BY <1>1, <2>2 DEF RequestOk, Told, Read
  <2> QED
    BY <2>2, <2>3, <2>4, <2>5 DEF RequestOk, Timely, Barred, Told, Read
<1>5. RowsOk'
  <2> SUFFICES ASSUME NEW s \in Sessions PROVE RowOk(s)'
    BY <1>1 DEF IInv, RowsOk
  <2>1. RowOk(s)
    BY DEF IInv, RowsOk
  <2>2. rows[s] # NoRow => rows[s].created \in Nat
    BY DEF IInv, Types, Row
  <2>3. rows[s] # NoRow =>
          \E srv \in Servers : rows[s].key \in TokenKeys[srv] /\ rows[s].created <= Reading(srv)'
    BY <1>3, <2>1, <2>2 DEF RowOk
  <2> QED
    BY <1>1, <2>1, <2>3 DEF RowOk, Expiry
<1>6. ClaimsOk'
  <2>1. Claims' = Claims
    BY <1>1 DEF Claims
  <2>2. ASSUME NEW c \in Claims PROVE ClaimOk(c)'
    <3>1. ClaimOk(c) /\ c.expires \in Nat
      BY ClaimsTyped DEF IInv, ClaimsOk, Answer
    <3>2. Matched(c)'
      <4>1. LargestSkew \in Nat /\ Patience \in Nat
        BY LargestSkewIs, ServiceAssumption
      <4>2. /\ c.expires <= clock + LargestSkew => c.expires <= clock' + LargestSkew
            /\ c.expires + Patience <= clock => c.expires + Patience <= clock'
        BY <1>1, <3>1, <4>1
      <4> QED
        BY <1>1, <3>1, <4>2 DEF ClaimOk, Matched, Expiry
    <3> QED
      BY <1>1, <3>1, <3>2 DEF ClaimOk
  <2> QED
    BY <1>1, <2>1, <2>2 DEF IInv, ClaimsOk
<1> QED
  BY <1>2, <1>4, <1>5, <1>6 DEF IInv

LEMMA CookieFields ==
  ASSUME NEW c \in Cookies \cup {NoCookie}
  PROVE  c.version \in Nat /\ (c \in Cookies => c.session \in Sessions)
<1>1. CASE c \in Cookies
  BY <1>1, ServiceAssumption DEF Cookies
<1>2. CASE c = NoCookie
  BY <1>1, <1>2 DEF NoCookie
<1> QED
  BY <1>1, <1>2

\* The keys of the cookie and the revocations: the operator's steps.
LEMMA OperatorKeeps ==
  ASSUME IInv,
         RotateCookieKey \/ (\E v \in CookieKeys : RemoveCookieKey(v))
           \/ (\E s \in Sessions : RevokeSession(s) \/ PruneRevocation(s))
  PROVE  IInv'
<1>1. UNCHANGED <<clock, issued, jar, rows, created, queued, results, requests, answers>>
  BY DEF RotateCookieKey, RemoveCookieKey, RevokeSession, PruneRevocation
<1>2. /\ ring' \in [active : CookieKeys, all : SUBSET Nat]
      /\ \A v \in ring'.all : v <= ring'.active
      /\ ring.active <= ring'.active
      /\ \A v \in Nat : v <= ring.active /\ v \notin ring.all => v \notin ring'.all
  <2>1. ring.active \in Nat /\ ring.active \in CookieKeys /\ ring.all \subseteq Nat
        /\ ring = [active |-> ring.active, all |-> ring.all]
        /\ \A v \in ring.all : v <= ring.active
    BY ServiceAssumption DEF IInv, Types
  <2>2. CASE RotateCookieKey
    <3>1. /\ ring.active + 1 \in CookieKeys /\ ring.active + 1 \in Nat
          /\ ring' = [active |-> ring.active + 1, all |-> ring.all \cup {ring.active + 1}]
      BY <2>1, <2>2 DEF RotateCookieKey
    <3> QED
      BY <2>1, <3>1
  <2>3. CASE \E v \in CookieKeys : RemoveCookieKey(v)
    <3>1. PICK v \in CookieKeys : ring' = [ring EXCEPT !.all = @ \ {v}]
      BY <2>3 DEF RemoveCookieKey
    <3>2. ring'.active = ring.active /\ ring'.all = ring.all \ {v}
          /\ ring' = [active |-> ring'.active, all |-> ring'.all]
      BY <2>1, <3>1
    <3> QED
      BY <2>1, <3>2
  <2>4. CASE \E s \in Sessions : RevokeSession(s) \/ PruneRevocation(s)
    <3>1. ring' = ring
      BY <2>4 DEF RevokeSession, PruneRevocation
    <3> QED
      BY <2>1, <3>1 DEF IInv, Types
  <2> QED
    BY <2>2, <2>3, <2>4
<1>3. /\ revoked' \in [Sessions -> Nat]
      /\ \A s \in Sessions : revoked[s] > clock => revoked'[s] = revoked[s]
  <2>1. /\ revoked \in [Sessions -> Nat] /\ clock \in Nat
        /\ clock + SessionSeconds \in Nat
    BY ServiceAssumption DEF IInv, Types
  <2>2. CASE RotateCookieKey \/ \E v \in CookieKeys : RemoveCookieKey(v)
    BY <2>1, <2>2 DEF RotateCookieKey, RemoveCookieKey
  <2>3. ASSUME NEW s \in Sessions, RevokeSession(s)
        PROVE  /\ revoked' \in [Sessions -> Nat]
               /\ \A z \in Sessions : revoked[z] > clock => revoked'[z] = revoked[z]
    BY <2>1, <2>3 DEF RevokeSession, RevokedUntil
  <2>4. ASSUME NEW s \in Sessions, PruneRevocation(s)
        PROVE  /\ revoked' \in [Sessions -> Nat]
               /\ \A z \in Sessions : revoked[z] > clock => revoked'[z] = revoked[z]
    BY <2>1, <2>4 DEF PruneRevocation, Prunable
  <2> QED
    BY <2>2, <2>3, <2>4
<1>4. jar'.version <= ring'.active
  <2>1. /\ jar.version \in Nat /\ jar.version <= ring.active
        /\ ring.active \in Nat /\ ring'.active \in Nat
    BY <1>2, CookieFields, ServiceAssumption DEF IInv, Types
  <2> QED
    BY <1>1, <1>2, <2>1
<1>5. Types'
  BY <1>1, <1>2, <1>3, <1>4 DEF IInv, Types
<1>6. (\A u \in Tabs : RequestOk(requests[u]))'
  <2> SUFFICES ASSUME NEW u \in Tabs PROVE RequestOk(requests[u])'
    OBVIOUS
  <2>1. PICK q \in Requests : q = requests[u]
    BY DEF IInv, Types
  <2>2. RequestOk(q) /\ requests'[u] = q
    BY <1>1, <2>1 DEF IInv
  <2>3. ring.active \in Nat /\ ring'.active \in Nat /\ clock \in Nat
    BY <1>2, ServiceAssumption DEF IInv, Types
  <2>4. CASE q.pc \in {"keys", "revocation"}
    <3>1. /\ q.cookie.version \in Nat /\ q.active \in Nat
          /\ q.kind = "scan" => q.cookie.session \in Sessions /\ q.barred \in Nat
      BY <2>4, Shapes, CookieFields
    <3>2. q.cookie.version <= ring'.active /\ q.active <= ring'.active
      BY <1>2, <2>2, <2>3, <2>4, <3>1 DEF RequestOk, Barred
    <3>3. ASSUME q.kind = "scan", clock' < q.barred
          PROVE  \/ revoked'[q.cookie.session] >= q.barred
                 \/ q.pc = "keys" /\ q.cookie.version \notin ring'.all
      <4>1. CASE revoked[q.cookie.session] >= q.barred
        <5>1. revoked[q.cookie.session] > clock
          BY <1>1, <2>3, <3>1, <3>3, <4>1 DEF IInv, Types
        <5> QED
          BY <1>3, <3>1, <3>3, <4>1, <5>1
      <4>2. CASE q.pc = "keys" /\ q.cookie.version \notin ring.all
        BY <1>2, <2>2, <2>4, <3>1, <4>2 DEF RequestOk, Barred
      <4> QED
        BY <1>1, <2>2, <2>4, <3>3, <4>1, <4>2 DEF RequestOk, Barred
    <3>4. Barred(q)'
      BY <2>2, <2>4, <3>2, <3>3 DEF RequestOk, Barred
    <3> QED
      BY <2>2, <2>4, <3>4 DEF RequestOk, Barred, Timely, Told, Read
  <2>5. CASE q.pc \notin {"keys", "revocation"}
    <3>1. q.pc = "answered" /\ q.kind = "session" => q.cookie.version <= ring'.active
      <4> SUFFICES ASSUME q.pc = "answered", q.kind = "session"
                   PROVE  q.cookie.version <= ring'.active
        OBVIOUS
      <4>1. q.cookie.version \in Nat /\ q.cookie.version <= ring.active
        BY <2>2, Shapes, ServiceAssumption DEF CookieAnswers, RequestOk, Barred
      <4> QED
        BY <1>2, <2>3, <4>1
    <3>2. Timely(q)' /\ Told(q)' /\ Read(q)'
      BY <1>1, <2>2 DEF RequestOk, Timely, Told, Read, Reading
    <3> QED
      BY <2>2, <2>5, <3>1, <3>2 DEF RequestOk, Barred, Timely, Told, Read
  <2> QED
    BY <2>4, <2>5
<1>7. RowsOk'
  BY <1>1 DEF IInv, RowsOk, RowOk, Reading, Expiry
<1>8. ClaimsOk'
  <2>1. Claims' = Claims
    BY <1>1 DEF Claims
  <2>2. ASSUME NEW c \in Claims PROVE ClaimOk(c)'
    BY <1>1 DEF IInv, ClaimsOk, ClaimOk, Matched, Expiry
  <2> QED
    BY <1>1, <2>1, <2>2 DEF IInv, ClaimsOk
<1> QED
  BY <1>5, <1>6, <1>7, <1>8 DEF IInv
-----------------------------------------------------------------------------
\* A result is committed once for a scan that had none.
LEMMA CommitResultKeeps ==
  ASSUME IInv, NEW s \in Sessions, NEW srv \in Servers, CommitResult(s, srv)
  PROVE  IInv'
<1>1. PICK old \in Row, now \in Nat : old = rows[s] /\ now = Reading(srv)
  <2>1. Reading(srv) \in Nat
    BY ServiceAssumption DEF Reading, IInv, Types
  <2> QED
    BY <2>1 DEF CommitResult, IInv, Types
<1> DEFINE n == [old EXCEPT !.job = "SUCCEEDED", !.updated = now]
           x == [completed |-> now, created |-> old.created, key |-> old.key]
<1>2. /\ old # NoRow /\ old.job = "QUEUED" /\ old.updated <= now /\ now < Expiry(old)
      /\ rows' = [rows EXCEPT ![s] = n]
      /\ results' = [results EXCEPT ![old.scan] = x]
      /\ UNCHANGED <<clock, ring, revoked, issued, jar, created, queued, requests, answers>>
  BY <1>1 DEF CommitResult, Writable, IInv, Types
<1>3. /\ old.scan \in Scans /\ old.created \in Nat /\ old.updated \in Nat
      /\ old.key \in Keys /\ AccessSeconds \in Nat
      /\ old = [scan |-> old.scan, target |-> old.target, created |-> old.created,
                key |-> old.key, job |-> old.job, updated |-> old.updated]
  BY <1>1, ServiceAssumption DEF Row, Keys
<1>4. /\ n \in Row /\ n # NoRow /\ n.scan = old.scan /\ n.target = old.target
      /\ n.created = old.created /\ n.key = old.key
      /\ n.job = "SUCCEEDED" /\ n.updated = now
  BY <1>1, <1>3 DEF Row, NoRow
<1>5. x \in Result /\ x.completed = now /\ x.created = old.created /\ x.key = old.key
  BY <1>1, <1>3 DEF Result
<1>6. /\ rows \in [Sessions -> Row \cup {NoRow}]
      /\ results \in [Scans -> Result \cup {NoResult}]
  BY DEF IInv, Types
<1> HIDE DEF n
<1>7. /\ rows'[s] = n /\ \A z \in Sessions \ {s} : rows'[z] = rows[z]
      /\ \A z \in Sessions : rows'[z].scan = rows[z].scan
  BY <1>1, <1>2, <1>4, <1>6
<1>8. /\ results'[old.scan] = x /\ \A y \in Scans \ {old.scan} : results'[y] = results[y]
  BY <1>2, <1>3, <1>6
<1>9. RowOk(s) /\ results[old.scan] = NoResult /\ old.scan <= created
  BY <1>1, <1>2 DEF IInv, RowsOk, RowOk
<1>10. Types'
  BY <1>2, <1>4, <1>5, <1>6 DEF IInv, Types
<1>11. (\A u \in Tabs : RequestOk(requests[u]))'
  <2> SUFFICES ASSUME NEW u \in Tabs PROVE RequestOk(requests[u])'
    OBVIOUS
  <2>1. PICK q \in Requests : q = requests[u]
    BY DEF IInv, Types
  <2>2. RequestOk(q) /\ requests'[u] = q
    BY <1>2, <2>1 DEF IInv
  <2>3. Barred(q)' /\ Timely(q)' /\ Told(q)'
    BY <1>2, <2>2 DEF RequestOk, Barred, Timely, Told, Reading
  <2>4. Read(q)'
    <3>1. CASE q.pc = "load"
      <4>1. q.scan \in Scans
        BY <3>1, Shapes DEF Loading
      <4>2. q.had => q.scan # old.scan
        BY <1>9, <2>2, <3>1 DEF RequestOk, Read
      <4> QED
        BY <1>2, <1>8, <2>2, <3>1, <4>1, <4>2 DEF RequestOk, Read
    <3>2. CASE q.pc = "answered" /\ q.kind = "read"
      <4>1. q.scan \in Scans /\ q.code \in {200, 404} /\ q.had \in BOOLEAN
        BY <3>2, Shapes DEF ReadAnswers
      <4>2. q.had \/ q.code = 200 => q.scan # old.scan
        BY <1>9, <2>2, <3>2 DEF RequestOk, Read
      <4>3. CASE q.scan = old.scan
        BY <3>2, <4>2, <4>3 DEF Read
      <4>4. CASE q.scan # old.scan
        <5>1. results'[q.scan] = results[q.scan]
          BY <1>8, <4>1, <4>4
        <5> QED
          BY <1>2, <2>2, <3>2, <5>1 DEF RequestOk, Read
      <4> QED
        BY <4>3, <4>4
    <3> QED
      BY <3>1, <3>2 DEF Read
  <2> QED
    BY <2>2, <2>3, <2>4 DEF RequestOk, Barred, Timely, Told, Read
<1>12. RowsOk'
  <2>1. RowOk(s)'
    <3>1. \A z \in Sessions \ {s} : rows'[z].scan # rows'[s].scan
      BY <1>1, <1>2, <1>7, <1>9 DEF RowOk
    <3>2. \E v \in Servers : n.key \in TokenKeys[v] /\ n.created <= Reading(v)'
      BY <1>1, <1>2, <1>4, <1>9 DEF RowOk, Reading
    <3>3. n.created <= n.updated
      <4>1. old.created <= old.updated
        BY <1>1, <1>2, <1>9 DEF RowOk
      <4> QED
        BY <1>1, <1>2, <1>3, <1>4, <4>1
    <3>4. /\ results'[n.scan] = [completed |-> n.updated, created |-> n.created, key |-> n.key]
          /\ n.updated < Expiry(n)
      BY <1>2, <1>4, <1>8 DEF Expiry
    <3> QED
      BY <1>2, <1>4, <1>7, <1>9, <3>1, <3>2, <3>3, <3>4 DEF RowOk, Expiry
  <2>2. ASSUME NEW z \in Sessions \ {s} PROVE RowOk(z)'
    <3>1. RowOk(z) /\ rows'[z] = rows[z]
      BY <1>7 DEF IInv, RowsOk
    <3>2. rows[z] # NoRow => rows[z].scan \in Scans \ {old.scan}
      BY <1>1, <1>6, <3>1 DEF RowOk, Row
    <3>3. rows[z] # NoRow => results'[rows[z].scan] = results[rows[z].scan]
      BY <1>8, <3>2
    <3> QED
      BY <1>2, <1>7, <3>1, <3>3 DEF RowOk, Reading, Expiry
  <2>3. \A y \in Scans : y > created' => results'[y] = NoResult
    <3> SUFFICES ASSUME NEW y \in Scans, y > created PROVE results'[y] = NoResult
      BY <1>2
    <3>1. y # old.scan
      BY <1>3, <1>9 DEF Scans, IInv, Types
    <3> QED
      BY <1>8, <3>1 DEF IInv, RowsOk
  <2> QED
    BY <2>1, <2>2, <2>3 DEF RowsOk
<1>13. ClaimsOk'
  <2>1. Claims' = Claims
    BY <1>2 DEF Claims
  <2>2. ASSUME NEW c \in Claims PROVE ClaimOk(c)'
    <3>1. ClaimOk(c) /\ c.scan \in Scans /\ c.session \in Sessions
      BY ClaimsTyped DEF IInv, ClaimsOk, Answer
    <3>2. Matched(c)'
      <4>1. CASE c.session = s
        <5>1. rows[s] # NoRow /\ rows'[s] # NoRow /\ rows'[s].scan = rows[s].scan
              /\ rows'[s].target = rows[s].target /\ rows'[s].created = rows[s].created
          BY <1>1, <1>2, <1>4, <1>7
        <5> QED
          BY <1>2, <3>1, <4>1, <5>1 DEF ClaimOk, Matched, Expiry
      <4>2. CASE c.session # s
        BY <1>2, <1>7, <3>1, <4>2 DEF ClaimOk, Matched, Expiry
      <4> QED
        BY <4>1, <4>2
    <3>3. results'[c.scan] # NoResult => results'[c.scan].created + AccessSeconds = c.expires
      <4>1. CASE c.scan = old.scan
        <5>1. c.session = s
          BY <1>1, <3>1, <4>1 DEF ClaimOk
        <5>2. Expiry(old) = c.expires
          BY <1>1, <1>2, <3>1, <4>1, <5>1 DEF ClaimOk, Matched
        <5> QED
          BY <1>5, <1>8, <4>1, <5>2 DEF Expiry
      <4>2. CASE c.scan # old.scan
        BY <1>8, <3>1, <4>2 DEF ClaimOk
      <4> QED
        BY <4>1, <4>2
    <3>4. \A z \in Sessions : rows'[z].scan = c.scan => z = c.session
      BY <1>7, <3>1 DEF ClaimOk
    <3> QED
      BY <1>2, <3>1, <3>2, <3>3, <3>4 DEF ClaimOk
  <2> QED
    BY <1>2, <2>1, <2>2 DEF IInv, ClaimsOk
<1> QED
  BY <1>10, <1>11, <1>12, <1>13 DEF IInv

\* By the time a scan is deleted no request remembers its window as open.
LEMMA DeleteScanKeeps ==
  ASSUME IInv, NEW s \in Sessions, NEW srv \in Servers, DeleteScan(s, srv)
  PROVE  IInv'
<1>1. PICK old \in Row : old = rows[s]
  BY DEF DeleteScan, IInv, Types
<1>2. /\ old # NoRow /\ Deadline(old) <= Reading(srv)
      /\ rows' = [rows EXCEPT ![s] = NoRow]
      /\ UNCHANGED <<clock, ring, revoked, issued, jar, created, queued, results, requests, answers>>
  BY <1>1 DEF DeleteScan
<1>3. /\ rows \in [Sessions -> Row \cup {NoRow}]
      /\ rows'[s] = NoRow /\ \A z \in Sessions \ {s} : rows'[z] = rows[z]
  BY <1>2 DEF IInv, Types
<1>4. /\ old.created \in Nat /\ clock \in Nat /\ Skew[srv] \in Nat /\ LargestSkew \in Nat
      /\ Skew[srv] <= LargestSkew /\ Patience \in Nat
      /\ AccessSeconds \in Nat /\ RetentionSeconds \in Nat
      /\ AccessSeconds + Patience + Skew[srv] <= RetentionSeconds
  BY <1>1, LargestSkewIs, ServiceAssumption DEF Row, IInv, Types
<1>5. /\ Expiry(old) <= clock + LargestSkew
      /\ Expiry(old) + Patience <= clock
  BY <1>2, <1>4 DEF Expiry, Deadline, Reading
<1>6. Types'
  BY <1>2, <1>3 DEF IInv, Types
<1>7. (\A u \in Tabs : RequestOk(requests[u]))'
  <2> SUFFICES ASSUME NEW u \in Tabs PROVE RequestOk(requests[u])'
    OBVIOUS
  <2>1. RequestOk(requests[u])
    BY DEF IInv
  <2> QED
    BY <1>2, <2>1 DEF RequestOk, Barred, Timely, Told, Read, Reading
<1>8. RowsOk'
  <2>1. ASSUME NEW z \in Sessions PROVE RowOk(z)'
    <3>1. CASE z = s
      BY <1>3, <3>1 DEF RowOk
    <3>2. CASE z # s
      <4>1. RowOk(z) /\ rows'[z] = rows[z]
        BY <1>3, <3>2 DEF IInv, RowsOk
      <4>2. rows[z] # NoRow => rows[z].scan # NoRow.scan
        BY <1>3 DEF Row, Scans, NoRow
      <4>3. rows'[z] # NoRow => \A y \in Sessions \ {z} : rows'[y].scan # rows'[z].scan
        BY <1>3, <4>1, <4>2 DEF RowOk
      <4> QED
        BY <1>2, <4>1, <4>3 DEF RowOk, Reading, Expiry
    <3> QED
      BY <3>1, <3>2
  <2> QED
    BY <1>2, <2>1 DEF IInv, RowsOk
<1>9. ClaimsOk'
  <2>1. Claims' = Claims
    BY <1>2 DEF Claims
  <2>2. ASSUME NEW c \in Claims PROVE ClaimOk(c)'
    <3>1. /\ ClaimOk(c) /\ c.scan \in Scans /\ c.session \in Sessions /\ c.expires \in Nat
      BY ClaimsTyped DEF IInv, ClaimsOk, Answer
    <3>2. Matched(c)'
      <4>1. CASE c.session = s
        <5>1. c.expires <= Expiry(old)
          BY <1>1, <1>2, <1>4, <3>1, <4>1 DEF ClaimOk, Matched, Expiry
        <5>2. c.expires <= clock + LargestSkew /\ c.expires + Patience <= clock
          BY <1>4, <1>5, <3>1, <5>1 DEF Expiry
        <5> QED
          BY <1>2, <1>3, <4>1, <5>2 DEF Matched
      <4>2. CASE c.session # s
        BY <1>2, <1>3, <3>1, <4>2 DEF ClaimOk, Matched, Expiry
      <4> QED
        BY <4>1, <4>2
    <3>3. \A z \in Sessions : rows'[z].scan = c.scan => z = c.session
      <4>1. NoRow.scan # c.scan
        BY <3>1 DEF NoRow, Scans
      <4> QED
        BY <1>3, <3>1, <4>1 DEF ClaimOk
    <3> QED
      BY <1>2, <3>1, <3>2, <3>3 DEF ClaimOk
  <2> QED
    BY <1>2, <2>1, <2>2 DEF IInv, ClaimsOk
<1> QED
  BY <1>6, <1>7, <1>8, <1>9 DEF IInv
-----------------------------------------------------------------------------
LEMMA InitIInv == Init => IInv
<1> SUFFICES ASSUME Init PROVE IInv
  OBVIOUS
<1>1. Types
  BY ServiceAssumption DEF Init, Types, Requests, NoCookie
<1>2. Claims = {}
  BY Idled DEF Init, Claims
<1>3. \A t \in Tabs : RequestOk(requests[t])
  BY Idled DEF Init
<1>4. RowsOk /\ ClaimsOk
  BY <1>2 DEF Init, RowsOk, RowOk, ClaimsOk, NoRow
<1> QED
  BY <1>1, <1>3, <1>4 DEF IInv

LEMMA NextIInv == IInv /\ [Next]_vars => IInv'
<1> SUFFICES ASSUME IInv, [Next]_vars PROVE IInv'
  OBVIOUS
<1>1. CASE Tick
  BY <1>1, TickKeeps
<1>2. ASSUME NEW t \in Tabs, Handle(t) PROVE IInv'
  BY <1>2, KeysAnsweredKeeps, BootstrapAnsweredKeeps, RevocationAnsweredKeeps, StoreNewKeeps,
     StoreReplayKeeps, FailKeeps, EnqueuedKeeps, LoadAnsweredKeeps DEF Handle
<1>3. ASSUME NEW t \in Tabs, Fail(t) \/ Lose(t) PROVE IInv'
  BY <1>3, FailKeeps, EnqueueFailsKeeps DEF Fail
<1>4. ASSUME NEW t \in Tabs, Receive(t) PROVE IInv'
  BY <1>4, ReceiveKeeps
<1>5. ASSUME NEW t \in Tabs, SendSession(t) PROVE IInv'
  BY <1>5, SendSessionKeeps
<1>6. ASSUME NEW t \in Tabs, NEW target \in Wants[t], SendScan(t, target) PROVE IInv'
  <2>1. target \in Targets
    BY ServiceAssumption
  <2> QED
    BY <1>6, <2>1, SendScanKeeps
<1>7. ASSUME NEW t \in Tabs, NEW srv \in Servers, NEW answer \in answers,
             SendRead(t, srv, answer)
      PROVE  IInv'
  BY <1>7, SendReadKeeps
<1>8. CASE \/ RotateCookieKey \/ (\E v \in CookieKeys : RemoveCookieKey(v))
           \/ (\E s \in Sessions : RevokeSession(s) \/ PruneRevocation(s))
  BY <1>8, OperatorKeeps
<1>9. ASSUME NEW s \in Sessions, NEW srv \in Servers,
             CommitResult(s, srv) \/ DeleteScan(s, srv)
      PROVE  IInv'
  BY <1>9, CommitResultKeeps, DeleteScanKeeps
<1>10. CASE UNCHANGED vars
  <2>1. UNCHANGED <<clock, ring, revoked, issued, jar, rows, created, queued, results,
                    requests, answers>>
    BY <1>10 DEF vars
  <2>2. Claims' = Claims
    BY <2>1 DEF Claims
  <2>3. \A c \in Claims' : ClaimOk(c)'
    BY <2>1, <2>2 DEF IInv, ClaimsOk, ClaimOk, Matched, Expiry
  <2>4. ClaimsOk'
    BY <2>1, <2>2, <2>3 DEF IInv, ClaimsOk
  <2>5. Types' /\ RowsOk'
    BY <2>1 DEF IInv, Types, RowsOk, RowOk, Reading, Expiry
  <2>6. (\A t \in Tabs : RequestOk(requests[t]))'
    BY <2>1 DEF IInv, RequestOk, Barred, Timely, Told, Read, Reading
  <2> QED
    BY <2>4, <2>5, <2>6 DEF IInv
<1> QED
  BY <1>1, <1>2, <1>3, <1>4, <1>5, <1>6, <1>7, <1>8, <1>9, <1>10 DEF Next

\* What requests, rows, results and promises have to do with each other, whatever the
\* handlers of create.ts, bootstrap.ts and result-read.ts read and when.
THEOREM ServiceInvariant == Spec => []IInv
BY InitIInv, NextIInv, PTL DEF Spec
-----------------------------------------------------------------------------
\* No browser is told of a scan whose job was never added: create.ts adds it after the
\* commit and before the answer.
THEOREM ToldScansAreQueued == Spec => []ToldMeansQueued
<1>1. ASSUME IInv PROVE ToldMeansQueued
  <2>1. \A a \in answers : a.scan \in queued
    BY <1>1 DEF IInv, ClaimsOk
  <2>2. ASSUME NEW t \in Tabs, "answer" \in DOMAIN requests[t]
        PROVE  requests[t].answer.scan \in queued
    <3>1. PICK q \in Requests : q = requests[t]
      BY <1>1 DEF IInv, Types
    <3>2. q.pc = "answered" /\ q.kind = "scan"
      <4>1. "answer" \in DOMAIN q
        BY <2>2, <3>1
      <4> QED
        BY <4>1, FieldsTell
    <3> QED
      BY <1>1, <3>1, <3>2 DEF IInv, RequestOk, Told
  <2> QED
    BY <2>1, <2>2 DEF ToldMeansQueued
<1> QED
  BY <1>1, ServiceInvariant, PTL

\* A session and idempotency key have one scan at a time: a row is replaced only once its
\* window is over by the reading the request is stored with, and deleted only when no
\* request holds an older one.
THEOREM ScansFollowEachOther == Spec => []OneScanAtATime
<1>1. IInv => OneScanAtATime
  BY DEF IInv, ClaimsOk, Claims, Compatible, OneScanAtATime
<1> QED
  BY <1>1, ServiceInvariant, PTL

\* What an operator revokes or removes stops every request sent from then on, though
\* handlers read the ring and the revocations at two awaits.
THEOREM RevocationHolds == Spec => []RevocationTakesEffect
<1>1. ASSUME IInv PROVE RevocationTakesEffect
  <2>1. ASSUME NEW t \in Tabs, "early" \in DOMAIN requests[t]
        PROVE  ~requests[t].early
    <3>1. PICK q \in Requests : q = requests[t]
      BY <1>1 DEF IInv, Types
    <3>2. "early" \in DOMAIN q
      BY <2>1, <3>1
    <3>3. q.early \in {FALSE}
      BY <3>2, FieldsTell
    <3> QED
      BY <3>1, <3>3
  <2> QED
    BY <2>1 DEF RevocationTakesEffect
<1> QED
  BY <1>1, ServiceInvariant, PTL

\* A result opens only in the window of its scan, and there at every server that has its
\* key: the checks of snapshot.ts, result-token.ts and view.ts agree on the window.
THEOREM ResultsOpen == Spec => []ResultsOpenInTheWindow
<1>1. ASSUME IInv PROVE ResultsOpenInTheWindow
  <2>1. ASSUME NEW t \in Tabs, "loaded" \in DOMAIN requests[t]
        PROVE  requests[t].pc = "answered" /\ requests[t].kind = "read" /\ Read(requests[t])
    <3>1. PICK q \in Requests : q = requests[t]
      BY <1>1 DEF IInv, Types
    <3>2. "loaded" \in DOMAIN q
      BY <2>1, <3>1
    <3>3. q.pc = "answered" /\ q.kind = "read"
      BY <3>2, FieldsTell
    <3> QED
      BY <1>1, <3>1, <3>3 DEF IInv, RequestOk
  <2> QED
    BY <2>1 DEF ResultsOpenInTheWindow, Read
<1> QED
  BY <1>1, ServiceInvariant, PTL

\* What was committed is not lost to its browser: while its window lasts by every clock,
\* the creator's server, or one that has its key, answers a repetition as a replay.
THEOREM RepetitionIsAccepted == Spec => []CommittedCanBeQueued
<1>1. ASSUME IInv PROVE CommittedCanBeQueued
  <2>1. ASSUME NEW s \in Sessions, rows[s] # NoRow,
               \A srv \in Servers : ~Replaceable(rows[s], Reading(srv))
        PROVE  \E srv \in Servers :
                 LET r == [session |-> s, target |-> rows[s].target, server |-> srv,
                           now |-> Reading(srv)]
                 IN Decision(rows[s], r) = "REPLAY" /\ Acceptable(rows[s], r)
    <3>1. PICK srv \in Servers :
            rows[s].key \in TokenKeys[srv] /\ rows[s].created <= Reading(srv)
      BY <1>1, <2>1 DEF IInv, RowsOk, RowOk
    <3>2. rows[s].created \in Nat /\ Reading(srv) \in Nat /\ AccessSeconds \in Nat
      BY <1>1, <2>1, ServiceAssumption DEF IInv, Types, Row, Reading
    <3> DEFINE r == [session |-> s, target |-> rows[s].target, server |-> srv,
                     now |-> Reading(srv)]
    <3>3. r.now = Reading(srv) /\ r.target = rows[s].target /\ r.server = srv
      OBVIOUS
    <3> HIDE DEF r
    <3>4. Acceptable(rows[s], r)
      BY <2>1, <3>1, <3>2, <3>3 DEF Acceptable, Replaceable, Expiry
    <3>5. Decision(rows[s], r) = "REPLAY"
      BY <2>1, <3>1, <3>3 DEF Decision, SameRequest, Derivable
    <3> QED
      BY <3>4, <3>5 DEF r
  <2> QED
    BY <2>1 DEF CommittedCanBeQueued
<1> QED
  BY <1>1, ServiceInvariant, PTL
-----------------------------------------------------------------------------
=============================================================================
