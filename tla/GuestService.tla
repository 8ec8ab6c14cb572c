----------------------------- MODULE GuestService -----------------------------
(***************************************************************************)
(* What a guest's browser can do through the API: get a session cookie     *)
(* (guest-session/bootstrap.ts), ask for a scan (guest-scan/create.ts) and *)
(* read its result (guest-scan/result-read.ts), each behind its route in   *)
(* guest-http.  A request is a record whose pc names the await its handler *)
(* is at; between two awaits a handler runs alone, so one action runs from *)
(* one await to the next.  Other requests, servers, operators and time go  *)
(* on at every await, and what a request has read may then be old.         *)
(*                                                                         *)
(* There is one browser with one idempotency key.  Its tabs share the jar  *)
(* of cookies, and it may repeat a request for ever.  Servers have clocks  *)
(* of their own and their own keyring of result tokens; the ring of cookie *)
(* keys is a mounted file that every request reads afresh; revocations are *)
(* judged by the clock of the database, which is the true time.            *)
(*                                                                         *)
(* A token is the pair of the scan it opens and the key it was derived     *)
(* with.  Malformed requests, which are answered before the first await,   *)
(* change nothing and are left out, as are result_access_revoked_at, which *)
(* no code sets, and the counters of GuestAdmission: a new scan may always *)
(* be refused.  What workers do to a scan is abstracted from               *)
(* GuestScanStore to the times they leave in its row; one that ended       *)
(* without a result is not told from one that is never finished.           *)
(***************************************************************************)
EXTENDS Integers, FiniteSets

CONSTANTS
  Tabs,            \* requests the browser may have open at once
  Uses,            \* what each tab is used for
  Wants,           \* the hostnames each tab may ask a scan of
  Servers,
  Skew,            \* how far each server's clock is ahead of the true time
  TokenKeys,       \* each server's result-token keys
  ActiveTokenKey,  \* the one it derives new tokens with
  Targets,         \* hostnames a scan may be asked for
  CookieKeys,      \* versions of the cookie key, in the order of rotation
  AccessSeconds,   \* idempotency and result access window, 30 minutes
  RetentionSeconds,\* created_at to deletion_deadline, 24 hours
  SessionSeconds,  \* Max-Age of the cookie and life of a revocation, 24 hours
  Patience,        \* how long a request may take once it has read a clock
  Revocable,       \* the sessions an operator may revoke
  MaxSessions, MaxScans, \* bounds: sessions issued and scans created
  Horizon          \* bound: the last second of true time

Kinds == {"session", "scan", "read"}

ASSUME ServiceAssumption ==
  /\ Uses \in [Tabs -> SUBSET Kinds] /\ Wants \in [Tabs -> SUBSET Targets]
  /\ Skew \in [Servers -> Nat]
  /\ \A srv \in Servers : ActiveTokenKey[srv] \in TokenKeys[srv]
  /\ CookieKeys \in SUBSET Nat /\ 1 \in CookieKeys
  /\ {AccessSeconds, RetentionSeconds, SessionSeconds} \subseteq Nat \ {0}
  /\ \A srv \in Servers : AccessSeconds + Patience + Skew[srv] <= RetentionSeconds
  /\ \E ahead \in Servers : \A srv \in Servers : Skew[srv] <= Skew[ahead]
  /\ {Patience, MaxSessions, MaxScans, Horizon} \subseteq Nat
  /\ Revocable \subseteq 1..MaxSessions

VARIABLES
  clock,     \* true time
  ring,      \* the mounted file of cookie keys: the active one and all
  revoked,   \* guest_session_revocations: expires_at by session, 0 for none
  issued,    \* sessions issued so far
  jar,       \* the browser's cookie
  rows,      \* guest_scans by session, under the browser's idempotency key
  created,   \* scans created so far
  queued,    \* scans whose job was ever added to the transport
  results,   \* what was committed for each scan, whether or not still stored
  requests,  \* the request of each tab
  answers    \* the scans the browser was told of

vars == <<clock, ring, revoked, issued, jar, rows, created, queued, results,
          requests, answers>>

Scans == 1..MaxScans
Sessions == 1..MaxSessions
NoCookie == [session |-> 0, version |-> 0, until |-> 0]
Cookies == [session : Sessions, version : CookieKeys, until : Nat]
NoRow == [scan |-> 0]
Row == [scan : Scans, target : Targets, created : Nat, key : UNION {TokenKeys[s] : s \in Servers},
        job : {"QUEUED", "SUCCEEDED"}, updated : Nat]
NoResult == [completed |-> 0, created |-> 0, key |-> 0]
Answer == [session : Sessions, target : Targets, scan : Scans, expires : Nat]

Expiry(row) == row.created + AccessSeconds
Deadline(row) == row.created + RetentionSeconds
Reading(srv) == clock + Skew[srv]

Idle == [pc |-> "idle"]
-----------------------------------------------------------------------------
\* The browser sends its cookie until Max-Age has passed.
Presented == IF clock < jar.until THEN jar ELSE NoCookie

\* A session is barred while it is revoked or its key is gone: until when.
BarredUntil(cookie) ==
  IF cookie.version \notin ring.all THEN Horizon + 1 ELSE revoked[cookie.session]

\* Nothing is sent in the last second, in which what was sent ends.  Which server has a
\* request matters from its reading of the clock on: the cookie keys and the
\* revocations are the same for all.
Send(t, kind) ==
  /\ requests[t] = Idle /\ kind \in Uses[t] /\ clock < Horizon
  /\ UNCHANGED <<clock, ring, revoked, issued, jar, rows, created, queued, results, answers>>

\* The browser asks for a session; readKeys is awaited first.
SendSession(t) ==
  /\ Send(t, "session")
  /\ requests' = [requests EXCEPT ![t] =
       [pc |-> "keys", kind |-> "session", cookie |-> Presented, active |-> 0]]

\* The browser asks for a scan; get_current_keys is awaited first.
SendScan(t, target) ==
  /\ Presented # NoCookie
  /\ Send(t, "scan")
  /\ requests' = [requests EXCEPT ![t] =
       [pc |-> "keys", kind |-> "scan", cookie |-> Presented, active |-> 0, target |-> target,
        barred |-> BarredUntil(Presented)]]

\* The browser asks for the result of a scan it was told of.  The route reads
\* the clock before the row is loaded.
SendRead(t, srv, answer) ==
  /\ answer \in answers
  /\ Send(t, "read")
  /\ requests' = [requests EXCEPT ![t] =
       [pc |-> "load", kind |-> "read", server |-> srv, scan |-> answer.scan,
        session |-> answer.session, now |-> Reading(srv),
        had |-> results[answer.scan] # NoResult]]

\* An answer with neither cookie nor scan nor result: it leaves the browser where it
\* was, received or lost.
Answered(t, code) ==
  /\ code \in {204, 401, 404, 409, 429, 503}
  /\ requests' = [requests EXCEPT ![t] = Idle]

-----------------------------------------------------------------------------
\* The mounted file is read anew for every request.
CurrentKeys == ring

\* authenticateGuestSessionCookieHeader: the MAC verifies under a key in the ring.
Authentic(cookie) == cookie # NoCookie /\ cookie.version \in CurrentKeys.all

KeysUnavailable(t) ==
  /\ requests[t].pc = "keys"
  /\ Answered(t, 503)
  /\ UNCHANGED <<clock, ring, revoked, issued, jar, rows, created, queued, results, answers>>

\* A new cookie under the active key that was read.
Issue(t, active) ==
  /\ issued < MaxSessions
  /\ issued' = issued + 1
  /\ requests' = [requests EXCEPT ![t] =
       [pc |-> "answered", kind |-> "session", code |-> 204,
        cookie |-> [session |-> issued + 1, version |-> active]]]

KeysAnswered(t) ==
  /\ requests[t].pc = "keys"
  /\ \/ /\ Authentic(requests[t].cookie)
        /\ requests' = [requests EXCEPT
             ![t].pc = "revocation", ![t].active = CurrentKeys.active]
        /\ UNCHANGED issued
     \/ /\ ~Authentic(requests[t].cookie)
        /\ requests[t].kind = "session"
        /\ Issue(t, CurrentKeys.active)
     \/ /\ ~Authentic(requests[t].cookie)
        /\ requests[t].kind = "scan"
        /\ Answered(t, 401)
        /\ UNCHANGED issued
  /\ UNCHANGED <<clock, ring, revoked, jar, rows, created, queued, results, answers>>

\* is_revoked, by the clock of the database.
IsRevoked(session) == revoked[session] > clock

RevocationUnavailable(t) ==
  /\ requests[t].pc = "revocation"
  /\ Answered(t, 503)
  /\ UNCHANGED <<clock, ring, revoked, issued, jar, rows, created, queued, results, answers>>

\* bootstrapGuestSession keeps a session that is not revoked, and replaces one
\* that is.
BootstrapAnswered(t) ==
  LET r == requests[t] IN
  /\ r.pc = "revocation" /\ r.kind = "session"
  /\ IF IsRevoked(r.cookie.session)
     THEN Issue(t, r.active)
     ELSE Answered(t, 204) /\ UNCHANGED issued
  /\ UNCHANGED <<clock, ring, revoked, jar, rows, created, queued, results, answers>>

\* The creation service refuses a revoked session, and goes on for another with
\* its clock read now.
RevocationAnswered(t) ==
  LET r == requests[t] IN
  /\ r.pc = "revocation" /\ r.kind = "scan"
  /\ IF IsRevoked(r.cookie.session)
     THEN Answered(t, 401)
     ELSE \E srv \in Servers : requests' = [requests EXCEPT ![t] =
            [pc |-> "store", kind |-> "scan", server |-> srv,
             session |-> r.cookie.session, target |-> r.target,
             now |-> Reading(srv), early |-> clock < r.barred]]
  /\ UNCHANGED <<clock, ring, revoked, issued, jar, rows, created, queued, results, answers>>
-----------------------------------------------------------------------------
\* A token is derived from the row and the key the row names, and verified so.
Derivable(row, srv) == row.key \in TokenKeys[srv]

\* decideGuestScanIdempotency: the window is over from its last second on.
Replaceable(row, now) == now >= Expiry(row)

SameRequest_any(row, r) == TRUE

SameRequest(row, r) == row.target = r.target

Decision(row, r) ==
  IF row = NoRow THEN "CREATE"
  ELSE IF Replaceable(row, r.now) THEN "REPLACE_EXPIRED"
  ELSE IF ~SameRequest(row, r) THEN "IDEMPOTENCY_KEY_REUSED"
  ELSE IF ~Derivable(row, r.server) THEN "RESULT_TOKEN_UNAVAILABLE"
  ELSE "REPLAY"

\* The row the decision is about belongs to the session of the cookie.
StoredRow(r) == rows[r.session]

Acceptable_later(row, r) == Expiry(row) - r.now \in 1..(AccessSeconds - 1)

\* persistedSuccess: 1 to 1800 seconds are left on the service's own clock.
Acceptable(row, r) == Expiry(row) - r.now \in 1..AccessSeconds

\* An accepted decision goes on to enqueue; any other is answered 503.
Accept(t, row) ==
  LET r == requests[t] IN
  IF Acceptable(row, r)
  THEN requests' = [requests EXCEPT ![t] =
         [pc |-> "enqueue", kind |-> "scan", session |-> r.session, target |-> r.target,
          scan |-> row.scan, expires |-> Expiry(row), early |-> r.early]]
  ELSE Answered(t, 503)

\* createOrReplay inserts a new row, after deleting one whose window is over.
\* The commit may be applied and its answer lost.
StoreNew(t) ==
  LET r == requests[t]
      row == [scan |-> created + 1, target |-> r.target, created |-> r.now,
              key |-> ActiveTokenKey[r.server], job |-> "QUEUED", updated |-> r.now]
  IN /\ r.pc = "store"
     /\ Decision(StoredRow(r), r) \in {"CREATE", "REPLACE_EXPIRED"}
     /\ created < MaxScans
     /\ created' = created + 1
     /\ rows' = [rows EXCEPT ![r.session] = row]
     /\ \/ Accept(t, row)
        \/ Answered(t, 503)
     /\ UNCHANGED <<clock, ring, revoked, issued, jar, queued, results, answers>>

\* A replay changes no row.
StoreReplay(t) ==
  LET r == requests[t] IN
  /\ r.pc = "store"
  /\ Decision(StoredRow(r), r) = "REPLAY"
  /\ Accept(t, StoredRow(r))
  /\ UNCHANGED <<clock, ring, revoked, issued, jar, rows, created, queued, results, answers>>

\* mapPersistenceFailure: another target under the key, a limit, or a token key
\* this server does not have.
StoreRefuses(t) ==
  LET r == requests[t]
      decision == Decision(StoredRow(r), r)
  IN /\ r.pc = "store"
     /\ \/ decision = "IDEMPOTENCY_KEY_REUSED" /\ Answered(t, 409)
        \/ decision \in {"CREATE", "REPLACE_EXPIRED"} /\ Answered(t, 429)
        \/ decision = "RESULT_TOKEN_UNAVAILABLE" /\ Answered(t, 503)
     /\ UNCHANGED <<clock, ring, revoked, issued, jar, rows, created, queued, results, answers>>

StoreUnavailable(t) ==
  /\ requests[t].pc = "store"
  /\ Answered(t, 503)
  /\ UNCHANGED <<clock, ring, revoked, issued, jar, rows, created, queued, results, answers>>
-----------------------------------------------------------------------------
Success(t, code) == requests' = [requests EXCEPT ![t] =
  [pc |-> "answered", kind |-> "scan", code |-> code, early |-> @.early,
   answer |-> [session |-> @.session, target |-> @.target, scan |-> @.scan,
               expires |-> @.expires]]]

\* The job is added to the transport, or is there already, and the client is told.
Enqueued(t) ==
  /\ requests[t].pc = "enqueue"
  /\ queued' = queued \cup {requests[t].scan}
  /\ Success(t, 200)
  /\ UNCHANGED <<clock, ring, revoked, issued, jar, rows, created, results, answers>>

WhenEnqueueFails_told(t) == Success(t, 200)

\* Added or not, a call that fails or does not confirm the scan is answered 503.
WhenEnqueueFails(t) == Answered(t, 503)

EnqueueFails(t) ==
  /\ requests[t].pc = "enqueue"
  /\ queued' \in {queued, queued \cup {requests[t].scan}}
  /\ WhenEnqueueFails(t)
  /\ UNCHANGED <<clock, ring, revoked, issued, jar, rows, created, results, answers>>
-----------------------------------------------------------------------------
\* RESULT_READ_SQL finds a row only together with its result.
Joined(r) == rows[r.session].scan = r.scan /\ results[r.scan] # NoResult

\* snapshotGuestScan: the times of a row that has an accepted result.
ScanReadable(row) == row.job = "SUCCEEDED" /\ row.updated \in row.created..Deadline(row)

\* snapshotGuestResultReadRecord: its result belongs between them.
ResultFits(row, result) ==
  /\ result.completed \in row.created..row.updated
  /\ result.completed < Deadline(row)

\* authorizeGuestResultAccess, by the reading of the route.
Authorized(row, r) ==
  /\ Expiry(row) - r.now \in 1..AccessSeconds
  /\ Derivable(row, r.server)

\* createGuestResultView, and the route that builds the view again: a result is
\* not shown before the reading has reached it.
Shown(row, r) == results[row.scan].completed <= r.now

LoadAnswered(t) ==
  LET r == requests[t]
      row == rows[r.session]
      opens == /\ Joined(r)
               /\ ScanReadable(row) /\ ResultFits(row, results[row.scan])
               /\ r.now < Deadline(row)
               /\ Authorized(row, r) /\ Shown(row, r)
  IN /\ r.pc = "load"
     /\ requests' = [requests EXCEPT ![t] =
          [pc |-> "answered", kind |-> "read", code |-> IF opens THEN 200 ELSE 404,
           server |-> r.server, scan |-> r.scan, now |-> r.now, had |-> r.had, loaded |-> clock]]
     /\ UNCHANGED <<clock, ring, revoked, issued, jar, rows, created, queued, results, answers>>

LoadFails(t) ==
  /\ requests[t].pc = "load"
  /\ Answered(t, 404)
  /\ UNCHANGED <<clock, ring, revoked, issued, jar, rows, created, queued, results, answers>>

\* GUEST_SESSION_SET_COOKIE_ATTRIBUTES: Max-Age counts from the arrival.
Kept(cookie) ==
  [session |-> cookie.session, version |-> cookie.version, until |-> clock + SessionSeconds]

\* The answer reaches the browser: a cookie replaces the one in the jar.
Receive(t) ==
  LET r == requests[t] IN
  /\ r.pc = "answered"
  /\ requests' = [requests EXCEPT ![t] = Idle]
  /\ jar' = IF "cookie" \in DOMAIN r
            THEN Kept(r.cookie) ELSE jar
  /\ answers' = IF "answer" \in DOMAIN r THEN answers \cup {r.answer} ELSE answers
  /\ UNCHANGED <<clock, ring, revoked, issued, rows, created, queued, results>>

\* The answer is lost, or the tab was closed.
Lose(t) ==
  /\ requests[t].pc = "answered"
  /\ requests' = [requests EXCEPT ![t] = Idle]
  /\ UNCHANGED <<clock, ring, revoked, issued, jar, rows, created, queued, results, answers>>
-----------------------------------------------------------------------------
\* A request lasts less than the 23.5 hours between the end of a scan's window
\* and its deletion.
Tick ==
  /\ clock < Horizon
  /\ \A t \in Tabs : requests[t].pc \in {"store", "load"} =>
       Reading(requests[t].server) < requests[t].now + Patience
  /\ clock' = clock + 1
  /\ UNCHANGED <<ring, revoked, issued, jar, rows, created, queued, results, requests, answers>>

\* A new cookie key becomes the active one, the old ones are retained.
RotateCookieKey ==
  /\ ring.active + 1 \in CookieKeys
  /\ ring' = [active |-> ring.active + 1, all |-> ring.all \cup {ring.active + 1}]
  /\ UNCHANGED <<clock, revoked, issued, jar, rows, created, queued, results, requests, answers>>

RemoveCookieKey(v) ==
  /\ v \in ring.all \ {ring.active}
  /\ ring' = [ring EXCEPT !.all = @ \ {v}]
  /\ UNCHANGED <<clock, revoked, issued, jar, rows, created, queued, results, requests, answers>>

\* revoke deletes a row that has expired and inserts unless one is left.
RevokedUntil(session) ==
  IF revoked[session] <= clock THEN clock + SessionSeconds ELSE revoked[session]

RevokeSession(session) ==
  /\ session <= issued /\ session \in Revocable
  /\ revoked' = [revoked EXCEPT ![session] = RevokedUntil(session)]
  /\ UNCHANGED <<clock, ring, issued, jar, rows, created, queued, results, requests, answers>>

Prunable_early(session) == revoked[session] <= clock + 1

\* pruneExpired deletes revocations from their last second on.
Prunable(session) == revoked[session] <= clock

PruneRevocation(session) ==
  /\ revoked[session] # 0 /\ Prunable(session)
  /\ revoked' = [revoked EXCEPT ![session] = 0]
  /\ UNCHANGED <<clock, ring, issued, jar, rows, created, queued, results, requests, answers>>

Writable_anyTime(row, now) == now < Expiry(row)

\* guard_guest_scan_update: updated_at never goes back.  Workers run on
\* machines whose clocks are among those of the servers.
Writable(row, now) == row.updated <= now /\ now < Expiry(row)

CommitResult(session, srv) ==
  LET row == rows[session] IN
  /\ row # NoRow /\ row.job = "QUEUED" /\ row.scan \in queued
  /\ Writable(row, Reading(srv))
  /\ rows' = [rows EXCEPT ![session].job = "SUCCEEDED", ![session].updated = Reading(srv)]
  /\ results' = [results EXCEPT ![row.scan] =
       [completed |-> Reading(srv), created |-> row.created, key |-> row.key]]
  /\ UNCHANGED <<clock, ring, revoked, issued, jar, created, queued, requests, answers>>

DeleteScan(session, srv) ==
  /\ rows[session] # NoRow /\ Deadline(rows[session]) <= Reading(srv)
  /\ rows' = [rows EXCEPT ![session] = NoRow]
  /\ UNCHANGED <<clock, ring, revoked, issued, jar, created, queued, results, requests, answers>>
-----------------------------------------------------------------------------
Init ==
  /\ clock = 0
  /\ ring = [active |-> 1, all |-> {1}]
  /\ revoked = [s \in Sessions |-> 0]
  /\ issued = 0
  /\ jar = NoCookie
  /\ rows = [s \in Sessions |-> NoRow]
  /\ created = 0
  /\ queued = {}
  /\ results = [x \in Scans |-> NoResult]
  /\ requests = [t \in Tabs |-> Idle]
  /\ answers = {}

\* What the handler of a tab's request does, when what it calls answers and
\* when it does not.
Handle(t) ==
  \/ KeysAnswered(t)
  \/ BootstrapAnswered(t) \/ RevocationAnswered(t)
  \/ StoreNew(t) \/ StoreReplay(t) \/ StoreRefuses(t)
  \/ Enqueued(t)
  \/ LoadAnswered(t)

Fail(t) ==
  \/ KeysUnavailable(t) \/ RevocationUnavailable(t)
  \/ StoreUnavailable(t) \/ EnqueueFails(t) \/ LoadFails(t)

Next ==
  \/ Tick
  \/ \E t \in Tabs :
       \/ Handle(t) \/ Fail(t) \/ Receive(t) \/ Lose(t)
       \/ SendSession(t)
       \/ \E target \in Wants[t] : SendScan(t, target)
       \/ \E srv \in Servers, answer \in answers : SendRead(t, srv, answer)
  \/ RotateCookieKey \/ \E v \in CookieKeys : RemoveCookieKey(v)
  \/ \E session \in Sessions :
       \/ RevokeSession(session) \/ PruneRevocation(session)
       \/ \E srv \in Servers :
            \/ CommitResult(session, srv) \/ DeleteScan(session, srv)

Spec == Init /\ [][Next]_vars
-----------------------------------------------------------------------------
\* Every scan the browser was told of has been added to the transport, though
\* the commit and the call that adds it are two steps and either may fail.
ToldMeansQueued ==
  /\ \A a \in answers : a.scan \in queued
  /\ \A t \in Tabs : "answer" \in DOMAIN requests[t] => requests[t].answer.scan \in queued

\* One session and idempotency key name one scan while its window lasts: two
\* answers for the same session name the same scan and target, or scans whose
\* windows do not overlap.
OneScanAtATime ==
  \A a, b \in answers : a.session = b.session =>
    \/ a = b
    \/ a.scan # b.scan /\ (\/ a.expires <= b.expires - AccessSeconds
                           \/ b.expires <= a.expires - AccessSeconds)

\* A request sent after its session was revoked, or its cookie key removed, gets
\* past the check only once that has ended: the operator's word holds at every
\* server from then on, whatever the handlers had read before.
RevocationTakesEffect ==
  \A t \in Tabs : "early" \in DOMAIN requests[t] => ~requests[t].early

LargestSkew == CHOOSE d \in {Skew[s] : s \in Servers} : \A s \in Servers : Skew[s] <= d

\* A result is shown only within the window of the scan it belongs to, and by a
\* clock that has reached it; and whoever holds the token gets it, at every
\* server that has the key and by every clock within the window, unless the
\* load fails or lasts until some server's clock shows the window over.
ResultsOpenInTheWindow ==
  \A t \in Tabs : LET r == requests[t] IN
    "loaded" \in DOMAIN r =>
      LET x == results[r.scan]
          within == x # NoResult /\ r.now \in x.completed..(x.created + AccessSeconds - 1)
      IN /\ r.code = 200 => within
         /\ /\ within /\ r.had /\ r.now >= x.created
            /\ x.key \in TokenKeys[r.server]
            /\ r.loaded + LargestSkew < x.created + AccessSeconds
            => r.code = 200

\* A committed scan whose enqueueing failed can still be queued: as long as its
\* window lasts by every clock, a repetition of the request at some server is
\* answered as a replay and accepted, although a server whose clock lags behind
\* the creator's, or without its token key, answers 503.
CommittedCanBeQueued ==
  \A session \in Sessions : LET row == rows[session] IN
    row # NoRow /\ (\A srv \in Servers : ~Replaceable(row, Reading(srv))) =>
      \E srv \in Servers :
        LET r == [session |-> session, target |-> row.target, server |-> srv,
                  now |-> Reading(srv)]
        IN Decision(row, r) = "REPLAY" /\ Acceptable(row, r)
=============================================================================
