--------------------------- MODULE GuestAdmission ---------------------------
(***************************************************************************)
(* Who may have a scan: createOrReplay of postgres-idempotency.ts with the *)
(* abuse counters of postgres-abuse.ts, for many sessions, networks and    *)
(* idempotency keys, several API servers, and the retention batches that   *)
(* share their rows.                                                       *)
(*                                                                         *)
(* A scan is kept here as what admission knows of it: the session and key  *)
(* it was created for, when, and whether its reservation still holds the   *)
(* counters.  Each transaction is one action, for it locks every counter   *)
(* row it reads and runs SERIALIZABLE (retention deletes only rows it has  *)
(* locked).  A request that is refused, replayed or failed changes no row, *)
(* and has no action.                                                      *)
(*                                                                         *)
(* A network is known only by keyed digests.  Every server has a keyring   *)
(* of at most MaxKeys keys: it counts under the digest of its active key   *)
(* and reads the counters of all its keys.  Keys are rotated by deploying  *)
(* servers one at a time.  As in GuestScanStore, a transaction works with  *)
(* a reading of some clock, at most Drift away from the true time.         *)
(***************************************************************************)
EXTENDS Sums

CONSTANTS
  Sessions, Networks, IdempotencyKeys, Servers,
  Keys,              \* HMAC keys of network digests
  MaxKeys,           \* MAX_NETWORK_SIGNAL_KEYS, 3 in the code
  Windows,           \* the windowed dimensions: kind, seconds and limit
  ConcurrencyLimit,  \* for each kind: 1 for a session, 4 for a network
  AccessSeconds,     \* idempotency and result access window, 30 minutes
  RetentionSeconds,  \* created_at to deletion_deadline, 24 hours
  Drift,             \* how far a reading may be from the true time
  Horizon            \* bound: the last second of true time

Kinds == {"SESSION", "NETWORK"}

ASSUME AdmissionAssumption ==
  /\ IsFiniteSet(Sessions) /\ IsFiniteSet(IdempotencyKeys) /\ IsFiniteSet(Keys)
  /\ Sessions \cap (Networks \X Keys) = {}
  /\ MaxKeys \in Nat \ {0}
  /\ Windows \subseteq [kind : Kinds, seconds : 1..RetentionSeconds, limit : Nat \ {0}]
  /\ ConcurrencyLimit \in [Kinds -> Nat \ {0}]
  /\ AccessSeconds \in Nat \ {0}
  /\ RetentionSeconds \in Nat /\ AccessSeconds < RetentionSeconds
  /\ Drift \in Nat
  /\ Horizon \in Nat

VARIABLES
  now,        \* true time
  scans,      \* guest_scans with its reservation
  windows,    \* guest_abuse_window_counters
  active,     \* guest_abuse_active_counters; a row that reaches 0 is deleted
  service,    \* guest_abuse_control.service_state
  keyring,    \* each server's keys and which of them is active
  idleSince   \* when a key was last the active key of some server

vars == <<now, scans, windows, active, service, keyring, idleSince>>

Digests == Networks \X Keys
Scopes == Sessions \cup Digests
ScopesOfKind(kind) == IF kind = "SESSION" THEN Sessions ELSE Digests
WindowRows == {row \in Scopes \X Windows : row[1] \in ScopesOfKind(row[2].kind)}
NoWindow == [count |-> 0, reset |-> 0]

Scan == [session : Sessions, key : IdempotencyKeys, digest : Digests,
         created : Nat, held : BOOLEAN]

\* What a clock may show when a transaction takes its reading.
Readings == {t \in (now - Drift)..(now + Drift) : t > 0}
-----------------------------------------------------------------------------
\* The digests a server derives for a network, the active one and all.
ActiveDigest(srv, n) == <<n, keyring[srv].active>>
ReadDigests(srv, n) == {<<n, k>> : k \in keyring[srv].keys}

\* The scopes a request counts under, and those it reads for a dimension.
CountedScopes(srv, s, n) == {s, ActiveDigest(srv, n)}
ReadScopes(kind, srv, s, n) ==
  IF kind = "SESSION" THEN {s} ELSE ReadDigests(srv, n)

\* insertCurrentRows: a window that is over starts anew.
Current(row, w, t) ==
  IF row.reset <= t THEN [count |-> 0, reset |-> t + w.seconds] ELSE row

CurrentWindow(c, w, srv, s, n, t) ==
  IF c \in CountedScopes(srv, s, n) THEN Current(windows[<<c, w>>], w, t)
                                    ELSE windows[<<c, w>>]

\* loadWindows: the rows of one dimension that have not ended.
LoadedWindows(w, srv, s, n, t) ==
  {c \in ReadScopes(w.kind, srv, s, n) : CurrentWindow(c, w, srv, s, n, t).reset > t}

\* loadWindows rejects a row that a clock further ahead has written.
WindowsReadable(srv, s, n, t) ==
  \A w \in Windows : \A c \in ReadScopes(w.kind, srv, s, n) :
    windows[<<c, w>>].reset <= t + w.seconds

WindowUsage_activeOnly(w, srv, s, n, t) ==
  LET c == IF w.kind = "SESSION" THEN s ELSE ActiveDigest(srv, n)
  IN CurrentWindow(c, w, srv, s, n, t).count

\* loadWindows: usage is summed over the digests of a network.
WindowUsage(w, srv, s, n, t) ==
  LET loaded == LoadedWindows(w, srv, s, n, t)
  IN Sum([c \in loaded |-> CurrentWindow(c, w, srv, s, n, t).count], loaded)

RetryAfter_first(w, srv, s, n, t) ==
  Min({CurrentWindow(c, w, srv, s, n, t).reset :
         c \in LoadedWindows(w, srv, s, n, t)}) - t

\* retryAfter: until the last of the summed windows ends.
RetryAfter(w, srv, s, n, t) ==
  Max({CurrentWindow(c, w, srv, s, n, t).reset :
         c \in LoadedWindows(w, srv, s, n, t)}) - t

\* The active counters after the reservations of a set of scans were released.
HeldIn(rows, c) == {x \in rows : x.held /\ (x.session = c \/ x.digest = c)}

ActiveWithout_session(rows) ==
  [c \in Scopes |-> IF c \in Sessions
     THEN active[c] - Cardinality(HeldIn(rows, c)) ELSE active[c]]
ActiveWithout(rows) ==
  [c \in Scopes |-> active[c] - Cardinality(HeldIn(rows, c))]

ActiveUsage_activeOnly(counts, kind, srv, s, n) ==
  counts[IF kind = "SESSION" THEN s ELSE ActiveDigest(srv, n)]

\* loadActive.
ActiveUsage(counts, kind, srv, s, n) ==
  Sum(counts, ReadScopes(kind, srv, s, n))

\* decideGuestAbuseAdmission allows a new scan.
WithinLimits(counts, srv, s, n, t) ==
  /\ service = "OPEN"
  /\ \A kind \in Kinds :
       ActiveUsage(counts, kind, srv, s, n) < ConcurrencyLimit[kind]
  /\ \A w \in Windows : WindowUsage(w, srv, s, n, t) < w.limit
-----------------------------------------------------------------------------
Existing(s, k) == {x \in scans : x.session = s /\ x.key = k}

\* releaseGuestAbuseReservation does not fail.
Releasable(x, t) ==
  ~x.held \/ (x.created <= t /\ t <= x.created + RetentionSeconds)

\* createOrReplay: CREATE, or REPLACE_EXPIRED when the key's scan is past its
\* window.  (Before that the same key is replayed or refused.)
CreateOrReplace(srv, s, n, k, t) ==
  LET old == Existing(s, k)
      scan == [session |-> s, key |-> k, digest |-> ActiveDigest(srv, n),
               created |-> t, held |-> TRUE]
  IN /\ \A x \in old : t >= x.created + AccessSeconds /\ Releasable(x, t)
     /\ WindowsReadable(srv, s, n, t)
     /\ WithinLimits(ActiveWithout(old), srv, s, n, t)
     /\ scans' = (scans \ old) \cup {scan}
     /\ active' = [c \in Scopes |->
          IF c \in CountedScopes(srv, s, n) THEN ActiveWithout(old)[c] + 1
                                            ELSE ActiveWithout(old)[c]]
     /\ windows' = [row \in WindowRows |->
          LET current == CurrentWindow(row[1], row[2], srv, s, n, t)
          IN IF row[1] \in CountedScopes(srv, s, n)
             THEN [current EXCEPT !.count = @ + 1] ELSE current]
     /\ UNCHANGED <<now, service, keyring, idleSince>>

\* A worker or a cancellation ends a scan, and releases its reservation.
EndScan(x, t) ==
  /\ x \in scans /\ x.held
  /\ Releasable(x, t)
  /\ scans' = (scans \ {x}) \cup {[x EXCEPT !.held = FALSE]}
  /\ active' = ActiveWithout({x})
  /\ UNCHANGED <<now, windows, service, keyring, idleSince>>

\* runBatch: some due scans and some stale windows; others may be locked or
\* beyond the batch.
RunBatch(t) ==
  /\ \E due \in SUBSET {x \in scans : x.created + RetentionSeconds <= t},
        stale \in SUBSET {r \in WindowRows :
                            windows[r].reset <= t /\ windows[r] # NoWindow} :
       /\ scans' = scans \ due
       /\ active' = ActiveWithout(due)
       /\ windows' = [r \in WindowRows |->
                        IF r \in stale THEN NoWindow ELSE windows[r]]
  /\ UNCHANGED <<now, service, keyring, idleSince>>
-----------------------------------------------------------------------------
\* The operator: pauses and resumes the service, and deploys servers.

SetService ==
  /\ service' \in {"OPEN", "PAUSED"} /\ service' # service
  /\ UNCHANGED <<now, scans, windows, active, keyring, idleSince>>

ActiveSomewhere(k, rings) == \E srv \in Servers : rings[srv].active = k

\* Everything counted until a second is gone, whatever clocks it was counted with.
Outlived(second) == second + RetentionSeconds + 2 * Drift <= now

KeyringValid(ring) ==
  ring.active \in ring.keys /\ Cardinality(ring.keys) <= MaxKeys

\* Rotation in two stages: a key becomes active once every server reads it, and
\* is dropped once no server counts under it and everything counted is gone.
Redeploy(srv) ==
  \E ring \in [active : Keys, keys : SUBSET Keys] :
    /\ ring # keyring[srv]
    /\ KeyringValid(ring)
    /\ \A other \in Servers : ring.active \in keyring[other].keys
    /\ keyring' = [keyring EXCEPT ![srv] = ring]
    /\ idleSince' = [idleSince EXCEPT ![keyring[srv].active] =
         IF ring.active = keyring[srv].active THEN @ ELSE now]
    /\ \A k \in keyring[srv].keys \ ring.keys :
         ~ActiveSomewhere(k, keyring') /\ Outlived(idleSince'[k])
    /\ UNCHANGED <<now, scans, windows, active, service>>

Tick ==
  /\ now < Horizon
  /\ now' = now + 1
  /\ UNCHANGED <<scans, windows, active, service, keyring, idleSince>>

Init ==
  /\ now = 1
  /\ scans = {}
  /\ windows = [r \in WindowRows |-> NoWindow]
  /\ active = [c \in Scopes |-> 0]
  /\ service = "OPEN"
  /\ \E k \in Keys : keyring = [srv \in Servers |-> [active |-> k, keys |-> {k}]]
  /\ idleSince = [k \in Keys |-> 0]

Next ==
  \/ \E srv \in Servers, s \in Sessions, n \in Networks, k \in IdempotencyKeys,
        t \in Readings : CreateOrReplace(srv, s, n, k, t)
  \/ \E x \in scans, t \in Readings : EndScan(x, t)
  \/ \E t \in Readings : RunBatch(t)
  \/ SetService
  \/ \E srv \in Servers : Redeploy(srv)
  \/ Tick

Spec == Init /\ [][Next]_vars
-----------------------------------------------------------------------------
\* The active counters are exact: each equals the number of reservations that
\* hold it, through admission, replacement, release and retention in any order,
\* so that no unit leaks and no scan that ended still blocks its session.
ActiveCountersExact ==
  \A c \in Scopes : active[c] = Cardinality(HeldIn(scans, c))

\* Nor has a network, across all digests it was counted under while its keys
\* were rotated and whichever server admitted; a scan kept beyond its deletion
\* deadline is retention's to remove and no longer protected.
NetworkConcurrency ==
  \A n \in Networks :
    Cardinality({x \in scans : /\ x.held /\ x.digest[1] = n
                               /\ now < x.created + RetentionSeconds + Drift})
      <= ConcurrencyLimit["NETWORK"]

\* The wait a refusal announces is between one second and the window, and it is
\* enough: once it has passed, nothing counted at the refusal is counted.
RetryAfterSuffices ==
  \A w \in Windows, srv \in Servers, s \in Sessions, n \in Networks, t \in Readings :
    WindowsReadable(srv, s, n, t) /\ WindowUsage(w, srv, s, n, t) >= w.limit =>
      LET wait == RetryAfter(w, srv, s, n, t)
      IN /\ wait \in 1..w.seconds
         /\ \A c \in ReadScopes(w.kind, srv, s, n) : windows[<<c, w>>].reset <= t + wait
=============================================================================
