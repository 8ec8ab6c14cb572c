----------------------- MODULE GuestAdmission_proofs -----------------------
(***************************************************************************)
(* Proofs that the counters of admission are exact, that a network keeps to *)
(* its limit of scans at a time and that the announced wait is enough, and *)
(* of what the windows bound, for every set of sessions, networks, keys and *)
(* servers, all limits and windows, and clocks of any error.               *)
(***************************************************************************)
EXTENDS GuestAdmissionRate, Sums_proofs
-----------------------------------------------------------------------------
(***************************************************************************)
(* The inductive invariant of the counters and the keyrings.               *)
(***************************************************************************)
Typed ==
  /\ now \in Nat \ {0}
  /\ scans \subseteq Scan /\ IsFiniteSet(scans)
  /\ windows \in [WindowRows -> [count : Nat, reset : Nat]]
  /\ active \in [Scopes -> Int]
  /\ keyring \in [Servers -> [active : Keys, keys : SUBSET Keys]]
  /\ idleSince \in [Keys -> Nat]

\* A key has at most one scan: the unique index of guest_idempotency.
OneScanEach ==
  \A x, y \in scans : x.session = y.session /\ x.key = y.key => x = y

\* Each server reads what any server counts under.
RingsRead ==
  \A srv, other \in Servers :
    KeyringValid(keyring[srv]) /\ keyring[other].active \in keyring[srv].keys

\* A key that no server counts under any more has nothing that was counted after
\* the second in which the last server left it.
Dated(k, second) == ActiveSomewhere(k, keyring) \/ second <= idleSince[k]

Held == {x \in scans : x.held}
Protected == {x \in Held : now < x.created + RetentionSeconds + Drift}

\* The reservations that a network's limit protects are read by every server.
ScansDated ==
  \A x \in Held : x.created <= now + Drift /\ Dated(x.digest[2], x.created - Drift)
ScansRead == \A x \in Protected, srv \in Servers : x.digest[2] \in keyring[srv].keys

IInv ==
  /\ Typed /\ OneScanEach /\ RingsRead /\ ScansDated /\ ScansRead
  /\ ActiveCountersExact /\ NetworkConcurrency
-----------------------------------------------------------------------------
LEMMA ScopeKinds ==
  /\ Digests = Networks \X Keys /\ Sessions \cap Digests = {}
  /\ \A kind \in Kinds : ScopesOfKind(kind) \subseteq Scopes
  /\ \A n \in Networks, k \in Keys : <<n, k>> \in Digests
BY AdmissionAssumption DEF Digests, Scopes, ScopesOfKind, Kinds

\* A server reads at most MaxKeys digests of a network, the active one among them.
LEMMA DigestsRead ==
  ASSUME Typed, RingsRead, NEW srv \in Servers, NEW n \in Networks
  PROVE  /\ ReadDigests(srv, n) \subseteq Digests
         /\ IsFiniteSet(ReadDigests(srv, n))
         /\ Cardinality(ReadDigests(srv, n)) <= MaxKeys
         /\ ActiveDigest(srv, n) \in ReadDigests(srv, n)
         /\ ActiveDigest(srv, n) = <<n, keyring[srv].active>>
<1> DEFINE ring == keyring[srv]
           f == [k \in ring.keys |-> <<n, k>>]
<1>1. /\ ring.active \in ring.keys /\ ring.keys \subseteq Keys
      /\ Cardinality(ring.keys) <= MaxKeys
  BY DEF Typed, RingsRead, KeyringValid
<1>2. IsFiniteSet(ring.keys)
  BY <1>1, AdmissionAssumption, FS_Subset
<1>3. f \in Surjection(ring.keys, ReadDigests(srv, n))
  BY DEF Surjection, ReadDigests
<1>4. IsFiniteSet(ReadDigests(srv, n)) /\ Cardinality(ReadDigests(srv, n)) <= Cardinality(ring.keys)
  BY <1>2, <1>3, FS_Surjection
<1>5. Cardinality(ring.keys) \in Nat /\ Cardinality(ReadDigests(srv, n)) \in Nat /\ MaxKeys \in Nat
  BY <1>2, <1>4, FS_CardinalityType, AdmissionAssumption
<1> QED BY <1>1, <1>4, <1>5, ScopeKinds DEF ReadDigests, ActiveDigest

\* Taking scans away takes their reservations from the counters.
LEMMA CountersWithout ==
  ASSUME Typed, ActiveCountersExact, NEW rows \in SUBSET scans, NEW c \in Scopes
  PROVE  /\ ActiveWithout(rows)[c] = Cardinality(HeldIn(scans \ rows, c))
         /\ IsFiniteSet(HeldIn(scans \ rows, c))
<1> DEFINE all == HeldIn(scans, c)
           gone == HeldIn(rows, c)
<1>1. all \ gone = HeldIn(scans \ rows, c) /\ all \cap gone = gone
  BY DEF HeldIn
<1>2. IsFiniteSet(all)
  BY FS_Subset DEF Typed, HeldIn
<1>3. Cardinality(all \ gone) = Cardinality(all) - Cardinality(all \cap gone)
      /\ IsFiniteSet(all \ gone)
  <2> HIDE DEF all, gone
  <2> QED BY <1>2, FS_Difference
<1>4. ActiveWithout(rows)[c] = active[c] - Cardinality(gone)
  BY DEF ActiveWithout
<1>5. active[c] = Cardinality(all)
  BY DEF ActiveCountersExact
<1> QED BY <1>1, <1>3, <1>4, <1>5

LEMMA InitIInv == Init => IInv
<1> SUFFICES ASSUME Init PROVE IInv
  OBVIOUS
<1>1. Typed
  <2>1. IsFiniteSet({})
    BY FS_EmptySet
  <2> QED BY <2>1 DEF Init, Typed, NoWindow
<1>2. OneScanEach /\ ScansDated /\ ScansRead
  BY DEF Init, OneScanEach, ScansDated, ScansRead, Held, Protected
<1>3. RingsRead
  <2>1. \A k \in Keys : Cardinality({k}) <= MaxKeys
    <3>1. MaxKeys \in Nat \ {0}
      BY AdmissionAssumption
    <3>2. \A k \in Keys : Cardinality({k}) = 1
      BY FS_Singleton
    <3> QED BY <3>1, <3>2
  <2> QED BY <2>1 DEF Init, RingsRead, KeyringValid
<1>4. ActiveCountersExact
  BY FS_EmptySet DEF Init, ActiveCountersExact, HeldIn
<1>5. NetworkConcurrency
  <2>1. ConcurrencyLimit["NETWORK"] \in Nat
    BY AdmissionAssumption DEF Kinds
  <2> QED BY <2>1, FS_EmptySet DEF Init, NetworkConcurrency
<1> QED BY <1>1, <1>2, <1>3, <1>4, <1>5 DEF IInv
-----------------------------------------------------------------------------
LEMMA Clock ==
  ASSUME Typed, NEW t \in Readings
  PROVE  /\ t \in Nat \ {0} /\ t <= now + Drift /\ now <= t + Drift
         /\ now \in Nat \ {0} /\ Drift \in Nat
         /\ RetentionSeconds \in Nat \ {0} /\ AccessSeconds \in Nat \ {0}
BY AdmissionAssumption DEF Typed, Readings

LEMMA RowTyped ==
  ASSUME Typed, NEW t \in Readings, NEW row \in WindowRows, NEW srv, NEW s, NEW n
  PROVE  /\ windows[row] \in [count : Nat, reset : Nat]
         /\ row = <<row[1], row[2]>> /\ row[2] \in Windows /\ row[2].seconds \in Nat \ {0}
         /\ row[2].limit \in Nat \ {0}
         /\ CurrentWindow(row[1], row[2], srv, s, n, t) \in [count : Nat, reset : Nat]
<1>1. row \in Scopes \X Windows /\ windows[row] \in [count : Nat, reset : Nat]
  BY DEF WindowRows, Typed
<1>2. row = <<row[1], row[2]>> /\ row[2] \in Windows
  BY <1>1
<1>3. /\ row[2].seconds \in 1..RetentionSeconds /\ row[2].limit \in Nat \ {0}
      /\ RetentionSeconds \in Nat
  BY <1>2, AdmissionAssumption
<1>4. t \in Nat
  BY Clock
<1>5. windows[<<row[1], row[2]>>] \in [count : Nat, reset : Nat]
  BY <1>1, <1>2
<1>6. [count |-> 0, reset |-> t + row[2].seconds] \in [count : Nat, reset : Nat]
  BY <1>3, <1>4
<1>7. CurrentWindow(row[1], row[2], srv, s, n, t) \in [count : Nat, reset : Nat]
  BY <1>5, <1>6 DEF CurrentWindow, Current
<1> QED BY <1>1, <1>2, <1>3, <1>7

NewScan(srv, s, n, k, t) ==
  [session |-> s, key |-> k, digest |-> ActiveDigest(srv, n), created |-> t, held |-> TRUE]

\* The scan that is created is new: the one it replaces is older.
LEMMA CreatedIsNew ==
  ASSUME IInv, NEW srv \in Servers, NEW s \in Sessions, NEW n \in Networks,
         NEW k \in IdempotencyKeys, NEW t \in Readings, CreateOrReplace(srv, s, n, k, t)
  PROVE  /\ NewScan(srv, s, n, k, t) \in Scan /\ NewScan(srv, s, n, k, t) \notin scans
         /\ scans' = (scans \ Existing(s, k)) \cup {NewScan(srv, s, n, k, t)}
         /\ Existing(s, k) \subseteq scans
         /\ UNCHANGED <<now, service, keyring, idleSince>>
<1> DEFINE scan == NewScan(srv, s, n, k, t)
<1>1. t \in Nat /\ AccessSeconds \in Nat \ {0}
  BY Clock DEF IInv
<1>2. scan \in Scan
  BY <1>1, DigestsRead DEF IInv, NewScan, Scan
<1>3. scan \notin scans
  <2> SUFFICES ASSUME scan \in scans PROVE FALSE
    OBVIOUS
  <2>1. scan \in Existing(s, k) /\ scan.created = t
    BY DEF Existing, NewScan
  <2>2. t >= scan.created + AccessSeconds
    BY <2>1 DEF CreateOrReplace
  <2> QED BY <1>1, <2>1, <2>2
<1> QED BY <1>2, <1>3 DEF CreateOrReplace, NewScan, Existing

LEMMA CreateTyped ==
  ASSUME IInv, NEW srv \in Servers, NEW s \in Sessions, NEW n \in Networks,
         NEW k \in IdempotencyKeys, NEW t \in Readings, CreateOrReplace(srv, s, n, k, t)
  PROVE  Typed' /\ OneScanEach' /\ RingsRead'
<1> DEFINE scan == NewScan(srv, s, n, k, t)
<1>1. /\ scan \in Scan /\ scan.session = s /\ scan.key = k
      /\ scans' = (scans \ Existing(s, k)) \cup {scan}
      /\ UNCHANGED <<now, service, keyring, idleSince>>
  BY CreatedIsNew DEF NewScan
<1>2. IsFiniteSet(scans')
  <2>1. IsFiniteSet(scans \ Existing(s, k))
    BY FS_Subset DEF IInv, Typed
  <2> HIDE DEF scan
  <2> QED BY <1>1, <2>1, FS_AddElement
<1>3. active' \in [Scopes -> Int]
  <2>1. ActiveWithout(Existing(s, k)) \in [Scopes -> Int]
    <3>1. \A c \in Scopes : IsFiniteSet(HeldIn(Existing(s, k), c))
      BY FS_Subset DEF IInv, Typed, HeldIn, Existing
    <3>2. \A c \in Scopes : Cardinality(HeldIn(Existing(s, k), c)) \in Int
      BY <3>1, FS_CardinalityType
    <3> QED BY <3>2 DEF ActiveWithout, IInv, Typed
  <2>2. \A c \in Scopes : ActiveWithout(Existing(s, k))[c] \in Int
    BY <2>1
  <2> QED BY <2>2 DEF CreateOrReplace
<1>4. windows' \in [WindowRows -> [count : Nat, reset : Nat]]
  <2> SUFFICES ASSUME NEW row \in WindowRows
               PROVE  windows'[row] \in [count : Nat, reset : Nat]
    BY DEF CreateOrReplace
  <2> DEFINE current == CurrentWindow(row[1], row[2], srv, s, n, t)
  <2>1. current \in [count : Nat, reset : Nat]
    BY RowTyped DEF IInv
  <2>2. windows'[row] = IF row[1] \in CountedScopes(srv, s, n)
                        THEN [current EXCEPT !.count = @ + 1] ELSE current
    BY DEF CreateOrReplace
  <2> HIDE DEF current
  <2> QED BY <2>1, <2>2
<1>5. Typed'
  <2> HIDE DEF scan
  <2> QED BY <1>1, <1>2, <1>3, <1>4 DEF IInv, Typed
<1>6. OneScanEach'
  <2> HIDE DEF scan
  <2> QED BY <1>1 DEF IInv, OneScanEach, Existing
<1>7. RingsRead'
  BY <1>1 DEF IInv, RingsRead
<1> QED BY <1>5, <1>6, <1>7

LEMMA CreateCounts ==
  ASSUME IInv, NEW srv \in Servers, NEW s \in Sessions, NEW n \in Networks,
         NEW k \in IdempotencyKeys, NEW t \in Readings, CreateOrReplace(srv, s, n, k, t)
  PROVE  ActiveCountersExact'
<1> DEFINE old == Existing(s, k)
           scan == NewScan(srv, s, n, k, t)
<1> SUFFICES ASSUME NEW c \in Scopes PROVE active'[c] = Cardinality(HeldIn(scans', c))
  BY DEF ActiveCountersExact
<1>1. /\ scans' = (scans \ old) \cup {scan} /\ scan \notin scans /\ old \in SUBSET scans
      /\ scan.held /\ scan.session = s /\ scan.digest = ActiveDigest(srv, n)
  BY CreatedIsNew DEF NewScan
<1> DEFINE before == HeldIn(scans \ old, c)
<1>2. ActiveWithout(old)[c] = Cardinality(before) /\ IsFiniteSet(before)
  <2> HIDE DEF old
  <2> QED BY <1>1, CountersWithout DEF IInv
<1>3. active'[c] = IF c \in CountedScopes(srv, s, n) THEN ActiveWithout(old)[c] + 1
                                                     ELSE ActiveWithout(old)[c]
  BY DEF CreateOrReplace
<1> HIDE DEF scan, old
<1>4. CASE c \in CountedScopes(srv, s, n)
  <2>1. HeldIn(scans', c) = before \cup {scan} /\ scan \notin before
    BY <1>1, <1>4 DEF HeldIn, CountedScopes
  <2> HIDE DEF before
  <2> QED BY <1>2, <1>3, <1>4, <2>1, FS_AddElement
<1>5. CASE c \notin CountedScopes(srv, s, n)
  <2>1. HeldIn(scans', c) = before
    BY <1>1, <1>5 DEF HeldIn, CountedScopes
  <2> QED BY <1>2, <1>3, <1>5, <2>1
<1> QED BY <1>4, <1>5

LEMMA CreateRead ==
  ASSUME IInv, NEW srv \in Servers, NEW s \in Sessions, NEW n \in Networks,
         NEW k \in IdempotencyKeys, NEW t \in Readings, CreateOrReplace(srv, s, n, k, t)
  PROVE  ScansDated' /\ ScansRead'
<1> DEFINE scan == NewScan(srv, s, n, k, t)
<1>1. /\ scans' = (scans \ Existing(s, k)) \cup {scan} /\ Existing(s, k) \subseteq scans
      /\ scan.created = t /\ scan.digest = <<n, keyring[srv].active>>
      /\ UNCHANGED <<now, service, keyring, idleSince>>
  BY CreatedIsNew, DigestsRead DEF NewScan, IInv
<1>2. t <= now + Drift
  BY Clock DEF IInv
<1> HIDE DEF scan
<1>3. ScansDated'
  BY <1>1, <1>2 DEF IInv, ScansDated, Held, Dated, ActiveSomewhere
<1>4. ScansRead'
  BY <1>1 DEF IInv, ScansRead, Protected, Held, RingsRead
<1> QED BY <1>3, <1>4

\* What a server reads for a network is every protected reservation of it.
LEMMA ProtectedIsCounted ==
  ASSUME IInv, NEW srv \in Servers, NEW s, NEW n \in Networks, NEW rows \in SUBSET scans
  PROVE  Cardinality({x \in Protected : x \notin rows /\ x.digest[1] = n})
           <= ActiveUsage(ActiveWithout(rows), "NETWORK", srv, s, n)
<1> DEFINE kept == {x \in scans \ rows : x.held}
           of == [x \in kept |-> x.digest]
           D == ReadDigests(srv, n)
           f == ActiveWithout(rows)
           P == {x \in Protected : x \notin rows /\ x.digest[1] = n}
           C == Fibres(kept, of, D)
<1>1. IsFiniteSet(kept) /\ IsFiniteSet(D) /\ D \subseteq Digests
  BY FS_Subset, DigestsRead DEF IInv, Typed
<1>2. \A d \in D : f[d] = Cardinality(Fibre(kept, of, d))
  <2> SUFFICES ASSUME NEW d \in D PROVE f[d] = Cardinality(Fibre(kept, of, d))
    OBVIOUS
  <2>1. d \in Scopes /\ d \notin Sessions
    BY <1>1, ScopeKinds DEF Scopes
  <2>2. f[d] = Cardinality(HeldIn(scans \ rows, d))
    BY <2>1, CountersWithout DEF IInv
  <2>3. HeldIn(scans \ rows, d) = Fibre(kept, of, d)
    BY <2>1 DEF Fibre, HeldIn, IInv, Typed, Scan
  <2> QED BY <2>2, <2>3
<1>3. Sum(f, D) = Cardinality(C)
  <2> HIDE DEF kept, of, D, f
  <2> QED BY <1>1, <1>2, SumOfCounts
<1>4. P \subseteq C
  <2> SUFFICES ASSUME NEW x \in P PROVE x \in C
    OBVIOUS
  <2>1. x \in kept /\ x \in Protected /\ x.digest \in Digests /\ x.digest[1] = n
    BY DEF Protected, Held, IInv, Typed, Scan
  <2>2. x.digest = <<n, x.digest[2]>> /\ x.digest[2] \in keyring[srv].keys
    BY <2>1 DEF IInv, ScansRead, Digests
  <2> QED BY <2>1, <2>2 DEF ReadDigests, Fibres
<1>5. IsFiniteSet(C)
  <2> HIDE DEF kept
  <2> QED BY <1>1, FS_Subset DEF Fibres
<1>6. Cardinality(P) <= Cardinality(C)
  <2> HIDE DEF P, C
  <2> QED BY <1>4, <1>5, FS_Subset
<1> QED BY <1>3, <1>6 DEF ActiveUsage, ReadScopes

LEMMA CreateConcurrency ==
  ASSUME IInv, NEW srv \in Servers, NEW s \in Sessions, NEW n \in Networks,
         NEW k \in IdempotencyKeys, NEW t \in Readings, CreateOrReplace(srv, s, n, k, t)
  PROVE  NetworkConcurrency'
<1> DEFINE old == Existing(s, k)
           scan == NewScan(srv, s, n, k, t)
           limit == ConcurrencyLimit["NETWORK"]
           Of(m) == {x \in Protected : x.digest[1] = m}
           Kept(m) == {x \in Protected : x \notin old /\ x.digest[1] = m}
           Next1(m) == {x \in scans' : /\ x.held /\ x.digest[1] = m
                                       /\ now' < x.created + RetentionSeconds + Drift}
<1>1. /\ scans' = (scans \ old) \cup {scan} /\ scan \notin scans /\ old \in SUBSET scans
      /\ scan.digest = <<n, keyring[srv].active>> /\ now' = now
  BY CreatedIsNew, DigestsRead DEF NewScan, IInv
<1>2. limit \in Nat /\ Cardinality(Kept(n)) < limit
  <2>1. limit \in Nat
    BY AdmissionAssumption DEF Kinds
  <2>2. ActiveUsage(ActiveWithout(old), "NETWORK", srv, s, n) < limit
    BY DEF CreateOrReplace, WithinLimits, Kinds
  <2> HIDE DEF old
  <2>3. Cardinality(Kept(n)) <= ActiveUsage(ActiveWithout(old), "NETWORK", srv, s, n)
    BY <1>1, ProtectedIsCounted
  <2>4. Cardinality(Kept(n)) \in Nat
    BY FS_Subset, FS_CardinalityType DEF IInv, Typed, Protected, Held
  <2>5. ActiveUsage(ActiveWithout(old), "NETWORK", srv, s, n) \in Int
    <3>1. ASSUME NEW d \in ReadDigests(srv, n) PROVE ActiveWithout(old)[d] \in Int
      <4>1. d \in Scopes
        BY DigestsRead DEF IInv, Scopes
      <4>2. /\ ActiveWithout(old)[d] = Cardinality(HeldIn(scans \ old, d))
            /\ IsFiniteSet(HeldIn(scans \ old, d))
        BY <1>1, <4>1, CountersWithout DEF IInv
      <4> QED BY <4>2, FS_CardinalityType
    <3>2. IsFiniteSet(ReadDigests(srv, n))
      BY DigestsRead DEF IInv
    <3> QED BY <3>1, <3>2, SumInt DEF ActiveUsage, ReadScopes
  <2> QED BY <2>1, <2>2, <2>3, <2>4, <2>5
<1> HIDE DEF scan, old
<1> SUFFICES ASSUME NEW m \in Networks PROVE Cardinality(Next1(m)) <= limit
  BY DEF NetworkConcurrency
<1>3. IsFiniteSet(Kept(n)) /\ IsFiniteSet(Of(m))
  BY FS_Subset DEF IInv, Typed, Protected, Held
<1>4. CASE m = n
  <2>1. Next1(m) \subseteq Kept(n) \cup {scan}
    BY <1>1, <1>4 DEF Protected, Held
  <2>2. IsFiniteSet(Kept(n) \cup {scan}) /\ Cardinality(Kept(n) \cup {scan}) <= limit
    <3> HIDE DEF Kept, limit
    <3>1. IsFiniteSet(Kept(n) \cup {scan}) /\ Cardinality(Kept(n)) \in Nat
      BY <1>3, FS_AddElement, FS_CardinalityType
    <3>2. Cardinality(Kept(n) \cup {scan}) <= Cardinality(Kept(n)) + 1
      BY <1>3, <3>1, FS_AddElement
    <3>3. Cardinality(Kept(n) \cup {scan}) \in Nat
      BY <3>1, FS_CardinalityType
    <3> QED BY <1>2, <3>1, <3>2, <3>3
  <2>3. Cardinality(Next1(m)) <= Cardinality(Kept(n) \cup {scan})
    BY <2>1, <2>2, FS_Subset
  <2>4. Cardinality(Next1(m)) \in Nat /\ Cardinality(Kept(n) \cup {scan}) \in Nat
    BY <2>1, <2>2, FS_Subset, FS_CardinalityType
  <2> QED BY <1>2, <2>2, <2>3, <2>4
<1>5. CASE m # n
  <2>1. Next1(m) \subseteq Of(m)
    BY <1>1, <1>5 DEF Protected, Held
  <2>2. Cardinality(Of(m)) <= limit
    <3>1. Of(m) = {x \in scans : /\ x.held /\ x.digest[1] = m
                                 /\ now < x.created + RetentionSeconds + Drift}
      BY DEF Protected, Held
    <3> QED BY <3>1 DEF IInv, NetworkConcurrency
  <2>3. Cardinality(Next1(m)) <= Cardinality(Of(m))
    BY <2>1, <1>3, FS_Subset
  <2>4. Cardinality(Next1(m)) \in Nat /\ Cardinality(Of(m)) \in Nat
    BY <2>1, <1>3, FS_Subset, FS_CardinalityType
  <2> QED BY <1>2, <2>2, <2>3, <2>4
<1> QED BY <1>4, <1>5
-----------------------------------------------------------------------------
\* A limit that holds for some reservations holds for fewer.
LEMMA FewerProtected ==
  ASSUME IInv, Protected' \subseteq Protected
  PROVE  NetworkConcurrency'
<1> SUFFICES ASSUME NEW n \in Networks
             PROVE  Cardinality({x \in Protected' : x.digest[1] = n}) <= ConcurrencyLimit["NETWORK"]
  <2>1. \A n \in Networks :
          {x \in Protected' : x.digest[1] = n} =
            {x \in scans' : /\ x.held /\ x.digest[1] = n
                            /\ now' < x.created + RetentionSeconds + Drift}
    BY DEF Protected, Held
  <2> QED BY <2>1 DEF NetworkConcurrency
<1> DEFINE P == {x \in Protected : x.digest[1] = n}
           Q == {x \in Protected' : x.digest[1] = n}
           limit == ConcurrencyLimit["NETWORK"]
<1>1. Cardinality(P) <= limit /\ limit \in Nat
  <2>1. P = {x \in scans : /\ x.held /\ x.digest[1] = n
                           /\ now < x.created + RetentionSeconds + Drift}
    BY DEF Protected, Held
  <2>2. limit \in Nat
    BY AdmissionAssumption DEF Kinds
  <2> QED BY <2>1, <2>2 DEF IInv, NetworkConcurrency
<1>2. IsFiniteSet(P) /\ Q \subseteq P
  BY FS_Subset DEF IInv, Typed, Protected, Held
<1> HIDE DEF P, Q, limit
<1>3. Cardinality(Q) <= Cardinality(P) /\ Cardinality(Q) \in Nat /\ Cardinality(P) \in Nat
  BY <1>2, FS_Subset, FS_CardinalityType
<1> QED BY <1>1, <1>3 DEF P, Q, limit

\* Releasing reservations keeps the invariant.
LEMMA ReleaseKeeps ==
  ASSUME IInv, NEW rows \in SUBSET scans, active' = ActiveWithout(rows),
         Held' = Held \ rows, scans' \subseteq Scan, IsFiniteSet(scans'), OneScanEach',
         windows' \in [WindowRows -> [count : Nat, reset : Nat]],
         UNCHANGED <<now, keyring, idleSince>>
  PROVE  IInv'
<1>1. /\ active' \in [Scopes -> Int]
      /\ \A c \in Scopes : active'[c] = Cardinality(HeldIn(scans', c))
  <2>1. ASSUME NEW c \in Scopes
        PROVE  /\ active'[c] = Cardinality(HeldIn(scans', c))
               /\ Cardinality(HeldIn(scans', c)) \in Nat
    <3>1. HeldIn(scans', c) = HeldIn(scans \ rows, c)
      BY DEF HeldIn, Held
    <3>2. /\ ActiveWithout(rows)[c] = Cardinality(HeldIn(scans \ rows, c))
          /\ IsFiniteSet(HeldIn(scans \ rows, c))
      BY CountersWithout DEF IInv
    <3> QED BY <3>1, <3>2, FS_CardinalityType
  <2>2. active' = [c \in Scopes |-> active'[c]]
    BY DEF ActiveWithout
  <2> QED BY <2>1, <2>2
<1>2. Typed' /\ ActiveCountersExact'
  BY <1>1 DEF IInv, Typed, ActiveCountersExact
<1>3. RingsRead'
  BY DEF IInv, RingsRead
<1>4. Protected' \subseteq Protected /\ Held' \subseteq Held
  BY DEF Protected
<1>5. ScansDated' /\ ScansRead'
  BY <1>4 DEF IInv, ScansDated, ScansRead, Dated, ActiveSomewhere
<1>6. NetworkConcurrency'
  BY <1>4, FewerProtected
<1> QED BY <1>2, <1>3, <1>5, <1>6 DEF IInv

LEMMA EndScanKeeps ==
  ASSUME IInv, NEW x \in scans, NEW t \in Readings, EndScan(x, t)
  PROVE  IInv'
<1> DEFINE ended == [x EXCEPT !.held = FALSE]
<1>1. /\ x \in Scan /\ ended \in Scan /\ ~ended.held
      /\ ended.session = x.session /\ ended.key = x.key
  BY DEF IInv, Typed, Scan
<1>2. /\ scans' = (scans \ {x}) \cup {ended} /\ active' = ActiveWithout({x})
      /\ UNCHANGED <<now, windows, service, keyring, idleSince>>
  BY DEF EndScan
<1> HIDE DEF ended
<1>3. Held' = Held \ {x}
  BY <1>1, <1>2 DEF Held
<1>4. scans' \subseteq Scan /\ IsFiniteSet(scans')
  <2>1. IsFiniteSet(scans \ {x})
    BY FS_Subset DEF IInv, Typed
  <2> QED BY <1>1, <1>2, <2>1, FS_AddElement DEF IInv, Typed
<1>5. OneScanEach'
  BY <1>1, <1>2 DEF IInv, OneScanEach
<1>6. {x} \in SUBSET scans /\ windows' \in [WindowRows -> [count : Nat, reset : Nat]]
  BY <1>2 DEF IInv, Typed
<1> QED BY <1>2, <1>3, <1>4, <1>5, <1>6, ReleaseKeeps

LEMMA RunBatchKeeps ==
  ASSUME IInv, NEW t \in Readings, RunBatch(t)
  PROVE  IInv'
<1>1. PICK due \in SUBSET scans :
        /\ scans' = scans \ due /\ active' = ActiveWithout(due)
        /\ UNCHANGED <<now, service, keyring, idleSince>>
        /\ \E stale \in SUBSET WindowRows :
             windows' = [r \in WindowRows |-> IF r \in stale THEN NoWindow ELSE windows[r]]
  BY DEF RunBatch
<1>2. Held' = Held \ due
  BY <1>1 DEF Held
<1>3. scans' \subseteq Scan /\ IsFiniteSet(scans') /\ OneScanEach'
  BY <1>1, FS_Subset DEF IInv, Typed, OneScanEach
<1>4. windows' \in [WindowRows -> [count : Nat, reset : Nat]]
  <2>1. NoWindow \in [count : Nat, reset : Nat]
    BY DEF NoWindow
  <2> QED BY <1>1, <2>1 DEF IInv, Typed
<1> QED BY <1>1, <1>2, <1>3, <1>4, ReleaseKeeps

\* What a redeployment leaves behind: a key that was dropped has no second that
\* is still protected, and a key that some server left is dated by that.
LEMMA RedeployDates ==
  ASSUME Typed, RingsRead, NEW srv \in Servers, Redeploy(srv)
  PROVE  /\ Typed' /\ RingsRead' /\ UNCHANGED <<now, scans, windows, active, service>>
         /\ \A k \in Keys, second \in Int :
              Dated(k, second) /\ second <= now => Dated(k, second)'
         /\ \A k \in Keys, second \in Int, other \in Servers :
              /\ Dated(k, second) /\ second <= now /\ k \in keyring[other].keys
              /\ now < second + RetentionSeconds + 2 * Drift
              => k \in keyring'[other].keys
<1>1. PICK ring \in [active : Keys, keys : SUBSET Keys] :
        /\ KeyringValid(ring)
        /\ \A other \in Servers : ring.active \in keyring[other].keys
        /\ keyring' = [keyring EXCEPT ![srv] = ring]
        /\ idleSince' = [idleSince EXCEPT ![keyring[srv].active] =
             IF ring.active = keyring[srv].active THEN @ ELSE now]
        /\ \A k \in keyring[srv].keys \ ring.keys :
             ~ActiveSomewhere(k, keyring') /\ Outlived(idleSince'[k])
        /\ UNCHANGED <<now, scans, windows, active, service>>
  BY DEF Redeploy
<1> DEFINE left == keyring[srv].active
<1>2. /\ left \in Keys /\ now \in Nat \ {0} /\ idleSince \in [Keys -> Nat]
      /\ ring.active \in Keys /\ ring.keys \subseteq Keys
      /\ keyring'[srv] = ring
      /\ \A other \in Servers : other # srv => keyring'[other] = keyring[other]
      /\ keyring' \in [Servers -> [active : Keys, keys : SUBSET Keys]]
  BY <1>1 DEF Typed
<1>3. /\ idleSince' \in [Keys -> Nat]
      /\ \A k \in Keys : idleSince'[k] = IF k = left /\ ring.active # left
                                         THEN now ELSE idleSince[k]
  BY <1>1, <1>2
<1> HIDE DEF left
<1>4. Typed'
  BY <1>1, <1>2, <1>3 DEF Typed
<1>5. RingsRead'
  <2> SUFFICES ASSUME NEW a \in Servers, NEW b \in Servers
               PROVE  KeyringValid(keyring'[a]) /\ keyring'[b].active \in keyring'[a].keys
    BY DEF RingsRead
  <2>1. KeyringValid(keyring'[a])
    <3>1. CASE a = srv
      BY <1>1, <1>2, <3>1
    <3>2. CASE a # srv
      <4>1. keyring'[a] = keyring[a] /\ KeyringValid(keyring[a])
        BY <1>2, <3>2 DEF RingsRead
      <4> QED BY <4>1 DEF KeyringValid
    <3> QED BY <3>1, <3>2
  <2>2. CASE b = srv
    <3>1. keyring'[b].active \in keyring'[a].keys
      BY <1>1, <1>2, <2>2 DEF KeyringValid
    <3> QED BY <2>1, <3>1
  <2>3. CASE b # srv /\ a # srv
    BY <1>2, <2>3 DEF RingsRead
  <2>4. CASE b # srv /\ a = srv
    <3>1. keyring[b].active \in keyring[srv].keys /\ keyring'[b] = keyring[b]
      BY <1>2, <2>4 DEF RingsRead
    <3>2. ActiveSomewhere(keyring[b].active, keyring')
      BY <3>1 DEF ActiveSomewhere
    <3> QED BY <1>1, <1>2, <2>4, <3>1, <3>2
  <2> QED BY <2>1, <2>2, <2>3, <2>4
<1>6. ASSUME NEW k \in Keys, NEW second \in Int, Dated(k, second), second <= now
      PROVE  Dated(k, second)'
  <2>1. CASE second <= idleSince[k]
    BY <1>2, <1>3, <1>6, <2>1 DEF Dated
  <2>2. CASE ActiveSomewhere(k, keyring) /\ ~ActiveSomewhere(k, keyring')
    <3>1. PICK other \in Servers : keyring[other].active = k
      BY <2>2 DEF ActiveSomewhere
    <3>2. other = srv /\ ring.active # k
      BY <1>2, <2>2, <3>1 DEF ActiveSomewhere
    <3> QED BY <1>3, <1>6, <3>1, <3>2 DEF Dated, left
  <2> QED BY <1>6, <2>1, <2>2 DEF Dated
<1>7. ASSUME NEW k \in Keys, NEW second \in Int, NEW other \in Servers,
             Dated(k, second), second <= now, k \in keyring[other].keys,
             now < second + RetentionSeconds + 2 * Drift
      PROVE  k \in keyring'[other].keys
  <2> SUFFICES ASSUME other = srv, k \notin ring.keys PROVE FALSE
    BY <1>2, <1>7
  <2>1. ~ActiveSomewhere(k, keyring') /\ Outlived(idleSince'[k])
    BY <1>1, <1>7
  <2>2. second <= idleSince'[k] /\ idleSince'[k] \in Nat
    BY <1>3, <1>6, <1>7, <2>1 DEF Dated
  <2>3. RetentionSeconds \in Nat /\ Drift \in Nat
    BY AdmissionAssumption
  <2> QED BY <1>2, <1>7, <2>1, <2>2, <2>3 DEF Outlived
<1> QED BY <1>1, <1>4, <1>5, <1>6, <1>7

LEMMA RedeployKeeps ==
  ASSUME IInv, NEW srv \in Servers, Redeploy(srv)
  PROVE  IInv'
<1>1. /\ Typed' /\ RingsRead' /\ UNCHANGED <<now, scans, windows, active, service>>
      /\ \A k \in Keys, second \in Int :
           Dated(k, second) /\ second <= now => Dated(k, second)'
      /\ \A k \in Keys, second \in Int, other \in Servers :
           /\ Dated(k, second) /\ second <= now /\ k \in keyring[other].keys
           /\ now < second + RetentionSeconds + 2 * Drift
           => k \in keyring'[other].keys
  BY RedeployDates DEF IInv
<1>2. Held' = Held /\ Protected' = Protected /\ Protected \subseteq Held
  BY <1>1 DEF Held, Protected
<1>3. \A x \in Held : /\ x.digest[2] \in Keys /\ x.created \in Nat
                      /\ x.created - Drift \in Int /\ x.created - Drift <= now
                      /\ Dated(x.digest[2], x.created - Drift)
  <2>1. Drift \in Nat /\ now \in Nat
    BY AdmissionAssumption DEF IInv, Typed
  <2>2. \A x \in Held : x \in Scan /\ x.created <= now + Drift
                        /\ Dated(x.digest[2], x.created - Drift)
    BY DEF IInv, Typed, ScansDated, Held
  <2> QED BY <2>1, <2>2 DEF Scan, Digests
<1>4. ScansDated'
  BY <1>1, <1>2, <1>3 DEF IInv, ScansDated
<1>5. ScansRead'
  <2> SUFFICES ASSUME NEW x \in Protected, NEW other \in Servers
               PROVE  x.digest[2] \in keyring'[other].keys
    BY <1>2 DEF ScansRead
  <2>1. now < (x.created - Drift) + RetentionSeconds + 2 * Drift
    <3>1. Drift \in Nat /\ now \in Nat /\ RetentionSeconds \in Nat
      BY AdmissionAssumption DEF IInv, Typed
    <3> QED BY <1>2, <1>3, <3>1 DEF Protected
  <2>2. x.digest[2] \in keyring[other].keys
    BY DEF IInv, ScansRead
  <2> QED BY <1>1, <1>2, <1>3, <2>1, <2>2
<1>6. NetworkConcurrency'
  BY <1>2, FewerProtected
<1>7. OneScanEach' /\ ActiveCountersExact'
  BY <1>1 DEF IInv, OneScanEach, ActiveCountersExact
<1> QED BY <1>1, <1>4, <1>5, <1>6, <1>7 DEF IInv

LEMMA OtherKeeps ==
  ASSUME IInv, SetService \/ Tick \/ UNCHANGED vars
  PROVE  IInv'
<1>1. /\ UNCHANGED <<scans, windows, active, keyring, idleSince>>
      /\ now' \in Nat \ {0} /\ now <= now' /\ now \in Nat
  BY DEF SetService, Tick, vars, IInv, Typed
<1>2. Typed' /\ OneScanEach' /\ RingsRead' /\ ActiveCountersExact'
  BY <1>1 DEF IInv, Typed, OneScanEach, RingsRead, ActiveCountersExact
<1>3. /\ Held' = Held /\ Protected' \subseteq Protected
      /\ \A x \in Held : x.created \in Nat
  <2>1. Drift \in Nat /\ RetentionSeconds \in Nat
    BY AdmissionAssumption
  <2>2. Held' = Held /\ \A x \in Held : x.created \in Nat
    BY <1>1 DEF Held, IInv, Typed, Scan
  <2> QED BY <1>1, <2>1, <2>2 DEF Protected
<1>4. ScansDated' /\ ScansRead'
  <2>1. Drift \in Nat
    BY AdmissionAssumption
  <2> QED BY <1>1, <1>3, <2>1 DEF IInv, ScansDated, ScansRead, Dated, ActiveSomewhere
<1>5. NetworkConcurrency'
  BY <1>3, FewerProtected
<1> QED BY <1>2, <1>4, <1>5 DEF IInv

LEMMA NextIInv == IInv /\ [Next]_vars => IInv'
<1> SUFFICES ASSUME IInv, Next \/ UNCHANGED vars PROVE IInv'
  OBVIOUS
<1>1. ASSUME NEW srv \in Servers, NEW s \in Sessions, NEW n \in Networks,
             NEW k \in IdempotencyKeys, NEW t \in Readings, CreateOrReplace(srv, s, n, k, t)
      PROVE  IInv'
  BY <1>1, CreateTyped, CreateCounts, CreateRead, CreateConcurrency DEF IInv
<1>2. ASSUME NEW x \in scans, NEW t \in Readings, EndScan(x, t) PROVE IInv'
  BY <1>2, EndScanKeeps
<1>3. ASSUME NEW t \in Readings, RunBatch(t) PROVE IInv'
  BY <1>3, RunBatchKeeps
<1>4. ASSUME NEW srv \in Servers, Redeploy(srv) PROVE IInv'
  BY <1>4, RedeployKeeps
<1>5. CASE SetService \/ Tick \/ UNCHANGED vars
  BY <1>5, OtherKeeps
<1> QED BY <1>1, <1>2, <1>3, <1>4, <1>5 DEF Next

\* The invariant from which the properties of the counters follow.
THEOREM AdmissionInvariant == Spec => []IInv
<1> QED BY InitIInv, NextIInv, PTL DEF Spec

\* Whatever admissions, replacements, ends of scans and retention batches come in
\* whatever order, each counter is the number of reservations that hold it.
THEOREM CountersAreExact == Spec => []ActiveCountersExact
<1>1. IInv => ActiveCountersExact
  BY DEF IInv
<1> QED BY <1>1, AdmissionInvariant, PTL

\* A network has no more protected scans than its limit, though no server knows
\* more of it than the digests of its own keys and keys are rotated.
THEOREM NetworksKeepTheirLimit == Spec => []NetworkConcurrency
<1>1. IInv => NetworkConcurrency
  BY DEF IInv
<1> QED BY <1>1, AdmissionInvariant, PTL
-----------------------------------------------------------------------------
(***************************************************************************)
(* What a server reads of a dimension.                                     *)
(***************************************************************************)
LEMMA WindowsRead ==
  ASSUME Typed, RingsRead, NEW w \in Windows, NEW srv \in Servers, NEW s \in Sessions,
         NEW n \in Networks, NEW t \in Readings
  PROVE  /\ IsFiniteSet(ReadScopes(w.kind, srv, s, n))
         /\ w.kind \in Kinds /\ w.seconds \in Nat \ {0} /\ w.seconds <= RetentionSeconds
         /\ w.limit \in Nat \ {0}
         /\ \A c \in ReadScopes(w.kind, srv, s, n) :
              /\ <<c, w>> \in WindowRows
              /\ windows[<<c, w>>] \in [count : Nat, reset : Nat]
              /\ CurrentWindow(c, w, srv, s, n, t) \in [count : Nat, reset : Nat]
<1>1. /\ w.kind \in Kinds /\ w.seconds \in 1..RetentionSeconds /\ w.limit \in Nat \ {0}
      /\ RetentionSeconds \in Nat
  BY AdmissionAssumption
<1>2. IsFiniteSet({s}) /\ IsFiniteSet(ReadDigests(srv, n)) /\ ReadDigests(srv, n) \subseteq Digests
  BY FS_Singleton, DigestsRead
<1>3. /\ IsFiniteSet(ReadScopes(w.kind, srv, s, n))
      /\ ReadScopes(w.kind, srv, s, n) \subseteq ScopesOfKind(w.kind)
  BY <1>2 DEF ReadScopes, ScopesOfKind
<1>4. ASSUME NEW c \in ReadScopes(w.kind, srv, s, n)
      PROVE  /\ <<c, w>> \in WindowRows
             /\ windows[<<c, w>>] \in [count : Nat, reset : Nat]
             /\ CurrentWindow(c, w, srv, s, n, t) \in [count : Nat, reset : Nat]
  <2> DEFINE row == <<c, w>>
  <2>1. row \in WindowRows /\ row[1] = c /\ row[2] = w
    BY <1>1, <1>3, ScopeKinds DEF WindowRows
  <2> HIDE DEF row
  <2>2. /\ windows[row] \in [count : Nat, reset : Nat]
        /\ CurrentWindow(row[1], row[2], srv, s, n, t) \in [count : Nat, reset : Nat]
    BY <2>1, RowTyped
  <2> QED BY <2>1, <2>2 DEF row
<1> QED BY <1>1, <1>3, <1>4

\* A scope whose window is not loaded has none that is not over.
LEMMA NotLoadedIsOver ==
  ASSUME Typed, RingsRead, NEW w \in Windows, NEW srv \in Servers, NEW s \in Sessions,
         NEW n \in Networks, NEW t \in Readings, NEW c \in ReadScopes(w.kind, srv, s, n),
         windows[<<c, w>>].reset > t
  PROVE  /\ c \in LoadedWindows(w, srv, s, n, t)
         /\ CurrentWindow(c, w, srv, s, n, t) = windows[<<c, w>>]
<1>1. windows[<<c, w>>].reset \in Nat /\ t \in Nat
  BY WindowsRead, Clock
<1>2. CurrentWindow(c, w, srv, s, n, t) = windows[<<c, w>>]
  BY <1>1 DEF CurrentWindow, Current
<1> QED BY <1>2 DEF LoadedWindows

LEMMA ResetsBounded ==
  ASSUME Typed, RingsRead, NEW w \in Windows, NEW srv \in Servers, NEW s \in Sessions,
         NEW n \in Networks, NEW t \in Readings, WindowsReadable(srv, s, n, t),
         NEW c \in LoadedWindows(w, srv, s, n, t)
  PROVE  /\ CurrentWindow(c, w, srv, s, n, t).reset \in Nat
         /\ CurrentWindow(c, w, srv, s, n, t).reset > t
         /\ CurrentWindow(c, w, srv, s, n, t).reset <= t + w.seconds
<1>1. c \in ReadScopes(w.kind, srv, s, n) /\ CurrentWindow(c, w, srv, s, n, t).reset > t
  BY DEF LoadedWindows
<1>2. /\ CurrentWindow(c, w, srv, s, n, t) \in [count : Nat, reset : Nat]
      /\ windows[<<c, w>>].reset <= t + w.seconds /\ w.seconds \in Nat
  BY <1>1, WindowsRead DEF WindowsReadable
<1>3. \/ CurrentWindow(c, w, srv, s, n, t) = windows[<<c, w>>]
      \/ CurrentWindow(c, w, srv, s, n, t) = [count |-> 0, reset |-> t + w.seconds]
  BY DEF CurrentWindow, Current
<1>4. t \in Nat
  BY Clock
<1> QED BY <1>1, <1>2, <1>3, <1>4

LEMMA RetryAfterBounds ==
  ASSUME Typed, RingsRead, NEW w \in Windows, NEW srv \in Servers, NEW s \in Sessions,
         NEW n \in Networks, NEW t \in Readings, WindowsReadable(srv, s, n, t),
         WindowUsage(w, srv, s, n, t) >= w.limit
  PROVE  /\ RetryAfter(w, srv, s, n, t) \in 1..w.seconds
         /\ \A c \in ReadScopes(w.kind, srv, s, n) :
              windows[<<c, w>>].reset <= t + RetryAfter(w, srv, s, n, t)
<1> DEFINE loaded == LoadedWindows(w, srv, s, n, t)
           reset(c) == CurrentWindow(c, w, srv, s, n, t).reset
           R == {reset(c) : c \in loaded}
<1>1. w.limit \in Nat \ {0} /\ w.seconds \in Nat \ {0} /\ t \in Nat
  BY WindowsRead, Clock
<1>2. loaded # {}
  <2> SUFFICES ASSUME loaded = {} PROVE FALSE
    OBVIOUS
  <2>1. WindowUsage(w, srv, s, n, t) = 0
    BY SumEmpty DEF WindowUsage
  <2> QED BY <1>1, <2>1
<1>3. \A c \in loaded : reset(c) \in Nat /\ reset(c) > t /\ reset(c) <= t + w.seconds
  BY ResetsBounded
<1> HIDE DEF reset
<1>4. R \in SUBSET Int /\ R # {} /\ \A r \in R : r \in Nat /\ r > t /\ r <= t + w.seconds
  BY <1>2, <1>3
<1>5. /\ Max(R) \in R /\ \A r \in R : r <= Max(R)
  <2> HIDE DEF R
  <2>1. t + w.seconds \in Int
    BY <1>1
  <2>2. \E x \in R : \A r \in R : r <= x
    BY <1>4, <2>1, GreatestInteger
  <2> QED BY <2>2, <1>4 DEF Max
<1>6. RetryAfter(w, srv, s, n, t) = Max(R) - t
  BY DEF RetryAfter, reset
<1>7. ASSUME NEW c \in ReadScopes(w.kind, srv, s, n) PROVE windows[<<c, w>>].reset <= Max(R)
  <2>1. windows[<<c, w>>].reset \in Nat
    BY WindowsRead
  <2>2. CASE windows[<<c, w>>].reset > t
    <3>1. c \in loaded /\ reset(c) = windows[<<c, w>>].reset
      BY <2>2, NotLoadedIsOver DEF reset
    <3>2. reset(c) \in R
      BY <3>1
    <3> QED BY <1>5, <3>1, <3>2
  <2>3. CASE ~ (windows[<<c, w>>].reset > t)
    BY <1>1, <1>4, <1>5, <2>1, <2>3
  <2> QED BY <2>2, <2>3
<1>8. Max(R) \in Nat /\ Max(R) > t /\ Max(R) <= t + w.seconds
  BY <1>4, <1>5
<1> HIDE DEF R
<1> QED BY <1>1, <1>6, <1>7, <1>8

\* The wait a refusal announces is at least one second and at most the window, and
\* no window that was summed is left after it, whichever keys it was counted under
\* and however wrong the clock was.
THEOREM WaitSuffices == Spec => []RetryAfterSuffices
<1>1. IInv => RetryAfterSuffices
  BY RetryAfterBounds DEF IInv, RetryAfterSuffices
<1> QED BY <1>1, AdmissionInvariant, PTL
-----------------------------------------------------------------------------
(***************************************************************************)
(* The inductive invariant of the windows and the history of admissions.   *)
(***************************************************************************)
\* The scope an admission was counted under in a dimension, and what was counted
\* for a scope since some second.
ScopeOf(e, w) == IF w.kind = "SESSION" THEN e.session ELSE e.digest
Since(c, w, from) == {e \in admissions : ScopeOf(e, w) = c /\ from <= e.at}

\* The session or the network that a dimension limits.
Party(e, w) == IF w.kind = "SESSION" THEN e.session ELSE e.digest[1]
Parties(w) == IF w.kind = "SESSION" THEN Sessions ELSE Networks
AdmittedBy(p, w, from) == {e \in During(w, from) : Party(e, w) = p}

\* An interval that is not over.
Open(w, from) == now < from + Length(w)

AdmissionsTyped ==
  /\ admissions \subseteq Admission /\ IsFiniteSet(admissions)
  /\ \A e \in admissions : e.at <= now /\ e.no <= Cardinality(Alike(e, e.at))

\* What was admitted as long ago as a window may be open is read by every server.
AdmissionsRead ==
  \A e \in admissions :
    /\ Dated(e.digest[2], e.at)
    /\ now < e.at + RetentionSeconds + 2 * Drift =>
         \A srv \in Servers : e.digest[2] \in keyring[srv].keys

\* No row: no window of the scope is open, and the last one that was counted fewer
\* admissions than its limit after its first.
NotCounting(c, w) ==
  \A from \in 1..Horizon :
    Open(w, from) => Cardinality(Since(c, w, from)) <= w.limit - 1

\* A row that began in a second u counts all admissions after its first, and what
\* an open interval that began before has besides is of the window before.
CountingSince(c, w, u) ==
  LET row == windows[<<c, w>>]
  IN /\ u + w.seconds - Drift <= row.reset
     /\ Cardinality(Since(c, w, u + 1)) <= row.count - 1
     /\ \A from \in 1..Horizon : Open(w, from) /\ from <= u =>
          Cardinality(Since(c, w, from)) <= w.limit - 1 + row.count

Counting(c, w) ==
  /\ windows[<<c, w>>].count \in 1..w.limit
  /\ \E u \in 1..now : CountingSince(c, w, u)

WindowsTrue ==
  \A w \in Windows : \A c \in ScopesOfKind(w.kind) :
    \/ windows[<<c, w>>] = NoWindow /\ NotCounting(c, w)
    \/ Counting(c, w)

PartiesBounded ==
  \A w \in Windows, from \in 1..Horizon : \A p \in Parties(w) :
    Cardinality(AdmittedBy(p, w, from)) <= MostAdmitted(w)

RateInv == AdmissionsTyped /\ AdmissionsRead /\ WindowsTrue /\ PartiesBounded

LEMMA BoundsRestated == PartiesBounded => RateBounded
<1> SUFFICES ASSUME PartiesBounded, NEW w \in Windows, NEW from \in 1..Horizon
             PROVE  IF w.kind = "SESSION"
                    THEN \A s \in Sessions :
                           Cardinality({e \in During(w, from) : e.session = s}) <= MostAdmitted(w)
                    ELSE \A n \in Networks :
                           Cardinality({e \in During(w, from) : e.digest[1] = n}) <= MostAdmitted(w)
  BY DEF RateBounded
<1>1. \A p \in Parties(w) : Cardinality(AdmittedBy(p, w, from)) <= MostAdmitted(w)
  BY DEF PartiesBounded
<1>2. CASE w.kind = "SESSION"
  <2>1. \A s : AdmittedBy(s, w, from) = {e \in During(w, from) : e.session = s}
    BY <1>2 DEF AdmittedBy, Party
  <2> QED BY <1>1, <1>2, <2>1 DEF Parties
<1>3. CASE w.kind # "SESSION"
  <2>1. \A n : AdmittedBy(n, w, from) = {e \in During(w, from) : e.digest[1] = n}
    BY <1>3 DEF AdmittedBy, Party
  <2> QED BY <1>1, <1>3, <2>1 DEF Parties
<1> QED BY <1>2, <1>3

LEMMA WindowNumbers ==
  ASSUME Typed, NEW w \in Windows
  PROVE  /\ w.seconds \in Nat \ {0} /\ w.seconds <= RetentionSeconds /\ w.limit \in Nat \ {0}
         /\ w.limit - 1 \in Nat /\ w.kind \in Kinds
         /\ RetentionSeconds \in Nat /\ Drift \in Nat /\ now \in Nat \ {0} /\ Horizon \in Nat
         /\ Length(w) \in Int /\ Length(w) = w.seconds - 2 * Drift
         /\ Rows(w) \in Nat \ {0} /\ MostAdmitted(w) = Rows(w) * (w.limit - 1) + w.limit
<1>1. /\ w.kind \in Kinds /\ w.seconds \in 1..RetentionSeconds /\ w.limit \in Nat \ {0}
      /\ RetentionSeconds \in Nat /\ Drift \in Nat /\ Horizon \in Nat /\ MaxKeys \in Nat \ {0}
  BY AdmissionAssumption
<1> QED BY <1>1 DEF Typed, Length, Rows, MostAdmitted

LEMMA SinceFinite ==
  ASSUME AdmissionsTyped, NEW c, NEW w, NEW from \in Int
  PROVE  /\ IsFiniteSet(Since(c, w, from)) /\ Cardinality(Since(c, w, from)) \in Nat
         /\ \A later \in Int : from <= later =>
              /\ Since(c, w, later) \subseteq Since(c, w, from)
              /\ Cardinality(Since(c, w, later)) <= Cardinality(Since(c, w, from))
<1>1. IsFiniteSet(Since(c, w, from))
  BY FS_Subset DEF AdmissionsTyped, Since
<1>2. Cardinality(Since(c, w, from)) \in Nat
  BY <1>1, FS_CardinalityType
<1>3. ASSUME NEW later \in Int, from <= later
      PROVE  Since(c, w, later) \subseteq Since(c, w, from)
  <2>1. \A e \in admissions : e.at \in Int
    BY DEF AdmissionsTyped, Admission
  <2> QED BY <1>3, <2>1 DEF Since
<1> QED BY <1>1, <1>2, <1>3, FS_Subset

\* What was counted for a scope in an open interval: less than the limit, or what is
\* in a row that every clock still finds current and less than the limit besides.
LEMMA CountedInOpen ==
  ASSUME Typed, AdmissionsTyped, WindowsTrue, NEW w \in Windows,
         NEW c \in ScopesOfKind(w.kind), NEW t \in Readings,
         NEW from \in 1..Horizon, Open(w, from)
  PROVE  \/ Cardinality(Since(c, w, from)) <= w.limit - 1
         \/ /\ windows[<<c, w>>].reset > t
            /\ windows[<<c, w>>].count \in Nat
            /\ Cardinality(Since(c, w, from)) <= w.limit - 1 + windows[<<c, w>>].count
<1> DEFINE row == windows[<<c, w>>]
<1>1. /\ w.seconds \in Nat /\ w.limit \in Nat \ {0} /\ Drift \in Nat /\ now \in Nat
      /\ from \in Nat /\ t \in Nat /\ t <= now + Drift /\ now < from + w.seconds - 2 * Drift
  BY WindowNumbers, Clock DEF Open
<1>2. CASE NotCounting(c, w)
  BY <1>2 DEF NotCounting
<1>3. CASE Counting(c, w)
  <2>1. row.count \in 1..w.limit
    BY <1>3 DEF Counting
  <2>2. PICK u \in 1..now : CountingSince(c, w, u)
    BY <1>3 DEF Counting
  <2>3. row.reset \in Nat
    <3>1. <<c, w>> \in WindowRows
      BY WindowNumbers, ScopeKinds DEF WindowRows
    <3> QED BY <3>1 DEF Typed
  <2>4. CASE u < from
    <3>1. Cardinality(Since(c, w, from)) <= Cardinality(Since(c, w, u + 1))
          /\ Cardinality(Since(c, w, from)) \in Nat /\ Cardinality(Since(c, w, u + 1)) \in Nat
      <4>1. u + 1 \in Int /\ from \in Int /\ u + 1 <= from
        BY <1>1, <2>4
      <4> QED BY <4>1, SinceFinite
    <3>2. Cardinality(Since(c, w, u + 1)) <= row.count - 1
      BY <2>2 DEF CountingSince
    <3> QED BY <1>1, <2>1, <3>1, <3>2
  <2>5. CASE from <= u
    <3>1. Cardinality(Since(c, w, from)) <= w.limit - 1 + row.count
      BY <2>2, <2>5 DEF CountingSince
    <3>2. u + w.seconds - Drift <= row.reset
      BY <2>2 DEF CountingSince
    <3>3. row.reset > t
      BY <1>1, <2>3, <2>5, <3>2
    <3> QED BY <2>1, <3>1, <3>3
  <2> QED BY <1>1, <2>4, <2>5
<1> QED BY <1>2, <1>3 DEF WindowsTrue

\* A row that is over counts no more than the limit less one for an open interval.
LEMMA OverNotCounting ==
  ASSUME Typed, AdmissionsTyped, WindowsTrue, NEW w \in Windows,
         NEW c \in ScopesOfKind(w.kind), NEW t \in Readings, windows[<<c, w>>].reset <= t
  PROVE  NotCounting(c, w)
<1>1. <<c, w>> \in WindowRows
  BY WindowNumbers, ScopeKinds DEF WindowRows
<1>2. windows[<<c, w>>].reset \in Nat /\ t \in Nat
  BY <1>1, Clock DEF Typed
<1>3. ~ (windows[<<c, w>>].reset > t)
  BY <1>2
<1> QED BY <1>3, CountedInOpen DEF NotCounting
-----------------------------------------------------------------------------
(***************************************************************************)
(* An admission: what its usage says of an open interval.                  *)
(***************************************************************************)
LEMMA ReadCounts ==
  ASSUME Typed, RingsRead, NEW w \in Windows, NEW srv \in Servers, NEW s \in Sessions,
         NEW n \in Networks
  PROVE  /\ IsFiniteSet(ReadScopes(w.kind, srv, s, n))
         /\ ReadScopes(w.kind, srv, s, n) \subseteq ScopesOfKind(w.kind)
         /\ Cardinality(ReadScopes(w.kind, srv, s, n)) \in Nat
         /\ Cardinality(ReadScopes(w.kind, srv, s, n)) <= Rows(w)
<1>1. CASE w.kind = "SESSION"
  <2>1. ReadScopes(w.kind, srv, s, n) = {s} /\ Rows(w) = 1
    BY <1>1 DEF ReadScopes, Rows
  <2>2. IsFiniteSet({s}) /\ Cardinality({s}) = 1
    BY FS_Singleton
  <2> QED BY <1>1, <2>1, <2>2 DEF ScopesOfKind
<1>2. CASE w.kind # "SESSION"
  <2>1. ReadScopes(w.kind, srv, s, n) = ReadDigests(srv, n) /\ Rows(w) = MaxKeys
    BY <1>2 DEF ReadScopes, Rows
  <2>2. IsFiniteSet(ReadDigests(srv, n)) /\ ReadDigests(srv, n) \subseteq Digests
    BY DigestsRead
  <2>3. Cardinality(ReadDigests(srv, n)) \in Nat /\ Cardinality(ReadDigests(srv, n)) <= MaxKeys
    BY <2>2, DigestsRead, FS_CardinalityType
  <2> QED BY <1>2, <2>1, <2>2, <2>3 DEF ScopesOfKind
<1> QED BY <1>1, <1>2

LEMMA TimesMonotone ==
  ASSUME NEW a \in Nat, NEW b \in Nat, a <= b, NEW k \in Nat
  PROVE  a * k <= b * k /\ a * k \in Nat /\ b * k \in Nat
OBVIOUS

LEMMA UsageCovers ==
  ASSUME Typed, RingsRead, AdmissionsTyped, WindowsTrue, NEW w \in Windows,
         NEW srv \in Servers, NEW s \in Sessions, NEW n \in Networks, NEW t \in Readings,
         NEW from \in 1..Horizon, Open(w, from)
  PROVE  /\ WindowUsage(w, srv, s, n, t) \in Nat
         /\ Cardinality({e \in admissions : /\ from <= e.at
                                            /\ ScopeOf(e, w) \in ReadScopes(w.kind, srv, s, n)})
              <= WindowUsage(w, srv, s, n, t) + Rows(w) * (w.limit - 1)
<1> DEFINE D == ReadScopes(w.kind, srv, s, n)
           T == LoadedWindows(w, srv, s, n, t)
           S == {e \in admissions : from <= e.at}
           of == [e \in S |-> ScopeOf(e, w)]
           f == [c \in D |-> Cardinality(Since(c, w, from))]
           g == [c \in T |-> CurrentWindow(c, w, srv, s, n, t).count]
           k == w.limit - 1
<1>1. /\ IsFiniteSet(D) /\ D \subseteq ScopesOfKind(w.kind) /\ Cardinality(D) \in Nat
      /\ Cardinality(D) <= Rows(w) /\ Rows(w) \in Nat /\ k \in Nat
  BY ReadCounts, WindowNumbers
<1>2. T \subseteq D /\ IsFiniteSet(T) /\ \A c \in T : g[c] \in Nat
  <2>1. T \subseteq D
    BY DEF LoadedWindows
  <2>2. \A c \in D : CurrentWindow(c, w, srv, s, n, t).count \in Nat
    BY WindowsRead
  <2>3. \A c \in T : g[c] \in Nat
    BY <2>1, <2>2
  <2> HIDE DEF T, D
  <2> QED BY <1>1, <2>1, <2>3, FS_Subset
<1>3. \A c \in D : f[c] \in Int
  BY SinceFinite
<1>4. ASSUME NEW c \in D PROVE f[c] <= k \/ (c \in T /\ f[c] <= g[c] + k)
  <2>1. f[c] = Cardinality(Since(c, w, from)) /\ c \in ScopesOfKind(w.kind)
    BY <1>1
  <2>2. CASE f[c] <= k
    BY <2>2
  <2>3. CASE /\ windows[<<c, w>>].reset > t /\ windows[<<c, w>>].count \in Nat
             /\ f[c] <= k + windows[<<c, w>>].count
    <3>1. c \in T /\ g[c] = windows[<<c, w>>].count
      BY <2>3, NotLoadedIsOver
    <3> QED BY <1>1, <1>3, <2>3, <3>1
  <2> QED BY <2>1, <2>2, <2>3, CountedInOpen
<1>5. Sum(f, D) <= Sum(g, T) + Cardinality(D) * k
  <2> HIDE DEF D, T, f, g, k
  <2> QED BY <1>1, <1>2, <1>3, <1>4, SumBound
<1>6. Sum(f, D) = Cardinality(Fibres(S, of, D))
  <2>1. IsFiniteSet(S)
    BY FS_Subset DEF AdmissionsTyped
  <2>2. \A c \in D : f[c] = Cardinality(Fibre(S, of, c))
    <3>1. \A c \in D : Since(c, w, from) = Fibre(S, of, c)
      BY DEF Since, Fibre
    <3> QED BY <3>1
  <2> HIDE DEF D, S, of, f
  <2> QED BY <1>1, <2>1, <2>2, SumOfCounts
<1>7. Sum(g, T) = WindowUsage(w, srv, s, n, t) /\ Sum(g, T) \in Nat
  <2>1. Sum(g, T) = WindowUsage(w, srv, s, n, t)
    BY DEF WindowUsage
  <2> HIDE DEF g, T
  <2>2. Sum(g, T) \in Nat
    BY <1>2, SumSubset
  <2> QED BY <2>1, <2>2
<1>8. Fibres(S, of, D) = {e \in admissions : from <= e.at /\ ScopeOf(e, w) \in D}
  BY DEF Fibres
<1>9. Cardinality(D) * k <= Rows(w) * k /\ Cardinality(D) * k \in Nat /\ Rows(w) * k \in Nat
  <2> HIDE DEF D, k
  <2> QED BY <1>1, TimesMonotone
<1>10. Sum(f, D) \in Int
  <2> HIDE DEF D, f
  <2> QED BY <1>1, <1>3, SumInt
<1> DEFINE total == Sum(f, D)
           usage == Sum(g, T)
           most == Rows(w) * k
           read == Cardinality(D) * k
<1>11. total \in Int /\ usage \in Nat /\ most \in Nat /\ read \in Nat
       /\ total <= usage + read /\ read <= most
  BY <1>5, <1>7, <1>9, <1>10
<1>12. total <= usage + most
  <2> HIDE DEF total, usage, most, read
  <2> QED BY <1>11
<1> HIDE DEF f, g, T, S, of
<1> QED BY <1>6, <1>7, <1>8, <1>12

\* All that a session or a network was admitted in an open interval is counted in
\* scopes that a server reads for it.
LEMMA AdmittedIsRead ==
  ASSUME Typed, AdmissionsTyped, AdmissionsRead, NEW w \in Windows, NEW srv \in Servers,
         NEW s \in Sessions, NEW n \in Networks, NEW from \in 1..Horizon, Open(w, from),
         NEW e \in admissions, from <= e.at,
         Party(e, w) = IF w.kind = "SESSION" THEN s ELSE n
  PROVE  ScopeOf(e, w) \in ReadScopes(w.kind, srv, s, n)
<1>1. CASE w.kind = "SESSION"
  BY <1>1 DEF Party, ScopeOf, ReadScopes
<1>2. CASE w.kind # "SESSION"
  <2>1. e.digest \in Digests /\ e.digest[1] = n /\ e.at \in Nat
    BY <1>2 DEF Party, AdmissionsTyped, Admission
  <2>2. now < e.at + RetentionSeconds + 2 * Drift
    <3>1. now < from + w.seconds - 2 * Drift /\ w.seconds \in Nat /\ w.seconds <= RetentionSeconds
          /\ now \in Nat /\ Drift \in Nat /\ RetentionSeconds \in Nat /\ from \in Nat
      BY WindowNumbers DEF Open
    <3> QED BY <2>1, <3>1
  <2>3. e.digest[2] \in keyring[srv].keys
    BY <2>2 DEF AdmissionsRead
  <2>4. e.digest = <<n, e.digest[2]>>
    BY <2>1 DEF Digests
  <2> QED BY <1>2, <2>3, <2>4 DEF ScopeOf, ReadScopes, ReadDigests
<1> QED BY <1>1, <1>2

\* Before an admission, an open interval has room for it.
LEMMA RoomForOne ==
  ASSUME Typed, RingsRead, RateInv, NEW w \in Windows, NEW srv \in Servers,
         NEW s \in Sessions, NEW n \in Networks, NEW t \in Readings,
         NEW from \in 1..Horizon, Open(w, from), WindowUsage(w, srv, s, n, t) < w.limit
  PROVE  Cardinality(AdmittedBy(IF w.kind = "SESSION" THEN s ELSE n, w, from))
           <= MostAdmitted(w) - 1
<1> DEFINE p == IF w.kind = "SESSION" THEN s ELSE n
           A == AdmittedBy(p, w, from)
           B == {e \in admissions : /\ from <= e.at
                                    /\ ScopeOf(e, w) \in ReadScopes(w.kind, srv, s, n)}
           usage == WindowUsage(w, srv, s, n, t)
<1>1. A \subseteq B
  <2> SUFFICES ASSUME NEW e \in A PROVE e \in B
    OBVIOUS
  <2>1. e \in admissions /\ from <= e.at /\ Party(e, w) = p
    BY DEF AdmittedBy, During
  <2> QED BY <2>1, AdmittedIsRead DEF RateInv
<1>2. IsFiniteSet(B) /\ IsFiniteSet(A)
  BY FS_Subset DEF RateInv, AdmissionsTyped, AdmittedBy, During
<1>3. usage \in Nat /\ Cardinality(B) <= usage + Rows(w) * (w.limit - 1)
  BY UsageCovers DEF RateInv
<1>4. Rows(w) * (w.limit - 1) \in Int /\ w.limit \in Nat
      /\ MostAdmitted(w) = Rows(w) * (w.limit - 1) + w.limit
  BY WindowNumbers
<1> HIDE DEF A, B, usage
<1>5. Cardinality(A) <= Cardinality(B) /\ Cardinality(A) \in Nat /\ Cardinality(B) \in Nat
  BY <1>1, <1>2, FS_Subset, FS_CardinalityType
<1> DEFINE most == Rows(w) * (w.limit - 1)
<1>6. usage < w.limit
  BY DEF usage
<1>7. /\ most \in Int /\ Cardinality(B) <= usage + most
      /\ MostAdmitted(w) = most + w.limit
  BY <1>3, <1>4
<1> HIDE DEF most
<1>8. Cardinality(A) <= MostAdmitted(w) - 1
  BY <1>3, <1>4, <1>5, <1>6, <1>7
<1> QED BY <1>8 DEF A
-----------------------------------------------------------------------------
(***************************************************************************)
(* The step that admits.                                                   *)
(***************************************************************************)
\* The one event of an admission, and that it is not on record.
LEMMA AdmissionRecorded ==
  ASSUME IInv, AdmissionsTyped, RateNext, NEW srv \in Servers, NEW s \in Sessions,
         NEW n \in Networks, NEW k \in IdempotencyKeys, NEW t \in Readings,
         CreateOrReplace(srv, s, n, k, t)
  PROVE  \E e \in Admission :
           /\ e \notin admissions /\ admissions' = admissions \cup {e}
           /\ e.session = s /\ e.digest = <<n, keyring[srv].active>> /\ e.digest \in Digests
           /\ e.at = now /\ e.no = Cardinality(Alike(e, now)) + 1
<1> DEFINE scan == NewScan(srv, s, n, k, t)
           e == [session |-> scan.session, digest |-> scan.digest, at |-> now,
                 no |-> Cardinality(Alike(scan, now)) + 1]
<1>1. /\ scans' = (scans \ Existing(s, k)) \cup {scan} /\ scan \notin scans
      /\ scan.held /\ scan.session = s /\ scan.digest = <<n, keyring[srv].active>>
      /\ scan.digest \in Digests /\ scan.session \in Sessions
  BY CreatedIsNew, DigestsRead DEF IInv, NewScan
<1>2. /\ now \in Nat /\ IsFiniteSet(Alike(scan, now))
      /\ Cardinality(Alike(scan, now)) \in Nat
  BY FS_Subset, FS_CardinalityType DEF AdmissionsTyped, Alike, IInv, Typed
<1>3. Admitted = {scan}
  <2> HIDE DEF scan
  <2> QED BY <1>1 DEF Admitted
<1>4. admissions' = admissions \cup {e}
  <2> HIDE DEF scan
  <2> QED BY <1>3 DEF RateNext
<1>5. /\ e.session = s /\ e.digest = <<n, keyring[srv].active>> /\ e.digest \in Digests
      /\ e.at = now /\ e.no = Cardinality(Alike(scan, now)) + 1 /\ e \in Admission
  <2> HIDE DEF scan
  <2> QED BY <1>1, <1>2 DEF Admission
<1>6. Alike(e, now) = Alike(scan, now)
  BY DEF Alike
<1>7. e \notin admissions
  <2> SUFFICES ASSUME e \in admissions PROVE FALSE
    OBVIOUS
  <2>1. e.no <= Cardinality(Alike(e, e.at)) /\ e.at = now
    BY <1>5 DEF AdmissionsTyped
  <2> HIDE DEF e
  <2> QED BY <1>2, <1>5, <1>6, <2>1
<1> HIDE DEF e
<1> QED BY <1>4, <1>5, <1>6, <1>7

\* What one new event adds to what is counted.
LEMMA OneMore ==
  ASSUME AdmissionsTyped, NEW e, e \notin admissions, admissions' = admissions \cup {e}
  PROVE  /\ \A c, w, from :
              Since(c, w, from)' = IF ScopeOf(e, w) = c /\ from <= e.at
                                   THEN Since(c, w, from) \cup {e} ELSE Since(c, w, from)
         /\ \A c, w : \A from \in Int :
              Cardinality(Since(c, w, from)') <= Cardinality(Since(c, w, from)) + 1
<1>1. ASSUME NEW c, NEW w, NEW from
      PROVE  Since(c, w, from)' = IF ScopeOf(e, w) = c /\ from <= e.at
                                  THEN Since(c, w, from) \cup {e} ELSE Since(c, w, from)
  BY DEF Since, ScopeOf
<1>2. ASSUME NEW c, NEW w, NEW from \in Int
      PROVE  Cardinality(Since(c, w, from)') <= Cardinality(Since(c, w, from)) + 1
  <2>1. IsFiniteSet(Since(c, w, from)) /\ Cardinality(Since(c, w, from)) \in Nat
    BY SinceFinite
  <2>2. e \notin Since(c, w, from)
    BY DEF Since
  <2>3. Cardinality(Since(c, w, from) \cup {e}) = Cardinality(Since(c, w, from)) + 1
    BY <2>1, <2>2, FS_AddElement
  <2> QED BY <1>1, <2>1, <2>3
<1> QED BY <1>1, <1>2

LEMMA AdmissionTyped ==
  ASSUME Typed, AdmissionsTyped, NEW e \in Admission, e \notin admissions,
         admissions' = admissions \cup {e}, e.at = now, now' = now,
         e.no = Cardinality(Alike(e, now)) + 1
  PROVE  AdmissionsTyped'
<1>1. IsFiniteSet(admissions') /\ admissions' \subseteq Admission
  BY FS_AddElement DEF AdmissionsTyped
<1>2. ASSUME NEW x \in admissions'
      PROVE  x.at <= now /\ x.no <= Cardinality(Alike(x, x.at)')
  <2>1. Alike(x, x.at) \subseteq Alike(x, x.at)' /\ IsFiniteSet(Alike(x, x.at)')
    BY <1>1, FS_Subset DEF Alike
  <2>2. /\ Cardinality(Alike(x, x.at)) <= Cardinality(Alike(x, x.at)')
        /\ Cardinality(Alike(x, x.at)) \in Nat /\ Cardinality(Alike(x, x.at)') \in Nat
    BY <2>1, FS_Subset, FS_CardinalityType
  <2>3. CASE x \in admissions
    <3>1. x.at <= now /\ x.no <= Cardinality(Alike(x, x.at)) /\ x.no \in Nat
      BY <2>3 DEF AdmissionsTyped, Admission
    <3> QED BY <2>2, <3>1
  <2>4. CASE x = e
    <3>1. Alike(e, now)' = Alike(e, now) \cup {e} /\ e \notin Alike(e, now)
      BY DEF Alike
    <3>2. IsFiniteSet(Alike(e, now)) /\ Cardinality(Alike(e, now)) \in Nat
      BY FS_Subset, FS_CardinalityType DEF AdmissionsTyped, Alike
    <3>3. Cardinality(Alike(e, now) \cup {e}) = Cardinality(Alike(e, now)) + 1
      BY <3>1, <3>2, FS_AddElement
    <3>4. Alike(e, now)' = Alike(x, x.at)'
      BY <2>4 DEF Alike
    <3>5. now \in Nat
      BY DEF Typed
    <3> QED BY <2>4, <3>1, <3>2, <3>3, <3>4, <3>5
  <2> QED BY <2>3, <2>4
<1> QED BY <1>1, <1>2 DEF AdmissionsTyped

\* The row that an admission counts in is current and not full.
LEMMA RowHasRoom ==
  ASSUME Typed, RingsRead, NEW w \in Windows, NEW srv \in Servers, NEW s \in Sessions,
         NEW n \in Networks, NEW t \in Readings, NEW c \in ReadScopes(w.kind, srv, s, n),
         c \in CountedScopes(srv, s, n), WindowUsage(w, srv, s, n, t) < w.limit
  PROVE  /\ CurrentWindow(c, w, srv, s, n, t) = Current(windows[<<c, w>>], w, t)
         /\ Current(windows[<<c, w>>], w, t) \in [count : Nat, reset : Nat]
         /\ Current(windows[<<c, w>>], w, t).count < w.limit
<1> DEFINE D == ReadScopes(w.kind, srv, s, n)
           T == LoadedWindows(w, srv, s, n, t)
           g == [d \in T |-> CurrentWindow(d, w, srv, s, n, t).count]
           row == Current(windows[<<c, w>>], w, t)
<1>1. CurrentWindow(c, w, srv, s, n, t) = row /\ row \in [count : Nat, reset : Nat]
  BY WindowsRead DEF CurrentWindow
<1>2. w.seconds \in Nat \ {0} /\ w.limit \in Nat /\ t \in Nat /\ windows[<<c, w>>].reset \in Nat
  BY WindowsRead, Clock
<1>3. row.reset > t
  BY <1>2 DEF Current
<1>4. c \in T
  BY <1>1, <1>3 DEF LoadedWindows
<1>5. IsFiniteSet(T) /\ \A d \in T : g[d] \in Nat
  <2>1. T \subseteq D
    BY DEF LoadedWindows
  <2>2. \A d \in D : CurrentWindow(d, w, srv, s, n, t).count \in Nat
    BY WindowsRead
  <2>3. \A d \in T : g[d] \in Nat
    BY <2>1, <2>2
  <2>4. IsFiniteSet(D)
    BY WindowsRead
  <2> HIDE DEF T, D
  <2> QED BY <2>1, <2>3, <2>4, FS_Subset
<1>6. g[c] = row.count
  BY <1>1, <1>4
<1>7. g[c] <= Sum(g, T) /\ Sum(g, T) \in Nat
  <2> HIDE DEF g, T
  <2> QED BY <1>4, <1>5, SumMember, SumSubset
<1>8. Sum(g, T) < w.limit
  BY DEF WindowUsage
<1> HIDE DEF g, T, row
<1>9. row.count < w.limit
  BY <1>1, <1>2, <1>6, <1>7, <1>8
<1> QED BY <1>1, <1>9 DEF row

\* What an admission leaves in the row it counts in.
LEMMA RowCounts ==
  ASSUME Typed, AdmissionsTyped, WindowsTrue, NEW w \in Windows,
         NEW c \in ScopesOfKind(w.kind), NEW t \in Readings,
         NEW e \in Admission, e \notin admissions, admissions' = admissions \cup {e},
         e.at = now, now' = now,
         Current(windows[<<c, w>>], w, t).count < w.limit,
         windows'[<<c, w>>] = [Current(windows[<<c, w>>], w, t) EXCEPT !.count = @ + 1]
  PROVE  Counting(c, w)'
<1> DEFINE row == windows[<<c, w>>]
           new == windows'[<<c, w>>]
<1>1. row \in [count : Nat, reset : Nat]
  BY WindowNumbers, ScopeKinds DEF WindowRows, Typed
<1>2. /\ t \in Nat /\ now \in Nat \ {0} /\ Drift \in Nat /\ now <= t + Drift
      /\ w.seconds \in Nat \ {0} /\ w.limit \in Nat \ {0}
  BY Clock, WindowNumbers
<1>3. \A from \in Int :
        /\ Cardinality(Since(c, w, from)) \in Nat
        /\ Cardinality(Since(c, w, from)') \in Nat
        /\ Cardinality(Since(c, w, from)') <= Cardinality(Since(c, w, from)) + 1
  <2>1. \A from \in Int : Cardinality(Since(c, w, from)) \in Nat
    BY SinceFinite
  <2>2. \A from \in Int : Cardinality(Since(c, w, from)') \in Nat
    <3>1. IsFiniteSet(admissions')
      BY FS_AddElement DEF AdmissionsTyped
    <3>2. \A from \in Int : IsFiniteSet(Since(c, w, from)')
      BY <3>1, FS_Subset DEF Since
    <3> QED BY <3>2, FS_CardinalityType
  <2> QED BY <2>1, <2>2, OneMore
<1>4. CASE row.reset <= t
  <2>1. new = [count |-> 1, reset |-> t + w.seconds]
    BY <1>4 DEF Current
  <2>2. NotCounting(c, w)
    BY <1>4, OverNotCounting
  <2> PICK u \in 1..now : u = now
    BY <1>2
  <2>3. Cardinality(Since(c, w, u + 1)') <= 0
    <3>1. \A x \in admissions' : ~ (u + 1 <= x.at)
      <4>1. \A x \in admissions : x.at \in Nat /\ x.at <= now
        BY DEF AdmissionsTyped, Admission
      <4> QED BY <1>2, <4>1
    <3>2. Since(c, w, u + 1)' = {}
      BY <3>1 DEF Since
    <3>3. \A X : X = {} => Cardinality(X) <= 0
      BY FS_EmptySet
    <3> QED BY <3>2, <3>3
  <2>4. ASSUME NEW from \in 1..Horizon, Open(w, from)'
        PROVE  Cardinality(Since(c, w, from)') <= w.limit - 1 + 1
    <3>1. Open(w, from)
      BY <2>4 DEF Open
    <3>2. Cardinality(Since(c, w, from)) <= w.limit - 1
      BY <2>2, <3>1 DEF NotCounting
    <3> QED BY <1>2, <1>3, <3>2
  <2>5. u + w.seconds - Drift <= t + w.seconds
    BY <1>2
  <2>6. CountingSince(c, w, u)'
    BY <1>2, <2>1, <2>3, <2>4, <2>5 DEF CountingSince
  <2> QED BY <1>2, <2>1, <2>6 DEF Counting
<1>5. CASE ~ (row.reset <= t)
  <2>1. new = [count |-> row.count + 1, reset |-> row.reset] /\ row.count < w.limit
    BY <1>1, <1>5 DEF Current
  <2>2. Counting(c, w)
    BY <1>2, <1>5 DEF WindowsTrue, NoWindow
  <2>3. PICK u \in 1..now : CountingSince(c, w, u)
    BY <2>2 DEF Counting
  <2>4. u + 1 \in Int /\ row.count \in Nat /\ row.count >= 1
    BY <1>1, <2>2 DEF Counting
  <2>5. Cardinality(Since(c, w, u + 1)') <= row.count
    <3>1. Cardinality(Since(c, w, u + 1)) <= row.count - 1
      BY <2>3 DEF CountingSince
    <3> QED BY <1>3, <2>4, <3>1
  <2>6. ASSUME NEW from \in 1..Horizon, Open(w, from)', from <= u
        PROVE  Cardinality(Since(c, w, from)') <= w.limit - 1 + (row.count + 1)
    <3>1. Open(w, from)
      BY <2>6 DEF Open
    <3>2. Cardinality(Since(c, w, from)) <= w.limit - 1 + row.count
      BY <2>3, <2>6, <3>1 DEF CountingSince
    <3> QED BY <1>2, <1>3, <2>4, <3>2
  <2>7. u + w.seconds - Drift <= row.reset
    BY <2>3 DEF CountingSince
  <2>8. CountingSince(c, w, u)'
    BY <2>1, <2>4, <2>5, <2>6, <2>7 DEF CountingSince
  <2> QED BY <1>2, <2>1, <2>4, <2>8 DEF Counting
<1> QED BY <1>4, <1>5

LEMMA AdmissionWindows ==
  ASSUME IInv, RateInv, NEW srv \in Servers, NEW s \in Sessions, NEW n \in Networks,
         NEW k \in IdempotencyKeys, NEW t \in Readings, CreateOrReplace(srv, s, n, k, t),
         NEW e \in Admission, e \notin admissions, admissions' = admissions \cup {e},
         e.session = s, e.digest = <<n, keyring[srv].active>>, e.at = now
  PROVE  WindowsTrue'
<1> SUFFICES ASSUME NEW w \in Windows, NEW c \in ScopesOfKind(w.kind)
             PROVE  \/ windows'[<<c, w>>] = NoWindow /\ NotCounting(c, w)'
                    \/ Counting(c, w)'
  BY DEF WindowsTrue
<1> DEFINE row == <<c, w>>
<1>1. row \in WindowRows /\ row[1] = c /\ row[2] = w
  BY WindowNumbers, ScopeKinds DEF WindowRows, IInv
<1>2. now' = now /\ WindowUsage(w, srv, s, n, t) < w.limit
  BY DEF CreateOrReplace, WithinLimits
<1>3. windows'[row] = IF c \in CountedScopes(srv, s, n)
                      THEN [CurrentWindow(c, w, srv, s, n, t) EXCEPT !.count = @ + 1]
                      ELSE CurrentWindow(c, w, srv, s, n, t)
  BY <1>1 DEF CreateOrReplace
<1>4. /\ ActiveDigest(srv, n) = <<n, keyring[srv].active>>
      /\ ActiveDigest(srv, n) \in ReadDigests(srv, n) /\ ActiveDigest(srv, n) \in Digests
  BY DigestsRead DEF IInv
<1>5. CASE c \in CountedScopes(srv, s, n)
  <2>1. c \in ReadScopes(w.kind, srv, s, n)
    BY <1>4, <1>5, ScopeKinds DEF CountedScopes, ReadScopes, ScopesOfKind
  <2>2. /\ CurrentWindow(c, w, srv, s, n, t) = Current(windows[row], w, t)
        /\ Current(windows[row], w, t).count < w.limit
    BY <1>2, <1>5, <2>1, RowHasRoom DEF IInv
  <2>3. windows'[row] = [Current(windows[row], w, t) EXCEPT !.count = @ + 1]
    BY <1>3, <1>5, <2>2
  <2>4. Counting(c, w)'
    BY <1>2, <2>2, <2>3, RowCounts DEF IInv, RateInv
  <2> QED BY <2>4
<1>6. CASE c \notin CountedScopes(srv, s, n)
  <2>1. windows'[row] = windows[row]
    BY <1>3, <1>6 DEF CurrentWindow
  <2>2. ScopeOf(e, w) # c
    BY <1>4, <1>6 DEF ScopeOf, CountedScopes
  <2>3. \A from : Since(c, w, from)' = Since(c, w, from)
    BY <2>2, OneMore DEF RateInv
  <2>4. CASE windows[row] = NoWindow /\ NotCounting(c, w)
    BY <1>2, <2>1, <2>3, <2>4 DEF NotCounting, Open
  <2>5. CASE Counting(c, w)
    BY <1>2, <2>1, <2>3, <2>5 DEF Counting, CountingSince, Open
  <2> QED BY <2>4, <2>5 DEF RateInv, WindowsTrue
<1> QED BY <1>5, <1>6

LEMMA AdmissionBounded ==
  ASSUME IInv, RateInv, NEW srv \in Servers, NEW s \in Sessions, NEW n \in Networks,
         NEW k \in IdempotencyKeys, NEW t \in Readings, CreateOrReplace(srv, s, n, k, t),
         NEW e \in Admission, e \notin admissions, admissions' = admissions \cup {e},
         e.session = s, e.digest = <<n, keyring[srv].active>>, e.at = now
  PROVE  PartiesBounded'
<1> SUFFICES ASSUME NEW w \in Windows, NEW from \in 1..Horizon, NEW p \in Parties(w)
             PROVE  Cardinality(AdmittedBy(p, w, from)') <= MostAdmitted(w)
  BY DEF PartiesBounded, Parties, MostAdmitted, Rows
<1> DEFINE A == AdmittedBy(p, w, from)
           B == AdmittedBy(p, w, from)'
           own == IF w.kind = "SESSION" THEN s ELSE n
<1>1. Cardinality(A) <= MostAdmitted(w) /\ MostAdmitted(w) \in Int
  <2>1. Rows(w) * (w.limit - 1) \in Int
    BY WindowNumbers DEF IInv
  <2> QED BY <2>1, WindowNumbers DEF IInv, RateInv, PartiesBounded
<1>2. IsFiniteSet(A) /\ Cardinality(A) \in Nat
  BY FS_Subset, FS_CardinalityType DEF RateInv, AdmissionsTyped, AdmittedBy, During
<1>3. Party(e, w) = own
  BY DEF Party
<1>4. CASE p = own /\ from <= e.at /\ e.at < from + Length(w)
  <2>1. B = A \cup {e} /\ e \notin A
    BY <1>3, <1>4 DEF AdmittedBy, During, Party
  <2>2. Open(w, from) /\ WindowUsage(w, srv, s, n, t) < w.limit
    BY <1>4 DEF Open, CreateOrReplace, WithinLimits
  <2>3. Cardinality(A) <= MostAdmitted(w) - 1
    BY <1>4, <2>2, RoomForOne DEF IInv
  <2>4. Cardinality(B) = Cardinality(A) + 1
    <3> HIDE DEF A, B
    <3> QED BY <1>2, <2>1, FS_AddElement
  <2> HIDE DEF A
  <2> QED BY <1>1, <1>2, <2>3, <2>4
<1>5. CASE ~ (p = own /\ from <= e.at /\ e.at < from + Length(w))
  <2>1. B = A
    BY <1>3, <1>5 DEF AdmittedBy, During, Party
  <2> QED BY <1>1, <2>1
<1> QED BY <1>4, <1>5

LEMMA AdmissionKeeps ==
  ASSUME IInv, RateInv, RateNext, NEW srv \in Servers, NEW s \in Sessions,
         NEW n \in Networks, NEW k \in IdempotencyKeys, NEW t \in Readings,
         CreateOrReplace(srv, s, n, k, t)
  PROVE  RateInv'
<1>1. PICK e \in Admission :
        /\ e \notin admissions /\ admissions' = admissions \cup {e}
        /\ e.session = s /\ e.digest = <<n, keyring[srv].active>> /\ e.digest \in Digests
        /\ e.at = now /\ e.no = Cardinality(Alike(e, now)) + 1
  BY AdmissionRecorded DEF RateInv
<1>2. UNCHANGED <<now, keyring, idleSince>>
  BY DEF CreateOrReplace
<1>3. AdmissionsTyped'
  BY <1>1, <1>2, AdmissionTyped DEF IInv, RateInv
<1>4. AdmissionsRead'
  <2>1. Dated(e.digest[2], e.at) /\ \A other \in Servers : e.digest[2] \in keyring[other].keys
    BY <1>1 DEF Dated, ActiveSomewhere, IInv, RingsRead
  <2> QED BY <1>1, <1>2, <2>1 DEF RateInv, AdmissionsRead, Dated, ActiveSomewhere
<1>5. WindowsTrue'
  BY <1>1, AdmissionWindows
<1>6. PartiesBounded'
  BY <1>1, AdmissionBounded
<1> QED BY <1>3, <1>4, <1>5, <1>6 DEF RateInv
-----------------------------------------------------------------------------
(***************************************************************************)
(* The steps that admit nothing.                                           *)
(***************************************************************************)
LEMMA NothingAdmitted ==
  ASSUME RateNext, \A x \in scans' \ scans : ~x.held
  PROVE  admissions' = admissions
BY DEF RateNext, Admitted

LEMMA QuietKeeps ==
  ASSUME Typed, RateInv, admissions' = admissions, now' \in Nat, now <= now',
         \A row \in WindowRows :
           \/ windows'[row] = windows[row]
           \/ windows'[row] = NoWindow /\ \E t \in Readings : windows[row].reset <= t,
         AdmissionsRead'
  PROVE  RateInv'
<1>1. \A w, from : During(w, from)' = During(w, from)
  BY DEF During
<1>2. PartiesBounded'
  <2> SUFFICES ASSUME NEW w \in Windows, NEW from \in 1..Horizon, NEW p \in Parties(w)
               PROVE  Cardinality(AdmittedBy(p, w, from)') <= MostAdmitted(w)
    BY DEF PartiesBounded, Parties, MostAdmitted, Rows
  <2>1. AdmittedBy(p, w, from)' = AdmittedBy(p, w, from)
    BY <1>1 DEF AdmittedBy, Party
  <2> QED BY <2>1 DEF RateInv, PartiesBounded
<1>3. now \in Nat /\ \A e \in admissions : e.at \in Nat
  BY DEF Typed, RateInv, AdmissionsTyped, Admission
<1>4. AdmissionsTyped'
  <2>1. \A x, second : Alike(x, second)' = Alike(x, second)
    BY DEF Alike
  <2>2. \A x \in admissions : x.at <= now' /\ x.no <= Cardinality(Alike(x, x.at))
    BY <1>3 DEF RateInv, AdmissionsTyped
  <2> QED BY <2>1, <2>2 DEF RateInv, AdmissionsTyped
<1>5. \A c, w, from : Since(c, w, from)' = Since(c, w, from)
  BY DEF Since, ScopeOf
<1>6. \A w \in Windows, from \in 1..Horizon : Open(w, from)' => Open(w, from)
  <2> SUFFICES ASSUME NEW w \in Windows, NEW from \in 1..Horizon, now' < from + Length(w)
               PROVE  now < from + Length(w)
    BY DEF Open, Length
  <2>1. Length(w) \in Int
    BY WindowNumbers
  <2> QED BY <1>3, <2>1
<1>7. WindowsTrue'
  <2> SUFFICES ASSUME NEW w \in Windows, NEW c \in ScopesOfKind(w.kind)
               PROVE  \/ windows'[<<c, w>>] = NoWindow /\ NotCounting(c, w)'
                      \/ Counting(c, w)'
    BY DEF WindowsTrue
  <2> DEFINE row == <<c, w>>
  <2>1. row \in WindowRows
    BY WindowNumbers, ScopeKinds DEF WindowRows
  <2>2. NotCounting(c, w) => NotCounting(c, w)'
    BY <1>5, <1>6 DEF NotCounting
  <2>3. CASE windows'[row] = windows[row]
    <3>1. CASE Counting(c, w)
      <4>1. PICK u \in 1..now : CountingSince(c, w, u)
        BY <3>1 DEF Counting
      <4>2. u \in 1..now'
        BY <1>3
      <4>3. CountingSince(c, w, u)'
        BY <1>5, <1>6, <2>3, <4>1 DEF CountingSince
      <4> QED BY <2>3, <3>1, <4>2, <4>3 DEF Counting
    <3> QED BY <2>2, <2>3, <3>1 DEF RateInv, WindowsTrue
  <2>4. ASSUME windows'[row] = NoWindow, NEW t \in Readings, windows[row].reset <= t
        PROVE  windows'[row] = NoWindow /\ NotCounting(c, w)'
    <3>1. NotCounting(c, w)
      BY <2>4, OverNotCounting DEF RateInv
    <3> QED BY <2>2, <2>4, <3>1
  <2> QED BY <2>1, <2>3, <2>4
<1> QED BY <1>2, <1>4, <1>7 DEF RateInv

LEMMA SameRings ==
  ASSUME Typed, RateInv, admissions' = admissions, now' \in Nat, now <= now',
         UNCHANGED <<keyring, idleSince>>
  PROVE  AdmissionsRead'
<1>1. now \in Nat /\ RetentionSeconds \in Nat /\ Drift \in Nat
      /\ \A e \in admissions : e.at \in Nat
  BY AdmissionAssumption DEF Typed, RateInv, AdmissionsTyped, Admission
<1> QED BY <1>1 DEF RateInv, AdmissionsRead, Dated, ActiveSomewhere

LEMMA RateInvNext == IInv /\ RateInv /\ [RateNext]_rateVars => RateInv'
<1> SUFFICES ASSUME IInv, RateInv, RateNext \/ UNCHANGED rateVars PROVE RateInv'
  OBVIOUS
<1>1. Typed /\ now \in Nat
  BY DEF IInv, Typed
<1>2. CASE UNCHANGED rateVars
  <2>1. UNCHANGED <<now, windows, keyring, idleSince, admissions>>
    BY <1>2 DEF rateVars, vars
  <2> QED BY <1>1, <2>1, SameRings, QuietKeeps
<1>3. ASSUME RateNext, NEW srv \in Servers, NEW s \in Sessions, NEW n \in Networks,
             NEW k \in IdempotencyKeys, NEW t \in Readings, CreateOrReplace(srv, s, n, k, t)
      PROVE  RateInv'
  BY <1>3, AdmissionKeeps
<1>4. ASSUME RateNext, NEW x \in scans, NEW t \in Readings, EndScan(x, t)
      PROVE  RateInv'
  <2>1. \A y \in scans' \ scans : ~y.held
    <3>1. ~ [x EXCEPT !.held = FALSE].held
      BY DEF IInv, Typed, Scan
    <3> QED BY <1>4, <3>1 DEF EndScan
  <2>2. admissions' = admissions /\ UNCHANGED <<now, windows, keyring, idleSince>>
    BY <1>4, <2>1, NothingAdmitted DEF EndScan
  <2> QED BY <1>1, <2>2, SameRings, QuietKeeps
<1>5. ASSUME RateNext, NEW t \in Readings, RunBatch(t) PROVE RateInv'
  <2>1. /\ scans' \subseteq scans /\ UNCHANGED <<now, keyring, idleSince>>
        /\ \A row \in WindowRows :
             \/ windows'[row] = windows[row]
             \/ windows'[row] = NoWindow /\ windows[row].reset <= t
    BY <1>5 DEF RunBatch
  <2>2. admissions' = admissions
    BY <1>5, <2>1, NothingAdmitted
  <2> QED BY <1>1, <2>1, <2>2, SameRings, QuietKeeps
<1>6. ASSUME RateNext, SetService \/ Tick PROVE RateInv'
  <2>1. /\ UNCHANGED <<scans, windows, keyring, idleSince>> /\ now' \in Nat /\ now <= now'
    BY <1>1, <1>6 DEF SetService, Tick
  <2>2. admissions' = admissions
    BY <1>6, <2>1, NothingAdmitted
  <2> QED BY <1>1, <2>1, <2>2, SameRings, QuietKeeps
<1>7. ASSUME RateNext, NEW srv \in Servers, Redeploy(srv) PROVE RateInv'
  <2>1. /\ UNCHANGED <<now, scans, windows, active, service>>
        /\ \A k \in Keys, second \in Int :
             Dated(k, second) /\ second <= now => Dated(k, second)'
        /\ \A k \in Keys, second \in Int, other \in Servers :
             /\ Dated(k, second) /\ second <= now /\ k \in keyring[other].keys
             /\ now < second + RetentionSeconds + 2 * Drift
             => k \in keyring'[other].keys
    BY <1>7, RedeployDates DEF IInv
  <2>2. admissions' = admissions
    BY <1>7, <2>1, NothingAdmitted
  <2>3. \A e \in admissions : e.digest[2] \in Keys /\ e.at \in Int /\ e.at <= now
    BY DEF RateInv, AdmissionsTyped, Admission, Digests
  <2>4. AdmissionsRead'
    BY <2>1, <2>2, <2>3 DEF RateInv, AdmissionsRead
  <2> QED BY <1>1, <2>1, <2>2, <2>4, QuietKeeps
<1> QED BY <1>2, <1>3, <1>4, <1>5, <1>6, <1>7 DEF RateNext, Next

LEMMA InitRateInv == RateInit => RateInv
<1> SUFFICES ASSUME RateInit PROVE RateInv
  OBVIOUS
<1>1. Typed
  BY InitIInv DEF RateInit, IInv
<1>2. IsFiniteSet({}) /\ Cardinality({}) = 0
  BY FS_EmptySet
<1>3. AdmissionsTyped /\ AdmissionsRead
  BY <1>2 DEF RateInit, AdmissionsTyped, AdmissionsRead
<1>4. \A c, w, from : Since(c, w, from) = {} /\ AdmittedBy(c, w, from) = {}
  BY DEF RateInit, Since, AdmittedBy, During
<1>5. WindowsTrue
  <2> SUFFICES ASSUME NEW w \in Windows, NEW c \in ScopesOfKind(w.kind)
               PROVE  windows[<<c, w>>] = NoWindow /\ NotCounting(c, w)
    BY DEF WindowsTrue
  <2>1. <<c, w>> \in WindowRows /\ w.limit - 1 \in Nat
    BY <1>1, WindowNumbers, ScopeKinds DEF WindowRows
  <2>2. windows[<<c, w>>] = NoWindow
    BY <2>1 DEF RateInit, Init
  <2>3. \A X : X = {} => Cardinality(X) = 0
    BY <1>2
  <2>4. \A from : Cardinality(Since(c, w, from)) = 0
    BY <1>4, <2>3
  <2>5. NotCounting(c, w)
    BY <1>4, <2>1, <2>4 DEF NotCounting
  <2> QED BY <2>2, <2>5
<1>6. PartiesBounded
  <2> SUFFICES ASSUME NEW w \in Windows PROVE 0 <= MostAdmitted(w)
    BY <1>2, <1>4 DEF PartiesBounded
  <2>1. /\ Rows(w) \in Nat /\ w.limit - 1 \in Nat /\ w.limit \in Nat
        /\ MostAdmitted(w) = Rows(w) * (w.limit - 1) + w.limit
    BY <1>1, WindowNumbers
  <2>2. Rows(w) * (w.limit - 1) \in Nat
    BY <2>1
  <2> QED BY <2>1, <2>2
<1> QED BY <1>3, <1>5, <1>6 DEF RateInv

\* The history only watches: what holds of the counters holds with it.
LEMMA HistoryWatches == RateInit /\ [][RateNext]_rateVars => Init /\ [][Next]_vars
<1>1. RateInit => Init
  BY DEF RateInit
<1>2. [RateNext]_rateVars => [Next]_vars
  BY DEF RateNext, rateVars
<1> QED BY <1>1, <1>2, PTL

THEOREM RateInvariant == RateSpec => [](IInv /\ RateInv)
<1>1. RateSpec => []IInv
  BY HistoryWatches, AdmissionInvariant DEF RateSpec, Spec
<1> QED BY <1>1, InitRateInv, RateInvNext, PTL DEF RateSpec

\* In no interval as long as a window, less the clock error, is a session admitted
\* twice its limit, or a network more than its limit once and one less for each key,
\* whichever servers admit, keys rotate, scans end and windows are deleted.
THEOREM RatesAreBounded == RateSpec => []RateBounded
<1>1. RateInv => RateBounded
  BY BoundsRestated DEF RateInv
<1> QED BY <1>1, RateInvariant, PTL
=============================================================================
