--------------------------- MODULE SolEventProofs ---------------------------
(***************************************************************************)
(* Proofs about SolEvent: the lists of listeners stay linked while         *)
(* listeners edit them, references are counted, and a dispatch calls every *)
(* listener that stays, for any objects, types, events, functions, nodes   *)
(* and bounds.                                                             *)
(***************************************************************************)
EXTENDS SolEvent, Integers, FiniteSets, FiniteSetTheorems, WellFoundedInduction, TLAPS

-----------------------------------------------------------------------------
(* Induction over the natural numbers, as facts about sets of numbers. *)

(* A set of numbers that has 0, and with a number the next, has them all:  *)
(* the form in which the proofs about walks, scopes and handlers use it.   *)
LEMMA SetInduction ==
  ASSUME NEW S, 0 \in S, \A n \in Nat : n \in S => n + 1 \in S
  PROVE  Nat \subseteq S
<1>. DEFINE R == OpToRel(<, Nat)
            T == Nat \ S
<1>1. SUFFICES ASSUME T # {} PROVE FALSE
  OBVIOUS
<1>2. IsWellFoundedOn(R, Nat)
  BY NatLessThanWellFounded
<1>3. R = {ss \in Nat \X Nat : ss[1] < ss[2]}
  BY DEF OpToRel
<1>. HIDE DEF R
<1>4. PICK x \in T : \A y \in T : ~(<<y, x>> \in R)
  BY <1>1, <1>2, WFMin
<1>5. x \in Nat /\ x # 0 /\ x - 1 \in Nat /\ (x - 1) + 1 = x
  BY <1>4
<1>6. <<x - 1, x>> \in R
  BY <1>3, <1>5
<1>7. x - 1 \in S
  BY <1>4, <1>5, <1>6
<1>. QED BY <1>4, <1>5, <1>7

-----------------------------------------------------------------------------
(* Arithmetic modulo the width of a counter.                               *)

LEMMA Remainder ==
  \A q \in Int, L \in Nat \ {0} : \A r \in 0 .. L - 1 : (L * q + r) % L = r
OBVIOUS

LEMMA Division ==
  ASSUME NEW a \in Int, NEW L \in Nat \ {0}
  PROVE  a = L * (a \div L) + (a % L) /\ a \div L \in Int /\ a % L \in 0 .. L - 1
<1>1. a = L * (a \div L) + (a % L)
  OBVIOUS
<1>. QED BY <1>1

LEMMA ModSum ==
  ASSUME NEW a \in Int, NEW k \in Int, NEW L \in Nat \ {0}
  PROVE  ((a % L) + k) % L = (a + k) % L
<1>1. PICK q \in Int, r \in 0 .. L - 1 : a = L * q + r /\ r = a % L
  BY Division
<1>2. r + k \in Int
  OBVIOUS
<1>3. PICK p \in Int, s \in 0 .. L - 1 : r + k = L * p + s /\ s = (r + k) % L
  BY <1>2, Division
<1>4. a + k = L * (q + p) + s /\ q + p \in Int
  BY <1>1, <1>3
<1>5. (L * (q + p) + s) % L = s
  BY <1>4, Remainder
<1>. QED BY <1>1, <1>3, <1>4, <1>5

-----------------------------------------------------------------------------
(* References of timers and of frames, in a sequence s of them.            *)

\* The first n of s that refer to x.
UpTo(s, n, x) == {i \in 1 .. n : x \in {s[i].object, s[i].event}}

Hits(r, x) == IF x \in {r.object, r.event} THEN 1 ELSE 0

\* All of s that refer to x.
Pending(s, x) == Cardinality({i \in DOMAIN s : x \in {s[i].object, s[i].event}})

LEMMA UpToNext ==
  ASSUME NEW s, NEW n \in Nat, NEW x
  PROVE  /\ IsFiniteSet(UpTo(s, n, x)) /\ Cardinality(UpTo(s, n, x)) \in Nat
         /\ Cardinality(UpTo(s, n + 1, x)) = Cardinality(UpTo(s, n, x)) + Hits(s[n+1], x)
<1>1. IsFiniteSet(1 .. n)
  BY FS_Interval
<1>2. UpTo(s, n, x) \in SUBSET (1 .. n)
  BY DEF UpTo
<1>3. IsFiniteSet(UpTo(s, n, x)) /\ Cardinality(UpTo(s, n, x)) \in Nat
  BY <1>1, <1>2, FS_Subset, FS_CardinalityType
<1>4. CASE x \in {s[n+1].object, s[n+1].event}
  <2>1. UpTo(s, n + 1, x) = UpTo(s, n, x) \cup {n + 1} /\ n + 1 \notin UpTo(s, n, x)
    BY <1>4 DEF UpTo
  <2>2. Cardinality(UpTo(s, n, x) \cup {n + 1}) = Cardinality(UpTo(s, n, x)) + 1
    BY <1>3, <2>1, FS_AddElement
  <2>. QED BY <1>3, <1>4, <2>1, <2>2 DEF Hits
<1>5. CASE x \notin {s[n+1].object, s[n+1].event}
  <2>1. UpTo(s, n + 1, x) = UpTo(s, n, x)
    BY <1>5 DEF UpTo
  <2>. QED BY <1>3, <1>5, <2>1 DEF Hits
<1>. QED BY <1>3, <1>4, <1>5

LEMMA PendingUpTo ==
  ASSUME NEW S, NEW s \in Seq(S), NEW x
  PROVE  /\ Pending(s, x) = Cardinality(UpTo(s, Len(s), x))
         /\ Pending(s, x) \in Nat
<1>1. DOMAIN s = 1 .. Len(s) /\ Len(s) \in Nat
  OBVIOUS
<1>2. Pending(s, x) = Cardinality(UpTo(s, Len(s), x))
  BY <1>1 DEF Pending, UpTo
<1>. QED BY <1>1, <1>2, UpToNext

LEMMA PendingAppend ==
  ASSUME NEW S, NEW s \in Seq(S), NEW e \in S, NEW x
  PROVE  Pending(Append(s, e), x) = Pending(s, x) + Hits(e, x)
<1>1. PICK n, u : n = Len(s) /\ u = Append(s, e)
  OBVIOUS
<1>2. n \in Nat /\ u \in Seq(S) /\ Len(u) = n + 1 /\ u[n+1] = e /\ \A i \in 1 .. n : u[i] = s[i]
  BY <1>1
<1>3. UpTo(u, n, x) = UpTo(s, n, x)
  BY <1>2 DEF UpTo
<1>4. Cardinality(UpTo(u, n + 1, x)) = Cardinality(UpTo(u, n, x)) + Hits(u[n+1], x)
  BY <1>2, UpToNext
<1>5. Pending(u, x) = Cardinality(UpTo(u, n + 1, x)) /\ Pending(s, x) = Cardinality(UpTo(s, n, x))
  BY <1>1, <1>2, PendingUpTo
<1>. QED BY <1>1, <1>2, <1>3, <1>4, <1>5

LEMMA PendingFront ==
  ASSUME NEW S, NEW s \in Seq(S), NEW x, Len(s) >= 1
  PROVE  Pending(s, x) = Pending(SubSeq(s, 1, Len(s) - 1), x) + Hits(s[Len(s)], x)
<1>1. PICK n, u : n \in Nat /\ Len(s) = n + 1 /\ u = SubSeq(s, 1, Len(s) - 1)
  <2>1. Len(s) - 1 \in Nat /\ Len(s) = (Len(s) - 1) + 1
    OBVIOUS
  <2>. QED BY <2>1
<1>2. u \in Seq(S) /\ Len(u) = n /\ \A i \in 1 .. n : u[i] = s[i]
  BY <1>1
<1>3. UpTo(u, n, x) = UpTo(s, n, x)
  BY <1>2 DEF UpTo
<1>4. Cardinality(UpTo(s, n + 1, x)) = Cardinality(UpTo(s, n, x)) + Hits(s[n+1], x)
  BY <1>1, UpToNext
<1>5. Pending(s, x) = Cardinality(UpTo(s, n + 1, x)) /\ Pending(u, x) = Cardinality(UpTo(u, n, x))
  BY <1>1, <1>2, PendingUpTo
<1>. QED BY <1>1, <1>3, <1>4, <1>5

LEMMA PendingTail ==
  ASSUME NEW S, NEW s \in Seq(S), NEW x, s # <<>>
  PROVE  Pending(s, x) = Pending(Tail(s), x) + Hits(Head(s), x)
<1>1. PICK n, u : n \in Nat /\ Len(s) = n + 1 /\ u = Tail(s)
  <2>1. Len(s) - 1 \in Nat /\ Len(s) = (Len(s) - 1) + 1
    OBVIOUS
  <2>. QED BY <2>1
<1>2. u \in Seq(S) /\ Len(u) = n /\ Head(s) = s[1] /\ \A i \in 1 .. n : u[i] = s[i+1]
  BY <1>1
<1>3. PICK T : T = {k \in Nat : k <= n =>
                     Cardinality(UpTo(s, k + 1, x)) = Cardinality(UpTo(u, k, x)) + Hits(s[1], x)}
  OBVIOUS
<1>4. 0 \in T
  <2>1. UpTo(s, 0, x) = {} /\ UpTo(u, 0, x) = {}
    BY DEF UpTo
  <2>2. PICK z \in Nat : z = 0
    OBVIOUS
  <2>3. Cardinality(UpTo(s, z + 1, x)) = Cardinality(UpTo(s, z, x)) + Hits(s[z+1], x)
    BY UpToNext
  <2>4. Cardinality(UpTo(s, 0, x)) = 0 /\ Cardinality(UpTo(u, 0, x)) = 0 /\ Hits(s[1], x) \in Nat
    BY <2>1, FS_EmptySet DEF Hits
  <2>. QED BY <1>3, <2>2, <2>3, <2>4
<1>5. ASSUME NEW k \in Nat, k \in T PROVE k + 1 \in T
  <2>1. SUFFICES ASSUME k + 1 <= n
                 PROVE  Cardinality(UpTo(s, (k + 1) + 1, x)) = Cardinality(UpTo(u, k + 1, x)) + Hits(s[1], x)
    BY <1>3
  <2>2. Cardinality(UpTo(s, k + 1, x)) = Cardinality(UpTo(u, k, x)) + Hits(s[1], x)
    BY <1>1, <1>3, <1>5, <2>1
  <2>3. k + 1 \in Nat
    OBVIOUS
  <2>4. Cardinality(UpTo(s, (k + 1) + 1, x)) = Cardinality(UpTo(s, k + 1, x)) + Hits(s[(k + 1) + 1], x)
    BY <2>3, UpToNext
  <2>5. Cardinality(UpTo(u, k + 1, x)) = Cardinality(UpTo(u, k, x)) + Hits(u[k+1], x)
        /\ Cardinality(UpTo(u, k, x)) \in Nat
    BY UpToNext
  <2>6. u[k+1] = s[(k + 1) + 1] /\ Hits(u[k+1], x) \in Nat /\ Hits(s[1], x) \in Nat
    BY <1>2, <2>1 DEF Hits
  <2>. QED BY <2>2, <2>4, <2>5, <2>6
<1>6. Nat \subseteq T
  BY <1>4, <1>5, SetInduction
<1>7. Cardinality(UpTo(s, n + 1, x)) = Cardinality(UpTo(u, n, x)) + Hits(s[1], x)
  BY <1>1, <1>3, <1>6
<1>. QED BY <1>1, <1>2, <1>7, PendingUpTo

\* Only the objects and the events matter.
LEMMA PendingSame ==
  ASSUME NEW s, NEW u, NEW x, DOMAIN s = DOMAIN u,
         \A i \in DOMAIN s : s[i].object = u[i].object /\ s[i].event = u[i].event
  PROVE  Pending(s, x) = Pending(u, x)
BY DEF Pending

LEMMA PendingSome ==
  ASSUME NEW S, NEW s \in Seq(S), NEW i \in 1 .. Len(s), NEW x, x \in {s[i].object, s[i].event}
  PROVE  Pending(s, x) >= 1
<1>1. i \in UpTo(s, Len(s), x) /\ Len(s) \in Nat
  BY DEF UpTo
<1>2. IsFiniteSet(UpTo(s, Len(s), x)) /\ Cardinality(UpTo(s, Len(s), x)) \in Nat
  BY <1>1, UpToNext
<1>3. Cardinality(UpTo(s, Len(s), x)) # 0
  BY <1>1, <1>2, FS_EmptySet
<1>. QED BY <1>2, <1>3, PendingUpTo

-----------------------------------------------------------------------------
(* Walks along the pointers.                                               *)

\* w is the walk from node n, of K steps.
Walked(w, n, K) ==
  w = [k \in 0 .. K |-> IF k = 0 THEN n ELSE IF w[k-1] = NULL THEN NULL ELSE next[w[k-1]]]

LEMMA WalkExists == \A n : \A K \in Nat : \E w : Walked(w, n, K)
<1>. SUFFICES ASSUME NEW n PROVE \A K \in Nat : \E w : Walked(w, n, K)
  OBVIOUS
<1>. DEFINE S == {K \in Nat : \E w : Walked(w, n, K)}
<1>1. 0 \in S
  <2>1. Walked([k \in 0 .. 0 |-> n], n, 0)
    BY DEF Walked
  <2>. QED BY <2>1
<1>2. ASSUME NEW K \in Nat, K \in S PROVE K + 1 \in S
  <2>1. PICK w : Walked(w, n, K)
    BY <1>2
  <2>. DEFINE step == IF w[K] = NULL THEN NULL ELSE next[w[K]]
              on == [k \in 0 .. K + 1 |-> IF k <= K THEN w[k] ELSE step]
              then == [k \in 0 .. K + 1 |->
                         IF k = 0 THEN n ELSE IF on[k-1] = NULL THEN NULL ELSE next[on[k-1]]]
  <2>2. ASSUME NEW k \in 0 .. K + 1 PROVE on[k] = then[k]
    <3>1. CASE k = K + 1
      <4>1. on[k] = step /\ on[k-1] = w[K] /\ k # 0
        BY <3>1
      <4>. QED BY <4>1
    <3>2. CASE k # K + 1 /\ k # 0
      <4>1. k \in 0 .. K /\ k - 1 \in 0 .. K /\ k - 1 \in 0 .. K + 1
        BY <3>2
      <4>2. on[k] = w[k] /\ on[k-1] = w[k-1]
        BY <4>1
      <4>3. w[k] = IF w[k-1] = NULL THEN NULL ELSE next[w[k-1]]
        BY <2>1, <3>2, <4>1 DEF Walked
      <4>. QED BY <3>2, <4>2, <4>3
    <3>3. CASE k = 0
      <4>1. w[0] = n
        BY <2>1 DEF Walked
      <4>. QED BY <3>3, <4>1
    <3>. QED BY <3>1, <3>2, <3>3
  <2>3. on = then
    <3>. HIDE DEF step
    <3>1. DOMAIN on = DOMAIN then /\ \A k \in DOMAIN on : on[k] = then[k]
      BY <2>2
    <3>. QED BY <3>1
  <2>4. Walked(on, n, K + 1)
    <3>. HIDE DEF on
    <3>. QED BY <2>3 DEF Walked
  <2>. QED BY <2>4
<1>. HIDE DEF S
<1>3. Nat \subseteq S
  BY <1>1, <1>2, SetInduction
<1>. QED BY <1>3 DEF S

LEMMA ChainWalk ==
  ASSUME NEW n
  PROVE  \E w, N : /\ N = Cardinality(Nodes) /\ N \in Nat
                   /\ ChainFrom(n) = {w[k] : k \in 0 .. N} \ {NULL} /\ w[0] = n
                   /\ \A k \in 0 .. N : k > 0 => w[k] = IF w[k-1] = NULL THEN NULL ELSE next[w[k-1]]
<1>1. PICK N : N = Cardinality(Nodes)
  OBVIOUS
<1>2. N \in Nat
  BY <1>1, KindsAssumption, FS_CardinalityType
<1>. DEFINE w == CHOOSE u : u = [k \in 0 .. Cardinality(Nodes) |->
                    IF k = 0 THEN n ELSE IF u[k-1] = NULL THEN NULL ELSE next[u[k-1]]]
<1>3. ChainFrom(n) = {w[k] : k \in DOMAIN w} \ {NULL}
  BY Zenon DEF ChainFrom
<1>4. \E u : u = [k \in 0 .. Cardinality(Nodes) |->
                    IF k = 0 THEN n ELSE IF u[k-1] = NULL THEN NULL ELSE next[u[k-1]]]
  <2>1. PICK u : Walked(u, n, Cardinality(Nodes))
    BY <1>1, <1>2, WalkExists
  <2>2. u = [k \in 0 .. Cardinality(Nodes) |->
               IF k = 0 THEN n ELSE IF u[k-1] = NULL THEN NULL ELSE next[u[k-1]]]
    BY <2>1 DEF Walked
  <2>. QED BY <2>2, Zenon
<1>5. w = [k \in 0 .. Cardinality(Nodes) |->
             IF k = 0 THEN n ELSE IF w[k-1] = NULL THEN NULL ELSE next[w[k-1]]]
  BY <1>4, Zenon
<1>. HIDE DEF w
<1>6. DOMAIN w = 0 .. N
  BY <1>1, <1>5
<1>7. w[0] = n /\ \A k \in 0 .. N : k > 0 => w[k] = IF w[k-1] = NULL THEN NULL ELSE next[w[k-1]]
  BY <1>1, <1>2, <1>5
<1>. QED BY <1>1, <1>2, <1>3, <1>6, <1>7

LEMMA ChainNull == ChainFrom(NULL) = {}
<1>1. PICK w, N : /\ N \in Nat
                  /\ ChainFrom(NULL) = {w[k] : k \in 0 .. N} \ {NULL} /\ w[0] = NULL
                  /\ \A k \in 0 .. N : k > 0 => w[k] = IF w[k-1] = NULL THEN NULL ELSE next[w[k-1]]
  BY ChainWalk
<1>2. PICK S : S = {k \in Nat : k <= N => w[k] = NULL}
  OBVIOUS
<1>3. 0 \in S
  BY <1>1, <1>2
<1>4. ASSUME NEW k \in Nat, k \in S PROVE k + 1 \in S
  <2>1. SUFFICES ASSUME k + 1 <= N PROVE w[k+1] = NULL
    BY <1>2
  <2>2. w[(k+1)-1] = NULL
    BY <1>1, <1>2, <1>4, <2>1
  <2>. QED BY <1>1, <2>1, <2>2
<1>5. Nat \subseteq S
  BY <1>3, <1>4, SetInduction
<1>6. \A k \in 0 .. N : w[k] = NULL
  BY <1>1, <1>2, <1>5
<1>. QED BY <1>1, <1>6

\* p are nodes that the pointers nx link, one after the other.
Line(nx, p) ==
  /\ p \in Seq(Nodes)
  /\ \A i \in 1 .. Len(p) : nx[p[i]] = IF i = Len(p) THEN NULL ELSE p[i+1]
  /\ \A i, j \in 1 .. Len(p) : p[i] = p[j] => i = j

LEMMA LineFits ==
  ASSUME NEW nx, NEW p, Line(nx, p)
  PROVE  Len(p) \in Nat /\ Len(p) <= Cardinality(Nodes)
<1>1. p \in [1 .. Len(p) -> Nodes] /\ Len(p) \in Nat
  BY DEF Line
<1>2. p \in Injection(1 .. Len(p), Nodes)
  BY <1>1 DEF Line, Injection, IsInjective
<1>3. Cardinality(1 .. Len(p)) <= Cardinality(Nodes)
  BY <1>2, FS_Injection, KindsAssumption
<1>4. Cardinality(1 .. Len(p)) = Len(p)
  <2>1. IF 1 > Len(p) THEN 0 = Len(p) ELSE Len(p) - 1 + 1 = Len(p)
    BY <1>1
  <2>. QED BY <1>1, <2>1, FS_Interval
<1>. QED BY <1>1, <1>3, <1>4

\* The nodes of p from place j on.
From(p, j) == {p[k] : k \in j .. Len(p)}

LEMMA ChainTail ==
  ASSUME NEW p, Line(next, p), NEW j \in 1 .. Len(p)
  PROVE  ChainFrom(p[j]) = From(p, j)
<1>1. PICK w, N : /\ N = Cardinality(Nodes) /\ N \in Nat
                  /\ ChainFrom(p[j]) = {w[k] : k \in 0 .. N} \ {NULL} /\ w[0] = p[j]
                  /\ \A k \in 0 .. N : k > 0 => w[k] = IF w[k-1] = NULL THEN NULL ELSE next[w[k-1]]
  BY ChainWalk, SMTT(30)
<1>2. Len(p) \in Nat /\ Len(p) <= N
  BY <1>1, LineFits
<1>3. \A i \in 1 .. Len(p) : p[i] \in Nodes /\ p[i] # NULL
  BY KindsAssumption DEF Line
<1>. DEFINE At(k) == IF j + k <= Len(p) THEN p[j+k] ELSE NULL
<1>4. PICK S : S = {k \in Nat : k <= N => w[k] = At(k)}
  OBVIOUS
<1>5. 0 \in S
  BY <1>1, <1>2, <1>4
<1>6. ASSUME NEW k \in Nat, k \in S PROVE k + 1 \in S
  <2>1. SUFFICES ASSUME k + 1 <= N PROVE w[k+1] = At(k+1)
    BY <1>4
  <2>2. w[k] = At(k)
    BY <1>1, <1>4, <1>6, <2>1
  <2>3. w[k+1] = IF w[k] = NULL THEN NULL ELSE next[w[k]]
    <3>1. (k + 1) - 1 = k /\ k + 1 \in 0 .. N
      BY <1>1, <2>1
    <3>. QED BY <1>1, <3>1
  <2>4. CASE j + k <= Len(p)
    <3>1. j + k \in 1 .. Len(p) /\ w[k] = p[j+k] /\ w[k] # NULL
      BY <1>2, <1>3, <2>2, <2>4
    <3>2. next[p[j+k]] = IF j + k = Len(p) THEN NULL ELSE p[(j+k)+1]
      BY <3>1 DEF Line
    <3>3. (j + k) + 1 = j + (k + 1) /\ (j + k = Len(p) <=> ~(j + (k + 1) <= Len(p)))
      BY <1>2, <2>4
    <3>. QED BY <2>3, <3>1, <3>2, <3>3
  <2>5. CASE ~(j + k <= Len(p))
    BY <1>2, <2>2, <2>3, <2>5
  <2>. QED BY <2>4, <2>5
<1>7. Nat \subseteq S
  BY <1>5, <1>6, SetInduction
<1>8. ASSUME NEW k \in 0 .. N PROVE w[k] = At(k)
  BY <1>1, <1>4, <1>7
<1>9. ASSUME NEW x, x \in {w[k] : k \in 0 .. N}, x # NULL PROVE x \in From(p, j)
  <2>1. PICK k \in 0 .. N : x = w[k]
    BY <1>9
  <2>2. j + k \in j .. Len(p) /\ x = p[j+k]
    BY <1>1, <1>2, <1>8, <1>9, <2>1
  <2>. QED BY <2>2 DEF From
<1>10. ASSUME NEW i \in j .. Len(p) PROVE p[i] \in {w[k] : k \in 0 .. N} /\ p[i] # NULL
  <2>1. i - j \in 0 .. N /\ j + (i - j) = i /\ i \in 1 .. Len(p)
    BY <1>1, <1>2
  <2>2. w[i-j] = p[i]
    BY <1>2, <1>8, <2>1
  <2>3. p[i] \in {w[k] : k \in 0 .. N}
    BY <2>1, <2>2
  <2>. QED BY <1>3, <2>1, <2>3
<1>11. PICK W : W = {w[k] : k \in 0 .. N}
  OBVIOUS
<1>12. (\A x \in W : x # NULL => x \in From(p, j)) /\ \A i \in j .. Len(p) : p[i] \in W /\ p[i] # NULL
  BY <1>9, <1>10, <1>11
<1>13. W \ {NULL} = From(p, j)
  BY <1>12 DEF From
<1>. QED BY <1>1, <1>11, <1>13

-----------------------------------------------------------------------------
(* The lists of all channels.                                              *)

\* P[c] are the nodes that listen to channel c.
Threads(fs, ls, nx, cb, P) ==
  /\ fs \in [Channels -> Nodes \cup {NULL}] /\ ls \in [Channels -> Nodes \cup {NULL}]
  /\ nx \in [Nodes -> Nodes \cup {NULL}] /\ cb \in [Nodes -> Callbacks \cup {NULL}]
  /\ P \in [Channels -> Seq(Nodes)]
  /\ \A c \in Channels :
       /\ Line(nx, P[c])
       /\ fs[c] = IF Len(P[c]) = 0 THEN NULL ELSE P[c][1]
       /\ ls[c] = IF Len(P[c]) = 0 THEN NULL ELSE P[c][Len(P[c])]
       /\ \A i \in 1 .. Len(P[c]) : cb[P[c][i]] # NULL
  /\ \A c, d \in Channels : c # d =>
       \A i \in 1 .. Len(P[c]), j \in 1 .. Len(P[d]) : P[c][i] # P[d][j]

LEMMA PathFacts ==
  ASSUME NEW fs, NEW ls, NEW nx, NEW cb, NEW P, Threads(fs, ls, nx, cb, P), NEW c \in Channels
  PROVE  /\ P[c] \in Seq(Nodes) /\ Len(P[c]) \in Nat
         /\ \A i \in 1 .. Len(P[c]) : /\ P[c][i] \in Nodes /\ P[c][i] # NULL /\ cb[P[c][i]] # NULL
                                      /\ nx[P[c][i]] = IF i = Len(P[c]) THEN NULL ELSE P[c][i+1]
         /\ \A i, j \in 1 .. Len(P[c]) : P[c][i] = P[c][j] => i = j
         /\ fs[c] = NULL <=> Len(P[c]) = 0
BY KindsAssumption DEF Threads, Line

\* A channel whose nodes keep their pointers and callbacks keeps its list.
LEMMA SameLine ==
  ASSUME NEW nx, NEW nx2, NEW p, Line(nx, p), \A i \in 1 .. Len(p) : nx2[p[i]] = nx[p[i]]
  PROVE  Line(nx2, p)
BY DEF Line

\* Node n with callback f is added at the end of channel c.
Appended(fs, ls, nx, cb, P, c, n, f, fs2, ls2, nx2, cb2) ==
  /\ cb2 = [cb EXCEPT ![n] = f]
  /\ ls2 = [ls EXCEPT ![c] = n]
  /\ IF Len(P[c]) = 0 THEN fs2 = [fs EXCEPT ![c] = n] /\ nx2 = [nx EXCEPT ![n] = NULL]
     ELSE fs2 = fs /\ nx2 = [nx EXCEPT ![P[c][Len(P[c])]] = n, ![n] = NULL]

LEMMA AppendThreads ==
  ASSUME NEW fs, NEW ls, NEW nx, NEW cb, NEW P, Threads(fs, ls, nx, cb, P),
         NEW c \in Channels, NEW n \in Nodes, cb[n] = NULL, NEW f \in Callbacks,
         NEW fs2, NEW ls2, NEW nx2, NEW cb2, Appended(fs, ls, nx, cb, P, c, n, f, fs2, ls2, nx2, cb2)
  PROVE  Threads(fs2, ls2, nx2, cb2, [P EXCEPT ![c] = Append(@, n)])
<1>1. PICK p, q, Q : p = P[c] /\ q = Append(p, n) /\ Q = [P EXCEPT ![c] = q]
  OBVIOUS
<1>2. /\ p \in Seq(Nodes) /\ Len(p) \in Nat
      /\ \A i \in 1 .. Len(p) : /\ p[i] \in Nodes /\ p[i] # NULL /\ p[i] # n
                                /\ nx[p[i]] = IF i = Len(p) THEN NULL ELSE p[i+1]
      /\ \A i, j \in 1 .. Len(p) : p[i] = p[j] => i = j
      /\ fs[c] = IF Len(p) = 0 THEN NULL ELSE p[1]
  <2>1. fs[c] = IF Len(p) = 0 THEN NULL ELSE p[1]
    BY <1>1 DEF Threads
  <2>2. /\ p \in Seq(Nodes) /\ Len(p) \in Nat
        /\ \A i \in 1 .. Len(p) : /\ p[i] \in Nodes /\ p[i] # NULL /\ cb[p[i]] # NULL
                                  /\ nx[p[i]] = IF i = Len(p) THEN NULL ELSE p[i+1]
        /\ \A i, j \in 1 .. Len(p) : p[i] = p[j] => i = j
    BY <1>1, PathFacts
  <2>. QED BY <2>1, <2>2
<1>3. /\ fs \in [Channels -> Nodes \cup {NULL}] /\ ls \in [Channels -> Nodes \cup {NULL}]
      /\ nx \in [Nodes -> Nodes \cup {NULL}] /\ cb \in [Nodes -> Callbacks \cup {NULL}]
      /\ P \in [Channels -> Seq(Nodes)]
  BY DEF Threads
<1>4. /\ q \in Seq(Nodes) /\ Len(q) = Len(p) + 1 /\ q[Len(p)+1] = n
      /\ \A i \in 1 .. Len(p) : q[i] = p[i]
  BY <1>1, <1>2
<1>5. Q \in [Channels -> Seq(Nodes)] /\ Q[c] = q /\ \A d \in Channels : d # c => Q[d] = P[d]
  BY <1>1, <1>3, <1>4
<1>6. /\ cb2 = [cb EXCEPT ![n] = f] /\ ls2 = [ls EXCEPT ![c] = n]
      /\ IF Len(p) = 0 THEN fs2 = [fs EXCEPT ![c] = n] /\ nx2 = [nx EXCEPT ![n] = NULL]
         ELSE fs2 = fs /\ nx2 = [nx EXCEPT ![p[Len(p)]] = n, ![n] = NULL]
  BY <1>1 DEF Appended
<1>7. /\ nx2 \in [Nodes -> Nodes \cup {NULL}] /\ nx2[n] = NULL
      /\ Len(p) # 0 => nx2[p[Len(p)]] = n
      /\ \A x \in Nodes : x # n /\ (Len(p) # 0 => x # p[Len(p)]) => nx2[x] = nx[x]
  <2>1. CASE Len(p) = 0
    BY <1>3, <1>6, <2>1
  <2>2. CASE Len(p) # 0
    <3>1. p[Len(p)] \in Nodes /\ p[Len(p)] # n
      BY <1>2, <2>2
    <3>2. nx2 = [nx EXCEPT ![p[Len(p)]] = n, ![n] = NULL]
      BY <1>6, <2>2
    <3>. QED BY <1>3, <2>2, <3>1, <3>2
  <2>. QED BY <2>1, <2>2
<1>8. /\ fs2 \in [Channels -> Nodes \cup {NULL}] /\ fs2[c] = q[1] /\ \A d \in Channels : d # c => fs2[d] = fs[d]
      /\ ls2 \in [Channels -> Nodes \cup {NULL}] /\ ls2[c] = n /\ \A d \in Channels : d # c => ls2[d] = ls[d]
  <2>1. CASE Len(p) = 0
    <3>1. q[1] = n
      BY <1>4, <2>1
    <3>. QED BY <1>3, <1>6, <2>1, <3>1
  <2>2. CASE Len(p) # 0
    <3>1. q[1] = p[1]
      BY <1>2, <1>4, <2>2
    <3>. QED BY <1>2, <1>3, <1>6, <2>2, <3>1
  <2>. QED BY <2>1, <2>2
<1>9. /\ cb2 \in [Nodes -> Callbacks \cup {NULL}] /\ cb2[n] # NULL
      /\ \A x \in Nodes : x # n => cb2[x] = cb[x]
  <2>1. f # NULL
    BY KindsAssumption DEF Things
  <2>. QED BY <1>3, <1>6, <2>1
<1>10. Line(nx2, q)
  <2>1. ASSUME NEW i \in 1 .. Len(q) PROVE nx2[q[i]] = IF i = Len(q) THEN NULL ELSE q[i+1]
    <3>1. CASE i = Len(p) + 1
      BY <1>4, <1>7, <3>1
    <3>2. CASE i = Len(p)
      <4>1. i \in 1 .. Len(p) /\ Len(p) # 0 /\ i # Len(q) /\ q[i] = p[Len(p)] /\ q[i+1] = n
        BY <1>2, <1>4, <3>2
      <4>. QED BY <1>7, <4>1
    <3>3. CASE i # Len(p) + 1 /\ i # Len(p)
      <4>1. i \in 1 .. Len(p) /\ i + 1 \in 1 .. Len(p) /\ Len(p) \in 1 .. Len(p) /\ i # Len(q)
        BY <1>2, <1>4, <3>3
      <4>2. p[i] # p[Len(p)] /\ p[i] \in Nodes /\ p[i] # n /\ nx[p[i]] = p[i+1]
        BY <1>2, <3>3, <4>1
      <4>. QED BY <1>4, <1>7, <4>1, <4>2
    <3>. QED BY <3>1, <3>2, <3>3
  <2>2. ASSUME NEW i \in 1 .. Len(q), NEW j \in 1 .. Len(q), q[i] = q[j] PROVE i = j
    <3>1. \A k \in 1 .. Len(q) : k = Len(p) + 1 \/ (k \in 1 .. Len(p) /\ q[k] = p[k] /\ q[k] # n)
      BY <1>2, <1>4
    <3>. QED BY <1>2, <1>4, <2>2, <3>1
  <2>. QED BY <1>4, <2>1, <2>2 DEF Line
<1>11. ASSUME NEW d \in Channels, d # c
       PROVE  /\ Line(nx2, P[d])
              /\ \A i \in 1 .. Len(P[d]) : cb2[P[d][i]] # NULL /\ P[d][i] # n
  <2>1. ASSUME NEW i \in 1 .. Len(P[d])
        PROVE  /\ P[d][i] \in Nodes /\ P[d][i] # n /\ cb[P[d][i]] # NULL
               /\ Len(p) # 0 => P[d][i] # p[Len(p)]
    <3>1. Len(p) # 0 => Len(p) \in 1 .. Len(p)
      BY <1>2
    <3>2. Len(p) # 0 => P[d][i] # p[Len(p)]
      <4>1. SUFFICES ASSUME Len(p) # 0 PROVE P[d][i] # p[Len(p)]
        OBVIOUS
      <4>2. PICK k \in 1 .. Len(P[c]) : k = Len(p)
        BY <1>1, <3>1, <4>1
      <4>3. P[d][i] # P[c][k]
        BY <1>11 DEF Threads
      <4>. QED BY <1>1, <4>2, <4>3
    <3>. QED BY <3>2, PathFacts
  <2>2. \A i \in 1 .. Len(P[d]) : nx2[P[d][i]] = nx[P[d][i]]
    BY <1>7, <2>1
  <2>3. Line(nx, P[d])
    BY DEF Threads
  <2>. QED BY <1>9, <2>1, <2>2, <2>3, SameLine
<1>12. ASSUME NEW d \in Channels
       PROVE  /\ Line(nx2, Q[d])
              /\ fs2[d] = IF Len(Q[d]) = 0 THEN NULL ELSE Q[d][1]
              /\ ls2[d] = IF Len(Q[d]) = 0 THEN NULL ELSE Q[d][Len(Q[d])]
              /\ \A i \in 1 .. Len(Q[d]) : cb2[Q[d][i]] # NULL
  <2>1. CASE d = c
    <3>1. Len(q) # 0
      BY <1>2, <1>4
    <3>2. ASSUME NEW i \in 1 .. Len(q) PROVE cb2[q[i]] # NULL
      <4>1. i = Len(p) + 1 \/ i \in 1 .. Len(p)
        BY <1>2, <1>4
      <4>2. \A k \in 1 .. Len(p) : cb[p[k]] # NULL
        BY <1>1, PathFacts
      <4>. QED BY <1>2, <1>4, <1>9, <4>1, <4>2
    <3>. QED BY <1>4, <1>5, <1>8, <1>10, <2>1, <3>1, <3>2
  <2>2. CASE d # c
    <3>1. /\ fs[d] = IF Len(P[d]) = 0 THEN NULL ELSE P[d][1]
          /\ ls[d] = IF Len(P[d]) = 0 THEN NULL ELSE P[d][Len(P[d])]
      BY DEF Threads
    <3>. QED BY <1>5, <1>8, <1>11, <2>2, <3>1
  <2>. QED BY <2>1, <2>2
<1>13. ASSUME NEW d \in Channels, NEW e \in Channels, d # e,
              NEW i \in 1 .. Len(Q[d]), NEW j \in 1 .. Len(Q[e])
       PROVE  Q[d][i] # Q[e][j]
  <2>1. ASSUME NEW a \in Channels, a # c, NEW k \in 1 .. Len(P[a]), NEW m \in 1 .. Len(q)
        PROVE  P[a][k] # q[m]
    <3>1. m = Len(p) + 1 \/ m \in 1 .. Len(p)
      BY <1>2, <1>4
    <3>2. CASE m = Len(p) + 1
      BY <1>4, <1>11, <2>1, <3>2
    <3>3. CASE m \in 1 .. Len(p)
      BY <1>1, <1>4, <2>1, <3>3 DEF Threads
    <3>. QED BY <3>1, <3>2, <3>3
  <2>2. CASE d = c
    BY <1>5, <1>13, <2>1, <2>2
  <2>3. CASE e = c
    BY <1>5, <1>13, <2>1, <2>3
  <2>4. CASE d # c /\ e # c
    BY <1>5, <1>13, <2>4 DEF Threads
  <2>. QED BY <2>2, <2>3, <2>4
<1>14. Threads(fs2, ls2, nx2, cb2, Q)
  BY <1>5, <1>7, <1>8, <1>9, <1>12, <1>13 DEF Threads
<1>. QED BY <1>1, <1>14

\* p without the node in place j.
Without(p, j) == [i \in 1 .. Len(p) - 1 |-> IF i < j THEN p[i] ELSE p[i+1]]

Lacks(p, j, q) ==
  /\ q \in Seq(Nodes) /\ Len(q) = Len(p) - 1 /\ Len(p) \in Nat
  /\ \A i \in 1 .. Len(p) - 1 : q[i] = (IF i < j THEN p[i] ELSE p[i+1]) /\ q[i] # p[j]
  /\ \A k \in 1 .. Len(p) : k # j =>
       \E i \in 1 .. Len(p) - 1 : i = (IF k < j THEN k ELSE k - 1) /\ q[i] = p[k]

LEMMA WithoutFacts ==
  ASSUME NEW p \in Seq(Nodes), NEW j \in 1 .. Len(p), \A i, k \in 1 .. Len(p) : p[i] = p[k] => i = k
  PROVE  Lacks(p, j, Without(p, j))
<1>1. Len(p) \in Nat /\ Len(p) - 1 \in Nat /\ \A i \in 1 .. Len(p) : p[i] \in Nodes
  OBVIOUS
<1>2. ASSUME NEW i \in 1 .. Len(p) - 1
      PROVE  i \in 1 .. Len(p) /\ i + 1 \in 1 .. Len(p) /\ (IF i < j THEN p[i] ELSE p[i+1]) \in Nodes
  BY <1>1
<1>3. PICK q : q = Without(p, j)
  OBVIOUS
<1>4. q = [i \in 1 .. Len(p) - 1 |-> IF i < j THEN p[i] ELSE p[i+1]]
  BY <1>3 DEF Without
<1>5. q \in Seq(Nodes) /\ Len(q) = Len(p) - 1
  BY <1>1, <1>2, <1>4
<1>6. ASSUME NEW i \in 1 .. Len(p) - 1
      PROVE  q[i] = (IF i < j THEN p[i] ELSE p[i+1]) /\ q[i] # p[j]
  <2>1. q[i] = IF i < j THEN p[i] ELSE p[i+1]
    BY <1>4
  <2>. QED BY <1>1, <1>2, <2>1
<1>7. ASSUME NEW k \in 1 .. Len(p), k # j
      PROVE  \E i \in 1 .. Len(p) - 1 : i = (IF k < j THEN k ELSE k - 1) /\ q[i] = p[k]
  <2>1. CASE k < j
    <3>1. k \in 1 .. Len(p) - 1
      BY <1>1, <2>1
    <3>2. q[k] = p[k]
      BY <1>6, <2>1, <3>1
    <3>. QED BY <2>1, <3>1, <3>2
  <2>2. CASE ~(k < j)
    <3>1. k - 1 \in 1 .. Len(p) - 1 /\ ~(k - 1 < j) /\ (k - 1) + 1 = k
      BY <1>1, <1>7, <2>2
    <3>2. q[k-1] = p[k]
      BY <1>6, <3>1
    <3>. QED BY <2>2, <3>1, <3>2
  <2>. QED BY <2>1, <2>2
<1>. QED BY <1>1, <1>3, <1>5, <1>6, <1>7 DEF Lacks

\* The node in place j of channel c is taken out.
Removed(fs, ls, nx, cb, p, c, j, fs2, ls2, nx2, cb2) ==
  /\ cb2 = [cb EXCEPT ![p[j]] = NULL]
  /\ IF j = 1 THEN fs2 = [fs EXCEPT ![c] = nx[p[j]]] /\ nx2 = nx
     ELSE fs2 = fs /\ nx2 = [nx EXCEPT ![p[j-1]] = nx[p[j]]]
  /\ ls2 = IF nx[p[j]] = NULL THEN [ls EXCEPT ![c] = IF j = 1 THEN NULL ELSE p[j-1]] ELSE ls

LEMMA RemoveThreads ==
  ASSUME NEW fs, NEW ls, NEW nx, NEW cb, NEW P, Threads(fs, ls, nx, cb, P),
         NEW c \in Channels, NEW j \in 1 .. Len(P[c]),
         NEW fs2, NEW ls2, NEW nx2, NEW cb2, Removed(fs, ls, nx, cb, P[c], c, j, fs2, ls2, nx2, cb2)
  PROVE  Threads(fs2, ls2, nx2, cb2, [P EXCEPT ![c] = Without(@, j)])
<1>1. PICK p, q, Q, n : p = P[c] /\ q = Without(p, j) /\ Q = [P EXCEPT ![c] = q] /\ n = p[j]
  OBVIOUS
<1>2. /\ p \in Seq(Nodes) /\ Len(p) \in Nat /\ j \in 1 .. Len(p)
      /\ \A i \in 1 .. Len(p) : /\ p[i] \in Nodes /\ p[i] # NULL /\ cb[p[i]] # NULL
                                /\ nx[p[i]] = IF i = Len(p) THEN NULL ELSE p[i+1]
      /\ \A i, k \in 1 .. Len(p) : p[i] = p[k] => i = k
  BY <1>1, PathFacts
<1>3. /\ fs \in [Channels -> Nodes \cup {NULL}] /\ ls \in [Channels -> Nodes \cup {NULL}]
      /\ nx \in [Nodes -> Nodes \cup {NULL}] /\ cb \in [Nodes -> Callbacks \cup {NULL}]
      /\ P \in [Channels -> Seq(Nodes)]
  BY DEF Threads
<1>4. /\ q \in Seq(Nodes) /\ Len(q) = Len(p) - 1
      /\ \A i \in 1 .. Len(p) - 1 : q[i] = (IF i < j THEN p[i] ELSE p[i+1]) /\ q[i] # n
  <2>1. Lacks(p, j, Without(p, j))
    BY <1>2, WithoutFacts
  <2>. QED BY <1>1, <2>1 DEF Lacks
<1>5. Q \in [Channels -> Seq(Nodes)] /\ Q[c] = q /\ \A d \in Channels : d # c => Q[d] = P[d]
  BY <1>1, <1>3, <1>4
<1>6. /\ cb2 = [cb EXCEPT ![n] = NULL]
      /\ IF j = 1 THEN fs2 = [fs EXCEPT ![c] = nx[n]] /\ nx2 = nx
         ELSE fs2 = fs /\ nx2 = [nx EXCEPT ![p[j-1]] = nx[n]]
      /\ ls2 = IF nx[n] = NULL THEN [ls EXCEPT ![c] = IF j = 1 THEN NULL ELSE p[j-1]] ELSE ls
  BY <1>1 DEF Removed
<1>7. /\ n \in Nodes /\ nx[n] = (IF j = Len(p) THEN NULL ELSE p[j+1]) /\ nx[n] \in Nodes \cup {NULL}
      /\ nx[n] = NULL <=> j = Len(p)
      /\ j # 1 => j - 1 \in 1 .. Len(p) /\ p[j-1] \in Nodes
  <2>1. j # Len(p) => j + 1 \in 1 .. Len(p)
    BY <1>2
  <2>2. j # 1 => j - 1 \in 1 .. Len(p)
    BY <1>2
  <2>. QED BY <1>1, <1>2, <2>1, <2>2
<1>8. /\ nx2 \in [Nodes -> Nodes \cup {NULL}]
      /\ j # 1 => nx2[p[j-1]] = nx[n]
      /\ \A x \in Nodes : (j # 1 => x # p[j-1]) => nx2[x] = nx[x]
  BY <1>3, <1>6, <1>7
<1>9. /\ cb2 \in [Nodes -> Callbacks \cup {NULL}]
      /\ \A x \in Nodes : x # n => cb2[x] = cb[x]
  BY <1>3, <1>6
<1>10. /\ fs[c] = p[1] /\ ls[c] = p[Len(p)]
  <2>1. Len(p) # 0
    BY <1>2
  <2>. QED BY <1>1, <2>1 DEF Threads
<1>11. /\ fs2 \in [Channels -> Nodes \cup {NULL}] /\ \A d \in Channels : d # c => fs2[d] = fs[d]
       /\ fs2[c] = IF Len(q) = 0 THEN NULL ELSE q[1]
  <2>1. CASE j = 1
    <3>1. fs2 = [fs EXCEPT ![c] = nx[n]]
      BY <1>6, <2>1
    <3>2. nx[n] = IF Len(q) = 0 THEN NULL ELSE q[1]
      <4>1. CASE Len(p) = 1
        BY <1>4, <1>7, <2>1, <4>1
      <4>2. CASE Len(p) # 1
        <5>1. 1 \in 1 .. Len(p) - 1 /\ Len(q) # 0
          BY <1>2, <1>4, <4>2
        <5>2. q[1] = p[1+1]
          BY <1>4, <2>1, <5>1
        <5>. QED BY <1>7, <2>1, <4>2, <5>1, <5>2
      <4>. QED BY <4>1, <4>2
    <3>. QED BY <1>3, <1>7, <3>1, <3>2
  <2>2. CASE j # 1
    <3>1. 1 \in 1 .. Len(p) - 1 /\ 1 < j
      BY <1>2, <2>2
    <3>2. q[1] = p[1] /\ Len(q) # 0
      BY <1>2, <1>4, <3>1
    <3>. QED BY <1>3, <1>6, <1>10, <2>2, <3>2
  <2>. QED BY <2>1, <2>2
<1>12. /\ ls2 \in [Channels -> Nodes \cup {NULL}] /\ \A d \in Channels : d # c => ls2[d] = ls[d]
       /\ ls2[c] = IF Len(q) = 0 THEN NULL ELSE q[Len(q)]
  <2>1. CASE j = Len(p)
    <3>1. PICK b : b = IF j = 1 THEN NULL ELSE p[j-1]
      OBVIOUS
    <3>2. ls2 = [ls EXCEPT ![c] = b] /\ b \in Nodes \cup {NULL}
      BY <1>6, <1>7, <2>1, <3>1
    <3>3. b = IF Len(q) = 0 THEN NULL ELSE q[Len(q)]
      <4>1. CASE j = 1
        BY <1>4, <2>1, <3>1, <4>1
      <4>2. CASE j # 1
        <5>1. j - 1 \in 1 .. Len(p) - 1 /\ Len(q) = j - 1 /\ j - 1 < j /\ Len(q) # 0
          BY <1>2, <1>4, <2>1, <4>2
        <5>. QED BY <1>4, <3>1, <4>2, <5>1
      <4>. QED BY <4>1, <4>2
    <3>. QED BY <1>3, <3>2, <3>3
  <2>2. CASE j # Len(p)
    <3>1. Len(p) - 1 \in 1 .. Len(p) - 1 /\ ~(Len(p) - 1 < j) /\ (Len(p) - 1) + 1 = Len(p) /\ Len(p) - 1 # 0
      BY <1>2, <2>2
    <3>2. q[Len(q)] = p[Len(p)] /\ Len(q) # 0
      BY <1>4, <3>1
    <3>3. ls2 = ls
      BY <1>6, <1>7, <2>2
    <3>. QED BY <1>3, <1>10, <3>2, <3>3
  <2>. QED BY <2>1, <2>2
<1>13. Line(nx2, q)
  <2>1. ASSUME NEW i \in 1 .. Len(q) PROVE nx2[q[i]] = IF i = Len(q) THEN NULL ELSE q[i+1]
    <3>1. i \in 1 .. Len(p) /\ i + 1 \in 1 .. Len(p) /\ i \in 1 .. Len(p) - 1
      BY <1>2, <1>4
    <3>2. CASE i + 1 < j
      <4>1. /\ i + 1 \in 1 .. Len(p) - 1 /\ i # Len(q) /\ i # Len(p) /\ i < j
            /\ j - 1 \in 1 .. Len(p) /\ i # j - 1
        BY <1>2, <1>4, <3>1, <3>2
      <4>2. q[i] = p[i] /\ q[i+1] = p[i+1]
        BY <1>4, <3>1, <3>2, <4>1
      <4>3. p[i] # p[j-1] /\ nx[p[i]] = p[i+1] /\ p[i] \in Nodes
        BY <1>2, <3>1, <4>1
      <4>. QED BY <1>8, <4>1, <4>2, <4>3
    <3>3. CASE i + 1 = j
      <4>1. q[i] = p[i] /\ j - 1 = i /\ j # 1
        BY <1>4, <3>1, <3>3
      <4>2. nx2[q[i]] = nx[n]
        BY <1>8, <4>1
      <4>3. CASE j = Len(p)
        BY <1>4, <1>7, <3>3, <4>2, <4>3
      <4>4. CASE j # Len(p)
        <5>1. i + 1 \in 1 .. Len(p) - 1 /\ ~(i + 1 < j) /\ (i + 1) + 1 = j + 1 /\ i # Len(q)
          BY <1>2, <1>4, <3>3, <4>4
        <5>2. q[i+1] = p[j+1]
          BY <1>4, <5>1
        <5>. QED BY <1>7, <4>2, <4>4, <5>1, <5>2
      <4>. QED BY <4>3, <4>4
    <3>4. CASE i >= j
      <4>1. q[i] = p[i+1] /\ ~(i < j)
        BY <1>2, <1>4, <3>1, <3>4
      <4>2. p[i+1] \in Nodes /\ nx[p[i+1]] = (IF i + 1 = Len(p) THEN NULL ELSE p[(i+1)+1])
        BY <1>2, <3>1
      <4>3. j # 1 => p[i+1] # p[j-1]
        <5>1. j # 1 => j - 1 \in 1 .. Len(p) /\ i + 1 # j - 1
          BY <1>2, <3>1, <3>4
        <5>. QED BY <1>2, <3>1, <5>1
      <4>4. nx2[q[i]] = IF i + 1 = Len(p) THEN NULL ELSE p[(i+1)+1]
        BY <1>8, <4>1, <4>2, <4>3
      <4>5. CASE i + 1 = Len(p)
        <5>1. i = Len(q)
          BY <1>2, <1>4, <3>1, <4>5
        <5>. QED BY <4>4, <4>5, <5>1
      <4>6. CASE i + 1 # Len(p)
        <5>1. i + 1 \in 1 .. Len(p) - 1 /\ ~(i + 1 < j) /\ i # Len(q)
          BY <1>2, <1>4, <3>1, <3>4, <4>6
        <5>2. q[i+1] = p[(i+1)+1]
          BY <1>4, <5>1
        <5>. QED BY <4>4, <4>6, <5>1, <5>2
      <4>. QED BY <4>5, <4>6
    <3>. QED BY <1>2, <3>1, <3>2, <3>3, <3>4
  <2>2. ASSUME NEW i \in 1 .. Len(q), NEW k \in 1 .. Len(q), q[i] = q[k] PROVE i = k
    <3>1. /\ i \in 1 .. Len(p) - 1 /\ k \in 1 .. Len(p) - 1
          /\ i \in 1 .. Len(p) /\ k \in 1 .. Len(p) /\ i + 1 \in 1 .. Len(p) /\ k + 1 \in 1 .. Len(p)
      BY <1>2, <1>4
    <3>2. q[i] = (IF i < j THEN p[i] ELSE p[i+1]) /\ q[k] = (IF k < j THEN p[k] ELSE p[k+1])
      BY <1>4, <3>1
    <3>3. (IF i < j THEN i ELSE i + 1) = (IF k < j THEN k ELSE k + 1)
      <4>1. PICK a \in 1 .. Len(p), b \in 1 .. Len(p) :
              /\ a = (IF i < j THEN i ELSE i + 1) /\ b = (IF k < j THEN k ELSE k + 1)
              /\ q[i] = p[a] /\ q[k] = p[b]
        BY <3>1, <3>2
      <4>2. p[a] = p[b]
        BY <2>2, <4>1
      <4>3. a = b
        BY <1>2, <4>2
      <4>. QED BY <4>1, <4>3
    <3>. QED BY <1>2, <3>1, <3>3
  <2>. QED BY <1>4, <2>1, <2>2 DEF Line
<1>14. ASSUME NEW d \in Channels, d # c
       PROVE  /\ Line(nx2, P[d])
              /\ \A i \in 1 .. Len(P[d]) : cb2[P[d][i]] # NULL
  <2>1. ASSUME NEW i \in 1 .. Len(P[d]), NEW k \in 1 .. Len(p) PROVE P[d][i] # p[k]
    BY <1>1, <1>14 DEF Threads
  <2>2. ASSUME NEW i \in 1 .. Len(P[d])
        PROVE  nx2[P[d][i]] = nx[P[d][i]] /\ cb2[P[d][i]] # NULL
    <3>1. P[d][i] \in Nodes /\ cb[P[d][i]] # NULL
      BY PathFacts
    <3>2. P[d][i] # n /\ (j # 1 => P[d][i] # p[j-1])
      BY <1>1, <1>2, <1>7, <2>1
    <3>. QED BY <1>8, <1>9, <3>1, <3>2
  <2>3. Line(nx, P[d])
    BY DEF Threads
  <2>. QED BY <2>2, <2>3, SameLine
<1>15. ASSUME NEW i \in 1 .. Len(q) PROVE cb2[q[i]] # NULL /\ \E k \in 1 .. Len(p) : q[i] = p[k]
  <2>1. i \in 1 .. Len(p) - 1 /\ i \in 1 .. Len(p) /\ i + 1 \in 1 .. Len(p)
    BY <1>2, <1>4
  <2>2. q[i] = (IF i < j THEN p[i] ELSE p[i+1]) /\ q[i] # n
    BY <1>4, <2>1
  <2>. QED BY <1>2, <1>9, <2>1, <2>2
<1>16. ASSUME NEW d \in Channels
       PROVE  /\ Line(nx2, Q[d])
              /\ fs2[d] = IF Len(Q[d]) = 0 THEN NULL ELSE Q[d][1]
              /\ ls2[d] = IF Len(Q[d]) = 0 THEN NULL ELSE Q[d][Len(Q[d])]
              /\ \A i \in 1 .. Len(Q[d]) : cb2[Q[d][i]] # NULL
  <2>1. CASE d = c
    BY <1>5, <1>11, <1>12, <1>13, <1>15, <2>1
  <2>2. CASE d # c
    <3>1. /\ fs[d] = IF Len(P[d]) = 0 THEN NULL ELSE P[d][1]
          /\ ls[d] = IF Len(P[d]) = 0 THEN NULL ELSE P[d][Len(P[d])]
      BY DEF Threads
    <3>. QED BY <1>5, <1>11, <1>12, <1>14, <2>2, <3>1
  <2>. QED BY <2>1, <2>2
<1>17. ASSUME NEW d \in Channels, NEW e \in Channels, d # e,
              NEW i \in 1 .. Len(Q[d]), NEW k \in 1 .. Len(Q[e])
       PROVE  Q[d][i] # Q[e][k]
  <2>1. ASSUME NEW b \in Channels, NEW m \in 1 .. Len(Q[b]) PROVE \E x \in 1 .. Len(P[b]) : Q[b][m] = P[b][x]
    <3>1. CASE b = c
      BY <1>1, <1>5, <1>15, <2>1, <3>1
    <3>2. CASE b # c
      BY <1>5, <2>1, <3>2
    <3>. QED BY <3>1, <3>2
  <2>2. PICK x \in 1 .. Len(P[d]) : Q[d][i] = P[d][x]
    BY <2>1
  <2>3. PICK y \in 1 .. Len(P[e]) : Q[e][k] = P[e][y]
    BY <2>1
  <2>. QED BY <1>17, <2>2, <2>3 DEF Threads
<1>18. Threads(fs2, ls2, nx2, cb2, Q)
  BY <1>5, <1>8, <1>9, <1>11, <1>12, <1>16, <1>17 DEF Threads
<1>. QED BY <1>1, <1>18

-----------------------------------------------------------------------------
(* Dispatches under way, and the lists they walk.                          *)

\* Frame fr stands on a node of its object, and what it has still to call follows.
Follows(P, fr) ==
  fr.kind = "listener" /\ fr.node # NULL =>
    \E t \in Types : \E j \in 1 .. Len(P[<<fr.object, t>>]) :
      P[<<fr.object, t>>][j] = fr.node /\ fr.due \subseteq From(P[<<fr.object, t>>], j + 1)

Stands(P, st) == \A i \in 1 .. Len(st) : Follows(P, st[i])

LEMMA FollowsAppend ==
  ASSUME NEW P \in [Channels -> Seq(Nodes)], NEW fr, fr.object \in Objects, Follows(P, fr),
         NEW c \in Channels, NEW n \in Nodes
  PROVE  Follows([P EXCEPT ![c] = Append(@, n)], fr)
<1>1. PICK Q : Q = [P EXCEPT ![c] = Append(@, n)]
  OBVIOUS
<1>2. SUFFICES ASSUME fr.kind = "listener", fr.node # NULL
               PROVE  \E t \in Types : \E j \in 1 .. Len(Q[<<fr.object, t>>]) :
                        Q[<<fr.object, t>>][j] = fr.node /\ fr.due \subseteq From(Q[<<fr.object, t>>], j + 1)
  BY <1>1 DEF Follows
<1>3. PICK t \in Types : \E j \in 1 .. Len(P[<<fr.object, t>>]) :
         P[<<fr.object, t>>][j] = fr.node /\ fr.due \subseteq From(P[<<fr.object, t>>], j + 1)
  BY <1>2 DEF Follows
<1>4. PICK d \in Channels : d = <<fr.object, t>>
  BY DEF Channels
<1>5. PICK j \in 1 .. Len(P[d]) : P[d][j] = fr.node /\ fr.due \subseteq From(P[d], j + 1)
  BY <1>3, <1>4
<1>6. P[d] \in Seq(Nodes) /\ Len(P[d]) \in Nat
  OBVIOUS
<1>7. CASE d = c
  <2>1. Q[d] = Append(P[d], n)
    BY <1>1, <1>7
  <2>2. Len(Q[d]) = Len(P[d]) + 1 /\ \A i \in 1 .. Len(P[d]) : Q[d][i] = P[d][i]
    BY <1>6, <2>1
  <2>3. From(P[d], j + 1) \subseteq From(Q[d], j + 1)
    <3>1. ASSUME NEW k \in j + 1 .. Len(P[d]) PROVE k \in j + 1 .. Len(Q[d]) /\ Q[d][k] = P[d][k]
      BY <1>6, <2>2
    <3>. QED BY <3>1 DEF From
  <2>4. j \in 1 .. Len(Q[d]) /\ Q[d][j] = fr.node
    BY <1>5, <1>6, <2>2
  <2>. QED BY <1>4, <1>5, <2>3, <2>4
<1>8. CASE d # c
  <2>1. Q[d] = P[d]
    BY <1>1, <1>8
  <2>. QED BY <1>4, <1>5, <2>1
<1>. QED BY <1>7, <1>8

\* The frame after node n has been freed (Left).
Leaves(fr, n) == [fr EXCEPT !.node = IF @ = n THEN NULL ELSE @, !.due = @ \ {n}]

LEMMA FollowsRemove ==
  ASSUME NEW fs, NEW ls, NEW nx, NEW cb, NEW P, Threads(fs, ls, nx, cb, P),
         NEW fr \in Frames, fr.object \in Objects, Follows(P, fr),
         NEW c \in Channels, NEW j \in 1 .. Len(P[c])
  PROVE  Follows([P EXCEPT ![c] = Without(@, j)], Leaves(fr, P[c][j]))
<1>1. PICK Q, n, g : Q = [P EXCEPT ![c] = Without(@, j)] /\ n = P[c][j] /\ g = Leaves(fr, n)
  OBVIOUS
<1>2. /\ g.kind = fr.kind /\ g.object = fr.object /\ g.due = fr.due \ {n}
      /\ g.node = IF fr.node = n THEN NULL ELSE fr.node
  BY <1>1 DEF Leaves, Frames
<1>3. SUFFICES ASSUME g.kind = "listener", g.node # NULL
               PROVE  \E t \in Types : \E k \in 1 .. Len(Q[<<g.object, t>>]) :
                        Q[<<g.object, t>>][k] = g.node /\ g.due \subseteq From(Q[<<g.object, t>>], k + 1)
  BY <1>1 DEF Follows
<1>4. fr.kind = "listener" /\ fr.node # NULL /\ fr.node # n /\ g.node = fr.node
  BY <1>2, <1>3
<1>5. PICK t \in Types : \E k \in 1 .. Len(P[<<fr.object, t>>]) :
         P[<<fr.object, t>>][k] = fr.node /\ fr.due \subseteq From(P[<<fr.object, t>>], k + 1)
  BY <1>4 DEF Follows
<1>6. PICK d \in Channels : d = <<fr.object, t>>
  BY DEF Channels
<1>7. PICK k \in 1 .. Len(P[d]) : P[d][k] = fr.node /\ fr.due \subseteq From(P[d], k + 1)
  BY <1>5, <1>6
<1>8. P \in [Channels -> Seq(Nodes)]
  BY DEF Threads
<1>9. CASE d = c
  <2>1. PICK p, q : p = P[c] /\ q = Without(p, j)
    OBVIOUS
  <2>2. p \in Seq(Nodes) /\ Len(p) \in Nat /\ \A i, m \in 1 .. Len(p) : p[i] = p[m] => i = m
    BY <2>1, PathFacts
  <2>3. /\ Len(q) = Len(p) - 1
        /\ \A m \in 1 .. Len(p) : m # j =>
             \E i \in 1 .. Len(p) - 1 : i = (IF m < j THEN m ELSE m - 1) /\ q[i] = p[m]
    <3>1. Lacks(p, j, Without(p, j))
      BY <2>1, <2>2, WithoutFacts
    <3>. QED BY <2>1, <3>1 DEF Lacks
  <2>4. Q[d] = q /\ k \in 1 .. Len(p) /\ p[k] = fr.node /\ fr.due \subseteq From(p, k + 1) /\ p[j] = n
    BY <1>1, <1>7, <1>8, <1>9, <2>1
  <2>5. k # j
    BY <1>4, <2>4
  <2>6. PICK i \in 1 .. Len(p) - 1 : i = (IF k < j THEN k ELSE k - 1) /\ q[i] = p[k]
    BY <2>3, <2>4, <2>5
  <2>7. ASSUME NEW x \in g.due PROVE x \in From(q, i + 1)
    <3>1. x \in From(p, k + 1) /\ x # n
      BY <1>2, <2>4
    <3>2. PICK m \in k + 1 .. Len(p) : x = p[m]
      BY <3>1 DEF From
    <3>3. m \in 1 .. Len(p) /\ m # j
      BY <2>2, <2>4, <3>1, <3>2
    <3>4. PICK r \in 1 .. Len(p) - 1 : r = (IF m < j THEN m ELSE m - 1) /\ q[r] = p[m]
      BY <2>3, <3>3
    <3>5. r \in i + 1 .. Len(q)
      BY <2>2, <2>3, <2>5, <2>6, <3>2, <3>3, <3>4
    <3>. QED BY <3>2, <3>4, <3>5 DEF From
  <2>8. i \in 1 .. Len(Q[d]) /\ Q[d][i] = g.node
    BY <1>4, <2>3, <2>4, <2>6
  <2>9. g.due \subseteq From(Q[d], i + 1)
    BY <2>4, <2>7
  <2>. QED BY <1>2, <1>6, <2>8, <2>9
<1>10. CASE d # c
  <2>1. Q[d] = P[d]
    BY <1>1, <1>8, <1>10
  <2>2. g.due \subseteq From(Q[d], k + 1) /\ Q[d][k] = g.node /\ k \in 1 .. Len(Q[d])
    BY <1>2, <1>4, <1>7, <2>1
  <2>. QED BY <1>2, <1>6, <2>2
<1>. QED BY <1>9, <1>10

-----------------------------------------------------------------------------
(* The inductive invariant.                                                *)

Timers == [object : Objects, event : Events]

\* What TypeOK says, but for the pointers.
State ==
  /\ known \subseteq Channels
  /\ listeners \in 0 .. Limit - 1 /\ vain \in 0 .. MaxVain
  /\ timers \in Seq(Timers) /\ Len(timers) <= MaxTimers
  /\ stack \in Seq(Frames) /\ Depth <= MaxDepth
  /\ count \in [Things -> Nat] /\ held \in [Things -> 0 .. MaxHeld] /\ lost \in [Things -> Nat]
  /\ fault \in {"none", "null", "wild", "freed"}

\* Listeners run on a loop, and are the only frames that refer to objects.
Nests(st, i) ==
  IF st[i].kind = "listener"
    THEN i > 1 /\ st[i-1].kind = "loop" /\ st[i].object \in Objects /\ st[i].event \in Events
    ELSE st[i].object = NULL /\ st[i].event = NULL /\ i < MaxDepth

Nested == \A i \in 1 .. Depth : Nests(stack, i)

\* The lists are linked, freed objects have none, and dispatches stand on them.
Pointers ==
  \E P : /\ Threads(first, last, next, callback, P) /\ Stands(P, stack)
         /\ \A c \in Channels \ known : Len(P[c]) = 0

Inv == State /\ Nested /\ Pointers /\ ObjectCount /\ WorkCounted

LEMMA Bounds ==
  /\ Limit \in Nat \ {0} /\ MaxHeld \in Nat \ {0} /\ MaxTimers \in Nat \ {0}
  /\ MaxDepth \in Nat \ {0} /\ MaxVain \in Nat \ {0} /\ MaxLost \in Nat \ {0}
BY BoundsAssumption

LEMMA Kinds ==
  /\ Objects \subseteq Things /\ Events \subseteq Things /\ Callbacks \subseteq Things
  /\ \A x \in Things : x # NULL
  /\ \A o \in Objects, e \in Events : o # e
BY KindsAssumption DEF Things

LEMMA ProgramFrame ==
  /\ Program \in Frames /\ Program.kind = "program" /\ Program.object = NULL /\ Program.event = NULL
  /\ Loop \in Frames /\ Loop.kind = "loop" /\ Loop.object = NULL /\ Loop.event = NULL
BY DEF Program, Loop, Frames

LEMMA NodeSets ==
  ASSUME NEW S, S \subseteq Nodes PROVE IsFiniteSet(S) /\ Cardinality(S) \in Nat
BY KindsAssumption, FS_Subset, FS_CardinalityType

-----------------------------------------------------------------------------
(* Counting.                                                               *)

\* The nodes that hold x.
Holding(cb, x) == Cardinality({n \in Nodes : cb[n] = x})

\* ct is hl and lo and the references of nodes, timers and frames.
Counted(ct, hl, lo, cb, tm, st) ==
  /\ ct = [x \in Things |-> ct[x]] /\ DOMAIN ct = Things
  /\ \A x \in Things :
       ct[x] = hl[x] + lo[x] + (Holding(cb, x) + Pending(tm, x) + Pending(st, x))

LEMMA CountedIs ==
  ASSUME State
  PROVE  ObjectCount <=> Counted(count, held, lost, callback, timers, stack)
BY DEF State, ObjectCount, Refs, Counted, Holding, Pending

LEMMA CountTypes ==
  ASSUME State, NEW x \in Things
  PROVE  /\ count[x] \in Nat /\ held[x] \in Nat /\ lost[x] \in Nat /\ Holding(callback, x) \in Nat
         /\ Pending(timers, x) \in Nat /\ Pending(stack, x) \in Nat
<1>1. Holding(callback, x) \in Nat
  BY NodeSets DEF Holding
<1>2. Pending(timers, x) \in Nat /\ Pending(stack, x) \in Nat
  BY PendingUpTo DEF State
<1>. QED BY <1>1, <1>2, Bounds DEF State

LEMMA CountsAre ==
  ASSUME State, ObjectCount, NEW x \in Things
  PROVE  /\ count[x] = held[x] + lost[x] + (Holding(callback, x) + Pending(timers, x) + Pending(stack, x))
         /\ count[x] \in Nat /\ held[x] \in Nat /\ lost[x] \in Nat /\ Holding(callback, x) \in Nat
         /\ Pending(timers, x) \in Nat /\ Pending(stack, x) \in Nat
BY CountTypes, CountedIs DEF Counted

Sums ==
  \A x \in Things :
    /\ count[x] = held[x] + lost[x] + (Holding(callback, x) + Pending(timers, x) + Pending(stack, x))
    /\ count[x] \in Nat /\ held[x] \in Nat /\ lost[x] \in Nat /\ Holding(callback, x) \in Nat
    /\ Pending(timers, x) \in Nat /\ Pending(stack, x) \in Nat

LEMMA SumsHold == State /\ ObjectCount => Sums
<1>. SUFFICES ASSUME State, ObjectCount PROVE Sums
  OBVIOUS
<1>1. ASSUME NEW x \in Things
      PROVE  /\ count[x] = held[x] + lost[x] + (Holding(callback, x) + Pending(timers, x) + Pending(stack, x))
             /\ count[x] \in Nat /\ held[x] \in Nat /\ lost[x] \in Nat /\ Holding(callback, x) \in Nat
             /\ Pending(timers, x) \in Nat /\ Pending(stack, x) \in Nat
  BY CountsAre
<1>. QED BY <1>1 DEF Sums

LEMMA MoreLess ==
  ASSUME NEW f, DOMAIN f = Things, NEW S
  PROVE  /\ More(f, S) = [x \in Things |-> More(f, S)[x]] /\ DOMAIN More(f, S) = Things
         /\ \A x \in Things : More(f, S)[x] = IF x \in S THEN f[x] + 1 ELSE f[x]
         /\ Less(f, S) = [x \in Things |-> Less(f, S)[x]] /\ DOMAIN Less(f, S) = Things
         /\ \A x \in Things : Less(f, S)[x] = IF x \in S THEN f[x] - 1 ELSE f[x]
BY DEF More, Less

\* When the other conjuncts are clear, the new counts give the rest of State.
LEMMA StateNext ==
  ASSUME known' \subseteq Channels,
         listeners' \in 0 .. Limit - 1, vain' \in 0 .. MaxVain,
         timers' \in Seq(Timers), Len(timers') <= MaxTimers,
         stack' \in Seq(Frames), Len(stack') <= MaxDepth,
         held' \in [Things -> 0 .. MaxHeld], lost' \in [Things -> Nat],
         fault' \in {"none", "null", "wild", "freed"},
         Counted(count', held', lost', callback', timers', stack')
  PROVE  State' /\ ObjectCount'
<1>1. ASSUME NEW x \in Things PROVE count'[x] \in Nat
  <2>1. Holding(callback', x) \in Nat
    BY NodeSets DEF Holding
  <2>2. Pending(timers', x) \in Nat /\ Pending(stack', x) \in Nat
    BY PendingUpTo
  <2>3. held'[x] \in Nat /\ lost'[x] \in Nat
    BY Bounds
  <2>. QED BY <2>1, <2>2, <2>3 DEF Counted
<1>2. count' \in [Things -> Nat]
  BY <1>1 DEF Counted
<1>3. State'
  BY <1>2 DEF State, Depth
<1>4. (State => (ObjectCount <=> Counted(count, held, lost, callback, timers, stack)))'
  BY CountedIs, PTL
<1>. QED BY <1>3, <1>4

-----------------------------------------------------------------------------
(* Objects are freed.                                                      *)

\* P without the lists of objects that are gone.
Kept(P, k) == [c \in Channels |-> IF c \in k THEN P[c] ELSE <<>>]

\* A release keeps the lists of the objects that dispatches refer to.
LEMMA ReleasePointers ==
  ASSUME NEW S, Release(S), Pointers, UNCHANGED <<next, callback>>,
         stack' \in Seq(Frames), \A i \in 1 .. Len(stack') : stack'[i].kind = "listener" =>
           stack'[i].object \in Objects /\ count'[stack'[i].object] > 0,
         \A P : Stands(P, stack) => Stands(P, stack')
  PROVE  Pointers' /\ known' \subseteq known
<1>1. PICK P : /\ Threads(first, last, next, callback, P) /\ Stands(P, stack)
               /\ \A c \in Channels \ known : Len(P[c]) = 0
  BY DEF Pointers
<1>2. PICK Q : Q = Kept(P, known')
  OBVIOUS
<1>3. /\ known' = {c \in known : count'[c[1]] > 0}
      /\ first' = [c \in Channels |-> IF c \in known' THEN first[c] ELSE NULL]
      /\ last'  = [c \in Channels |-> IF c \in known' THEN last[c] ELSE NULL]
  BY DEF Release
<1>4. /\ Q \in [Channels -> Seq(Nodes)]
      /\ \A c \in Channels : IF c \in known' THEN Q[c] = P[c] ELSE Q[c] = <<>> /\ Len(Q[c]) = 0
  <2>1. P \in [Channels -> Seq(Nodes)] /\ <<>> \in Seq(Nodes) /\ Len(<<>>) = 0
    BY <1>1 DEF Threads
  <2>. QED BY <1>2, <2>1 DEF Kept
<1>5. Threads(first', last', next', callback', Q)
  <2>1. /\ first' \in [Channels -> Nodes \cup {NULL}] /\ last' \in [Channels -> Nodes \cup {NULL}]
        /\ next' \in [Nodes -> Nodes \cup {NULL}] /\ callback' \in [Nodes -> Callbacks \cup {NULL}]
    BY <1>1, <1>3 DEF Threads
  <2>2. ASSUME NEW c \in Channels
        PROVE  /\ Line(next', Q[c])
               /\ first'[c] = IF Len(Q[c]) = 0 THEN NULL ELSE Q[c][1]
               /\ last'[c] = IF Len(Q[c]) = 0 THEN NULL ELSE Q[c][Len(Q[c])]
               /\ \A i \in 1 .. Len(Q[c]) : callback'[Q[c][i]] # NULL
    <3>1. CASE c \in known'
      <4>1. Q[c] = P[c] /\ first'[c] = first[c] /\ last'[c] = last[c]
        BY <1>3, <1>4, <3>1
      <4>2. /\ Line(next, P[c])
            /\ first[c] = IF Len(P[c]) = 0 THEN NULL ELSE P[c][1]
            /\ last[c] = IF Len(P[c]) = 0 THEN NULL ELSE P[c][Len(P[c])]
            /\ \A i \in 1 .. Len(P[c]) : callback[P[c][i]] # NULL
        BY <1>1 DEF Threads
      <4>. QED BY <4>1, <4>2
    <3>2. CASE c \notin known'
      <4>1. Len(Q[c]) = 0 /\ Q[c] \in Seq(Nodes) /\ first'[c] = NULL /\ last'[c] = NULL
        BY <1>3, <1>4, <3>2
      <4>. QED BY <4>1 DEF Line
    <3>. QED BY <3>1, <3>2
  <2>3. ASSUME NEW c \in Channels, NEW d \in Channels, c # d,
               NEW i \in 1 .. Len(Q[c]), NEW j \in 1 .. Len(Q[d])
        PROVE  Q[c][i] # Q[d][j]
    <3>1. c \in known' /\ d \in known'
      BY <1>4, <2>3
    <3>2. Q[c] = P[c] /\ Q[d] = P[d]
      BY <1>4, <3>1
    <3>. QED BY <1>1, <2>3, <3>2 DEF Threads
  <2>. QED BY <1>4, <2>1, <2>2, <2>3 DEF Threads
<1>6. Stands(Q, stack')
  <2>1. Stands(P, stack')
    BY <1>1
  <2>2. ASSUME NEW i \in 1 .. Len(stack') PROVE Follows(Q, stack'[i])
    <3>1. PICK fr : fr = stack'[i]
      OBVIOUS
    <3>2. SUFFICES ASSUME fr.kind = "listener", fr.node # NULL
                   PROVE  \E t \in Types : \E j \in 1 .. Len(Q[<<fr.object, t>>]) :
                            Q[<<fr.object, t>>][j] = fr.node
                            /\ fr.due \subseteq From(Q[<<fr.object, t>>], j + 1)
      BY <3>1 DEF Follows
    <3>3. PICK t \in Types : \E j \in 1 .. Len(P[<<fr.object, t>>]) :
             P[<<fr.object, t>>][j] = fr.node /\ fr.due \subseteq From(P[<<fr.object, t>>], j + 1)
      BY <2>1, <3>1, <3>2 DEF Stands, Follows
    <3>4. fr.object \in Objects /\ count'[fr.object] > 0
      BY <3>1, <3>2
    <3>5. PICK d \in Channels : d = <<fr.object, t>>
      BY <3>4 DEF Channels
    <3>6. PICK j \in 1 .. Len(P[d]) : P[d][j] = fr.node /\ fr.due \subseteq From(P[d], j + 1)
      BY <3>3, <3>5
    <3>7. d \in known
      BY <1>1, <3>6
    <3>8. d \in known' /\ Q[d] = P[d]
      BY <1>3, <1>4, <3>4, <3>5, <3>7
    <3>. QED BY <3>5, <3>6, <3>8
  <2>. QED BY <2>2 DEF Stands
<1>7. \A c \in Channels \ known' : Len(Q[c]) = 0
  BY <1>4
<1>. QED BY <1>3, <1>5, <1>6, <1>7 DEF Pointers

-----------------------------------------------------------------------------
(* The initial state.                                                      *)

LEMMA InitInv == Init => Inv
<1>. SUFFICES ASSUME Init PROVE Inv
  OBVIOUS
<1>1. State
  BY Bounds DEF Init, State, Depth
<1>2. Nested
  BY DEF Init, Nested, Depth
<1>3. Pointers
  <2>1. PICK P : P = [c \in Channels |-> <<>>]
    OBVIOUS
  <2>2. P \in [Channels -> Seq(Nodes)] /\ \A c \in Channels : P[c] \in Seq(Nodes) /\ Len(P[c]) = 0
    BY <2>1
  <2>3. Threads(first, last, next, callback, P)
    BY <2>2 DEF Init, Threads, Line
  <2>4. Stands(P, stack)
    BY DEF Init, Stands
  <2>. QED BY <2>2, <2>3, <2>4 DEF Pointers
<1>4. ObjectCount
  <2>1. ASSUME NEW x \in Things PROVE count[x] = held[x] + lost[x] + (Holding(callback, x) + Pending(timers, x) + Pending(stack, x))
    <3>1. {n \in Nodes : callback[n] = x} = {}
      BY Kinds DEF Init
    <3>2. {i \in DOMAIN timers : x \in {timers[i].object, timers[i].event}} = {}
          /\ {i \in DOMAIN stack : x \in {stack[i].object, stack[i].event}} = {}
      BY DEF Init
    <3>3. Holding(callback, x) = 0 /\ Pending(timers, x) = 0 /\ Pending(stack, x) = 0
      BY <3>1, <3>2, FS_EmptySet DEF Holding, Pending
    <3>. QED BY <3>3 DEF Init
  <2>2. Counted(count, held, lost, callback, timers, stack)
    BY <2>1 DEF Counted, Init
  <2>. QED BY <1>1, <2>2, CountedIs
<1>5. WorkCounted
  <2>1. Used = {}
    BY DEF Used, Init
  <2>2. Cardinality(Used) = 0
    BY <2>1, FS_EmptySet
  <2>3. 0 % Limit = 0
    BY Bounds
  <2>. QED BY <2>2, <2>3 DEF WorkCounted, Init
<1>. QED BY <1>1, <1>2, <1>3, <1>4, <1>5 DEF Inv

-----------------------------------------------------------------------------
(* Steps that leave the lists, timers and frames alone.                    *)

LEMMA PointersSame ==
  ASSUME Pointers, UNCHANGED <<known, first, last, next, callback>>,
         \A P : Stands(P, stack) => Stands(P, stack')
  PROVE  Pointers'
BY DEF Pointers

LEMMA WorkSame ==
  ASSUME WorkCounted, UNCHANGED <<callback, listeners, vain>> PROVE WorkCounted'
BY DEF WorkCounted, Used

LEMMA Unchanging == Inv /\ UNCHANGED vars => Inv'
<1>. SUFFICES ASSUME Inv, UNCHANGED vars PROVE Inv'
  OBVIOUS
<1>1. State' /\ Nested' /\ ObjectCount'
  BY DEF Inv, State, Nested, Nests, ObjectCount, Refs, Depth, vars, table, counters
<1>. QED BY <1>1, PointersSame, WorkSame DEF Inv, vars, table, counters

LEMMA FaultStep ==
  ASSUME Inv, FireUndefined \/ (\E t \in Types : FireWild(t)) \/ FreedListener
  PROVE  Inv'
<1>1. /\ UNCHANGED <<known, first, last, next, callback, listeners, vain, timers, stack, count, held, lost>>
      /\ fault' \in {"none", "null", "wild", "freed"}
  BY DEF FireUndefined, FireWild, FreedListener, table, counters
<1>2. State' /\ Nested' /\ ObjectCount'
  BY <1>1 DEF Inv, State, Nested, Nests, ObjectCount, Refs, Depth
<1>. QED BY <1>1, <1>2, PointersSame, WorkSame DEF Inv

LEMMA CreateStep ==
  ASSUME Inv, NEW x \in Things, ObjCreate(x) \/ ObjRetain(x) PROVE Inv'
<1>1. /\ UNCHANGED <<known, first, last, next, callback, listeners, vain, timers, stack, lost, fault>>
      /\ count' = More(count, {x}) /\ held' = More(held, {x})
      /\ count[x] = 0 \/ held[x] < MaxHeld
  BY DEF ObjCreate, ObjRetain, table, counters
<1>2. DOMAIN count = Things /\ DOMAIN held = Things
  BY DEF Inv, State
<1>3. /\ count' = [y \in Things |-> count'[y]] /\ DOMAIN count' = Things
      /\ held' = [y \in Things |-> held'[y]]
      /\ \A y \in Things : /\ count'[y] = IF y = x THEN count[y] + 1 ELSE count[y]
                           /\ held'[y] = IF y = x THEN held[y] + 1 ELSE held[y]
  BY <1>1, <1>2, MoreLess
<1>4. ASSUME NEW y \in Things
      PROVE  /\ held'[y] \in 0 .. MaxHeld
             /\ count'[y] = held'[y] + lost[y] + (Holding(callback, y) + Pending(timers, y) + Pending(stack, y))
  <2>1. /\ count[y] = held[y] + lost[y] + (Holding(callback, y) + Pending(timers, y) + Pending(stack, y))
        /\ count[y] \in Nat /\ held[y] \in Nat /\ lost[y] \in Nat /\ Holding(callback, y) \in Nat
        /\ Pending(timers, y) \in Nat /\ Pending(stack, y) \in Nat
    BY CountsAre DEF Inv
  <2>2. held[y] \in 0 .. MaxHeld
    BY DEF Inv, State
  <2>3. y = x => held[y] + 1 \in 0 .. MaxHeld
    BY <1>1, <2>1, <2>2, Bounds
  <2>. QED BY <1>3, <2>1, <2>2, <2>3
<1>5. held' \in [Things -> 0 .. MaxHeld]
  BY <1>3, <1>4
<1>6. Counted(count', held', lost', callback', timers', stack')
  BY <1>1, <1>3, <1>4 DEF Counted
<1>7. State' /\ ObjectCount'
  <2>1. /\ known' \subseteq Channels
        /\ listeners' \in 0 .. Limit - 1 /\ vain' \in 0 .. MaxVain
        /\ timers' \in Seq(Timers) /\ Len(timers') <= MaxTimers
        /\ stack' \in Seq(Frames) /\ Len(stack') <= MaxDepth
        /\ lost' \in [Things -> Nat] /\ fault' \in {"none", "null", "wild", "freed"}
    BY <1>1 DEF Inv, State, Depth
  <2>. QED BY <1>5, <1>6, <2>1, StateNext
<1>8. Nested'
  BY <1>1 DEF Inv, Nested, Nests, Depth
<1>. QED BY <1>1, <1>7, <1>8, PointersSame, WorkSame DEF Inv

\* The objects of frames that stay are alive.
LEMMA FramesAlive ==
  ASSUME State', ObjectCount', Nested'
  PROVE  \A i \in 1 .. Len(stack') : stack'[i].kind = "listener" =>
           stack'[i].object \in Objects /\ count'[stack'[i].object] > 0
<1>. SUFFICES ASSUME NEW i \in 1 .. Len(stack'), stack'[i].kind = "listener"
              PROVE  stack'[i].object \in Objects /\ count'[stack'[i].object] > 0
  OBVIOUS
<1>1. PICK x : x = stack'[i].object
  OBVIOUS
<1>2. x \in Objects /\ x \in Things
  BY <1>1, Kinds DEF Nested, Nests, Depth
<1>3. Pending(stack', x) >= 1
  BY <1>1, PendingSome DEF State
<1>4. Sums'
  <2>1. (State /\ ObjectCount => Sums)'
    BY SumsHold, PTL
  <2>. QED BY <2>1
<1>5. /\ count'[x] = held'[x] + lost'[x] + (Holding(callback', x) + Pending(timers', x) + Pending(stack', x))
      /\ held'[x] \in Nat /\ lost'[x] \in Nat /\ Holding(callback', x) \in Nat
      /\ Pending(timers', x) \in Nat /\ Pending(stack', x) \in Nat
  BY <1>2, <1>4 DEF Sums
<1>. QED BY <1>1, <1>2, <1>3, <1>5

LEMMA ReleaseStep ==
  ASSUME Inv, NEW x \in Things, ObjRelease(x) PROVE Inv'
<1>1. /\ UNCHANGED <<next, callback, listeners, vain, timers, stack, lost, fault>>
      /\ held' = Less(held, {x}) /\ held[x] > 0 /\ Release({x})
      /\ count' = Less(count, {x})
  BY DEF ObjRelease, Release, counters
<1>2. DOMAIN count = Things /\ DOMAIN held = Things
  BY DEF Inv, State
<1>3. /\ count' = [y \in Things |-> count'[y]] /\ DOMAIN count' = Things
      /\ held' = [y \in Things |-> held'[y]]
      /\ \A y \in Things : /\ count'[y] = IF y = x THEN count[y] - 1 ELSE count[y]
                           /\ held'[y] = IF y = x THEN held[y] - 1 ELSE held[y]
  BY <1>1, <1>2, MoreLess
<1>4. ASSUME NEW y \in Things
      PROVE  /\ held'[y] \in 0 .. MaxHeld
             /\ count'[y] = held'[y] + lost[y] + (Holding(callback, y) + Pending(timers, y) + Pending(stack, y))
  <2>1. /\ count[y] = held[y] + lost[y] + (Holding(callback, y) + Pending(timers, y) + Pending(stack, y))
        /\ count[y] \in Nat /\ held[y] \in Nat /\ lost[y] \in Nat /\ Holding(callback, y) \in Nat
        /\ Pending(timers, y) \in Nat /\ Pending(stack, y) \in Nat
    BY CountsAre DEF Inv
  <2>2. held[y] \in 0 .. MaxHeld
    BY DEF Inv, State
  <2>3. CASE y = x
    <3>1. count'[y] = count[y] - 1 /\ held'[y] = held[y] - 1 /\ held[y] > 0
      BY <1>1, <1>3, <2>3
    <3>2. held[y] - 1 \in 0 .. MaxHeld
      BY <2>1, <2>2, <3>1, Bounds
    <3>3. count[y] - 1 = (held[y] - 1) + lost[y] + (Holding(callback, y) + Pending(timers, y) + Pending(stack, y))
      BY <2>1
    <3>. QED BY <3>1, <3>2, <3>3
  <2>4. CASE y # x
    <3>1. count'[y] = count[y] /\ held'[y] = held[y]
      BY <1>3, <2>4
    <3>. QED BY <2>1, <2>2, <3>1
  <2>. QED BY <2>3, <2>4
<1>5. held' \in [Things -> 0 .. MaxHeld]
  BY <1>3, <1>4
<1>6. Counted(count', held', lost', callback', timers', stack')
  BY <1>1, <1>3, <1>4 DEF Counted
<1>7. State' /\ ObjectCount'
  <2>1. /\ known' \subseteq Channels
        /\ listeners' \in 0 .. Limit - 1 /\ vain' \in 0 .. MaxVain
        /\ timers' \in Seq(Timers) /\ Len(timers') <= MaxTimers
        /\ stack' \in Seq(Frames) /\ Len(stack') <= MaxDepth
        /\ lost' \in [Things -> Nat] /\ fault' \in {"none", "null", "wild", "freed"}
    BY <1>1 DEF Inv, State, Depth, Release
  <2>. QED BY <1>5, <1>6, <2>1, StateNext
<1>8. Nested'
  BY <1>1 DEF Inv, Nested, Nests, Depth
<1>9. Pointers'
  <2>1. stack' \in Seq(Frames) /\ \A P : Stands(P, stack) => Stands(P, stack')
    BY <1>1, <1>7 DEF State
  <2>. QED BY <1>1, <1>7, <1>8, <2>1, FramesAlive, ReleasePointers DEF Inv
<1>. QED BY <1>1, <1>7, <1>8, <1>9, WorkSame DEF Inv
-----------------------------------------------------------------------------
(* Steps of programs and loops.                                            *)

\* What the frames and timers lose, lost gains, and count with them.
LEMMA Balance ==
  ASSUME State, ObjectCount, UNCHANGED <<callback, listeners, vain, held>>, known' \subseteq Channels,
         timers' \in Seq(Timers), Len(timers') <= MaxTimers,
         stack' \in Seq(Frames), Len(stack') <= MaxDepth,
         lost' \in [Things -> Nat], fault' \in {"none", "null", "wild", "freed"},
         count' = [x \in Things |-> count'[x]], DOMAIN count' = Things,
         \A x \in Things : /\ count'[x] \in Int
                           /\ count'[x] + lost[x] + Pending(timers, x) + Pending(stack, x)
                                = count[x] + lost'[x] + Pending(timers', x) + Pending(stack', x)
  PROVE  State' /\ ObjectCount'
<1>1. ASSUME NEW x \in Things
      PROVE  count'[x] = held'[x] + lost'[x] + (Holding(callback', x) + Pending(timers', x) + Pending(stack', x))
  <2>1. /\ count[x] = held[x] + lost[x] + (Holding(callback, x) + Pending(timers, x) + Pending(stack, x))
        /\ count[x] \in Nat /\ held[x] \in Nat /\ lost[x] \in Nat /\ Holding(callback, x) \in Nat
        /\ Pending(timers, x) \in Nat /\ Pending(stack, x) \in Nat
    BY CountsAre
  <2>2. Pending(timers', x) \in Nat
    BY PendingUpTo
  <2>3. Pending(stack', x) \in Nat
    BY PendingUpTo
  <2>4. lost'[x] \in Nat /\ lost[x] \in Nat /\ count'[x] \in Int /\ held'[x] = held[x] /\ Holding(callback', x) = Holding(callback, x)
    BY <2>1
  <2>5. count'[x] + lost[x] + Pending(timers, x) + Pending(stack, x)
          = count[x] + lost'[x] + Pending(timers', x) + Pending(stack', x)
    BY Zenon
  <2>6. PICK c, h, l, n, t, r, c1, l1, t1, r1 :
          /\ c = count[x] /\ h = held[x] /\ l = lost[x] /\ n = Holding(callback, x)
          /\ t = Pending(timers, x) /\ r = Pending(stack, x)
          /\ c1 = count'[x] /\ l1 = lost'[x] /\ t1 = Pending(timers', x) /\ r1 = Pending(stack', x)
    OBVIOUS
  <2>7. c = h + l + (n + t + r) /\ c1 + l + t + r = c + l1 + t1 + r1
    BY <2>1, <2>5, <2>6
  <2>8. /\ c \in Nat /\ h \in Nat /\ l \in Nat /\ n \in Nat /\ t \in Nat /\ r \in Nat
        /\ c1 \in Int /\ l1 \in Nat /\ t1 \in Nat /\ r1 \in Nat
    BY <2>1, <2>2, <2>3, <2>4, <2>6
  <2>9. c1 = h + l1 + (n + t1 + r1)
    BY ONLY <2>7, <2>8
  <2>. QED BY <2>4, <2>6, <2>9
<1>2. Counted(count', held', lost', callback', timers', stack')
  BY <1>1 DEF Counted
<1>3. listeners' \in 0 .. Limit - 1 /\ vain' \in 0 .. MaxVain /\ held' \in [Things -> 0 .. MaxHeld]
  BY DEF State
<1>. QED BY <1>2, <1>3, StateNext

\* The frames refer to the same objects as before.
LEMMA StillCounted ==
  ASSUME State, ObjectCount, stack' \in Seq(Frames), Len(stack') <= MaxDepth,
         UNCHANGED <<known, callback, listeners, vain, timers, count, held, lost, fault>>,
         \A x \in Things : Pending(stack', x) = Pending(stack, x)
  PROVE  State' /\ ObjectCount'
<1>1. /\ known' \subseteq Channels /\ timers' \in Seq(Timers) /\ Len(timers') <= MaxTimers
      /\ lost' \in [Things -> Nat] /\ fault' \in {"none", "null", "wild", "freed"}
      /\ count' = [x \in Things |-> count'[x]] /\ DOMAIN count' = Things
      /\ \A x \in Things : count'[x] \in Int
  BY DEF State
<1>2. \A x \in Things : count'[x] + lost[x] + Pending(timers, x) + Pending(stack, x)
                          = count[x] + lost'[x] + Pending(timers', x) + Pending(stack', x)
  OBVIOUS
<1>. QED BY <1>1, <1>2, Balance

\* The innermost frames are dropped.
LEMMA Front ==
  ASSUME State, Nested, NEW k \in 0 .. Depth, stack' = SubSeq(stack, 1, k)
  PROVE  /\ stack' \in Seq(Frames) /\ Len(stack') = k /\ Len(stack') <= MaxDepth /\ Nested'
         /\ \A P : Stands(P, stack) => Stands(P, stack')
<1>1. stack \in Seq(Frames) /\ Len(stack) \in Nat /\ Depth = Len(stack) /\ Len(stack) <= MaxDepth
  BY DEF State, Depth
<1>2. /\ stack' \in Seq(Frames) /\ Len(stack') = k /\ k \in Nat /\ k <= Len(stack)
      /\ \A i \in 1 .. k : stack'[i] = stack[i]
  BY <1>1
<1>3. ASSUME NEW i \in 1 .. k PROVE Nests(stack', i)
  <2>1. Nests(stack, i)
    BY <1>1, <1>2 DEF Nested
  <2>2. stack'[i] = stack[i] /\ (i > 1 => stack'[i-1] = stack[i-1])
    BY <1>2
  <2>. QED BY <2>1, <2>2 DEF Nests
<1>4. ASSUME NEW P, Stands(P, stack) PROVE Stands(P, stack')
  BY <1>1, <1>2, <1>4 DEF Stands
<1>. QED BY <1>1, <1>2, <1>3, <1>4, Bounds DEF Nested, Depth

\* A frame is added.
LEMMA Push ==
  ASSUME State, Nested, NEW fr \in Frames, stack' = Append(stack, fr),
         IF fr.kind = "listener"
           THEN /\ stack # <<>> /\ Top.kind = "loop" /\ Depth < MaxDepth
                /\ fr.object \in Objects /\ fr.event \in Events
           ELSE fr.object = NULL /\ fr.event = NULL /\ Depth < MaxDepth - 1
  PROVE  /\ stack' \in Seq(Frames) /\ Len(stack') = Depth + 1 /\ Len(stack') <= MaxDepth /\ Nested'
         /\ \A P : Stands(P, stack) /\ Follows(P, fr) => Stands(P, stack')
<1>1. stack \in Seq(Frames) /\ Len(stack) \in Nat /\ Depth = Len(stack) /\ Top = stack[Len(stack)]
  BY DEF State, Depth, Top
<1>2. /\ stack' \in Seq(Frames) /\ Len(stack') = Len(stack) + 1 /\ stack'[Len(stack) + 1] = fr
      /\ \A i \in 1 .. Len(stack) : stack'[i] = stack[i]
  BY <1>1
<1>3. Len(stack') <= MaxDepth
  BY <1>1, <1>2, Bounds
<1>4. ASSUME NEW i \in 1 .. Len(stack') PROVE Nests(stack', i)
  <2>1. CASE i \in 1 .. Len(stack)
    <3>1. Nests(stack, i)
      BY <1>1, <2>1 DEF Nested
    <3>2. stack'[i] = stack[i] /\ (i > 1 => stack'[i-1] = stack[i-1])
      BY <1>1, <1>2, <2>1
    <3>. QED BY <3>1, <3>2 DEF Nests
  <2>2. CASE i = Len(stack) + 1
    <3>1. stack # <<>> => i > 1 /\ stack'[i-1] = stack[Len(stack)]
      BY <1>1, <1>2, <2>2
    <3>2. i < MaxDepth <=> Depth < MaxDepth - 1
      BY <1>1, <2>2, Bounds
    <3>. QED BY <1>1, <1>2, <2>2, <3>1, <3>2 DEF Nests
  <2>. QED BY <1>1, <1>2, <2>1, <2>2
<1>5. ASSUME NEW P, Stands(P, stack), Follows(P, fr) PROVE Stands(P, stack')
  <2>1. ASSUME NEW i \in 1 .. Len(stack') PROVE Follows(P, stack'[i])
    <3>1. i \in 1 .. Len(stack) \/ i = Len(stack) + 1
      BY <1>1, <1>2
    <3>. QED BY <1>2, <1>5, <3>1 DEF Stands
  <2>. QED BY <2>1 DEF Stands
<1>. QED BY <1>1, <1>2, <1>3, <1>4, <1>5 DEF Nested, Depth

\* The innermost frame changes, but refers to the same objects.
LEMMA Swap ==
  ASSUME State, Nested, stack # <<>>, NEW fr \in Frames, stack' = [stack EXCEPT ![Depth] = fr],
         fr.object = Top.object, fr.event = Top.event,
         fr.kind = Top.kind \/ (Top.kind = "program" /\ fr.kind = "loop")
  PROVE  /\ stack' \in Seq(Frames) /\ Len(stack') = Depth /\ Len(stack') <= MaxDepth /\ Nested'
         /\ \A x : Pending(stack', x) = Pending(stack, x)
         /\ \A P : Stands(P, stack) /\ Follows(P, fr) => Stands(P, stack')
<1>1. /\ stack \in Seq(Frames) /\ Len(stack) \in Nat /\ Depth = Len(stack) /\ Top = stack[Len(stack)]
      /\ Len(stack) <= MaxDepth
  BY DEF State, Depth, Top
<1>2. /\ stack' \in Seq(Frames) /\ Len(stack') = Len(stack)
      /\ \A i \in 1 .. Len(stack) : stack'[i] = IF i = Len(stack) THEN fr ELSE stack[i]
  BY <1>1
<1>3. ASSUME NEW i \in 1 .. Len(stack) PROVE Nests(stack', i)
  <2>1. Nests(stack, i) /\ (i > 1 => i - 1 \in 1 .. Len(stack) /\ i - 1 # Len(stack))
    BY <1>1 DEF Nested
  <2>2. i > 1 => stack'[i-1] = stack[i-1]
    BY <1>2, <2>1
  <2>3. CASE i = Len(stack)
    <3>1. stack'[i] = fr /\ stack[i] = Top
      BY <1>1, <1>2, <2>3
    <3>. QED BY <2>1, <2>2, <3>1 DEF Nests
  <2>4. CASE i # Len(stack)
    <3>1. stack'[i] = stack[i]
      BY <1>2, <2>4
    <3>. QED BY <2>1, <2>2, <3>1 DEF Nests
  <2>. QED BY <2>3, <2>4
<1>4. ASSUME NEW x PROVE Pending(stack', x) = Pending(stack, x)
  <2>1. DOMAIN stack' = 1 .. Len(stack) /\ DOMAIN stack = 1 .. Len(stack)
    BY <1>1, <1>2
  <2>2. ASSUME NEW i \in 1 .. Len(stack)
        PROVE  stack'[i].object = stack[i].object /\ stack'[i].event = stack[i].event
    <3>1. CASE i = Len(stack)
      <4>1. stack'[i] = fr /\ stack[i] = Top
        BY <1>1, <1>2, <3>1
      <4>. QED BY <4>1
    <3>2. CASE i # Len(stack)
      <4>1. stack'[i] = stack[i]
        BY <1>2, <3>2
      <4>. QED BY <4>1
    <3>. QED BY <3>1, <3>2
  <2>3. {i \in DOMAIN stack' : x \in {stack'[i].object, stack'[i].event}}
          = {i \in DOMAIN stack : x \in {stack[i].object, stack[i].event}}
    BY <2>1, <2>2
  <2>. QED BY <2>3 DEF Pending
<1>5. ASSUME NEW P, Stands(P, stack), Follows(P, fr) PROVE Stands(P, stack')
  BY <1>2, <1>5 DEF Stands
<1>. QED BY <1>1, <1>2, <1>3, <1>4, <1>5 DEF Nested, Depth

LEMMA ExecuteStep ==
  ASSUME Inv, Execute PROVE Inv'
<1>1. /\ UNCHANGED <<known, first, last, next, callback, listeners, vain, timers, count, held, lost, fault>>
      /\ stack' = Append(stack, Program) /\ Depth < MaxDepth - 1
  BY DEF Execute, table, counters
<1>2. State /\ Nested /\ Pointers /\ ObjectCount /\ WorkCounted
  BY DEF Inv
<1>3. /\ stack' \in Seq(Frames) /\ Len(stack') <= MaxDepth /\ Nested'
      /\ \A P : Stands(P, stack) /\ Follows(P, Program) => Stands(P, stack')
  BY <1>1, <1>2, ProgramFrame, Push
<1>4. \A P : Follows(P, Program)
  BY ProgramFrame DEF Follows
<1>5. ASSUME NEW x \in Things PROVE Pending(stack', x) = Pending(stack, x)
  <2>1. Pending(stack', x) = Pending(stack, x) + Hits(Program, x) /\ Pending(stack, x) \in Nat
    BY <1>1, <1>2, ProgramFrame, PendingAppend, PendingUpTo DEF State
  <2>2. Hits(Program, x) = 0
    BY ProgramFrame, Kinds DEF Hits
  <2>. QED BY <2>1, <2>2
<1>6. State' /\ ObjectCount'
  BY <1>1, <1>2, <1>3, <1>5, StillCounted
<1>7. Pointers'
  BY <1>1, <1>2, <1>3, <1>4, PointersSame
<1>. QED BY <1>1, <1>2, <1>3, <1>6, <1>7, WorkSame DEF Inv

LEMMA LoopRunStep ==
  ASSUME Inv, LoopRun PROVE Inv'
<1>1. /\ UNCHANGED <<known, first, last, next, callback, listeners, vain, timers, count, held, lost, fault>>
      /\ stack' = [stack EXCEPT ![Depth] = Loop] /\ stack # <<>> /\ Top.kind = "program"
  BY DEF LoopRun, table, counters
<1>2. State /\ Nested /\ Pointers /\ ObjectCount /\ WorkCounted
  BY DEF Inv
<1>3. Top.object = NULL /\ Top.event = NULL
  <2>1. Depth \in 1 .. Depth
    BY <1>1, <1>2 DEF State, Depth
  <2>. QED BY <1>1, <1>2, <2>1 DEF Nested, Nests, Top
<1>4. /\ stack' \in Seq(Frames) /\ Len(stack') <= MaxDepth /\ Nested'
      /\ \A x : Pending(stack', x) = Pending(stack, x)
      /\ \A P : Stands(P, stack) /\ Follows(P, Loop) => Stands(P, stack')
  BY <1>1, <1>2, <1>3, ProgramFrame, Swap
<1>5. \A P : Follows(P, Loop)
  BY ProgramFrame DEF Follows
<1>6. State' /\ ObjectCount'
  BY <1>1, <1>2, <1>4, StillCounted
<1>7. Pointers'
  BY <1>1, <1>2, <1>4, <1>5, PointersSame
<1>. QED BY <1>1, <1>2, <1>4, <1>6, <1>7, WorkSame DEF Inv

\* What refers to x without the innermost frame.
LEMMA PendingTop ==
  ASSUME State, stack # <<>>, NEW x
  PROVE  /\ Pending(stack, x) = Pending(SubSeq(stack, 1, Depth - 1), x) + Hits(Top, x)
         /\ Pending(stack, x) \in Nat /\ Pending(SubSeq(stack, 1, Depth - 1), x) \in Nat
<1>1. /\ stack \in Seq(Frames) /\ Len(stack) \in Nat /\ Depth = Len(stack) /\ Len(stack) >= 1
      /\ Top = stack[Len(stack)]
  BY DEF State, Depth, Top
<1>2. Pending(stack, x) = Pending(SubSeq(stack, 1, Len(stack) - 1), x) + Hits(stack[Len(stack)], x)
  BY <1>1, PendingFront
<1>3. PICK u : u = SubSeq(stack, 1, Len(stack) - 1)
  OBVIOUS
<1>4. u \in Seq(Frames)
  BY <1>1, <1>3
<1>5. Pending(u, x) \in Nat /\ Pending(stack, x) \in Nat
  BY <1>1, <1>4, PendingUpTo
<1>. QED BY <1>1, <1>2, <1>3, <1>5

LEMMA TopNests ==
  ASSUME State, Nested, stack # <<>>
  PROVE  /\ Depth \in Nat /\ Depth >= 1 /\ Top \in Frames /\ Nests(stack, Depth) /\ Top = stack[Depth]
         /\ IF Top.kind = "listener"
              THEN Depth > 1 /\ stack[Depth-1].kind = "loop" /\ Top.object \in Objects /\ Top.event \in Events
              ELSE Top.object = NULL /\ Top.event = NULL /\ Depth < MaxDepth
<1>1. Depth \in Nat /\ Depth >= 1 /\ Depth \in 1 .. Depth /\ Top \in Frames /\ Top = stack[Depth]
  BY DEF State, Depth, Top
<1>2. Nests(stack, Depth)
  BY <1>1 DEF Nested
<1>. QED BY <1>1, <1>2 DEF Nests

\* A frame without objects is dropped.
LEMMA DropStep ==
  ASSUME Inv, stack # <<>>, Top.kind # "listener", stack' = SubSeq(stack, 1, Depth - 1),
         UNCHANGED <<known, first, last, next, callback, listeners, vain, timers, count, held, lost, fault>>
  PROVE  Inv'
<1>1. State /\ Nested /\ Pointers /\ ObjectCount /\ WorkCounted
  BY DEF Inv
<1>2. Depth - 1 \in 0 .. Depth
  BY <1>1, TopNests
<1>3. /\ stack' \in Seq(Frames) /\ Len(stack') <= MaxDepth /\ Nested'
      /\ \A P : Stands(P, stack) => Stands(P, stack')
  BY <1>1, <1>2, Front
<1>4. ASSUME NEW x \in Things PROVE Pending(stack', x) = Pending(stack, x)
  <2>1. Hits(Top, x) = 0
    BY <1>1, TopNests, Kinds DEF Hits
  <2>. QED BY <1>1, <2>1, PendingTop
<1>5. State' /\ ObjectCount'
  BY <1>1, <1>3, <1>4, StillCounted
<1>6. Pointers'
  BY <1>1, <1>3, PointersSame
<1>. QED BY <1>1, <1>3, <1>5, <1>6, WorkSame DEF Inv

LEMMA LoopEndsStep ==
  ASSUME Inv, LoopEnds PROVE Inv'
BY DropStep DEF LoopEnds, InLoop, table, counters

\* One more in f for each of S, which is the same in g.
LEMMA MoreNat ==
  ASSUME NEW f \in [Things -> Nat], NEW S
  PROVE  /\ More(f, S) \in [Things -> Nat]
         /\ More(f, S) = [x \in Things |-> More(f, S)[x]] /\ DOMAIN More(f, S) = Things
         /\ \A x \in Things : More(f, S)[x] = f[x] + (IF x \in S THEN 1 ELSE 0)
<1>1. DOMAIN f = Things /\ \A x \in Things : f[x] \in Nat
  OBVIOUS
<1>2. PICK g : g = More(f, S)
  OBVIOUS
<1>3. g = [x \in Things |-> g[x]] /\ DOMAIN g = Things
  BY <1>1, <1>2, MoreLess
<1>4. \A x \in Things : g[x] = IF x \in S THEN f[x] + 1 ELSE f[x]
  BY <1>1, <1>2, MoreLess
<1>5. ASSUME NEW x \in Things PROVE g[x] = f[x] + (IF x \in S THEN 1 ELSE 0) /\ g[x] \in Nat
  BY <1>1, <1>4
<1>. QED BY <1>2, <1>3, <1>5

\* The references of the dispatch are lost, its loop and program end.
LEMMA ThrowStep ==
  ASSUME Inv, Throw PROVE Inv'
<1>0. PICK L, S : L = Lasting(Dropped) /\ S = Dropped \ L
  OBVIOUS
<1>1. /\ UNCHANGED <<known, first, last, next, callback, listeners, vain, timers, held, fault>>
      /\ stack' = SubSeq(stack, 1, Depth - (IF Top.kind = "listener" THEN 2 ELSE 1))
      /\ lost' = More(lost, L) /\ count' = Less(count, S) /\ stack # <<>>
  BY <1>0 DEF Throw, Abandoned, table, counters
<1>2. State /\ Nested /\ Pointers /\ ObjectCount /\ WorkCounted
  BY DEF Inv
<1>3. CASE Top.kind # "listener"
  <2>1. L = {} /\ S = {}
    BY <1>0, <1>3 DEF Dropped, Lasting
  <2>2. lost' = lost /\ count' = count
    <3>1. DOMAIN lost = Things /\ DOMAIN count = Things /\ lost = [x \in Things |-> lost[x]]
          /\ count = [x \in Things |-> count[x]]
      BY <1>2 DEF State
    <3>. QED BY <1>1, <2>1, <3>1 DEF More, Less
  <2>. QED BY <1>1, <1>3, <2>2, DropStep
<1>4. CASE Top.kind = "listener"
  <2>0. Dropped = {Top.object, Top.event} /\ L \subseteq Dropped
    BY <1>0, <1>4 DEF Dropped, Lasting
  <2>1. /\ stack' = SubSeq(stack, 1, Depth - 2)
        /\ Depth \in Nat /\ Depth > 1 /\ Depth - 2 \in 0 .. Depth
        /\ stack[Depth-1].kind = "loop" /\ Depth - 1 \in 1 .. Depth
    BY <1>1, <1>2, <1>4, TopNests
  <2>2. /\ stack' \in Seq(Frames) /\ Len(stack') <= MaxDepth /\ Nested'
        /\ \A P : Stands(P, stack) => Stands(P, stack')
    BY <1>2, <2>1, Front
  <2>3. ASSUME NEW x \in Things
        PROVE  Pending(stack, x) = Pending(stack', x) + Hits(Top, x) /\ Pending(stack', x) \in Nat
    <3>1. PICK u : u = SubSeq(stack, 1, Depth - 1)
      OBVIOUS
    <3>2. Pending(stack, x) = Pending(u, x) + Hits(Top, x) /\ Pending(u, x) \in Nat
      BY <1>1, <1>2, <3>1, PendingTop
    <3>3. stack \in Seq(Frames) /\ Depth = Len(stack)
      BY <1>2 DEF State, Depth
    <3>4. u \in Seq(Frames) /\ Len(u) = Depth - 1 /\ Len(u) >= 1 /\ u[Len(u)] = stack[Depth-1]
      BY <2>1, <3>1, <3>3
    <3>5. SubSeq(u, 1, Len(u) - 1) = stack'
      BY <2>1, <3>1, <3>3, <3>4
    <3>6. Pending(u, x) = Pending(stack', x) + Hits(stack[Depth-1], x)
      BY <3>4, <3>5, PendingFront
    <3>7. Nests(stack, Depth - 1)
      BY <1>2, <2>1 DEF Nested
    <3>8. Hits(stack[Depth-1], x) = 0
      BY <2>1, <3>7, Kinds DEF Nests, Hits
    <3>9. Pending(stack', x) \in Nat
      BY <2>2, PendingUpTo
    <3>. QED BY ONLY <3>2, <3>6, <3>8, <3>9
  <2>4. /\ lost' \in [Things -> Nat]
        /\ \A x \in Things : lost'[x] = lost[x] + (IF x \in L THEN 1 ELSE 0)
    <3>1. lost \in [Things -> Nat]
      BY <1>2 DEF State
    <3>. QED BY <1>1, <3>1, MoreNat
  <2>5. /\ known' \subseteq Channels /\ timers' \in Seq(Timers) /\ Len(timers') <= MaxTimers
        /\ fault' \in {"none", "null", "wild", "freed"}
        /\ count' = [x \in Things |-> count'[x]] /\ DOMAIN count' = Things
        /\ \A x \in Things : count'[x] = IF x \in S THEN count[x] - 1 ELSE count[x]
    <3>1. DOMAIN count = Things
      BY <1>2 DEF State
    <3>2. /\ count' = [x \in Things |-> count'[x]] /\ DOMAIN count' = Things
          /\ \A x \in Things : count'[x] = IF x \in S THEN count[x] - 1 ELSE count[x]
      BY <1>1, <3>1, MoreLess
    <3>. QED BY <1>1, <1>2, <3>2 DEF State
  <2>6. ASSUME NEW x \in Things
        PROVE  /\ count'[x] \in Int
               /\ count'[x] + lost[x] + Pending(timers, x) + Pending(stack, x)
                    = count[x] + lost'[x] + Pending(timers', x) + Pending(stack', x)
    <3>1. count[x] \in Nat /\ lost[x] \in Nat /\ Pending(timers, x) \in Nat
      BY <1>2, CountTypes
    <3>2. Pending(stack, x) = Pending(stack', x) + Hits(Top, x) /\ Pending(stack', x) \in Nat
      BY <2>3
    <3>3. Pending(timers', x) = Pending(timers, x)
      BY <1>1
    <3>4. \/ Hits(Top, x) = 0 /\ count'[x] = count[x] /\ lost'[x] = lost[x]
          \/ Hits(Top, x) = 1 /\ count'[x] = count[x] /\ lost'[x] = lost[x] + 1
          \/ Hits(Top, x) = 1 /\ count'[x] = count[x] - 1 /\ lost'[x] = lost[x]
      <4>1. x \in Dropped <=> x \in L \/ x \in S
        BY <1>0, <2>0
      <4>2. ~(x \in L /\ x \in S)
        BY <1>0
      <4>3. Hits(Top, x) = IF x \in Dropped THEN 1 ELSE 0
        BY <2>0 DEF Hits
      <4>. QED BY <2>4, <2>5, <3>1, <4>1, <4>2, <4>3
    <3>. QED BY ONLY <3>1, <3>2, <3>3, <3>4
  <2>7. State' /\ ObjectCount'
    BY <1>1, <1>2, <2>2, <2>4, <2>5, <2>6, Balance
  <2>8. Pointers'
    BY <1>1, <1>2, <2>2, PointersSame
  <2>. QED BY <1>1, <1>2, <2>2, <2>7, <2>8, WorkSame DEF Inv
<1>. QED BY <1>3, <1>4

-----------------------------------------------------------------------------
(* Dispatches.                                                             *)

\* References of timers, of frames and lost ones are given back to S.
LEMMA Released ==
  ASSUME Inv, NEW S, Release(S), UNCHANGED <<next, callback, listeners, vain, held, fault>>,
         timers' \in Seq(Timers), Len(timers') <= MaxTimers,
         stack' \in Seq(Frames), Len(stack') <= MaxDepth, Nested',
         \A P : Stands(P, stack) => Stands(P, stack'),
         lost' \in [Things -> Nat],
         \A x \in Things :
           lost[x] + Pending(timers, x) + Pending(stack, x)
             = lost'[x] + Pending(timers', x) + Pending(stack', x) + (IF x \in S THEN 1 ELSE 0)
  PROVE  Inv'
<1>1. State /\ Nested /\ Pointers /\ ObjectCount /\ WorkCounted
  BY DEF Inv
<1>2. /\ known' \subseteq Channels /\ fault' \in {"none", "null", "wild", "freed"}
      /\ count' = [x \in Things |-> count'[x]] /\ DOMAIN count' = Things
      /\ \A x \in Things : count'[x] = IF x \in S THEN count[x] - 1 ELSE count[x]
  <2>1. DOMAIN count = Things /\ known \subseteq Channels /\ fault \in {"none", "null", "wild", "freed"}
    BY <1>1 DEF State
  <2>2. count' = Less(count, S) /\ known' \subseteq known
    BY DEF Release
  <2>3. Less(count, S) = [x \in Things |-> Less(count, S)[x]]
    BY <2>1, MoreLess
  <2>4. \A x \in Things : Less(count, S)[x] = IF x \in S THEN count[x] - 1 ELSE count[x]
    BY <2>1, MoreLess
  <2>5. DOMAIN Less(count, S) = Things
    BY <2>1, MoreLess
  <2>. QED BY <2>1, <2>2, <2>3, <2>4, <2>5
<1>3. ASSUME NEW x \in Things
      PROVE  /\ count'[x] \in Int
             /\ count'[x] + lost[x] + Pending(timers, x) + Pending(stack, x)
                  = count[x] + lost'[x] + Pending(timers', x) + Pending(stack', x)
  <2>1. count[x] \in Nat /\ lost[x] \in Nat /\ Pending(timers, x) \in Nat /\ Pending(stack, x) \in Nat
    BY <1>1, CountTypes
  <2>2. Pending(timers', x) \in Nat
    BY PendingUpTo
  <2>3. Pending(stack', x) \in Nat
    BY PendingUpTo
  <2>4. /\ count'[x] = IF x \in S THEN count[x] - 1 ELSE count[x]
        /\ lost'[x] \in Nat
        /\ lost[x] + Pending(timers, x) + Pending(stack, x)
             = lost'[x] + Pending(timers', x) + Pending(stack', x) + (IF x \in S THEN 1 ELSE 0)
    BY <1>2
  <2>5. CASE x \in S
    <3>1. /\ count'[x] = count[x] - 1
          /\ lost[x] + Pending(timers, x) + Pending(stack, x)
               = lost'[x] + Pending(timers', x) + Pending(stack', x) + 1
      BY <2>4, <2>5
    <3>2. lost'[x] \in Nat
      BY <2>4
    <3>. QED BY ONLY <2>1, <2>2, <2>3, <3>1, <3>2
  <2>6. CASE x \notin S
    <3>1. /\ count'[x] = count[x]
          /\ lost[x] + Pending(timers, x) + Pending(stack, x)
               = lost'[x] + Pending(timers', x) + Pending(stack', x) + 0
      BY <2>4, <2>6
    <3>2. lost'[x] \in Nat
      BY <2>4
    <3>. QED BY ONLY <2>1, <2>2, <2>3, <3>1, <3>2
  <2>. QED BY <2>5, <2>6
<1>4. State' /\ ObjectCount'
  BY <1>1, <1>2, <1>3, Balance
<1>5. \A i \in 1 .. Len(stack') : stack'[i].kind = "listener" =>
        stack'[i].object \in Objects /\ count'[stack'[i].object] > 0
  BY <1>4, FramesAlive
<1>6. Pointers'
  BY <1>1, <1>5, ReleasePointers
<1>. QED BY <1>1, <1>4, <1>6, WorkSame DEF Inv

\* What a timer refers to without the first.
LEMMA PendingHead ==
  ASSUME State, timers # <<>>, NEW x
  PROVE  /\ Pending(timers, x) = Pending(Tail(timers), x) + Hits(Head(timers), x)
         /\ Pending(timers, x) \in Nat /\ Pending(Tail(timers), x) \in Nat
<1>1. timers \in Seq(Timers)
  BY DEF State
<1>2. PICK u : u = Tail(timers)
  OBVIOUS
<1>3. u \in Seq(Timers)
  BY <1>1, <1>2
<1>4. Pending(u, x) \in Nat /\ Pending(timers, x) \in Nat
  BY <1>1, <1>3, PendingUpTo
<1>. QED BY <1>1, <1>2, <1>4, PendingTail

LEMMA HeadFacts ==
  ASSUME State, timers # <<>>
  PROVE  /\ Tail(timers) \in Seq(Timers) /\ Len(Tail(timers)) <= MaxTimers
         /\ Head(timers) \in Timers /\ Head(timers).object \in Objects /\ Head(timers).event \in Events
<1>1. timers \in Seq(Timers) /\ Len(timers) <= MaxTimers
  BY DEF State
<1>2. Head(timers) \in Timers
  BY <1>1
<1>3. Tail(timers) \in Seq(Timers) /\ Len(Tail(timers)) = Len(timers) - 1 /\ Len(timers) \in Nat
  BY <1>1
<1>. QED BY <1>1, <1>2, <1>3, Bounds DEF Timers

LEMMA FireUnheardStep ==
  ASSUME Inv, NEW t \in Types, FireUnheard(t) PROVE Inv'
<1>1. /\ UNCHANGED <<next, callback, listeners, vain, stack, held, lost, fault>>
      /\ timers # <<>> /\ timers' = Tail(timers)
      /\ Release({Head(timers).object, Head(timers).event})
  BY DEF FireUnheard, GiveBack, counters
<1>2. State /\ Nested
  BY DEF Inv
<1>3. timers' \in Seq(Timers) /\ Len(timers') <= MaxTimers
  BY <1>1, <1>2, HeadFacts
<1>4. stack' \in Seq(Frames) /\ Len(stack') <= MaxDepth /\ lost' \in [Things -> Nat] /\ Nested'
  BY <1>1, <1>2 DEF State, Nested, Nests, Depth
<1>5. ASSUME NEW x \in Things
      PROVE  lost[x] + Pending(timers, x) + Pending(stack, x)
               = lost'[x] + Pending(timers', x) + Pending(stack', x)
                 + (IF x \in {Head(timers).object, Head(timers).event} THEN 1 ELSE 0)
  <2>1. Pending(timers, x) = Pending(timers', x) + Hits(Head(timers), x) /\ Pending(timers', x) \in Nat
    BY <1>1, <1>2, PendingHead
  <2>2. lost[x] \in Nat /\ Pending(stack, x) \in Nat /\ lost'[x] = lost[x] /\ Pending(stack', x) = Pending(stack, x)
    BY <1>1, <1>2, CountTypes
  <2>3. Hits(Head(timers), x) = (IF x \in {Head(timers).object, Head(timers).event} THEN 1 ELSE 0)
        /\ Hits(Head(timers), x) \in Nat
    BY DEF Hits
  <2>. QED BY ONLY <2>1, <2>2, <2>3
<1>6. \A P : Stands(P, stack) => Stands(P, stack')
  BY <1>1
<1>. QED BY <1>1, <1>3, <1>4, <1>5, <1>6, Released

LEMMA FireNobodyStep ==
  ASSUME Inv, NEW t \in Types, FireNobody(t) PROVE Inv'
<1>0. PICK tm, L, S : /\ tm = Head(timers) /\ L = Lasting({tm.event})
                      /\ S = {tm.object, tm.event} \ L
  OBVIOUS
<1>1. /\ UNCHANGED <<next, callback, listeners, vain, stack, held, fault>>
      /\ timers # <<>> /\ timers' = Tail(timers) /\ lost' = More(lost, L)
      /\ Release(S)
  BY <1>0 DEF FireNobody, Heard, counters
<1>2. State /\ Nested
  BY DEF Inv
<1>3. /\ timers' \in Seq(Timers) /\ Len(timers') <= MaxTimers
      /\ tm.object \in Objects /\ tm.event \in Events
  BY <1>0, <1>1, <1>2, HeadFacts
<1>4. stack' \in Seq(Frames) /\ Len(stack') <= MaxDepth /\ Nested'
  BY <1>1, <1>2 DEF State, Nested, Nests, Depth
<1>5. /\ lost' = [x \in Things |-> lost'[x]]
      /\ \A x \in Things : lost[x] \in Nat /\ lost'[x] = IF x \in L THEN lost[x] + 1 ELSE lost[x]
  <2>1. DOMAIN lost = Things /\ \A x \in Things : lost[x] \in Nat
    BY <1>2 DEF State
  <2>. QED BY <1>1, <2>1, MoreLess
<1>6. lost' \in [Things -> Nat]
  <2>1. \A x \in Things : lost'[x] \in Nat
    BY <1>5
  <2>. QED BY <1>5, <2>1
<1>7. ASSUME NEW x \in Things
      PROVE  lost[x] + Pending(timers, x) + Pending(stack, x)
               = lost'[x] + Pending(timers', x) + Pending(stack', x)
                 + (IF x \in S THEN 1 ELSE 0)
  <2>1. Pending(timers, x) = Pending(timers', x) + Hits(tm, x) /\ Pending(timers', x) \in Nat
    BY <1>0, <1>1, <1>2, PendingHead
  <2>2. lost[x] \in Nat /\ Pending(stack, x) \in Nat /\ Pending(stack', x) = Pending(stack, x)
    BY <1>1, <1>2, CountTypes
  <2>3. CASE x \in L
    <3>1. x = tm.event
      BY <1>0, <2>3 DEF Lasting
    <3>2. lost'[x] = lost[x] + 1 /\ Hits(tm, x) = 1 /\ (IF x \in S THEN 1 ELSE 0) = 0
      BY <1>0, <1>5, <2>3, <3>1 DEF Hits
    <3>. QED BY ONLY <2>1, <2>2, <3>2
  <2>4. CASE x \notin L
    <3>1. lost'[x] = lost[x] /\ Hits(tm, x) = (IF x \in S THEN 1 ELSE 0) /\ Hits(tm, x) \in Nat
      BY <1>0, <1>5, <2>4 DEF Hits
    <3>. QED BY ONLY <2>1, <2>2, <3>1
  <2>. QED BY <2>3, <2>4
<1>8. \A P : Stands(P, stack) => Stands(P, stack')
  BY <1>1
<1>. QED BY <1>1, <1>3, <1>4, <1>6, <1>7, <1>8, Released

LEMMA LastListenerStep ==
  ASSUME Inv, LastListener PROVE Inv'
<1>1. /\ UNCHANGED <<next, callback, listeners, vain, timers, held, lost, fault>>
      /\ stack # <<>> /\ stack' = SubSeq(stack, 1, Depth - 1)
      /\ Release({Top.object, Top.event})
  BY DEF LastListener, InListener, GiveBack, counters
<1>2. State /\ Nested
  BY DEF Inv
<1>3. Depth - 1 \in 0 .. Depth
  BY <1>1, <1>2, TopNests
<1>4. /\ stack' \in Seq(Frames) /\ Len(stack') <= MaxDepth /\ Nested'
      /\ \A P : Stands(P, stack) => Stands(P, stack')
  BY <1>1, <1>2, <1>3, Front
<1>5. timers' \in Seq(Timers) /\ Len(timers') <= MaxTimers /\ lost' \in [Things -> Nat]
  BY <1>1, <1>2 DEF State
<1>6. ASSUME NEW x \in Things
      PROVE  lost[x] + Pending(timers, x) + Pending(stack, x)
               = lost'[x] + Pending(timers', x) + Pending(stack', x)
                 + (IF x \in {Top.object, Top.event} THEN 1 ELSE 0)
  <2>1. Pending(stack, x) = Pending(stack', x) + Hits(Top, x) /\ Pending(stack', x) \in Nat
    BY <1>1, <1>2, PendingTop
  <2>2. lost[x] \in Nat /\ Pending(timers, x) \in Nat /\ lost'[x] = lost[x] /\ Pending(timers', x) = Pending(timers, x)
    BY <1>1, <1>2, CountTypes
  <2>3. Hits(Top, x) = (IF x \in {Top.object, Top.event} THEN 1 ELSE 0) /\ Hits(Top, x) \in Nat
    BY DEF Hits
  <2>. QED BY ONLY <2>1, <2>2, <2>3
<1>. QED BY <1>1, <1>4, <1>5, <1>6, Released

LEMMA DispatchStep ==
  ASSUME Inv, NEW o \in Objects, NEW e \in Events, Dispatch(o, e) PROVE Inv'
<1>1. /\ UNCHANGED <<known, first, last, next, callback, listeners, vain, stack, held, lost, fault>>
      /\ timers' = Append(timers, [object |-> o, event |-> e]) /\ count' = More(count, {o, e})
      /\ Len(timers) < MaxTimers
  BY DEF Dispatch, table, counters
<1>2. State /\ Nested /\ Pointers /\ ObjectCount /\ WorkCounted
  BY DEF Inv
<1>3. PICK tm : tm = [object |-> o, event |-> e]
  OBVIOUS
<1>4. tm \in Timers /\ tm.object = o /\ tm.event = e
  BY <1>3 DEF Timers
<1>5. timers \in Seq(Timers) /\ timers' = Append(timers, tm)
  BY <1>1, <1>2, <1>3 DEF State
<1>6. timers' \in Seq(Timers) /\ Len(timers') <= MaxTimers
  BY <1>1, <1>4, <1>5, Bounds
<1>7. /\ count' = [x \in Things |-> count'[x]] /\ DOMAIN count' = Things
      /\ \A x \in Things : count'[x] = count[x] + (IF x \in {o, e} THEN 1 ELSE 0)
  <2>1. count \in [Things -> Nat]
    BY <1>2 DEF State
  <2>2. PICK g : g = More(count, {o, e})
    OBVIOUS
  <2>3. g = [x \in Things |-> g[x]] /\ DOMAIN g = Things
    BY <2>1, <2>2, MoreNat
  <2>4. \A x \in Things : g[x] = count[x] + (IF x \in {o, e} THEN 1 ELSE 0)
    BY <2>1, <2>2, MoreNat
  <2>. QED BY <1>1, <2>2, <2>3, <2>4
<1>8. /\ known' \subseteq Channels /\ lost' \in [Things -> Nat] /\ fault' \in {"none", "null", "wild", "freed"}
      /\ stack' \in Seq(Frames) /\ Len(stack') <= MaxDepth
  BY <1>1, <1>2 DEF State, Depth
<1>9. ASSUME NEW x \in Things
      PROVE  /\ count'[x] \in Int
             /\ count'[x] + lost[x] + Pending(timers, x) + Pending(stack, x)
                  = count[x] + lost'[x] + Pending(timers', x) + Pending(stack', x)
  <2>1. count[x] \in Nat /\ lost[x] \in Nat /\ Pending(timers, x) \in Nat /\ Pending(stack, x) \in Nat
    BY <1>2, CountTypes
  <2>2. Pending(timers', x) = Pending(timers, x) + Hits(tm, x)
    BY <1>4, <1>5, PendingAppend
  <2>3. Hits(tm, x) \in Nat /\ count'[x] = count[x] + Hits(tm, x)
    BY <1>4, <1>7 DEF Hits
  <2>4. lost'[x] = lost[x] /\ Pending(stack', x) = Pending(stack, x)
    BY <1>1
  <2>. QED BY ONLY <2>1, <2>2, <2>3, <2>4
<1>10. State' /\ ObjectCount'
  BY <1>1, <1>2, <1>6, <1>7, <1>8, <1>9, Balance
<1>11. Nested'
  BY <1>1, <1>2 DEF Nested, Nests, Depth
<1>12. Pointers'
  BY <1>1, <1>2, PointersSame
<1>. QED BY <1>1, <1>2, <1>10, <1>11, <1>12, WorkSame DEF Inv

\* The lists are as they were, and a frame has moved or come.
LEMMA PointersKept ==
  ASSUME UNCHANGED <<known, first, last, next, callback>>, NEW P,
         Threads(first, last, next, callback, P), Stands(P, stack'),
         \A c \in Channels \ known : Len(P[c]) = 0
  PROVE  Pointers'
BY DEF Pointers

\* The first listener of the list is called, and what follows is due.
LEMMA FireListenersStep ==
  ASSUME Inv, NEW t \in Types, FireListeners(t) PROVE Inv'
<1>1. PICK tm, c, n, fr, L : /\ tm = Head(timers) /\ c = <<tm.object, t>> /\ n = first[c]
                             /\ fr = Listener(tm, n, ChainFrom(n) \ {n}) /\ L = Lasting({tm.event})
  OBVIOUS
<1>2. /\ UNCHANGED <<known, first, last, next, callback, listeners, vain, held, fault>>
      /\ timers # <<>> /\ timers' = Tail(timers) /\ n # NULL
      /\ stack' = Append(stack, fr) /\ stack # <<>> /\ Top.kind = "loop"
      /\ count' = More(count, L) /\ lost' = More(lost, L)
  BY <1>1 DEF FireListeners, Heard, InLoop, table, counters
<1>3. State /\ Nested /\ Pointers /\ ObjectCount /\ WorkCounted
  BY DEF Inv
<1>4. /\ timers' \in Seq(Timers) /\ Len(timers') <= MaxTimers
      /\ tm \in Timers /\ tm.object \in Objects /\ tm.event \in Events
  BY <1>1, <1>2, <1>3, HeadFacts
<1>5. c \in Channels
  BY <1>1, <1>4 DEF Channels
<1>6. PICK P : /\ Threads(first, last, next, callback, P) /\ Stands(P, stack)
               /\ \A d \in Channels \ known : Len(P[d]) = 0
  BY <1>3 DEF Pointers
<1>7. PICK p : p = P[c]
  OBVIOUS
<1>8. /\ p \in Seq(Nodes) /\ Len(p) \in Nat /\ Len(p) # 0 /\ n = p[1] /\ 1 \in 1 .. Len(p)
      /\ Line(next, p) /\ \A i \in 1 .. Len(p) : p[i] \in Nodes /\ p[i] # NULL
  <2>1. /\ p \in Seq(Nodes) /\ Len(p) \in Nat /\ (first[c] = NULL <=> Len(p) = 0)
        /\ \A i \in 1 .. Len(p) : p[i] \in Nodes /\ p[i] # NULL
    BY <1>5, <1>6, <1>7, PathFacts
  <2>2. Line(next, p) /\ first[c] = IF Len(p) = 0 THEN NULL ELSE p[1]
    BY <1>5, <1>6, <1>7 DEF Threads
  <2>. QED BY <1>1, <1>2, <2>1, <2>2
<1>9. ChainFrom(n) = From(p, 1)
  BY <1>8, ChainTail
<1>10. From(p, 1) \subseteq Nodes /\ From(p, 1) \ {n} \subseteq From(p, 1 + 1)
  <2>1. ASSUME NEW x \in From(p, 1), x # n PROVE x \in From(p, 1 + 1)
    <3>1. PICK k \in 1 .. Len(p) : x = p[k]
      BY DEF From
    <3>2. k # 1 /\ k \in 1 + 1 .. Len(p)
      BY <1>8, <2>1, <3>1
    <3>. QED BY <3>1, <3>2 DEF From
  <2>2. From(p, 1) \subseteq Nodes
    BY <1>8 DEF From
  <2>. QED BY <2>1, <2>2
<1>11. /\ fr \in Frames /\ fr.kind = "listener" /\ fr.object = tm.object /\ fr.event = tm.event
       /\ fr.node = n /\ fr.due = From(p, 1) \ {n}
  <2>1. From(p, 1) \ {n} \in SUBSET Nodes /\ n \in Nodes
    BY <1>8, <1>10
  <2>. QED BY <1>1, <1>4, <1>9, <2>1 DEF Frames, Listener
<1>12. /\ stack' \in Seq(Frames) /\ Len(stack') <= MaxDepth /\ Nested'
       /\ \A R : Stands(R, stack) /\ Follows(R, fr) => Stands(R, stack')
  <2>1. Depth < MaxDepth
    BY <1>2, <1>3, TopNests
  <2>. QED BY <1>2, <1>3, <1>4, <1>11, <2>1, Push
<1>13. Follows(P, fr)
  <2>1. P[<<fr.object, t>>] = p
    BY <1>1, <1>7, <1>11
  <2>2. 1 \in 1 .. Len(P[<<fr.object, t>>])
    BY <1>8, <2>1
  <2>3. P[<<fr.object, t>>][1] = fr.node /\ fr.due \subseteq From(P[<<fr.object, t>>], 1 + 1)
    BY <1>8, <1>10, <1>11, <2>1
  <2>. QED BY <2>2, <2>3 DEF Follows
<1>14. Pointers'
  BY <1>2, <1>6, <1>12, <1>13, PointersKept
<1>15. /\ count' = [x \in Things |-> count'[x]] /\ DOMAIN count' = Things
       /\ \A x \in Things : count'[x] = count[x] + (IF x \in L THEN 1 ELSE 0)
  <2>1. count \in [Things -> Nat]
    BY <1>3 DEF State
  <2>2. PICK g : g = More(count, L)
    OBVIOUS
  <2>3. g = [x \in Things |-> g[x]] /\ DOMAIN g = Things
    BY <2>1, <2>2, MoreNat
  <2>4. \A x \in Things : g[x] = count[x] + (IF x \in L THEN 1 ELSE 0)
    BY <2>1, <2>2, MoreNat
  <2>. QED BY <1>2, <2>2, <2>3, <2>4
<1>16. /\ lost' \in [Things -> Nat]
       /\ \A x \in Things : lost'[x] = lost[x] + (IF x \in L THEN 1 ELSE 0)
  <2>1. lost \in [Things -> Nat]
    BY <1>3 DEF State
  <2>. QED BY <1>2, <2>1, MoreNat
<1>17. ASSUME NEW x \in Things
       PROVE  /\ count'[x] \in Int
              /\ count'[x] + lost[x] + Pending(timers, x) + Pending(stack, x)
                   = count[x] + lost'[x] + Pending(timers', x) + Pending(stack', x)
  <2>1. count[x] \in Nat /\ lost[x] \in Nat /\ Pending(stack, x) \in Nat
    BY <1>3, CountTypes
  <2>2. Pending(timers, x) = Pending(timers', x) + Hits(tm, x) /\ Pending(timers', x) \in Nat
    BY <1>1, <1>2, <1>3, PendingHead
  <2>3. Pending(stack', x) = Pending(stack, x) + Hits(fr, x)
    BY <1>2, <1>3, <1>11, PendingAppend DEF State
  <2>4. Hits(fr, x) = Hits(tm, x) /\ Hits(tm, x) \in Nat
    BY <1>11 DEF Hits
  <2>5. PICK k \in Nat : count'[x] = count[x] + k /\ lost'[x] = lost[x] + k
    BY <1>15, <1>16
  <2>. QED BY ONLY <2>1, <2>2, <2>3, <2>4, <2>5
<1>18. State' /\ ObjectCount'
  <2>1. known' \subseteq Channels /\ fault' \in {"none", "null", "wild", "freed"}
    BY <1>2, <1>3 DEF State
  <2>. QED BY <1>2, <1>3, <1>4, <1>12, <1>15, <1>16, <1>17, <2>1, Balance
<1>. QED BY <1>2, <1>3, <1>12, <1>14, <1>18, WorkSame DEF Inv

\* The frame moves to the next place of the list.
LEMMA NextListenerStep ==
  ASSUME Inv, NextListener PROVE Inv'
<1>1. PICK n, fr : n = next[Top.node] /\ fr = [Top EXCEPT !.node = n, !.due = @ \ {n}]
  OBVIOUS
<1>2. /\ UNCHANGED <<known, first, last, next, callback, listeners, vain, timers, count, held, lost, fault>>
      /\ stack # <<>> /\ Top.kind = "listener" /\ Top.node # NULL /\ n # NULL
      /\ stack' = [stack EXCEPT ![Depth].node = n, ![Depth].due = @ \ {n}]
  BY <1>1 DEF NextListener, Following, InListener, table, counters
<1>3. State /\ Nested /\ Pointers /\ ObjectCount /\ WorkCounted
  BY DEF Inv
<1>4. Top \in Frames /\ Top.object \in Objects /\ Depth \in 1 .. Depth /\ Top = stack[Depth]
  BY <1>2, <1>3, TopNests
<1>5. PICK P : /\ Threads(first, last, next, callback, P) /\ Stands(P, stack)
               /\ \A d \in Channels \ known : Len(P[d]) = 0
  BY <1>3 DEF Pointers
<1>6. Follows(P, Top)
  BY <1>4, <1>5 DEF Stands, Depth
<1>7. PICK t \in Types : \E j \in 1 .. Len(P[<<Top.object, t>>]) :
         P[<<Top.object, t>>][j] = Top.node /\ Top.due \subseteq From(P[<<Top.object, t>>], j + 1)
  BY <1>2, <1>6 DEF Follows
<1>8. PICK c \in Channels : c = <<Top.object, t>>
  BY <1>4 DEF Channels
<1>9. PICK p : p = P[c]
  OBVIOUS
<1>10. PICK j \in 1 .. Len(p) : p[j] = Top.node /\ Top.due \subseteq From(p, j + 1)
  BY <1>7, <1>8, <1>9
<1>11. /\ Len(p) \in Nat /\ \A i \in 1 .. Len(p) : p[i] \in Nodes /\ next[p[i]] = IF i = Len(p) THEN NULL ELSE p[i+1]
  BY <1>5, <1>9, PathFacts
<1>12. n = p[j+1] /\ j + 1 \in 1 .. Len(p) /\ n \in Nodes
  <2>1. j # Len(p) /\ n = p[j+1]
    BY <1>1, <1>2, <1>10, <1>11
  <2>2. j + 1 \in 1 .. Len(p)
    BY <1>11, <2>1
  <2>. QED BY <1>11, <2>1, <2>2
<1>13. /\ fr \in Frames /\ fr.kind = "listener" /\ fr.object = Top.object /\ fr.event = Top.event
       /\ fr.node = n /\ fr.due = Top.due \ {n}
  BY <1>1, <1>2, <1>4, <1>12 DEF Frames
<1>14. stack' = [stack EXCEPT ![Depth] = fr]
  <2>1. stack \in Seq(Frames) /\ Depth = Len(stack)
    BY <1>3 DEF State, Depth
  <2>. QED BY <1>1, <1>2, <1>4, <2>1
<1>15. /\ stack' \in Seq(Frames) /\ Len(stack') <= MaxDepth /\ Nested'
       /\ \A x : Pending(stack', x) = Pending(stack, x)
       /\ \A R : Stands(R, stack) /\ Follows(R, fr) => Stands(R, stack')
  BY <1>2, <1>3, <1>13, <1>14, Swap
<1>16. fr.due \subseteq From(p, (j + 1) + 1)
  <2>1. ASSUME NEW x \in fr.due PROVE x \in From(p, (j + 1) + 1)
    <3>1. x \in From(p, j + 1) /\ x # n
      BY <1>10, <1>13
    <3>2. PICK k \in j + 1 .. Len(p) : x = p[k]
      BY <3>1 DEF From
    <3>3. k # j + 1
      BY <1>12, <3>1, <3>2
    <3>4. k \in (j + 1) + 1 .. Len(p)
      BY <1>11, <1>12, <3>2, <3>3
    <3>. QED BY <3>2, <3>4 DEF From
  <2>. QED BY <2>1
<1>17. Follows(P, fr)
  <2>1. P[<<fr.object, t>>] = p
    BY <1>8, <1>9, <1>13
  <2>2. j + 1 \in 1 .. Len(P[<<fr.object, t>>])
    BY <1>12, <2>1
  <2>3. P[<<fr.object, t>>][j+1] = fr.node /\ fr.due \subseteq From(P[<<fr.object, t>>], (j + 1) + 1)
    BY <1>12, <1>13, <1>16, <2>1
  <2>. QED BY <2>2, <2>3 DEF Follows
<1>18. Pointers'
  BY <1>2, <1>5, <1>15, <1>17, PointersKept
<1>19. State' /\ ObjectCount'
  BY <1>2, <1>3, <1>15, StillCounted
<1>. QED BY <1>2, <1>3, <1>15, <1>18, <1>19, WorkSame DEF Inv

-----------------------------------------------------------------------------
(* Listeners come and go.                                                  *)

Filled(cb) == Cardinality({n \in Nodes : cb[n] # NULL})

LEMMA FilledIs == /\ Cardinality(Used) = Filled(callback)
                  /\ Cardinality(Used)' = Filled(callback')
BY DEF Used, Filled

\* cb2 is cb with f in a node that was free.
LEMMA OneMore ==
  ASSUME NEW cb, NEW cb2, NEW n \in Nodes, NEW f \in Callbacks,
         cb[n] = NULL, cb2[n] = f, \A m \in Nodes : m # n => cb2[m] = cb[m]
  PROVE  /\ \A x \in Things : /\ Holding(cb2, x) = Holding(cb, x) + (IF x = f THEN 1 ELSE 0)
                              /\ Holding(cb, x) \in Nat
         /\ Filled(cb2) = Filled(cb) + 1 /\ Filled(cb) \in Nat
<1>1. f # NULL /\ \A x \in Things : x # NULL
  BY Kinds
<1>2. ASSUME NEW x \in Things
      PROVE  Holding(cb2, x) = Holding(cb, x) + (IF x = f THEN 1 ELSE 0) /\ Holding(cb, x) \in Nat
  <2>1. PICK A, B : A = {m \in Nodes : cb[m] = x} /\ B = {m \in Nodes : cb2[m] = x}
    OBVIOUS
  <2>2. IsFiniteSet(A) /\ Cardinality(A) \in Nat
    BY <2>1, NodeSets
  <2>3. CASE x = f
    <3>1. B = A \cup {n} /\ n \notin A
      BY <1>1, <2>1, <2>3
    <3>2. Cardinality(B) = Cardinality(A) + 1
      BY <2>2, <3>1, FS_AddElement
    <3>. QED BY <2>1, <2>2, <2>3, <3>2 DEF Holding
  <2>4. CASE x # f
    <3>1. B = A
      BY <1>1, <2>1, <2>4
    <3>. QED BY <2>1, <2>2, <2>4, <3>1 DEF Holding
  <2>. QED BY <2>3, <2>4
<1>3. Filled(cb2) = Filled(cb) + 1 /\ Filled(cb) \in Nat
  <2>1. PICK A, B : A = {m \in Nodes : cb[m] # NULL} /\ B = {m \in Nodes : cb2[m] # NULL}
    OBVIOUS
  <2>2. IsFiniteSet(A) /\ Cardinality(A) \in Nat
    BY <2>1, NodeSets
  <2>3. B = A \cup {n} /\ n \notin A
    BY <1>1, <2>1
  <2>4. Cardinality(B) = Cardinality(A) + 1
    BY <2>2, <2>3, FS_AddElement
  <2>. QED BY <2>1, <2>2, <2>4 DEF Filled
<1>. QED BY <1>2, <1>3

\* The counter and the nodes, less the removals in vain, move by the same k.
LEMMA WorkMoves ==
  ASSUME WorkCounted, State, NEW k \in Int, listeners' = (listeners + k) % Limit,
         vain' \in Nat, Filled(callback) \in Nat, Filled(callback') \in Nat,
         Filled(callback') - vain' = (Filled(callback) - vain) + k
  PROVE  WorkCounted' /\ listeners' \in 0 .. Limit - 1
<1>1. PICK a \in Int : a = Filled(callback) - vain
  <2>1. vain \in Nat
    BY Bounds DEF State
  <2>. QED BY <2>1
<1>2. listeners = a % Limit
  BY <1>1, FilledIs DEF WorkCounted
<1>3. ((a % Limit) + k) % Limit = (a + k) % Limit
  BY Bounds, ModSum
<1>4. listeners' = (Filled(callback') - vain') % Limit
  BY <1>1, <1>2, <1>3
<1>5. listeners' \in 0 .. Limit - 1
  BY <1>1, <1>2, <1>3, Bounds
<1>6. Cardinality(Used)' = Filled(callback')
  BY FilledIs
<1>. QED BY <1>4, <1>5, <1>6 DEF WorkCounted

\* Frames that do not listen stand nowhere.
LEMMA StandsAppend ==
  ASSUME Nested, NEW P \in [Channels -> Seq(Nodes)], Stands(P, stack), NEW c \in Channels, NEW n \in Nodes
  PROVE  Stands([P EXCEPT ![c] = Append(@, n)], stack)
<1>1. ASSUME NEW i \in 1 .. Len(stack) PROVE Follows([P EXCEPT ![c] = Append(@, n)], stack[i])
  <2>1. PICK fr : fr = stack[i]
    OBVIOUS
  <2>2. Follows(P, fr) /\ (fr.kind = "listener" => fr.object \in Objects)
    BY <2>1 DEF Nested, Nests, Stands, Depth
  <2>3. CASE fr.kind = "listener"
    <3>1. fr.object \in Objects
      BY <2>2, <2>3
    <3>. QED BY <2>1, <2>2, <3>1, FollowsAppend
  <2>4. CASE fr.kind # "listener"
    BY <2>1, <2>4 DEF Follows
  <2>. QED BY <2>3, <2>4
<1>. QED BY <1>1 DEF Stands

LEMMA ListenerAddStep ==
  ASSUME Inv, NEW o \in Objects, NEW t \in Types, NEW f \in Callbacks, ListenerAdd(o, t, f)
  PROVE  Inv'
<1>1. PICK c \in Channels : c = <<o, t>>
  BY DEF Channels
<1>2. PICK n \in Nodes :
        /\ callback[n] = NULL
        /\ callback' = [callback EXCEPT ![n] = f]
        /\ IF first[c] = NULL
           THEN first' = [first EXCEPT ![c] = n] /\ next' = [next EXCEPT ![n] = NULL]
           ELSE first' = first /\ next' = [next EXCEPT ![last[c]] = n, ![n] = NULL]
        /\ last' = [last EXCEPT ![c] = n]
  BY <1>1 DEF ListenerAdd
<1>3. /\ UNCHANGED <<vain, timers, stack, held, lost, fault>> /\ count' = More(count, {f})
      /\ listeners' = (listeners + 1) % Limit /\ known' = known \cup {c}
  BY <1>1 DEF ListenerAdd
<1>4. State /\ Nested /\ Pointers /\ ObjectCount /\ WorkCounted
  BY DEF Inv
<1>5. PICK P : /\ Threads(first, last, next, callback, P) /\ Stands(P, stack)
               /\ \A d \in Channels \ known : Len(P[d]) = 0
  BY <1>4 DEF Pointers
<1>6. PICK Q : Q = [P EXCEPT ![c] = Append(@, n)]
  OBVIOUS
<1>7. /\ P \in [Channels -> Seq(Nodes)] /\ callback \in [Nodes -> Callbacks \cup {NULL}]
      /\ Len(P[c]) \in Nat /\ (first[c] = NULL <=> Len(P[c]) = 0)
      /\ last[c] = IF Len(P[c]) = 0 THEN NULL ELSE P[c][Len(P[c])]
  <2>1. Len(P[c]) \in Nat /\ (first[c] = NULL <=> Len(P[c]) = 0)
    BY <1>5, PathFacts
  <2>. QED BY <1>5, <2>1 DEF Threads
<1>8. Appended(first, last, next, callback, P, c, n, f, first', last', next', callback')
  BY <1>2, <1>7 DEF Appended
<1>9. Threads(first', last', next', callback', Q)
  BY <1>2, <1>5, <1>6, <1>8, AppendThreads
<1>10. Stands(Q, stack')
  BY <1>3, <1>4, <1>5, <1>6, <1>7, StandsAppend
<1>11. \A d \in Channels \ known' : Len(Q[d]) = 0
  BY <1>3, <1>5, <1>6, <1>7
<1>12. Pointers'
  BY <1>9, <1>10, <1>11 DEF Pointers
<1>13. callback'[n] = f /\ \A m \in Nodes : m # n => callback'[m] = callback[m]
  BY <1>2, <1>7
<1>14. /\ \A x \in Things : /\ Holding(callback', x) = Holding(callback, x) + (IF x = f THEN 1 ELSE 0)
                            /\ Holding(callback, x) \in Nat
       /\ Filled(callback') = Filled(callback) + 1 /\ Filled(callback) \in Nat
  <2>1. PICK a, b : a = callback /\ b = callback'
    OBVIOUS
  <2>2. a[n] = NULL /\ b[n] = f /\ \A m \in Nodes : m # n => b[m] = a[m]
    BY <1>2, <1>13, <2>1
  <2>3. /\ \A x \in Things : Holding(b, x) = Holding(a, x) + (IF x = f THEN 1 ELSE 0) /\ Holding(a, x) \in Nat
        /\ Filled(b) = Filled(a) + 1 /\ Filled(a) \in Nat
    BY ONLY <2>2, OneMore, n \in Nodes, f \in Callbacks
  <2>. QED BY <2>1, <2>3
<1>15. WorkCounted' /\ listeners' \in 0 .. Limit - 1
  <2>1. vain' \in Nat /\ vain' = vain /\ vain \in Nat
    BY <1>3, <1>4, Bounds DEF State
  <2>2. Filled(callback') \in Nat /\ Filled(callback') - vain' = (Filled(callback) - vain) + 1
    BY <1>14, <2>1
  <2>. QED BY <1>3, <1>4, <1>14, <2>1, <2>2, WorkMoves
<1>16. Counted(count', held', lost', callback', timers', stack')
  <2>1. PICK g : g = More(count, {f})
    OBVIOUS
  <2>2. count \in [Things -> Nat]
    BY <1>4 DEF State
  <2>3. g = [x \in Things |-> g[x]] /\ DOMAIN g = Things
    BY <2>1, <2>2, MoreNat
  <2>4. \A x \in Things : g[x] = count[x] + (IF x \in {f} THEN 1 ELSE 0)
    BY <2>1, <2>2, MoreNat
  <2>5. ASSUME NEW x \in Things
        PROVE  g[x] = held'[x] + lost'[x] + (Holding(callback', x) + Pending(timers', x) + Pending(stack', x))
    <3>1. PICK k \in Nat : g[x] = count[x] + k /\ Holding(callback', x) = Holding(callback, x) + k
      BY <1>14, <2>4
    <3>2. /\ count[x] = held[x] + lost[x] + (Holding(callback, x) + Pending(timers, x) + Pending(stack, x))
          /\ count[x] \in Nat /\ held[x] \in Nat /\ lost[x] \in Nat /\ Holding(callback, x) \in Nat
          /\ Pending(timers, x) \in Nat /\ Pending(stack, x) \in Nat
      BY <1>4, CountsAre
    <3>3. /\ held'[x] = held[x] /\ lost'[x] = lost[x] /\ Pending(timers', x) = Pending(timers, x)
          /\ Pending(stack', x) = Pending(stack, x)
      BY <1>3
    <3>. QED BY ONLY <3>1, <3>2, <3>3
  <2>. QED BY <1>3, <2>1, <2>3, <2>5 DEF Counted
<1>17. State' /\ ObjectCount'
  <2>1. /\ known' \subseteq Channels /\ vain' \in 0 .. MaxVain
        /\ timers' \in Seq(Timers) /\ Len(timers') <= MaxTimers
        /\ stack' \in Seq(Frames) /\ Len(stack') <= MaxDepth
        /\ held' \in [Things -> 0 .. MaxHeld] /\ lost' \in [Things -> Nat]
        /\ fault' \in {"none", "null", "wild", "freed"}
    BY <1>3, <1>4 DEF State, Depth
  <2>. QED BY <1>15, <1>16, <2>1, StateNext
<1>18. Nested'
  BY <1>3, <1>4 DEF Nested, Nests, Depth
<1>. QED BY <1>12, <1>15, <1>17, <1>18 DEF Inv

\* The list of channel c, that is found to have node n in it.
LEMMA OnList ==
  ASSUME NEW P, Threads(first, last, next, callback, P), NEW c \in Channels,
         NEW n \in Nodes, n \in ChainFrom(first[c])
  PROVE  \E j \in 1 .. Len(P[c]) :
           /\ P[c][j] = n /\ (first[c] = n <=> j = 1)
           /\ Before(c, n) = IF j = 1 THEN NULL ELSE P[c][j-1]
<1>1. PICK p : p = P[c]
  OBVIOUS
<1>2. /\ p \in Seq(Nodes) /\ Len(p) \in Nat /\ (first[c] = NULL <=> Len(p) = 0)
      /\ \A i \in 1 .. Len(p) : /\ p[i] \in Nodes /\ p[i] # NULL
                                /\ next[p[i]] = IF i = Len(p) THEN NULL ELSE p[i+1]
      /\ \A i, k \in 1 .. Len(p) : p[i] = p[k] => i = k
  BY <1>1, PathFacts
<1>3. Line(next, p) /\ first[c] = IF Len(p) = 0 THEN NULL ELSE p[1]
  BY <1>1 DEF Threads
<1>4. Len(p) # 0 /\ first[c] = p[1] /\ 1 \in 1 .. Len(p)
  BY <1>2, <1>3, ChainNull
<1>5. ChainFrom(first[c]) = From(p, 1)
  BY <1>3, <1>4, ChainTail
<1>6. PICK j \in 1 .. Len(p) : p[j] = n
  BY <1>5 DEF From
<1>7. first[c] = n <=> j = 1
  BY <1>2, <1>4, <1>6
<1>8. Before(c, n) = IF j = 1 THEN NULL ELSE p[j-1]
  <2>1. CASE j = 1
    BY <1>7, <2>1 DEF Before
  <2>2. CASE j # 1
    <3>1. j - 1 \in 1 .. Len(p) /\ j - 1 # Len(p) /\ (j - 1) + 1 = j
      BY <1>2, <2>2
    <3>2. p[j-1] \in From(p, 1) /\ next[p[j-1]] = n
      BY <1>2, <1>6, <3>1 DEF From
    <3>3. ASSUME NEW q \in From(p, 1), next[q] = n PROVE q = p[j-1]
      <4>1. PICK k \in 1 .. Len(p) : q = p[k]
        BY DEF From
      <4>2. k # Len(p) /\ next[p[k]] = p[k+1]
        <5>1. n # NULL
          BY <1>2, <1>6
        <5>. QED BY <1>2, <3>3, <4>1, <5>1
      <4>3. k + 1 \in 1 .. Len(p) /\ p[k+1] = p[j]
        BY <1>2, <1>6, <3>3, <4>1, <4>2
      <4>4. k + 1 = j
        BY <1>2, <4>3
      <4>5. k = j - 1
        BY <4>4
      <4>. QED BY <4>1, <4>5
    <3>4. Before(c, n) = CHOOSE q \in From(p, 1) : next[q] = n
      BY <1>5, <1>7, <2>2 DEF Before
    <3>. QED BY <2>2, <3>2, <3>3, <3>4
  <2>. QED BY <2>1, <2>2
<1>. QED BY <1>1, <1>6, <1>7, <1>8

\* Frames keep their kinds and objects when a node is freed.
LEMMA LeftFacts ==
  ASSUME State, Nested, NEW n, stack' = Left(n)
  PROVE  /\ stack' \in Seq(Frames) /\ Len(stack') = Len(stack) /\ Len(stack') <= MaxDepth /\ Nested'
         /\ \A x : Pending(stack', x) = Pending(stack, x)
         /\ \A i \in 1 .. Len(stack) : stack'[i] = Leaves(stack[i], n)
<1>1. stack \in Seq(Frames) /\ Len(stack) \in Nat /\ Len(stack) <= MaxDepth /\ DOMAIN stack = 1 .. Len(stack)
  BY DEF State, Depth
<1>2. stack' = [i \in 1 .. Len(stack) |-> Leaves(stack[i], n)]
  BY <1>1 DEF Left, Leaves
<1>3. ASSUME NEW i \in 1 .. Len(stack)
      PROVE  /\ Leaves(stack[i], n) \in Frames /\ Leaves(stack[i], n).kind = stack[i].kind
             /\ Leaves(stack[i], n).object = stack[i].object /\ Leaves(stack[i], n).event = stack[i].event
  <2>1. PICK fr \in Frames : fr = stack[i]
    BY <1>1
  <2>2. PICK g : g = Leaves(fr, n)
    OBVIOUS
  <2>3. g \in Frames /\ g.kind = fr.kind /\ g.object = fr.object /\ g.event = fr.event
    BY <2>2 DEF Leaves, Frames
  <2>. QED BY <2>1, <2>2, <2>3
<1>4. stack' \in Seq(Frames) /\ Len(stack') = Len(stack) /\ DOMAIN stack' = 1 .. Len(stack)
  BY <1>1, <1>2, <1>3
<1>5. \A i \in 1 .. Len(stack) : stack'[i] = Leaves(stack[i], n)
  BY <1>2
<1>6. \A i \in 1 .. Len(stack) : /\ stack'[i].kind = stack[i].kind /\ stack'[i].object = stack[i].object
                                 /\ stack'[i].event = stack[i].event
  BY <1>3, <1>5
<1>7. ASSUME NEW x PROVE Pending(stack', x) = Pending(stack, x)
  <2>1. {i \in DOMAIN stack' : x \in {stack'[i].object, stack'[i].event}}
          = {i \in DOMAIN stack : x \in {stack[i].object, stack[i].event}}
    BY <1>1, <1>4, <1>6
  <2>. QED BY <2>1 DEF Pending
<1>8. Nested'
  <2>1. ASSUME NEW i \in 1 .. Len(stack) PROVE Nests(stack', i)
    <3>1. Nests(stack, i)
      BY <1>1 DEF Nested, Depth
    <3>2. i > 1 => stack'[i-1].kind = stack[i-1].kind
      BY <1>1, <1>6
    <3>. QED BY <1>6, <3>1, <3>2 DEF Nests
  <2>. QED BY <1>4, <2>1 DEF Nested, Depth
<1>. QED BY <1>1, <1>4, <1>5, <1>7, <1>8

LEMMA StandsRemove ==
  ASSUME State, Nested, NEW P, Threads(first, last, next, callback, P), Stands(P, stack),
         NEW c \in Channels, NEW j \in 1 .. Len(P[c]), stack' = Left(P[c][j])
  PROVE  Stands([P EXCEPT ![c] = Without(@, j)], stack')
<1>1. ASSUME NEW i \in 1 .. Len(stack)
      PROVE  Follows([P EXCEPT ![c] = Without(@, j)], Leaves(stack[i], P[c][j]))
  <2>1. PICK fr \in Frames : fr = stack[i]
    BY DEF State
  <2>2. Follows(P, fr) /\ (fr.kind = "listener" => fr.object \in Objects)
    BY <2>1 DEF Nested, Nests, Stands, Depth
  <2>3. CASE fr.kind = "listener"
    <3>1. fr.object \in Objects
      BY <2>2, <2>3
    <3>. QED BY <2>1, <2>2, <3>1, FollowsRemove
  <2>4. CASE fr.kind # "listener"
    <3>1. Leaves(fr, P[c][j]).kind = fr.kind
      BY DEF Leaves, Frames
    <3>. QED BY <2>1, <2>4, <3>1 DEF Follows
  <2>. QED BY <2>3, <2>4
<1>2. /\ Len(stack') = Len(stack)
      /\ \A i \in 1 .. Len(stack) : stack'[i] = Leaves(stack[i], P[c][j])
  BY LeftFacts
<1>. QED BY <1>1, <1>2 DEF Stands

LEMMA RemoveVainStep ==
  ASSUME Inv, UNCHANGED <<known, first, last, next, callback, timers, stack, count, held, lost, fault>>,
         vain' = vain + 1, vain < MaxVain, listeners' = (listeners - 1) % Limit
  PROVE  Inv'
<1>1. State /\ Nested /\ Pointers /\ ObjectCount /\ WorkCounted
  BY DEF Inv
<1>2. vain' \in 0 .. MaxVain /\ vain \in Nat /\ vain' \in Nat
  BY <1>1, Bounds DEF State
<1>3. WorkCounted' /\ listeners' \in 0 .. Limit - 1
  <2>1. PICK k \in Int : k = -1
    OBVIOUS
  <2>2. listeners' = (listeners + k) % Limit
    BY <1>1, <2>1, Bounds DEF State
  <2>3. Filled(callback) \in Nat /\ Filled(callback') = Filled(callback)
    BY NodeSets DEF Filled
  <2>4. Filled(callback') - vain' = (Filled(callback) - vain) + k
    BY <1>2, <2>1, <2>3
  <2>. QED BY <1>1, <1>2, <2>2, <2>3, <2>4, WorkMoves
<1>4. Counted(count', held', lost', callback', timers', stack')
  BY <1>1, CountedIs DEF Counted
<1>5. State' /\ ObjectCount'
  <2>1. /\ known' \subseteq Channels
        /\ timers' \in Seq(Timers) /\ Len(timers') <= MaxTimers
        /\ stack' \in Seq(Frames) /\ Len(stack') <= MaxDepth
        /\ held' \in [Things -> 0 .. MaxHeld] /\ lost' \in [Things -> Nat]
        /\ fault' \in {"none", "null", "wild", "freed"}
    BY <1>1 DEF State, Depth
  <2>. QED BY <1>2, <1>3, <1>4, <2>1, StateNext
<1>6. Nested'
  BY <1>1 DEF Nested, Nests, Depth
<1>7. Pointers'
  BY <1>1, PointersSame
<1>. QED BY <1>3, <1>5, <1>6, <1>7 DEF Inv

LEMMA RemoveFoundStep ==
  ASSUME Inv, NEW c \in Channels, NEW f \in Callbacks, NEW n \in Nodes, RemoveFound(c, f, n),
         UNCHANGED <<timers, held, lost, fault>>, listeners' = (listeners - 1) % Limit
  PROVE  Inv'
<1>1. /\ n \in FirstMatch(c, f)
      /\ IF first[c] = n
         THEN first' = [first EXCEPT ![c] = next[n]] /\ next' = next
         ELSE first' = first /\ next' = [next EXCEPT ![Before(c, n)] = next[n]]
      /\ last' = IF next[n] = NULL THEN [last EXCEPT ![c] = Before(c, n)] ELSE last
      /\ callback' = [callback EXCEPT ![n] = NULL]
      /\ count' = Less(count, {f}) /\ stack' = Left(n) /\ known' = known /\ vain' = vain
  BY DEF RemoveFound, Unlinked
<1>2. State /\ Nested /\ Pointers /\ ObjectCount /\ WorkCounted
  BY DEF Inv
<1>3. n \in ChainFrom(first[c]) /\ callback[n] = f
  BY <1>1 DEF FirstMatch, Matches
<1>4. PICK P : /\ Threads(first, last, next, callback, P) /\ Stands(P, stack)
               /\ \A d \in Channels \ known : Len(P[d]) = 0
  BY <1>2 DEF Pointers
<1>5. PICK j \in 1 .. Len(P[c]) :
        /\ P[c][j] = n /\ (first[c] = n <=> j = 1)
        /\ Before(c, n) = IF j = 1 THEN NULL ELSE P[c][j-1]
  BY <1>3, <1>4, OnList
<1>6. PICK Q : Q = [P EXCEPT ![c] = Without(@, j)]
  OBVIOUS
<1>7. Removed(first, last, next, callback, P[c], c, j, first', last', next', callback')
  BY <1>1, <1>5 DEF Removed
<1>8. Threads(first', last', next', callback', Q)
  BY <1>4, <1>6, <1>7, RemoveThreads
<1>9. Stands(Q, stack')
  BY <1>1, <1>2, <1>4, <1>5, <1>6, StandsRemove
<1>10. \A d \in Channels \ known' : Len(Q[d]) = 0
  <2>1. P \in [Channels -> Seq(Nodes)] /\ Len(P[c]) \in Nat
    BY <1>4, PathFacts, SMTT(30) DEF Threads
  <2>2. Len(P[c]) # 0
    BY <2>1
  <2>3. \A d \in Channels : d # c => Q[d] = P[d]
    BY <1>6, <2>1
  <2>. QED BY <1>1, <1>4, <2>2, <2>3
<1>11. Pointers'
  BY <1>8, <1>9, <1>10 DEF Pointers
<1>12. /\ stack' \in Seq(Frames) /\ Len(stack') <= MaxDepth /\ Nested'
       /\ \A x : Pending(stack', x) = Pending(stack, x)
  BY <1>1, <1>2, LeftFacts
<1>13. /\ \A x \in Things : /\ Holding(callback, x) = Holding(callback', x) + (IF x = f THEN 1 ELSE 0)
                            /\ Holding(callback', x) \in Nat
       /\ Filled(callback) = Filled(callback') + 1 /\ Filled(callback') \in Nat
  <2>1. PICK a, b : a = callback' /\ b = callback
    OBVIOUS
  <2>2. a[n] = NULL /\ b[n] = f /\ \A m \in Nodes : m # n => b[m] = a[m]
    <3>1. callback \in [Nodes -> Callbacks \cup {NULL}]
      BY <1>4 DEF Threads
    <3>. QED BY <1>1, <1>3, <2>1, <3>1
  <2>3. /\ \A x \in Things : Holding(b, x) = Holding(a, x) + (IF x = f THEN 1 ELSE 0) /\ Holding(a, x) \in Nat
        /\ Filled(b) = Filled(a) + 1 /\ Filled(a) \in Nat
    BY ONLY <2>2, OneMore, n \in Nodes, f \in Callbacks
  <2>. QED BY <2>1, <2>3
<1>14. WorkCounted' /\ listeners' \in 0 .. Limit - 1
  <2>1. PICK k \in Int : k = -1
    OBVIOUS
  <2>2. listeners' = (listeners + k) % Limit
    BY <1>2, <2>1, Bounds DEF State
  <2>3. vain' \in Nat /\ vain' = vain
    BY <1>1, <1>2, Bounds DEF State
  <2>4. Filled(callback) \in Nat /\ Filled(callback') - vain' = (Filled(callback) - vain) + k
    BY <1>13, <2>1, <2>3
  <2>. QED BY <1>2, <1>13, <2>2, <2>3, <2>4, WorkMoves
<1>15. Counted(count', held', lost', callback', timers', stack')
  <2>1. PICK g : g = Less(count, {f})
    OBVIOUS
  <2>2. DOMAIN count = Things
    BY <1>2 DEF State
  <2>3. g = [x \in Things |-> g[x]] /\ DOMAIN g = Things
    BY <2>1, <2>2, MoreLess
  <2>4. \A x \in Things : g[x] = IF x \in {f} THEN count[x] - 1 ELSE count[x]
    BY <2>1, <2>2, MoreLess
  <2>5. ASSUME NEW x \in Things
        PROVE  g[x] = held'[x] + lost'[x] + (Holding(callback', x) + Pending(timers', x) + Pending(stack', x))
    <3>1. /\ count[x] = held[x] + lost[x] + (Holding(callback, x) + Pending(timers, x) + Pending(stack, x))
          /\ count[x] \in Nat /\ held[x] \in Nat /\ lost[x] \in Nat /\ Holding(callback, x) \in Nat
          /\ Pending(timers, x) \in Nat /\ Pending(stack, x) \in Nat
      BY <1>2, CountsAre
    <3>2. PICK k \in Nat : count[x] - k = g[x] /\ Holding(callback, x) = Holding(callback', x) + k
      <4>1. Holding(callback, x) = Holding(callback', x) + (IF x = f THEN 1 ELSE 0)
        BY <1>13
      <4>2. g[x] = IF x = f THEN count[x] - 1 ELSE count[x]
        BY <2>4
      <4>3. PICK k \in Nat : k = IF x = f THEN 1 ELSE 0
        OBVIOUS
      <4>4. count[x] - k = g[x]
        BY <3>1, <4>2, <4>3
      <4>. QED BY <4>1, <4>3, <4>4
    <3>3. /\ held'[x] = held[x] /\ lost'[x] = lost[x] /\ Pending(timers', x) = Pending(timers, x)
          /\ Pending(stack', x) = Pending(stack, x) /\ Holding(callback', x) \in Nat
      BY <1>12, <1>13
    <3>. QED BY ONLY <3>1, <3>2, <3>3, SMTT(30)
  <2>. QED BY <1>1, <2>1, <2>3, <2>5 DEF Counted
<1>16. State' /\ ObjectCount'
  <2>1. /\ known' \subseteq Channels /\ vain' \in 0 .. MaxVain
        /\ timers' \in Seq(Timers) /\ Len(timers') <= MaxTimers
        /\ held' \in [Things -> 0 .. MaxHeld] /\ lost' \in [Things -> Nat]
        /\ fault' \in {"none", "null", "wild", "freed"}
    BY <1>1, <1>2 DEF State
  <2>. QED BY <1>12, <1>14, <1>15, <2>1, StateNext
<1>. QED BY <1>11, <1>12, <1>14, <1>16 DEF Inv

LEMMA ListenerRemoveStep ==
  ASSUME Inv, NEW o \in Objects, NEW t \in Types, NEW f \in Callbacks, ListenerRemove(o, t, f)
  PROVE  Inv'
<1>1. PICK c \in Channels : c = <<o, t>>
  BY DEF Channels
<1>2. listeners' = (listeners - 1) % Limit /\ UNCHANGED <<timers, held, lost, fault>>
  BY DEF ListenerRemove, Uncounted
<1>3. CASE \E n \in Nodes : RemoveFound(c, f, n)
  BY <1>2, <1>3, RemoveFoundStep
<1>4. CASE vain < MaxVain /\ vain' = vain + 1 /\ UNCHANGED <<table, stack, count>>
  BY <1>2, <1>4, RemoveVainStep DEF table
<1>. QED BY <1>1, <1>3, <1>4 DEF ListenerRemove

-----------------------------------------------------------------------------
(* All steps, and what the invariant says.                                 *)

LEMMA InvStep == Inv /\ [Next]_vars => Inv'
<1>. SUFFICES ASSUME Inv, [Next]_vars PROVE Inv'
  OBVIOUS
<1>1. ASSUME NEW x \in Things, ObjCreate(x) \/ ObjRetain(x) PROVE Inv'
  BY <1>1, CreateStep
<1>2. ASSUME NEW x \in Things, ObjRelease(x) PROVE Inv'
  BY <1>2, ReleaseStep
<1>3. ASSUME NEW o \in Objects, NEW t \in Types, NEW f \in Callbacks, ListenerAdd(o, t, f) PROVE Inv'
  BY <1>3, ListenerAddStep
<1>4. ASSUME NEW o \in Objects, NEW t \in Types, NEW f \in Callbacks, ListenerRemove(o, t, f) PROVE Inv'
  BY <1>4, ListenerRemoveStep
<1>5. ASSUME NEW o \in Objects, NEW e \in Events, Dispatch(o, e) PROVE Inv'
  BY <1>5, DispatchStep
<1>6. CASE NextListener
  BY <1>6, NextListenerStep
<1>7. CASE LastListener
  BY <1>7, LastListenerStep
<1>8. CASE FireUndefined \/ (\E t \in Types : FireWild(t)) \/ FreedListener
  BY <1>8, FaultStep
<1>9. CASE Execute
  BY <1>9, ExecuteStep
<1>10. CASE LoopRun
  BY <1>10, LoopRunStep
<1>11. CASE Throw
  BY <1>11, ThrowStep
<1>12. ASSUME NEW t \in Types, FireUnheard(t) PROVE Inv'
  BY <1>12, FireUnheardStep
<1>13. ASSUME NEW t \in Types, FireListeners(t) PROVE Inv'
  BY <1>13, FireListenersStep
<1>14. ASSUME NEW t \in Types, FireNobody(t) PROVE Inv'
  BY <1>14, FireNobodyStep
<1>15. CASE LoopEnds
  BY <1>15, LoopEndsStep
<1>16. CASE UNCHANGED vars
  BY <1>16, Unchanging
<1>17. CASE Code
  BY <1>1, <1>2, <1>3, <1>4, <1>5, <1>6, <1>7, <1>8, <1>9, <1>10, <1>11, <1>17 DEF Code
<1>18. CASE Turn
  BY <1>8, <1>12, <1>13, <1>14, <1>15, <1>18 DEF Turn
<1>. QED BY <1>16, <1>17, <1>18 DEF Next

LEMMA Invariance == Spec => []Inv
<1>. QED BY InitInv, InvStep, PTL DEF Spec

LEMMA InvTypes == Inv => TypeOK
<1>. SUFFICES ASSUME Inv PROVE TypeOK
  OBVIOUS
<1>1. /\ first \in [Channels -> Nodes \cup {NULL}] /\ last \in [Channels -> Nodes \cup {NULL}]
      /\ next \in [Nodes -> Nodes \cup {NULL}] /\ callback \in [Nodes -> Callbacks \cup {NULL}]
  BY DEF Inv, Pointers, Threads
<1>. QED BY <1>1 DEF Inv, State, TypeOK, Timers

LEMMA InvLinked == Inv => Linked
<1>. SUFFICES ASSUME Inv PROVE Linked
  OBVIOUS
<1>1. PICK P : Threads(first, last, next, callback, P)
  BY DEF Inv, Pointers
<1>2. ASSUME NEW c \in Channels
      PROVE  /\ P[c] \in Seq(Nodes) /\ Len(P[c]) \in Nat /\ Chain(c) = From(P[c], 1)
             /\ \A i \in 1 .. Len(P[c]) : P[c][i] \in Used
             /\ Len(P[c]) = 0 => Chain(c) = {} /\ last[c] = NULL
             /\ Len(P[c]) # 0 => last[c] \in Chain(c) /\ next[last[c]] = NULL
  <2>1. /\ P[c] \in Seq(Nodes) /\ Len(P[c]) \in Nat
        /\ \A i \in 1 .. Len(P[c]) : /\ P[c][i] \in Nodes /\ P[c][i] # NULL /\ callback[P[c][i]] # NULL
                                     /\ next[P[c][i]] = IF i = Len(P[c]) THEN NULL ELSE P[c][i+1]
    BY <1>1, PathFacts
  <2>2. /\ Line(next, P[c])
        /\ first[c] = IF Len(P[c]) = 0 THEN NULL ELSE P[c][1]
        /\ last[c] = IF Len(P[c]) = 0 THEN NULL ELSE P[c][Len(P[c])]
    BY <1>1 DEF Threads
  <2>3. CASE Len(P[c]) = 0
    <3>1. From(P[c], 1) = {}
      BY <2>3 DEF From
    <3>. QED BY <2>1, <2>2, <2>3, <3>1, ChainNull DEF Chain, Used
  <2>4. CASE Len(P[c]) # 0
    <3>1. 1 \in 1 .. Len(P[c]) /\ Len(P[c]) \in 1 .. Len(P[c])
      BY <2>1, <2>4
    <3>2. ChainFrom(P[c][1]) = From(P[c], 1)
      BY <2>2, <3>1, ChainTail
    <3>3. Chain(c) = From(P[c], 1)
      BY <2>2, <2>4, <3>2 DEF Chain
    <3>4. P[c][Len(P[c])] \in From(P[c], 1) /\ next[P[c][Len(P[c])]] = NULL
      BY <2>1, <3>1 DEF From
    <3>. QED BY <2>1, <2>2, <2>4, <3>3, <3>4 DEF Used
  <2>. QED BY <2>3, <2>4
<1>3. ASSUME NEW c \in Channels
      PROVE  /\ Chain(c) \subseteq Used
             /\ IF Chain(c) = {} THEN last[c] = NULL ELSE last[c] \in Chain(c) /\ next[last[c]] = NULL
  <2>1. Chain(c) \subseteq Used
    BY <1>2 DEF From
  <2>2. IF Chain(c) = {} THEN last[c] = NULL ELSE last[c] \in Chain(c) /\ next[last[c]] = NULL
    BY <1>2
  <2>. QED BY <2>1, <2>2
<1>4. ASSUME NEW c \in Channels, NEW d \in Channels, c # d PROVE Chain(c) \cap Chain(d) = {}
  <2>1. SUFFICES ASSUME NEW x \in Chain(c), x \in Chain(d) PROVE FALSE
    OBVIOUS
  <2>2. x \in From(P[c], 1) /\ x \in From(P[d], 1)
    BY <1>2, <2>1
  <2>3. PICK i \in 1 .. Len(P[c]) : x = P[c][i]
    BY <2>2 DEF From
  <2>4. PICK j \in 1 .. Len(P[d]) : x = P[d][j]
    BY <2>2 DEF From
  <2>5. P[c][i] # P[d][j]
    BY <1>1, <1>4 DEF Threads
  <2>. QED BY <2>3, <2>4, <2>5
<1>. QED BY <1>3, <1>4 DEF Linked

\* A dispatch that ends stands on the last place of its list.
LEMMA InvDelivers ==
  Inv /\ [Next]_vars => [Len(stack') = Depth - 1 /\ Top.kind = "listener" => Top.due = {}]_vars
<1>. SUFFICES ASSUME Inv, Next, Len(stack') = Depth - 1, Top.kind = "listener" PROVE Top.due = {}
  OBVIOUS
<1>1. State /\ Nested /\ Pointers /\ Inv'
  BY InvStep DEF Inv
<1>2. stack \in Seq(Frames) /\ Depth = Len(stack) /\ Len(stack) \in Nat
  BY <1>1 DEF State, Depth
<1>3. stack' \in Seq(Frames)
  BY <1>1 DEF Inv, State
<1>4. stack # <<>>
  BY <1>2, <1>3
<1>5. Depth - 2 \in 0 .. Depth /\ Depth # Depth - 1 /\ Depth - 2 # Depth - 1 /\ Depth + 1 # Depth - 1
  BY <1>1, <1>4, TopNests
<1>6. ASSUME stack' = stack PROVE FALSE
  BY <1>2, <1>5, <1>6
<1>7. ASSUME NEW fr, stack' = Append(stack, fr) PROVE FALSE
  BY <1>2, <1>5, <1>7
<1>8. ASSUME NEW n, stack' = Left(n) PROVE FALSE
  BY <1>1, <1>2, <1>5, <1>8, LeftFacts
<1>9. ASSUME NextListener PROVE FALSE
  <2>1. stack' = [stack EXCEPT ![Depth].node = Following(Top.node), ![Depth].due = @ \ {Following(Top.node)}]
    BY <1>9 DEF NextListener
  <2>2. Len(stack') = Len(stack)
    BY <1>2, <2>1
  <2>. QED BY <1>2, <1>5, <2>2
<1>10. ASSUME LoopRun \/ LoopEnds PROVE FALSE
  BY <1>10 DEF LoopRun, LoopEnds, InLoop
<1>11. ASSUME Throw PROVE FALSE
  <2>1. stack' = SubSeq(stack, 1, Depth - 2)
    BY <1>11 DEF Throw
  <2>2. Len(stack') = Depth - 2
    BY <1>1, <1>5, <2>1, Front
  <2>. QED BY <1>5, <2>2
<1>12. ASSUME NEW x \in Things, ObjCreate(x) \/ ObjRetain(x) \/ ObjRelease(x) PROVE FALSE
  BY <1>6, <1>12 DEF ObjCreate, ObjRetain, ObjRelease
<1>13. ASSUME NEW o \in Objects, NEW t \in Types, NEW f \in Callbacks, ListenerAdd(o, t, f) \/ ListenerRemove(o, t, f)
       PROVE  FALSE
  <2>1. CASE ListenerAdd(o, t, f)
    BY <1>6, <2>1 DEF ListenerAdd
  <2>2. CASE ListenerRemove(o, t, f)
    <3>1. (\E n \in Nodes : stack' = Left(n)) \/ stack' = stack
      BY <2>2 DEF ListenerRemove, RemoveFound
    <3>. QED BY <1>6, <1>8, <3>1
  <2>. QED BY <1>13, <2>1, <2>2
<1>14. ASSUME NEW o \in Objects, NEW e \in Events, Dispatch(o, e) PROVE FALSE
  BY <1>6, <1>14 DEF Dispatch
<1>15. ASSUME FreedListener PROVE FALSE
  BY <1>6, <1>15 DEF FreedListener
<1>16. ASSUME Execute PROVE FALSE
  BY <1>7, <1>16 DEF Execute
<1>17. ASSUME Turn PROVE FALSE
  <2>1. InLoop
    BY <1>17 DEF Turn, FireUndefined, FireUnheard, FireWild, FireListeners, FireNobody, LoopEnds, Heard
  <2>. QED BY <2>1 DEF InLoop
<1>18. LastListener
  BY <1>9, <1>10, <1>11, <1>12, <1>13, <1>14, <1>15, <1>16, <1>17 DEF Next, Code
<1>19. Top.node # NULL /\ next[Top.node] = NULL
  BY <1>18 DEF LastListener, Following
<1>20. PICK P : Threads(first, last, next, callback, P) /\ Stands(P, stack)
  BY <1>1 DEF Pointers
<1>21. Top \in Frames /\ Top.object \in Objects /\ Depth \in 1 .. Depth /\ Top = stack[Depth]
  BY <1>1, <1>4, TopNests
<1>22. Follows(P, Top)
  BY <1>20, <1>21 DEF Stands, Depth
<1>23. PICK t \in Types : \E j \in 1 .. Len(P[<<Top.object, t>>]) :
         P[<<Top.object, t>>][j] = Top.node /\ Top.due \subseteq From(P[<<Top.object, t>>], j + 1)
  BY <1>19, <1>22 DEF Follows
<1>24. PICK c \in Channels : c = <<Top.object, t>>
  BY <1>21 DEF Channels
<1>25. PICK j \in 1 .. Len(P[c]) : P[c][j] = Top.node /\ Top.due \subseteq From(P[c], j + 1)
  BY <1>23, <1>24
<1>26. /\ Len(P[c]) \in Nat
       /\ \A i \in 1 .. Len(P[c]) : next[P[c][i]] = (IF i = Len(P[c]) THEN NULL ELSE P[c][i+1]) /\ P[c][i] # NULL
  BY <1>20, PathFacts
<1>27. j = Len(P[c])
  <2>1. SUFFICES ASSUME j # Len(P[c]) PROVE FALSE
    OBVIOUS
  <2>2. j + 1 \in 1 .. Len(P[c])
    BY <1>26, <2>1
  <2>. QED BY <1>19, <1>25, <1>26, <2>1, <2>2
<1>28. From(P[c], j + 1) = {}
  BY <1>26, <1>27 DEF From
<1>. QED BY <1>25, <1>28

-----------------------------------------------------------------------------
(* What holds in every behaviour.                                          *)

(* Pointers lead to nodes, dispatches are of objects and events, and the   *)
(* bounds are kept, in every state (solevent.c, solop.c:650-682).          *)
THEOREM TypeCorrect == Spec => []TypeOK
BY Invariance, InvTypes, PTL

(* The end pointer of every list is its last node, and no node is in two   *)
(* lists, whatever listeners do to the list that the loop walks            *)
(* (solevent.c:20-62).                                                     *)
THEOREM StaysLinked == Spec => []Linked
BY Invariance, InvLinked, PTL

(* The count of every object is the number of references to it, MaxLost of *)
(* those that errors and the loop have lost included (solop.c:664-677).    *)
THEOREM ReferencesCounted == Spec => []ObjectCount
<1>1. Inv => ObjectCount
  BY DEF Inv
<1>. QED BY <1>1, Invariance, PTL

(* listener_count is the number of nodes less the removals in vain, modulo *)
(* the width of an unsigned integer (solevent.c:10-12, 23, 44).            *)
THEOREM WorkIsCounted == Spec => []WorkCounted
<1>1. Inv => WorkCounted
  BY DEF Inv
<1>. QED BY <1>1, Invariance, PTL

(* A dispatch that ends has called every listener that was registered when *)
(* it began and not removed since (solevent.c:76-78).                      *)
THEOREM DispatchDelivers == Spec => Delivered
<1>. QED BY Invariance, InvDelivers, PTL DEF Spec, Delivered
=============================================================================
