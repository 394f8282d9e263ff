-------------------------- MODULE SolMemoryProofs ---------------------------
(***************************************************************************)
(* What the operators of SolMemory and SolDecode do to a memory that the   *)
(* counts are right in, and to a program that is what it was parsed from:  *)
(* the lemmas that the proofs about SolEval rest on.  Bal is the count of  *)
(* an object less the references that the memory itself holds of it: what  *)
(* is left for the frames to hold.                                         *)
(***************************************************************************)
EXTENDS SolMemory, SolDecode, Integers, FiniteSets, FiniteSetTheorems,
        WellFoundedInduction, TLAPS

-----------------------------------------------------------------------------
(* Induction over the natural numbers, as facts about sets of numbers. *)

(* A set of numbers that has 0, and with a number the next, has them all:  *)
(* the form in which the proofs about walks, scopes and handlers use it.   *)
LEMMA SetInduction ==
  ASSUME NEW S, 0 \in S, \A n \in Nat : n \in S => n + 1 \in S
  PROVE  Nat \subseteq S
<1>. DEFINE R == OpToRel(<, Nat)
            T == Nat \ S
<1>1. SUFFICES ASSUME T # {} PROVE FALSE
  OBVIOUS
<1>2. IsWellFoundedOn(R, Nat)
  BY NatLessThanWellFounded
<1>3. R = {ss \in Nat \X Nat : ss[1] < ss[2]}
  BY DEF OpToRel
<1>. HIDE DEF R
<1>4. PICK x \in T : \A y \in T : ~(<<y, x>> \in R)
  BY <1>1, <1>2, WFMin
<1>5. x \in Nat /\ x # 0 /\ x - 1 \in Nat /\ (x - 1) + 1 = x
  BY <1>4
<1>6. <<x - 1, x>> \in R
  BY <1>3, <1>5
<1>7. x - 1 \in S
  BY <1>4, <1>5, <1>6
<1>. QED BY <1>4, <1>5, <1>7

(* A set of numbers that is not empty has a least one.                     *)
LEMMA Least ==
  ASSUME NEW S \in SUBSET Nat, S # {}
  PROVE  \E n \in S : \A m \in S : n <= m
<1>. DEFINE R == OpToRel(<, Nat)
<1>1. IsWellFoundedOn(R, Nat)
  BY NatLessThanWellFounded
<1>2. R = {ss \in Nat \X Nat : ss[1] < ss[2]}
  BY DEF OpToRel
<1>. HIDE DEF R
<1>3. PICK n \in S : \A m \in S : ~(<<m, n>> \in R)
  BY <1>1, WFMin
<1>4. ASSUME NEW m \in S PROVE n <= m
  <2>1. m \in Nat /\ n \in Nat
    OBVIOUS
  <2>2. ~(m < n)
    BY <1>2, <1>3, <2>1
  <2>. QED BY <2>1, <2>2
<1>. QED BY <1>4

-----------------------------------------------------------------------------
(* How often families of references have an object. *)

Ind(x, a) == IF x = a THEN 1 ELSE 0

LEMMA OccType ==
  ASSUME NEW f, IsFiniteSet(DOMAIN f), NEW a
  PROVE  /\ Occurrences(f, a) \in Nat
         /\ Occurrences(f, a) = 0 <=> \A p \in DOMAIN f : f[p] # a
<1>. DEFINE S == {p \in DOMAIN f : f[p] = a}
<1>1. IsFiniteSet(S) /\ Cardinality(S) \in Nat
  BY FS_Subset, FS_CardinalityType
<1>2. Cardinality(S) = 0 <=> S = {}
  BY <1>1, FS_EmptySet
<1>. QED BY <1>1, <1>2 DEF Occurrences

\* Families that agree where they have a.
LEMMA OccSame ==
  ASSUME NEW f, NEW g, NEW a,
         \A p : (p \in DOMAIN f /\ f[p] = a) <=> (p \in DOMAIN g /\ g[p] = a)
  PROVE  Occurrences(f, a) = Occurrences(g, a)
<1>1. {p \in DOMAIN f : f[p] = a} = {p \in DOMAIN g : g[p] = a}
  OBVIOUS
<1>. QED BY <1>1 DEF Occurrences

\* Places that correspond.
LEMMA OccMoved ==
  ASSUME NEW f, NEW g, IsFiniteSet(DOMAIN f), NEW a, NEW b,
         \A p \in DOMAIN f : b[p] \in DOMAIN g /\ g[b[p]] = f[p],
         \A q \in DOMAIN g : g[q] = a => \E p \in DOMAIN f : b[p] = q,
         \A p, q \in DOMAIN f : b[p] = b[q] => p = q
  PROVE  Occurrences(g, a) = Occurrences(f, a)
<1>. DEFINE S == {p \in DOMAIN f : f[p] = a}
            T == {p \in DOMAIN g : g[p] = a}
            c == [p \in S |-> b[p]]
<1>1. IsFiniteSet(S)
  BY FS_Subset
<1>2. c \in Bijection(S, T)
  <2>1. c \in [S -> T]
    OBVIOUS
  <2>2. \A p, q \in S : c[p] = c[q] => p = q
    OBVIOUS
  <2>3. \A q \in T : \E p \in S : c[p] = q
    OBVIOUS
  <2>. HIDE DEF S, T, c
  <2>. QED BY <2>1, <2>2, <2>3 DEF Bijection, Injection, Surjection, IsInjective
<1>3. Cardinality(S) = Cardinality(T)
  BY <1>1, <1>2, FS_Bijection DEF ExistsBijection
<1>. QED BY <1>3 DEF Occurrences

\* h has the places of f and those of g.
LEMMA OccUnion ==
  ASSUME NEW f, NEW g, NEW h, NEW a, IsFiniteSet(DOMAIN f), IsFiniteSet(DOMAIN g),
         DOMAIN f \cap DOMAIN g = {}, DOMAIN h = DOMAIN f \cup DOMAIN g,
         \A p \in DOMAIN f : h[p] = f[p], \A p \in DOMAIN g : h[p] = g[p]
  PROVE  IsFiniteSet(DOMAIN h) /\ Occurrences(h, a) = Occurrences(f, a) + Occurrences(g, a)
<1>. DEFINE S == {p \in DOMAIN f : f[p] = a}
            T == {p \in DOMAIN g : g[p] = a}
            U == {p \in DOMAIN h : h[p] = a}
<1>1. IsFiniteSet(S) /\ IsFiniteSet(T)
  BY FS_Subset
<1>2. U = S \cup T /\ S \cap T = {}
  OBVIOUS
<1>3. Cardinality(S) \in Nat /\ Cardinality(T) \in Nat
  BY <1>1, FS_CardinalityType
<1>. HIDE DEF S, T, U
<1>4. Cardinality(U) = Cardinality(S) + Cardinality(T)
  <2>1. Cardinality(S \cup T) = Cardinality(S) + Cardinality(T) - Cardinality(S \cap T)
    BY <1>1, FS_Union
  <2>2. Cardinality(S \cap T) = 0
    BY <1>2, FS_EmptySet
  <2>. QED BY <1>2, <1>3, <2>1, <2>2
<1>5. IsFiniteSet(DOMAIN h)
  BY FS_Union
<1>. QED BY <1>4, <1>5 DEF Occurrences, S, T, U

Splits(f, g, h) ==
  /\ IsFiniteSet(DOMAIN f) /\ IsFiniteSet(DOMAIN g)
  /\ DOMAIN f \cap DOMAIN g = {} /\ DOMAIN h = DOMAIN f \cup DOMAIN g
  /\ \A p \in DOMAIN f : h[p] = f[p]
  /\ \A p \in DOMAIN g : h[p] = g[p]

LEMMA OccSplit ==
  ASSUME NEW f, NEW g, NEW h, NEW a, Splits(f, g, h)
  PROVE  IsFiniteSet(DOMAIN h) /\ Occurrences(h, a) = Occurrences(f, a) + Occurrences(g, a)
  BY OccUnion DEF Splits

LEMMA OccNone ==
  ASSUME NEW f, NEW a, DOMAIN f = {}
  PROVE  IsFiniteSet(DOMAIN f) /\ Occurrences(f, a) = 0
<1>1. {p \in DOMAIN f : f[p] = a} = {}
  OBVIOUS
<1>. QED BY <1>1, FS_EmptySet DEF Occurrences

LEMMA OccAt ==
  ASSUME NEW f, NEW a, NEW d, DOMAIN f = {d}
  PROVE  IsFiniteSet(DOMAIN f) /\ Occurrences(f, a) = Ind(f[d], a)
<1>1. CASE f[d] = a
  <2>1. {p \in DOMAIN f : f[p] = a} = {d}
    BY <1>1
  <2>. QED BY <1>1, <2>1, FS_Singleton DEF Occurrences, Ind
<1>2. CASE f[d] # a
  <2>1. {p \in DOMAIN f : f[p] = a} = {}
    BY <1>2
  <2>. QED BY <1>2, <2>1, FS_EmptySet, FS_Singleton DEF Occurrences, Ind
<1>. QED BY <1>1, <1>2

\* g has one more place than f.
LEMMA OccMore ==
  ASSUME NEW f, NEW g, NEW a, NEW d, IsFiniteSet(DOMAIN f), d \notin DOMAIN f,
         DOMAIN g = DOMAIN f \cup {d}, \A p \in DOMAIN f : g[p] = f[p]
  PROVE  IsFiniteSet(DOMAIN g) /\ Occurrences(g, a) = Occurrences(f, a) + Ind(g[d], a)
<1>. DEFINE e == [p \in {d} |-> g[d]]
<1>1. DOMAIN e = {d} /\ e[d] = g[d]
  OBVIOUS
<1>2. IsFiniteSet(DOMAIN e) /\ Occurrences(e, a) = Ind(g[d], a)
  BY <1>1, OccAt
<1>. HIDE DEF e
<1>3. /\ \A p \in DOMAIN e : g[p] = e[p]
      /\ DOMAIN f \cap DOMAIN e = {} /\ DOMAIN g = DOMAIN f \cup DOMAIN e
  BY <1>1
<1>4. IsFiniteSet(DOMAIN g) /\ Occurrences(g, a) = Occurrences(f, a) + Occurrences(e, a)
  BY <1>1, <1>2, <1>3, OccUnion
<1>. QED BY <1>2, <1>4

\* g differs from f in place d only.
LEMMA OccExcept ==
  ASSUME NEW f, NEW g, NEW a, NEW d, IsFiniteSet(DOMAIN f), d \in DOMAIN f,
         DOMAIN g = DOMAIN f, \A p \in DOMAIN f : p # d => g[p] = f[p]
  PROVE  Occurrences(g, a) = Occurrences(f, a) + Ind(g[d], a) - Ind(f[d], a)
<1>. DEFINE e == [p \in DOMAIN f \ {d} |-> f[p]]
<1>1. DOMAIN e = DOMAIN f \ {d} /\ \A p \in DOMAIN e : f[p] = e[p] /\ g[p] = e[p]
  OBVIOUS
<1>2. /\ IsFiniteSet(DOMAIN e) /\ DOMAIN f = DOMAIN e \cup {d} /\ d \notin DOMAIN e
      /\ DOMAIN g = DOMAIN e \cup {d}
      /\ \A p \in DOMAIN e : f[p] = e[p]
      /\ \A p \in DOMAIN e : g[p] = e[p]
  BY <1>1, FS_Subset
<1>. HIDE DEF e
<1>3. Occurrences(f, a) = Occurrences(e, a) + Ind(f[d], a)
  BY <1>2, OccMore
<1>4. Occurrences(g, a) = Occurrences(e, a) + Ind(g[d], a)
  BY <1>2, OccMore
<1>5. Occurrences(e, a) \in Nat /\ Ind(f[d], a) \in Nat
  BY <1>2, OccType DEF Ind
<1>. QED BY <1>3, <1>4, <1>5 DEF Ind

LEMMA OccOne ==
  ASSUME NEW x, NEW a
  PROVE  IsFiniteSet(DOMAIN <<x>>) /\ Occurrences(<<x>>, a) = Ind(x, a)
<1>1. DOMAIN <<x>> = {1} /\ <<x>>[1] = x
  OBVIOUS
<1>. QED BY <1>1, OccAt

LEMMA OccTwo ==
  ASSUME NEW x, NEW y, NEW a
  PROVE  IsFiniteSet(DOMAIN <<x, y>>) /\ Occurrences(<<x, y>>, a) = Ind(x, a) + Ind(y, a)
<1>1. DOMAIN <<x, y>> = DOMAIN <<x>> \cup {2} /\ 2 \notin DOMAIN <<x>> /\ <<x, y>>[2] = y
      /\ \A p \in DOMAIN <<x>> : <<x, y>>[p] = <<x>>[p]
  OBVIOUS
<1>. QED BY <1>1, OccOne, OccMore

LEMMA OccThree ==
  ASSUME NEW x, NEW y, NEW z, NEW a
  PROVE  IsFiniteSet(DOMAIN <<x, y, z>>) /\ Occurrences(<<x, y, z>>, a) = Ind(x, a) + Ind(y, a) + Ind(z, a)
<1>1. DOMAIN <<x, y, z>> = DOMAIN <<x, y>> \cup {3} /\ 3 \notin DOMAIN <<x, y>> /\ <<x, y, z>>[3] = z
      /\ \A p \in DOMAIN <<x, y>> : <<x, y, z>>[p] = <<x, y>>[p]
  OBVIOUS
<1>. QED BY <1>1, OccTwo, OccMore

LEMMA OccFive ==
  ASSUME NEW x, NEW y, NEW z, NEW u, NEW v, NEW a
  PROVE  /\ IsFiniteSet(DOMAIN <<x, y, z, u, v>>)
         /\ Occurrences(<<x, y, z, u, v>>, a) = Ind(x, a) + Ind(y, a) + Ind(z, a) + Ind(u, a) + Ind(v, a)
<1>1. DOMAIN <<x, y, z, u>> = DOMAIN <<x, y, z>> \cup {4} /\ 4 \notin DOMAIN <<x, y, z>>
      /\ <<x, y, z, u>>[4] = u /\ \A p \in DOMAIN <<x, y, z>> : <<x, y, z, u>>[p] = <<x, y, z>>[p]
  OBVIOUS
<1>2. DOMAIN <<x, y, z, u, v>> = DOMAIN <<x, y, z, u>> \cup {5} /\ 5 \notin DOMAIN <<x, y, z, u>>
      /\ <<x, y, z, u, v>>[5] = v /\ \A p \in DOMAIN <<x, y, z, u>> : <<x, y, z, u, v>>[p] = <<x, y, z, u>>[p]
  OBVIOUS
<1>3. IsFiniteSet(DOMAIN <<x, y, z, u>>)
      /\ Occurrences(<<x, y, z, u>>, a) = Occurrences(<<x, y, z>>, a) + Ind(u, a)
  BY <1>1, OccThree, OccMore
<1>4. IsFiniteSet(DOMAIN <<x, y, z, u, v>>)
      /\ Occurrences(<<x, y, z, u, v>>, a) = Occurrences(<<x, y, z, u>>, a) + Ind(v, a)
  BY <1>2, <1>3, OccMore
<1>. QED BY <1>3, <1>4, OccThree

-----------------------------------------------------------------------------
(* Sequences and finite sets. *)

IsSeq(s) == s \in Seq({s[i] : i \in DOMAIN s})

LEMMA SeqFacts ==
  ASSUME NEW s, IsSeq(s)
  PROVE  Len(s) \in Nat /\ DOMAIN s = 1 .. Len(s) /\ s = [i \in 1 .. Len(s) |-> s[i]]
BY DEF IsSeq

LEMMA SeqFinite == ASSUME NEW s, IsSeq(s) PROVE IsFiniteSet(DOMAIN s)
<1>1. Len(s) \in Int /\ DOMAIN s = 1 .. Len(s)
  BY SeqFacts
<1>. QED BY <1>1, FS_Interval

LEMMA SeqAny == ASSUME NEW S, NEW s \in Seq(S) PROVE IsSeq(s)
<1>1. \A i \in 1 .. Len(s) : s[i] \in {s[j] : j \in DOMAIN s}
  OBVIOUS
<1>. DEFINE T == {s[j] : j \in DOMAIN s}
<1>2. s \in [1 .. Len(s) -> T] /\ Len(s) \in Nat
  BY <1>1
<1>. HIDE DEF T
<1>3. s \in Seq(T)
  BY <1>2
<1>. QED BY <1>3 DEF IsSeq, T

LEMMA SeqMade ==
  ASSUME NEW n \in Nat, NEW f, f = [i \in 1 .. n |-> f[i]]
  PROVE  IsSeq(f) /\ Len(f) = n /\ DOMAIN f = 1 .. n
<1>1. DOMAIN f = 1 .. n
  OBVIOUS
<1>2. f \in [1 .. n -> {f[i] : i \in DOMAIN f}]
  BY <1>1
<1>. QED BY <1>1, <1>2 DEF IsSeq

LEMMA SeqMore ==
  ASSUME NEW s, IsSeq(s), NEW x
  PROVE  LET t == Append(s, x) IN
         /\ IsSeq(t) /\ Len(t) = Len(s) + 1 /\ DOMAIN t = 1 .. Len(s) + 1
         /\ t[Len(s) + 1] = x /\ \A i \in 1 .. Len(s) : t[i] = s[i]
<1>. DEFINE S == {s[i] : i \in DOMAIN s} \cup {x}
            t == Append(s, x)
<1>1. s \in Seq(S) /\ x \in S
  BY SeqFacts DEF IsSeq
<1>2. t \in Seq(S) /\ Len(t) = Len(s) + 1 /\ t[Len(s) + 1] = x
      /\ \A i \in 1 .. Len(s) : t[i] = s[i]
  BY <1>1
<1>. HIDE DEF S
<1>. HIDE DEF t
<1>4. IsSeq(t) /\ DOMAIN t = 1 .. Len(s) + 1
  BY <1>2, SeqAny, SeqFacts
<1>. QED BY <1>2, <1>4 DEF t

LEMMA SeqFront ==
  ASSUME NEW s, IsSeq(s), Len(s) > 0
  PROVE  LET t == Front(s) IN
         IsSeq(t) /\ Len(t) = Len(s) - 1 /\ DOMAIN t = 1 .. Len(s) - 1 /\ \A i \in DOMAIN t : t[i] = s[i]
<1>. DEFINE t == Front(s)
<1>1. Len(s) - 1 \in Nat
  BY SeqFacts
<1>2. t = [i \in 1 .. Len(s) - 1 |-> t[i]] /\ \A i \in 1 .. Len(s) - 1 : t[i] = s[i]
  BY <1>1, SeqFacts DEF Front
<1>. HIDE DEF t
<1>3. IsSeq(t) /\ Len(t) = Len(s) - 1 /\ DOMAIN t = 1 .. Len(s) - 1
  BY <1>1, <1>2, SeqMade
<1>. QED BY <1>2, <1>3 DEF t

LEMMA SeqTail ==
  ASSUME NEW s, IsSeq(s), Len(s) > 0
  PROVE  LET t == Tail(s) IN
         IsSeq(t) /\ Len(t) = Len(s) - 1 /\ DOMAIN t = 1 .. Len(s) - 1 /\ \A i \in DOMAIN t : t[i] = s[i + 1]
<1>. DEFINE t == Tail(s)
            S == {s[i] : i \in DOMAIN s}
<1>1. s \in Seq(S) /\ s # <<>> /\ Len(s) \in Nat
  BY SeqFacts DEF IsSeq
<1>. HIDE DEF S
<1>2. t \in Seq(S) /\ Len(t) = Len(s) - 1 /\ \A i \in 1 .. Len(s) - 1 : t[i] = s[i + 1]
  BY <1>1
<1>. HIDE DEF t
<1>3. IsSeq(t) /\ DOMAIN t = 1 .. Len(s) - 1
  BY <1>2, SeqAny, SeqFacts
<1>. QED BY <1>2, <1>3 DEF t

Joined(s, t, u) ==
  /\ IsSeq(u) /\ Len(u) = Len(s) + Len(t)
  /\ \A i \in 1 .. Len(s) : u[i] = s[i]
  /\ \A i \in 1 .. Len(t) : u[Len(s) + i] = t[i]

LEMMA SeqJoin ==
  ASSUME NEW s, IsSeq(s), NEW t, IsSeq(t)
  PROVE  Joined(s, t, s \o t)
<1>1. PICK S : S = {s[i] : i \in DOMAIN s} \cup {t[i] : i \in DOMAIN t}
  OBVIOUS
<1>2. s \in Seq(S)
  <2>1. s \in Seq({s[i] : i \in DOMAIN s}) /\ Len(s) \in Nat /\ DOMAIN s = 1 .. Len(s)
    BY SeqFacts DEF IsSeq
  <2>2. \A i \in 1 .. Len(s) : s[i] \in S
    BY <1>1, <2>1
  <2>. QED BY <2>1, <2>2
<1>3. t \in Seq(S)
  <2>1. t \in Seq({t[i] : i \in DOMAIN t}) /\ Len(t) \in Nat /\ DOMAIN t = 1 .. Len(t)
    BY SeqFacts DEF IsSeq
  <2>2. \A i \in 1 .. Len(t) : t[i] \in S
    BY <1>1, <2>1
  <2>. QED BY <2>1, <2>2
<1>4. Len(s) \in Nat /\ Len(t) \in Nat
  BY <1>2, <1>3
<1>5. s \o t \in Seq(S) /\ Len(s \o t) = Len(s) + Len(t)
      /\ \A i \in 1 .. Len(s) + Len(t) : (s \o t)[i] = IF i <= Len(s) THEN s[i] ELSE t[i - Len(s)]
  BY <1>2, <1>3
<1>6. IsSeq(s \o t)
  BY <1>5, SeqAny
<1>7. \A i \in 1 .. Len(s) : (s \o t)[i] = s[i]
  BY <1>4, <1>5
<1>8. \A i \in 1 .. Len(t) : (s \o t)[Len(s) + i] = t[i]
  <2>. TAKE i \in 1 .. Len(t)
  <2>1. PICK k : k = Len(s) + i /\ k \in 1 .. Len(s) + Len(t) /\ ~(k <= Len(s)) /\ k - Len(s) = i
    BY <1>4
  <2>. QED BY <1>5, <2>1
<1>. QED BY <1>5, <1>6, <1>7, <1>8 DEF Joined

\* The union of finitely many finite sets.
LEMMA FiniteUnion ==
  ASSUME NEW D, IsFiniteSet(D), NEW f, \A a \in D : IsFiniteSet(f[a])
  PROVE  IsFiniteSet(UNION {f[a] : a \in D})
<1>. DEFINE T == {f[a] : a \in D}
            g == [a \in D |-> f[a]]
<1>1. g \in [D -> T] /\ \A t \in T : \E a \in D : g[a] = t
  OBVIOUS
<1>2. g \in Surjection(D, T)
  BY <1>1 DEF Surjection
<1>3. IsFiniteSet(T)
  BY <1>2, FS_Surjection
<1>4. \A t \in T : IsFiniteSet(t)
  OBVIOUS
<1>. HIDE DEF T
<1>5. IsFiniteSet(UNION T)
  BY <1>3, <1>4, FS_UNION
<1>. QED BY <1>5 DEF T

-----------------------------------------------------------------------------
(* Memories. *)

Fields == {"type", "value", "items", "props", "closure", "parent", "count", "lost"}

\* Addresses, of objects and NULL.
Addr(m) == 0 .. Len(m.heap)
Count(m, a) == m.heap[a].count
Lost(m, a) == m.heap[a].lost
Alive(m, a) == a \in DOMAIN m.heap /\ Count(m, a) > 0

\* A table of names.
Table(t, S) == IsFiniteSet(DOMAIN t) /\ \A n \in DOMAIN t : t[n] \in S

Empty(o) ==
  /\ o.type = "gone" /\ o.items = <<>> /\ DOMAIN o.props = {} /\ DOMAIN o.closure = {}
  /\ o.parent = NULL /\ o.lost = 0

Sound(m, o) ==
  /\ DOMAIN o = Fields
  /\ o.count \in Nat /\ o.lost \in Nat /\ o.parent \in Addr(m)
  /\ IsSeq(o.items) /\ \A i \in DOMAIN o.items : o.items[i] \in Addr(m)
  /\ Table(o.props, Addr(m)) /\ Table(o.closure, DOMAIN m.bindings)
  /\ o.count = 0 => Empty(o)

Shape(m) ==
  /\ DOMAIN m = {"heap", "bindings", "scopes", "stray"} /\ m.stray \in BOOLEAN
  /\ IsSeq(m.heap) /\ Len(m.heap) >= False
  /\ IsSeq(m.bindings) /\ \A b \in DOMAIN m.bindings : m.bindings[b] \in Addr(m)
  /\ IsSeq(m.scopes) /\ \A i \in DOMAIN m.scopes : Table(m.scopes[i], DOMAIN m.bindings)
  /\ \A a \in DOMAIN m.heap : Sound(m, m.heap[a])
  /\ m.heap[Nil].count = 1 /\ m.heap[Nil].type = "list" /\ m.heap[Nil].items = <<>>
  /\ DOMAIN m.heap[Nil].closure = {} 

HeapOcc(m, a) == Occurrences(OwnedBy(m, DOMAIN m.heap), a)
ScopeOcc(m, a) == Occurrences(ScopeRefs(m), a)
Keeps(a) == IF a \in DOMAIN Kept THEN Kept[a] ELSE 0

\* The references to a that only C locals can own.
Balance(m, a) == Count(m, a) - HeapOcc(m, a) - ScopeOcc(m, a) - Lost(m, a) - Keeps(a)

LEMMA KeepsType == ASSUME NEW a PROVE Keeps(a) \in Nat
BY DEF Keeps, Kept

LEMMA SlotsFinite ==
  ASSUME NEW m, NEW o, Sound(m, o)
  PROVE  IsFiniteSet(Slots(o))
<1>1. IsFiniteSet(DOMAIN o.items)
  BY SeqFinite DEF Sound
<1>2. IsFiniteSet({"item"} \X DOMAIN o.items) /\ IsFiniteSet({"prop"} \X DOMAIN o.props)
      /\ IsFiniteSet({"closure"} \X DOMAIN o.closure)
  BY <1>1, FS_Singleton, FS_Product DEF Sound, Table
<1>3. IsFiniteSet({slot \in {<<"parent", 0>>} : o.parent # NULL})
  BY FS_Singleton, FS_Subset
<1>. QED BY <1>2, <1>3, FS_Union DEF Slots

\* Places in objects.
LEMMA OwnedFacts ==
  ASSUME NEW m, NEW D
  PROVE  /\ \A p : p \in DOMAIN OwnedBy(m, D) <=> \E a \in D : \E s \in Slots(m.heap[a]) : p = <<a, s>>
         /\ \A a \in D : \A s \in Slots(m.heap[a]) : OwnedBy(m, D)[<<a, s>>] = At(m, m.heap[a], s)
<1>1. DOMAIN OwnedBy(m, D) = UNION {{a} \X Slots(m.heap[a]) : a \in D}
  BY DEF OwnedBy
<1>2. \A p : p \in DOMAIN OwnedBy(m, D) <=> \E a \in D : p \in {a} \X Slots(m.heap[a])
  BY <1>1
<1>3. \A p, a : p \in {a} \X Slots(m.heap[a]) <=> \E s \in Slots(m.heap[a]) : p = <<a, s>>
  OBVIOUS
<1>4. ASSUME NEW a \in D, NEW s \in Slots(m.heap[a])
      PROVE  OwnedBy(m, D)[<<a, s>>] = At(m, m.heap[a], s)
  <2>1. <<a, s>> \in DOMAIN OwnedBy(m, D)
    BY <1>2, <1>3
  <2>2. OwnedBy(m, D)[<<a, s>>] = At(m, m.heap[<<a, s>>[1]], <<a, s>>[2])
    BY <1>1, <2>1 DEF OwnedBy
  <2>. QED BY <2>2
<1>. QED BY <1>2, <1>3, <1>4

LEMMA OwnedFinite ==
  ASSUME NEW m, Shape(m), NEW D \in SUBSET DOMAIN m.heap
  PROVE  IsFiniteSet(DOMAIN OwnedBy(m, D)) /\ IsFiniteSet(D)
<1>1. IsFiniteSet(DOMAIN m.heap)
  BY SeqFinite DEF Shape
<1>2. IsFiniteSet(D)
  BY <1>1, FS_Subset
<1>. DEFINE f == [a \in D |-> {a} \X Slots(m.heap[a])]
<1>3. ASSUME NEW a \in D PROVE IsFiniteSet(f[a])
  <2>1. IsFiniteSet(Slots(m.heap[a]))
    BY SlotsFinite DEF Shape
  <2>. QED BY <2>1, FS_Singleton, FS_Product
<1>4. UNION {{a} \X Slots(m.heap[a]) : a \in D} = UNION {f[a] : a \in D}
  OBVIOUS
<1>. HIDE DEF f
<1>5. IsFiniteSet(UNION {f[a] : a \in D})
  BY <1>2, <1>3, FiniteUnion
<1>6. IsFiniteSet(DOMAIN OwnedBy(m, D))
  BY <1>4, <1>5 DEF OwnedBy
<1>. QED BY <1>2, <1>6

LEMMA ScopeFacts ==
  ASSUME NEW m
  PROVE  /\ \A p : p \in DOMAIN ScopeRefs(m) <=>
                     \E i \in OwnScopes(m) : \E n \in DOMAIN m.scopes[i] : p = <<i, n>>
         /\ \A i \in OwnScopes(m) : \A n \in DOMAIN m.scopes[i] :
              ScopeRefs(m)[<<i, n>>] = m.bindings[m.scopes[i][n]]
         /\ DOMAIN ScopeRefs(m) = ScopePlaces(m)
<1>1. DOMAIN ScopeRefs(m) = ScopePlaces(m)
  BY DEF ScopeRefs
<1>2. \A p : p \in ScopePlaces(m) <=> \E i \in OwnScopes(m) : p \in {i} \X DOMAIN m.scopes[i]
  BY DEF ScopePlaces
<1>3. \A p, i : p \in {i} \X DOMAIN m.scopes[i] <=> \E n \in DOMAIN m.scopes[i] : p = <<i, n>>
  OBVIOUS
<1>4. ASSUME NEW i \in OwnScopes(m), NEW n \in DOMAIN m.scopes[i]
      PROVE  ScopeRefs(m)[<<i, n>>] = m.bindings[m.scopes[i][n]]
  <2>1. <<i, n>> \in ScopePlaces(m)
    BY <1>2, <1>3
  <2>. QED BY <2>1 DEF ScopeRefs
<1>. QED BY <1>1, <1>2, <1>3, <1>4

LEMMA ScopeFinite ==
  ASSUME NEW m, Shape(m)
  PROVE  IsFiniteSet(DOMAIN ScopeRefs(m))
<1>1. IsFiniteSet(DOMAIN m.scopes)
  BY SeqFinite DEF Shape
<1>2. IsFiniteSet(OwnScopes(m))
  BY <1>1, FS_Subset DEF OwnScopes
<1>. DEFINE f == [i \in OwnScopes(m) |-> {i} \X DOMAIN m.scopes[i]]
<1>3. ASSUME NEW i \in OwnScopes(m) PROVE IsFiniteSet(f[i])
  <2>1. IsFiniteSet(DOMAIN m.scopes[i])
    BY DEF OwnScopes, Shape, Table
  <2>. QED BY <2>1, FS_Singleton, FS_Product
<1>4. UNION {{i} \X DOMAIN m.scopes[i] : i \in OwnScopes(m)} = UNION {f[i] : i \in OwnScopes(m)}
  OBVIOUS
<1>. HIDE DEF f
<1>5. IsFiniteSet(UNION {f[i] : i \in OwnScopes(m)})
  BY <1>2, <1>3, FiniteUnion
<1>. QED BY <1>4, <1>5, ScopeFacts DEF ScopePlaces

LEMMA OccTypes ==
  ASSUME NEW m, Shape(m), NEW a
  PROVE  HeapOcc(m, a) \in Nat /\ ScopeOcc(m, a) \in Nat /\ Keeps(a) \in Nat
BY OwnedFinite, ScopeFinite, OccType, KeepsType DEF HeapOcc, ScopeOcc

-----------------------------------------------------------------------------
(* Retaining, and losing. *)

\* The same object, but for its counts.
SameObj(o, p) ==
  /\ DOMAIN p = DOMAIN o
  /\ p.type = o.type /\ p.value = o.value /\ p.items = o.items /\ p.props = o.props
  /\ p.closure = o.closure /\ p.parent = o.parent

\* The same memory, but for the objects.
SameNames(m, m2) ==
  /\ DOMAIN m2 = DOMAIN m /\ m2.bindings = m.bindings /\ m2.scopes = m.scopes
  /\ IsSeq(m2.heap) /\ Len(m2.heap) = Len(m.heap)

LEMMA HeapOccSame ==
  ASSUME NEW m, NEW m2, NEW D, m2.bindings = m.bindings, NEW x,
         \A a \in D : SameObj(m.heap[a], m2.heap[a])
  PROVE  Occurrences(OwnedBy(m2, D), x) = Occurrences(OwnedBy(m, D), x)
<1>1. ASSUME NEW a \in D
      PROVE  /\ Slots(m2.heap[a]) = Slots(m.heap[a])
             /\ \A s \in Slots(m.heap[a]) : At(m2, m2.heap[a], s) = At(m, m.heap[a], s)
  BY <1>1 DEF SameObj, Slots, At
<1>2. ASSUME NEW p, p \in DOMAIN OwnedBy(m2, D), OwnedBy(m2, D)[p] = x
      PROVE  p \in DOMAIN OwnedBy(m, D) /\ OwnedBy(m, D)[p] = x
  BY <1>1, <1>2, OwnedFacts
<1>3. ASSUME NEW p, p \in DOMAIN OwnedBy(m, D), OwnedBy(m, D)[p] = x
      PROVE  p \in DOMAIN OwnedBy(m2, D) /\ OwnedBy(m2, D)[p] = x
  BY <1>1, <1>3, OwnedFacts
<1>. QED BY <1>2, <1>3, OccSame

LEMMA ScopeOccSame ==
  ASSUME NEW m, NEW m2, m2.bindings = m.bindings, m2.scopes = m.scopes, NEW x
  PROVE  ScopeOcc(m2, x) = ScopeOcc(m, x)
BY DEF ScopeOcc, ScopeRefs, ScopePlaces, OwnScopes

LEMMA SameSound ==
  ASSUME NEW m, NEW m2, Shape(m), SameNames(m, m2), NEW a \in DOMAIN m.heap,
         SameObj(m.heap[a], m2.heap[a]), m2.heap[a].count \in Nat, m2.heap[a].lost \in Nat,
         m2.heap[a].count # 0
  PROVE  Sound(m2, m2.heap[a])
BY DEF Shape, Sound, SameNames, SameObj, Addr, Table

LEMMA RetainFacts ==
  ASSUME NEW m, Shape(m), NEW refs
  PROVE  LET m2 == RetainAll(m, refs) IN
         /\ SameNames(m, m2) /\ m2.stray = m.stray
         /\ \A a \in DOMAIN m.heap :
              /\ SameObj(m.heap[a], m2.heap[a]) /\ m2.heap[a].lost = m.heap[a].lost
              /\ m2.heap[a].count = IF a = Nil THEN m.heap[a].count
                                    ELSE m.heap[a].count + Occurrences(refs, a)
<1>. DEFINE m2 == RetainAll(m, refs)
            h == [a \in DOMAIN m.heap |->
                    IF a = Nil THEN m.heap[a]
                    ELSE [m.heap[a] EXCEPT !.count = @ + Occurrences(refs, a)]]
<1>1. m2 = [m EXCEPT !.heap = h]
  BY DEF RetainAll
<1>2. m2.heap = h /\ DOMAIN m2 = DOMAIN m /\ m2.bindings = m.bindings /\ m2.scopes = m.scopes
      /\ m2.stray = m.stray
  BY <1>1 DEF Shape
<1>3. Len(m.heap) \in Nat /\ h = [i \in 1 .. Len(m.heap) |-> h[i]]
  BY SeqFacts DEF Shape
<1>4. IsSeq(h) /\ Len(h) = Len(m.heap)
  <2>. HIDE DEF h
  <2>. QED BY <1>3, SeqMade
<1>5. ASSUME NEW a \in DOMAIN m.heap
      PROVE  /\ SameObj(m.heap[a], h[a]) /\ h[a].lost = m.heap[a].lost
             /\ h[a].count = IF a = Nil THEN m.heap[a].count ELSE m.heap[a].count + Occurrences(refs, a)
  <2>1. DOMAIN m.heap[a] = Fields
    BY DEF Shape, Sound
  <2>. QED BY <2>1 DEF SameObj, Fields
<1>. HIDE DEF h, m2
<1>6. QED BY <1>2, <1>4, <1>5 DEF SameNames, m2

LEMMA LoseFacts ==
  ASSUME NEW m, Shape(m), NEW refs
  PROVE  LET m2 == LoseAll(m, refs) IN
         /\ SameNames(m, m2) /\ m2.stray = m.stray
         /\ \A a \in DOMAIN m.heap :
              /\ SameObj(m.heap[a], m2.heap[a]) /\ m2.heap[a].count = m.heap[a].count
              /\ m2.heap[a].lost = IF a = Nil THEN m.heap[a].lost
                                   ELSE m.heap[a].lost + Occurrences(refs, a)
<1>. DEFINE m2 == LoseAll(m, refs)
            h == [a \in DOMAIN m.heap |->
                    IF a = Nil THEN m.heap[a]
                    ELSE [m.heap[a] EXCEPT !.lost = @ + Occurrences(refs, a)]]
<1>1. m2 = [m EXCEPT !.heap = h]
  BY DEF LoseAll
<1>2. m2.heap = h /\ DOMAIN m2 = DOMAIN m /\ m2.bindings = m.bindings /\ m2.scopes = m.scopes
      /\ m2.stray = m.stray
  BY <1>1 DEF Shape
<1>3. Len(m.heap) \in Nat /\ h = [i \in 1 .. Len(m.heap) |-> h[i]]
  BY SeqFacts DEF Shape
<1>4. IsSeq(h) /\ Len(h) = Len(m.heap)
  <2>. HIDE DEF h
  <2>. QED BY <1>3, SeqMade
<1>5. ASSUME NEW a \in DOMAIN m.heap
      PROVE  /\ SameObj(m.heap[a], h[a]) /\ h[a].count = m.heap[a].count
             /\ h[a].lost = IF a = Nil THEN m.heap[a].lost ELSE m.heap[a].lost + Occurrences(refs, a)
  <2>1. DOMAIN m.heap[a] = Fields
    BY DEF Shape, Sound
  <2>. QED BY <2>1 DEF SameObj, Fields
<1>. HIDE DEF h, m2
<1>6. QED BY <1>2, <1>4, <1>5 DEF SameNames, m2

-----------------------------------------------------------------------------
(* What holds of memories, and how they change. *)

Numbers == Int \cup {Garbage}

Kind(m, o) ==
  CASE o.type = "number" -> o.value \in Numbers
    [] o.type \in {"boolean", "list"} -> o.value \in BOOLEAN
    [] o.type = "token" -> o.value \in Names
    [] o.type = "function" ->
         \/ o.value \in Range(BuiltinNames)
         \/ /\ o.value \in {"function", "macro"} /\ {1, 2} \subseteq DOMAIN o.items
            /\ Type(m, o.items[1]) = "list" /\ Type(m, o.items[2]) = "list"
    [] OTHER -> o.type \in {"string", "object"}

Good(m) ==
  /\ Shape(m)
  /\ \A a \in DOMAIN m.heap \ {Nil} : Balance(m, a) >= 0
  /\ \A a : Alive(m, a) => Kind(m, m.heap[a])

\* What lives stays what it is; lists become longer.
Grows(m, m2) ==
  /\ DOMAIN m.heap \subseteq DOMAIN m2.heap
  /\ \A a \in DOMAIN m.heap : Alive(m2, a) =>
       /\ Alive(m, a)
       /\ m2.heap[a].type = m.heap[a].type /\ m2.heap[a].value = m.heap[a].value
       /\ m2.heap[a].closure = m.heap[a].closure
       /\ DOMAIN m.heap[a].items \subseteq DOMAIN m2.heap[a].items
       /\ \A i \in DOMAIN m.heap[a].items : m2.heap[a].items[i] = m.heap[a].items[i]

LEMMA Addresses ==
  ASSUME NEW m, Shape(m)
  PROVE  /\ Len(m.heap) \in Nat /\ DOMAIN m.heap = 1 .. Len(m.heap) /\ Addr(m) = DOMAIN m.heap \cup {NULL}
         /\ NULL \notin DOMAIN m.heap /\ Nil \in DOMAIN m.heap /\ Nil # NULL /\ Alive(m, Nil)
         /\ DOMAIN m.heap \subseteq Nat
BY SeqFacts DEF Shape, Addr, NULL, Nil, Alive, Count, False

LEMMA BalanceType ==
  ASSUME NEW m, Shape(m), NEW a \in DOMAIN m.heap
  PROVE  /\ Balance(m, a) \in Int /\ HeapOcc(m, a) \in Nat /\ ScopeOcc(m, a) \in Nat
         /\ Keeps(a) \in Nat /\ Count(m, a) \in Nat /\ Lost(m, a) \in Nat
<1>1. Count(m, a) \in Nat /\ Lost(m, a) \in Nat
  BY DEF Shape, Sound, Count, Lost
<1>2. HeapOcc(m, a) \in Nat /\ ScopeOcc(m, a) \in Nat /\ Keeps(a) \in Nat
  BY OccTypes
<1>. QED BY <1>1, <1>2 DEF Balance

LEMMA GrowsSelf ==
  ASSUME NEW m, Shape(m)
  PROVE  Grows(m, m)
BY Addresses, SeqFacts DEF Grows, Shape, Sound

LEMMA GrowsMore ==
  ASSUME NEW m, NEW m2, NEW m3, Shape(m), Shape(m2), Shape(m3), Grows(m, m2), Grows(m2, m3)
  PROVE  Grows(m, m3)
<1>1. DOMAIN m.heap \subseteq DOMAIN m3.heap /\ \A a \in DOMAIN m.heap : a \in DOMAIN m2.heap
  BY DEF Grows
<1>2. ASSUME NEW a \in DOMAIN m.heap, Alive(m3, a)
      PROVE  /\ Alive(m, a)
             /\ m3.heap[a].type = m.heap[a].type /\ m3.heap[a].value = m.heap[a].value
             /\ m3.heap[a].closure = m.heap[a].closure
             /\ DOMAIN m.heap[a].items \subseteq DOMAIN m3.heap[a].items
             /\ \A i \in DOMAIN m.heap[a].items : m3.heap[a].items[i] = m.heap[a].items[i]
  <2>1. a \in DOMAIN m2.heap /\ Alive(m2, a) /\ Alive(m, a)
    BY <1>1, <1>2 DEF Grows
  <2>2. /\ m2.heap[a].type = m.heap[a].type /\ m2.heap[a].value = m.heap[a].value
        /\ m2.heap[a].closure = m.heap[a].closure
        /\ DOMAIN m.heap[a].items \subseteq DOMAIN m2.heap[a].items
        /\ \A i \in DOMAIN m.heap[a].items : m2.heap[a].items[i] = m.heap[a].items[i]
    BY <2>1 DEF Grows
  <2>3. /\ m3.heap[a].type = m2.heap[a].type /\ m3.heap[a].value = m2.heap[a].value
        /\ m3.heap[a].closure = m2.heap[a].closure
        /\ DOMAIN m2.heap[a].items \subseteq DOMAIN m3.heap[a].items
        /\ \A i \in DOMAIN m2.heap[a].items : m3.heap[a].items[i] = m2.heap[a].items[i]
    BY <1>2, <2>1 DEF Grows
  <2>. QED BY <2>1, <2>2, <2>3
<1>. QED BY <1>1, <1>2 DEF Grows

LEMMA Referred ==
  ASSUME NEW m, Shape(m), NEW a \in DOMAIN m.heap, Balance(m, a) >= 0,
         HeapOcc(m, a) # 0 \/ ScopeOcc(m, a) # 0 \/ Keeps(a) # 0 \/ Balance(m, a) > 0
  PROVE  Alive(m, a)
<1>1. Count(m, a) \in Nat /\ HeapOcc(m, a) \in Nat /\ ScopeOcc(m, a) \in Nat
      /\ Lost(m, a) \in Nat /\ Keeps(a) \in Nat
  BY BalanceType
<1>2. Count(m, a) > 0
  BY <1>1 DEF Balance
<1>. QED BY <1>2 DEF Alive

\* What an object owns lives.
LEMMA OwnedAlive ==
  ASSUME NEW m, Shape(m), \A a \in DOMAIN m.heap \ {Nil} : Balance(m, a) >= 0,
         NEW x \in DOMAIN m.heap
  PROVE  /\ \A s \in Slots(m.heap[x]) : At(m, m.heap[x], s) = NULL \/ Alive(m, At(m, m.heap[x], s))
         /\ \A i \in DOMAIN m.heap[x].items : m.heap[x].items[i] = NULL \/ Alive(m, m.heap[x].items[i])
         /\ \A n \in DOMAIN m.heap[x].props : m.heap[x].props[n] = NULL \/ Alive(m, m.heap[x].props[n])
         /\ \A n \in DOMAIN m.heap[x].closure :
              LET a == m.bindings[m.heap[x].closure[n]] IN a = NULL \/ Alive(m, a)
<1>. DEFINE o == m.heap[x]
<1>1. ASSUME NEW s \in Slots(o) PROVE At(m, o, s) = NULL \/ Alive(m, At(m, o, s))
  <2>. DEFINE r == At(m, o, s)
  <2>1. r \in Addr(m)
    BY <1>1 DEF Shape, Sound, Table, Slots, At
  <2>2. CASE r \notin {NULL, Nil}
    <3>1. r \in DOMAIN m.heap \ {Nil} /\ Balance(m, r) >= 0
      BY <2>1, <2>2, Addresses
    <3>2. <<x, s>> \in DOMAIN OwnedBy(m, DOMAIN m.heap) /\ OwnedBy(m, DOMAIN m.heap)[<<x, s>>] = r
      BY OwnedFacts
    <3>. HIDE DEF r
    <3>3. HeapOcc(m, r) # 0
      BY <3>2, OwnedFinite, OccType DEF HeapOcc
    <3>4. Alive(m, r)
      BY <3>1, <3>3, Referred
    <3>. QED BY <3>1, <3>4 DEF r
  <2>. QED BY <2>1, <2>2, Addresses
<1>2. ASSUME NEW i \in DOMAIN o.items PROVE o.items[i] = NULL \/ Alive(m, o.items[i])
  <2>1. <<"item", i>> \in Slots(o) /\ At(m, o, <<"item", i>>) = o.items[i]
    BY DEF Slots, At
  <2>. QED BY <1>1, <2>1
<1>3. ASSUME NEW n \in DOMAIN o.props PROVE o.props[n] = NULL \/ Alive(m, o.props[n])
  <2>1. <<"prop", n>> \in Slots(o) /\ At(m, o, <<"prop", n>>) = o.props[n]
    BY DEF Slots, At
  <2>. QED BY <1>1, <2>1
<1>4. ASSUME NEW n \in DOMAIN o.closure
      PROVE  m.bindings[o.closure[n]] = NULL \/ Alive(m, m.bindings[o.closure[n]])
  <2>1. <<"closure", n>> \in Slots(o) /\ At(m, o, <<"closure", n>>) = m.bindings[o.closure[n]]
    BY DEF Slots, At
  <2>. QED BY <1>1, <2>1
<1>. QED BY <1>1, <1>2, <1>3, <1>4

LEMMA ScopedAlive ==
  ASSUME NEW m, Shape(m), \A a \in DOMAIN m.heap \ {Nil} : Balance(m, a) >= 0,
         NEW i \in OwnScopes(m), NEW n \in DOMAIN m.scopes[i]
  PROVE  LET a == m.bindings[m.scopes[i][n]] IN a = NULL \/ Alive(m, a)
<1>. DEFINE r == m.bindings[m.scopes[i][n]]
<1>1. r \in Addr(m)
  BY DEF Shape, Table, OwnScopes
<1>2. CASE r \notin {NULL, Nil}
  <2>1. r \in DOMAIN m.heap \ {Nil} /\ Balance(m, r) >= 0
    BY <1>1, <1>2, Addresses
  <2>2. <<i, n>> \in DOMAIN ScopeRefs(m) /\ ScopeRefs(m)[<<i, n>>] = r
    BY ScopeFacts
  <2>. HIDE DEF r
  <2>3. ScopeOcc(m, r) # 0
    BY <2>2, ScopeFinite, OccType DEF ScopeOcc
  <2>4. Alive(m, r)
    BY <2>1, <2>3, Referred
  <2>. QED BY <2>1, <2>4 DEF r
<1>. QED BY <1>1, <1>2, Addresses

\* An object that lived keeps its kind.
LEMMA KindKept ==
  ASSUME NEW m, NEW m2, Good(m), Shape(m2), \A a \in DOMAIN m2.heap \ {Nil} : Balance(m2, a) >= 0,
         Grows(m, m2), NEW a \in DOMAIN m.heap, Alive(m2, a)
  PROVE  Kind(m2, m2.heap[a])
<1>1. Alive(m, a) /\ Kind(m, m.heap[a]) /\ Shape(m)
  BY DEF Grows, Good
<1>2. /\ m2.heap[a].type = m.heap[a].type /\ m2.heap[a].value = m.heap[a].value
      /\ DOMAIN m.heap[a].items \subseteq DOMAIN m2.heap[a].items
      /\ \A i \in DOMAIN m.heap[a].items : m2.heap[a].items[i] = m.heap[a].items[i]
  BY DEF Grows
<1>3. ASSUME m.heap[a].type = "function", m.heap[a].value \notin Range(BuiltinNames)
      PROVE  Kind(m2, m2.heap[a])
  <2>1. /\ m.heap[a].value \in {"function", "macro"} /\ {1, 2} \subseteq DOMAIN m.heap[a].items
        /\ Type(m, m.heap[a].items[1]) = "list" /\ Type(m, m.heap[a].items[2]) = "list"
    BY <1>1, <1>3 DEF Kind
  <2>3. {1, 2} \subseteq DOMAIN m.heap[a].items /\ {1, 2} \subseteq DOMAIN m2.heap[a].items
    BY <1>2, <2>1
  <2>4. ASSUME NEW i \in {1, 2} PROVE Type(m2, m2.heap[a].items[i]) = "list"
    <3>1. m2.heap[a].items[i] = m.heap[a].items[i] /\ Type(m, m.heap[a].items[i]) = "list"
      BY <1>2, <2>1, <2>3
    <3>2. m2.heap[a].items[i] # NULL
      BY <3>1 DEF Type
    <3>3. i \in DOMAIN m2.heap[a].items /\ i \in DOMAIN m.heap[a].items
      BY <2>3
    <3>4. Alive(m2, m2.heap[a].items[i])
      BY <3>2, <3>3, OwnedAlive DEF Alive
    <3>5. m.heap[a].items[i] \in DOMAIN m.heap
      BY <1>1, <3>1, <3>2, <3>3, Addresses DEF Shape, Sound, Alive
    <3>. QED BY <3>1, <3>2, <3>4, <3>5 DEF Grows, Type
  <2>. QED BY <1>2, <1>3, <2>1, <2>3, <2>4 DEF Kind
<1>4. CASE ~(m.heap[a].type = "function" /\ m.heap[a].value \notin Range(BuiltinNames))
  BY <1>1, <1>2, <1>4 DEF Kind
<1>. QED BY <1>3, <1>4

\* How a memory is shown to be good after a change.
LEMMA GoodNext ==
  ASSUME NEW m, NEW m2, Good(m), Shape(m2), \A a \in DOMAIN m2.heap \ {Nil} : Balance(m2, a) >= 0,
         Grows(m, m2), \A a \in DOMAIN m2.heap \ DOMAIN m.heap : Kind(m2, m2.heap[a])
  PROVE  Good(m2)
BY KindKept DEF Good, Alive, Count

\* The same names, and what lives is the same but for its counts.
Same(m, m2) ==
  /\ SameNames(m, m2)
  /\ \A a : Alive(m2, a) => Alive(m, a) /\ SameObj(m.heap[a], m2.heap[a])

LEMMA SameGrows ==
  ASSUME NEW m, NEW m2, Shape(m), Same(m, m2)
  PROVE  Grows(m, m2) /\ DOMAIN m2.heap = DOMAIN m.heap
<1>1. DOMAIN m2.heap = DOMAIN m.heap
  BY SeqFacts DEF Same, SameNames, Shape
<1>2. ASSUME NEW a \in DOMAIN m.heap, Alive(m2, a)
      PROVE  Alive(m, a) /\ SameObj(m.heap[a], m2.heap[a])
  BY <1>2 DEF Same
<1>. QED BY <1>1, <1>2 DEF Grows, SameObj

\* Objects keep their places, and their counts change.
LEMMA SameOcc ==
  ASSUME NEW m, NEW m2, SameNames(m, m2), Shape(m),
         \A a \in DOMAIN m.heap : SameObj(m.heap[a], m2.heap[a]), NEW x
  PROVE  HeapOcc(m2, x) = HeapOcc(m, x) /\ ScopeOcc(m2, x) = ScopeOcc(m, x)
<1>1. DOMAIN m2.heap = DOMAIN m.heap
  BY SeqFacts DEF SameNames, Shape
<1>2. m2.bindings = m.bindings /\ m2.scopes = m.scopes
  BY DEF SameNames
<1>3. HeapOcc(m2, x) = HeapOcc(m, x)
  BY <1>1, <1>2, HeapOccSame DEF HeapOcc
<1>. QED BY <1>2, <1>3, ScopeOccSame

\* A shape survives a change of counts that frees what has none.
LEMMA SameShape ==
  ASSUME NEW m, NEW m2, Shape(m), SameNames(m, m2), m2.stray \in BOOLEAN,
         \A a \in DOMAIN m.heap : Sound(m2, m2.heap[a]),
         m2.heap[Nil] = m.heap[Nil]
  PROVE  Shape(m2)
<1>1. DOMAIN m2.heap = DOMAIN m.heap /\ Addr(m2) = Addr(m)
  BY SeqFacts DEF SameNames, Shape, Addr
<1>2. m2.bindings = m.bindings /\ m2.scopes = m.scopes /\ DOMAIN m2 = DOMAIN m
      /\ IsSeq(m2.heap) /\ Len(m2.heap) = Len(m.heap)
  BY DEF SameNames
<1>. QED BY <1>1, <1>2 DEF Shape

LEMMA RetainAllGood ==
  ASSUME NEW m, Good(m), NEW refs, IsFiniteSet(DOMAIN refs),
         \A p \in DOMAIN refs : refs[p] = NULL \/ Alive(m, refs[p])
  PROVE  LET m2 == RetainAll(m, refs) IN
         /\ Good(m2) /\ Same(m, m2) /\ m2.stray = m.stray
         /\ \A a : Alive(m, a) <=> Alive(m2, a)
         /\ \A a \in DOMAIN m.heap \ {Nil} : Balance(m2, a) = Balance(m, a) + Occurrences(refs, a)
<1>. DEFINE m2 == RetainAll(m, refs)
<1>1. Shape(m) /\ NULL \notin DOMAIN m.heap /\ Nil \in DOMAIN m.heap
  BY Addresses DEF Good
<1>2. /\ SameNames(m, m2) /\ m2.stray = m.stray
      /\ \A a \in DOMAIN m.heap :
           /\ SameObj(m.heap[a], m2.heap[a]) /\ m2.heap[a].lost = m.heap[a].lost
           /\ m2.heap[a].count = IF a = Nil THEN m.heap[a].count
                                 ELSE m.heap[a].count + Occurrences(refs, a)
  BY <1>1, RetainFacts
<1>3. DOMAIN m2.heap = DOMAIN m.heap
  BY <1>1, <1>2, SeqFacts DEF SameNames, Shape
<1>4. m2.heap[Nil] = m.heap[Nil]
  BY <1>1 DEF RetainAll, Shape
<1>. HIDE DEF m2
<1>5. ASSUME NEW a \in DOMAIN m.heap
      PROVE  /\ Count(m2, a) = IF a = Nil THEN Count(m, a) ELSE Count(m, a) + Occurrences(refs, a)
             /\ Lost(m2, a) = Lost(m, a)
             /\ Count(m, a) \in Nat /\ Lost(m, a) \in Nat /\ Occurrences(refs, a) \in Nat
             /\ Occurrences(refs, a) # 0 => Count(m, a) > 0
  <2>1. Occurrences(refs, a) \in Nat /\ (Occurrences(refs, a) # 0 => \E p \in DOMAIN refs : refs[p] = a)
    BY OccType
  <2>2. Occurrences(refs, a) # 0 => Count(m, a) > 0
    BY <1>1, <2>1 DEF Alive
  <2>. QED BY <1>1, <1>2, <2>1, <2>2, BalanceType DEF Count, Lost
<1>6. ASSUME NEW a \in DOMAIN m.heap
      PROVE  Sound(m2, m2.heap[a])
  <2>1. Count(m2, a) \in Nat /\ Lost(m2, a) \in Nat /\ (Count(m2, a) = 0 <=> Count(m, a) = 0)
    BY <1>5
  <2>2. m2.heap[a].count \in Nat /\ m2.heap[a].lost \in Nat /\ m2.heap[a].lost = m.heap[a].lost
        /\ (m2.heap[a].count = 0 <=> m.heap[a].count = 0)
    BY <1>2, <2>1 DEF Count, Lost
  <2>. QED BY <1>1, <1>2, <2>2 DEF Shape, Sound, SameNames, SameObj, Addr, Table, Empty
<1>7. Shape(m2)
  BY <1>1, <1>2, <1>4, <1>6, SameShape DEF Shape
<1>8. ASSUME NEW a PROVE Alive(m, a) <=> Alive(m2, a)
  BY <1>3, <1>5 DEF Alive
<1>9. Same(m, m2)
  BY <1>2, <1>8 DEF Same, Alive
<1>10. ASSUME NEW a \in DOMAIN m.heap \ {Nil}
       PROVE  Balance(m2, a) = Balance(m, a) + Occurrences(refs, a) /\ Balance(m2, a) >= 0
  <2>1. HeapOcc(m2, a) = HeapOcc(m, a) /\ ScopeOcc(m2, a) = ScopeOcc(m, a)
    BY <1>1, <1>2, SameOcc
  <2>2. HeapOcc(m, a) \in Nat /\ ScopeOcc(m, a) \in Nat /\ Keeps(a) \in Nat /\ Balance(m, a) >= 0
    BY <1>1, BalanceType DEF Good
  <2>3. /\ Count(m2, a) = Count(m, a) + Occurrences(refs, a) /\ Lost(m2, a) = Lost(m, a)
        /\ Count(m, a) \in Nat /\ Lost(m, a) \in Nat /\ Occurrences(refs, a) \in Nat
    BY <1>5
  <2>. QED BY <2>1, <2>2, <2>3 DEF Balance
<1>11. Good(m2)
  <2>1. Grows(m, m2)
    BY <1>1, <1>9, SameGrows
  <2>. QED BY <1>3, <1>7, <1>10, <2>1, GoodNext
<1>. QED BY <1>2, <1>8, <1>9, <1>10, <1>11 DEF m2

LEMMA RetainGood ==
  ASSUME NEW m, Good(m), NEW x, x = NULL \/ Alive(m, x)
  PROVE  LET m2 == Retain(m, x) IN
         /\ Good(m2) /\ Same(m, m2) /\ m2.stray = m.stray
         /\ \A a : Alive(m, a) <=> Alive(m2, a)
         /\ \A a \in DOMAIN m.heap \ {Nil} : Balance(m2, a) = Balance(m, a) + Ind(x, a)
<1>1. IsFiniteSet(DOMAIN <<x>>) /\ \A p \in DOMAIN <<x>> : <<x>>[p] = NULL \/ Alive(m, <<x>>[p])
  BY OccOne
<1>2. \A a : Occurrences(<<x>>, a) = Ind(x, a)
  BY OccOne
<1>. QED BY <1>1, <1>2, RetainAllGood DEF Retain

LEMMA LoseAllGood ==
  ASSUME NEW m, Good(m), NEW refs, IsFiniteSet(DOMAIN refs),
         \A a \in DOMAIN m.heap \ {Nil} : Balance(m, a) >= Occurrences(refs, a)
  PROVE  LET m2 == LoseAll(m, refs) IN
         /\ Good(m2) /\ Same(m, m2) /\ m2.stray = m.stray
         /\ \A a : Alive(m, a) <=> Alive(m2, a)
         /\ \A a \in DOMAIN m.heap \ {Nil} : Balance(m2, a) = Balance(m, a) - Occurrences(refs, a)
<1>. DEFINE m2 == LoseAll(m, refs)
<1>1. Shape(m) /\ NULL \notin DOMAIN m.heap /\ Nil \in DOMAIN m.heap
  BY Addresses DEF Good
<1>2. /\ SameNames(m, m2) /\ m2.stray = m.stray
      /\ \A a \in DOMAIN m.heap :
           /\ SameObj(m.heap[a], m2.heap[a]) /\ m2.heap[a].count = m.heap[a].count
           /\ m2.heap[a].lost = IF a = Nil THEN m.heap[a].lost
                                ELSE m.heap[a].lost + Occurrences(refs, a)
  BY <1>1, LoseFacts
<1>3. DOMAIN m2.heap = DOMAIN m.heap
  BY <1>1, <1>2, SeqFacts DEF SameNames, Shape
<1>4. m2.heap[Nil] = m.heap[Nil]
  BY <1>1 DEF LoseAll, Shape
<1>. HIDE DEF m2
<1>5. ASSUME NEW a \in DOMAIN m.heap
      PROVE  /\ Lost(m2, a) = IF a = Nil THEN Lost(m, a) ELSE Lost(m, a) + Occurrences(refs, a)
             /\ Count(m2, a) = Count(m, a)
             /\ Count(m, a) \in Nat /\ Lost(m, a) \in Nat /\ Occurrences(refs, a) \in Nat
             /\ a # Nil /\ Count(m, a) = 0 => Occurrences(refs, a) = 0
  <2>1. Occurrences(refs, a) \in Nat
    BY OccType
  <2>2. HeapOcc(m, a) \in Nat /\ ScopeOcc(m, a) \in Nat /\ Keeps(a) \in Nat
        /\ Count(m, a) \in Nat /\ Lost(m, a) \in Nat
    BY <1>1, BalanceType
  <2>3. a # Nil => Balance(m, a) >= Occurrences(refs, a)
    OBVIOUS
  <2>4. a # Nil /\ Count(m, a) = 0 => Occurrences(refs, a) = 0
    BY <2>1, <2>2, <2>3 DEF Balance
  <2>. QED BY <1>2, <2>1, <2>2, <2>4 DEF Count, Lost
<1>6. ASSUME NEW a \in DOMAIN m.heap
      PROVE  Sound(m2, m2.heap[a])
  <2>1. /\ Count(m2, a) \in Nat /\ Lost(m2, a) \in Nat /\ Count(m2, a) = Count(m, a)
        /\ Count(m2, a) = 0 => Lost(m2, a) = Lost(m, a)
    BY <1>5
  <2>2. /\ m2.heap[a].count \in Nat /\ m2.heap[a].lost \in Nat
        /\ m2.heap[a].count = 0 => m2.heap[a].lost = m.heap[a].lost
    BY <2>1 DEF Count, Lost
  <2>. QED BY <1>1, <1>2, <2>2 DEF Shape, Sound, SameNames, SameObj, Addr, Table, Empty
<1>7. Shape(m2)
  BY <1>1, <1>2, <1>4, <1>6, SameShape DEF Shape
<1>8. ASSUME NEW a PROVE Alive(m, a) <=> Alive(m2, a)
  BY <1>3, <1>5 DEF Alive
<1>9. Same(m, m2)
  BY <1>2, <1>8 DEF Same, Alive
<1>10. ASSUME NEW a \in DOMAIN m.heap \ {Nil}
       PROVE  Balance(m2, a) = Balance(m, a) - Occurrences(refs, a) /\ Balance(m2, a) >= 0
  <2>1. HeapOcc(m2, a) = HeapOcc(m, a) /\ ScopeOcc(m2, a) = ScopeOcc(m, a)
    BY <1>1, <1>2, SameOcc
  <2>2. HeapOcc(m, a) \in Nat /\ ScopeOcc(m, a) \in Nat /\ Keeps(a) \in Nat
        /\ Balance(m, a) >= Occurrences(refs, a)
    BY <1>1, BalanceType
  <2>3. /\ Lost(m2, a) = Lost(m, a) + Occurrences(refs, a) /\ Count(m2, a) = Count(m, a)
        /\ Count(m, a) \in Nat /\ Lost(m, a) \in Nat /\ Occurrences(refs, a) \in Nat
    BY <1>5
  <2>. QED BY <2>1, <2>2, <2>3 DEF Balance
<1>11. Good(m2)
  <2>1. Grows(m, m2)
    BY <1>1, <1>9, SameGrows
  <2>. QED BY <1>3, <1>7, <1>10, <2>1, GoodNext
<1>. QED BY <1>2, <1>8, <1>9, <1>10, <1>11 DEF m2

LEMMA LoseGood ==
  ASSUME NEW m, Good(m), NEW x, \A a \in DOMAIN m.heap \ {Nil} : Balance(m, a) >= Ind(x, a)
  PROVE  LET m2 == Lose(m, x) IN
         /\ Good(m2) /\ Same(m, m2) /\ m2.stray = m.stray
         /\ \A a : Alive(m, a) <=> Alive(m2, a)
         /\ \A a \in DOMAIN m.heap \ {Nil} : Balance(m2, a) = Balance(m, a) - Ind(x, a)
<1>1. IsFiniteSet(DOMAIN <<x>>) /\ \A a : Occurrences(<<x>>, a) = Ind(x, a)
  BY OccOne
<1>. QED BY <1>1, LoseAllGood DEF Lose

-----------------------------------------------------------------------------
(* What is freed. *)

\* D leads to the fixpoint E of F.
Leads(A, F, D, E) ==
  /\ E \in SUBSET A /\ F[E] = E
  /\ \A S \in SUBSET SUBSET A : D \in S /\ (\A X \in S : F[X] \in S) => E \in S

\* What F leads to.
Limit(A, F, g) == g = [D \in SUBSET A |-> IF F[D] = D THEN D ELSE g[F[D]]]

\* A function can be applied until nothing changes.
LEMMA LimitExists ==
  ASSUME NEW A, NEW F \in [SUBSET A -> SUBSET A]
  PROVE  \E g : Limit(A, F, g)
<1>. DEFINE Limits(D) == {E \in SUBSET A : Leads(A, F, D, E)}
            Lim(D) == IF Limits(D) = {} THEN {} ELSE CHOOSE E \in Limits(D) : TRUE
            g == [D \in SUBSET A |-> Lim(D)]
<1>1. ASSUME NEW D \in SUBSET A, F[D] = D
      PROVE  Lim(D) = D
  <2>1. Leads(A, F, D, D)
    BY <1>1 DEF Leads
  <2>2. ASSUME NEW E, Leads(A, F, D, E) PROVE E = D
    <3>1. {D} \in SUBSET SUBSET A /\ D \in {D} /\ \A X \in {D} : F[X] \in {D}
      BY <1>1
    <3>2. E \in {D}
      BY <2>2, <3>1 DEF Leads
    <3>. QED BY <3>2
  <2>3. Limits(D) = {D}
    BY <2>1, <2>2
  <2>. QED BY <2>3
<1>2. ASSUME NEW D \in SUBSET A, F[D] # D
      PROVE  Lim(D) = Lim(F[D])
  <2>1. ASSUME NEW E, Leads(A, F, D, E) PROVE Leads(A, F, F[D], E)
    <3>1. ASSUME NEW S \in SUBSET SUBSET A, F[D] \in S, \A X \in S : F[X] \in S
          PROVE  E \in S
      <4>1. S \cup {D} \in SUBSET SUBSET A /\ D \in S \cup {D}
        OBVIOUS
      <4>2. \A X \in S \cup {D} : F[X] \in S \cup {D}
        BY <3>1
      <4>3. E \in S \cup {D} /\ F[E] = E
        BY <2>1, <4>1, <4>2 DEF Leads
      <4>. QED BY <1>2, <4>3
    <3>. QED BY <2>1, <3>1 DEF Leads
  <2>2. ASSUME NEW E, Leads(A, F, F[D], E) PROVE Leads(A, F, D, E)
    <3>1. ASSUME NEW S \in SUBSET SUBSET A, D \in S, \A X \in S : F[X] \in S
          PROVE  E \in S
      <4>1. F[D] \in S
        BY <3>1
      <4>. QED BY <2>2, <3>1, <4>1 DEF Leads
    <3>. QED BY <2>2, <3>1 DEF Leads
  <2>3. Limits(D) = Limits(F[D])
    BY <2>1, <2>2
  <2>. HIDE DEF Limits
  <2>. QED BY <2>3
<1>3. \A D \in SUBSET A : F[D] \in SUBSET A
  OBVIOUS
<1>. HIDE DEF Lim
<1>4. g = [D \in SUBSET A |-> IF F[D] = D THEN D ELSE g[F[D]]]
  <2>1. ASSUME NEW D \in SUBSET A PROVE g[D] = IF F[D] = D THEN D ELSE g[F[D]]
    BY <1>1, <1>2, <1>3
  <2>. QED BY <2>1
<1>. QED BY <1>4 DEF Limit

\* From nothing, what is reached is the least fixpoint.
LEMMA LimitLeast ==
  ASSUME NEW A, IsFiniteSet(A), NEW F \in [SUBSET A -> SUBSET A],
         \A X, Y \in SUBSET A : X \subseteq Y => F[X] \subseteq F[Y],
         NEW g, Limit(A, F, g)
  PROVE  /\ g[{}] \in SUBSET A /\ F[g[{}]] = g[{}]
         /\ \A Z \in SUBSET A : F[Z] \subseteq Z => g[{}] \subseteq Z
<1>. DEFINE Ends(D) == /\ g[D] \in SUBSET A /\ F[g[D]] = g[D]
                       /\ \A Z \in SUBSET A : F[Z] \subseteq Z /\ D \subseteq Z => g[D] \subseteq Z
            Ns == {n \in Nat : \A D \in SUBSET A : D \subseteq F[D] /\ Cardinality(A \ D) <= n => Ends(D)}
<1>1. ASSUME NEW D \in SUBSET A PROVE IsFiniteSet(A \ D) /\ Cardinality(A \ D) \in Nat
  BY FS_Subset, FS_CardinalityType
<1>2. ASSUME NEW D \in SUBSET A, F[D] = D PROVE Ends(D)
  BY <1>2 DEF Limit
<1>3. 0 \in Ns
  <2>1. ASSUME NEW D \in SUBSET A, D \subseteq F[D], Cardinality(A \ D) <= 0 PROVE Ends(D)
    <3>0. Cardinality(A \ D) \in Nat
      BY <1>1
    <3>1. Cardinality(A \ D) = 0
      BY ONLY <2>1, <3>0
    <3>2. A \ D = {}
      BY <1>1, <3>1, FS_EmptySet
    <3>3. F[D] = D
      BY <2>1, <3>2
    <3>. QED BY <1>2, <3>3
  <2>. QED BY <2>1
<1>4. ASSUME NEW n \in Nat, n \in Ns PROVE n + 1 \in Ns
  <2>1. ASSUME NEW D \in SUBSET A, D \subseteq F[D], Cardinality(A \ D) <= n + 1 PROVE Ends(D)
    <3>1. CASE F[D] # D
      <4>. DEFINE E == F[D]
      <4>1. E \in SUBSET A /\ E \subseteq F[E] /\ D \subseteq E /\ E # D
        BY <2>1, <3>1
      <4>2. A \ E \subseteq A \ D /\ A \ E # A \ D
        BY <4>1
      <4>. HIDE DEF E
      <4>3. Cardinality(A \ E) <= Cardinality(A \ D) /\ Cardinality(A \ E) # Cardinality(A \ D)
        BY <1>1, <4>2, FS_Subset
      <4>4. Cardinality(A \ E) <= n
        <5>1. Cardinality(A \ E) \in Nat /\ Cardinality(A \ D) \in Nat
          BY <1>1, <4>1
        <5>. QED BY ONLY <2>1, <4>3, <5>1, n \in Nat
      <4>5. Ends(E)
        BY <1>4, <4>1, <4>4
      <4>6. g[D] = g[E]
        BY <3>1 DEF E, Limit
      <4>7. ASSUME NEW Z \in SUBSET A, F[Z] \subseteq Z, D \subseteq Z PROVE E \subseteq Z
        BY <4>7 DEF E
      <4>. QED BY <4>5, <4>6, <4>7
    <3>. QED BY <1>2, <3>1
  <2>. HIDE DEF Ends
  <2>. QED BY <2>1
<1>. HIDE DEF Ns
<1>5. Nat \subseteq Ns
  BY <1>3, <1>4, SetInduction
<1>6. Cardinality(A \ {}) \in Ns
  BY <1>1, <1>5
<1>7. Ends({})
  <2>1. Cardinality(A \ {}) \in Nat
    BY <1>1
  <2>2. Cardinality(A \ {}) <= Cardinality(A \ {})
    BY <2>1
  <2>3. {} \in SUBSET A /\ {} \subseteq F[{}]
    OBVIOUS
  <2>. HIDE DEF Ends
  <2>. QED BY <1>6, <2>2, <2>3 DEF Ns
<1>. QED BY <1>7

LEMMA OwnedSplit ==
  ASSUME NEW m, Shape(m), NEW X, X \in SUBSET DOMAIN m.heap, NEW Z, Z \in SUBSET DOMAIN m.heap,
         X \cap Z = {}, NEW a
  PROVE  Occurrences(OwnedBy(m, X \cup Z), a) = Occurrences(OwnedBy(m, X), a) + Occurrences(OwnedBy(m, Z), a)
<1>0. PICK f, g, h : f = OwnedBy(m, X) /\ g = OwnedBy(m, Z) /\ h = OwnedBy(m, X \cup Z)
  OBVIOUS
<1>1. IsFiniteSet(DOMAIN f) /\ IsFiniteSet(DOMAIN g)
  BY <1>0, OwnedFinite
<1>2. ASSUME NEW p PROVE p \in DOMAIN h <=> p \in DOMAIN f \/ p \in DOMAIN g
  BY <1>0, OwnedFacts
<1>3. ASSUME NEW p \in DOMAIN f, p \in DOMAIN g PROVE FALSE
  <2>1. PICK x \in X : \E s \in Slots(m.heap[x]) : p = <<x, s>>
    BY <1>0, OwnedFacts
  <2>2. PICK z \in Z : \E s \in Slots(m.heap[z]) : p = <<z, s>>
    BY <1>0, <1>3, OwnedFacts
  <2>3. x = z
    BY <2>1, <2>2
  <2>. QED BY <2>3
<1>4. \A p \in DOMAIN f : h[p] = f[p]
  BY <1>0, OwnedFacts
<1>5. \A p \in DOMAIN g : h[p] = g[p]
  BY <1>0, OwnedFacts
<1>6. DOMAIN f \cap DOMAIN g = {}
  BY <1>3
<1>8. DOMAIN h = DOMAIN f \cup DOMAIN g
  BY <1>2
<1>9. IsFiniteSet(DOMAIN f)
  BY <1>1
<1>10. IsFiniteSet(DOMAIN g)
  BY <1>1
<1>7. IsFiniteSet(DOMAIN h) /\ Occurrences(h, a) = Occurrences(f, a) + Occurrences(g, a)
  BY <1>4, <1>5, <1>6, <1>8, <1>9, <1>10, OccUnion
<1>. QED BY <1>0, <1>7

LEMMA OwnedType ==
  ASSUME NEW m, Shape(m), NEW X \in SUBSET DOMAIN m.heap, NEW a
  PROVE  Occurrences(OwnedBy(m, X), a) \in Nat
BY OwnedFinite, OccType

\* What the references that go away are.
Parts(m, refs, X, a) ==
  /\ Drops(m, refs, X, a) \in Nat
  /\ Drops(m, refs, X, a) = Occurrences(refs, a) + Occurrences(OwnedBy(m, X), a)
  /\ Occurrences(refs, a) \in Nat /\ Occurrences(OwnedBy(m, X), a) \in Nat
  /\ Occurrences(OwnedBy(m, DOMAIN m.heap \ X), a) \in Nat
  /\ HeapOcc(m, a) = Occurrences(OwnedBy(m, X), a) + Occurrences(OwnedBy(m, DOMAIN m.heap \ X), a)

LEMMA DropsFacts ==
  ASSUME NEW m, Shape(m), NEW refs, IsFiniteSet(DOMAIN refs),
         NEW X \in SUBSET DOMAIN m.heap, NEW a
  PROVE  Parts(m, refs, X, a)
<1>1. Occurrences(refs, a) \in Nat
  BY OccType
<1>2. Occurrences(OwnedBy(m, X), a) \in Nat /\ Occurrences(OwnedBy(m, DOMAIN m.heap \ X), a) \in Nat
  BY OwnedType
<1>3. X \cup (DOMAIN m.heap \ X) = DOMAIN m.heap /\ X \cap (DOMAIN m.heap \ X) = {}
      /\ DOMAIN m.heap \ X \in SUBSET DOMAIN m.heap
  OBVIOUS
<1>4. HeapOcc(m, a) = Occurrences(OwnedBy(m, X), a) + Occurrences(OwnedBy(m, DOMAIN m.heap \ X), a)
  BY <1>3, OwnedSplit DEF HeapOcc
<1>. QED BY <1>1, <1>2, <1>4 DEF Drops, Parts

LEMMA FreedGrows ==
  ASSUME NEW m, Shape(m), NEW refs, IsFiniteSet(DOMAIN refs),
         NEW X \in SUBSET DOMAIN m.heap, NEW Y \in SUBSET DOMAIN m.heap, X \subseteq Y
  PROVE  Freed(m, refs, X) \subseteq Freed(m, refs, Y)
<1>1. ASSUME NEW a \in DOMAIN m.heap PROVE Drops(m, refs, X, a) <= Drops(m, refs, Y, a)
  <2>1. Y = X \cup (Y \ X) /\ X \cap (Y \ X) = {} /\ Y \ X \in SUBSET DOMAIN m.heap
    OBVIOUS
  <2>2. Occurrences(OwnedBy(m, Y), a) = Occurrences(OwnedBy(m, X), a) + Occurrences(OwnedBy(m, Y \ X), a)
    BY <2>1, OwnedSplit
  <2>3. Occurrences(OwnedBy(m, Y \ X), a) \in Nat
    BY OwnedType
  <2>4. /\ Drops(m, refs, X, a) = Occurrences(refs, a) + Occurrences(OwnedBy(m, X), a)
        /\ Drops(m, refs, Y, a) = Occurrences(refs, a) + Occurrences(OwnedBy(m, Y), a)
    BY DEF Drops
  <2>5. Occurrences(refs, a) \in Nat /\ Occurrences(OwnedBy(m, X), a) \in Nat
    BY OwnedType, OccType
  <2>. QED BY ONLY <2>2, <2>3, <2>4, <2>5
<1>2. ASSUME NEW a \in Freed(m, refs, X) PROVE a \in Freed(m, refs, Y)
  <2>1. a \in DOMAIN m.heap \ {Nil} /\ Drops(m, refs, X, a) > 0 /\ Count(m, a) <= Drops(m, refs, X, a)
    BY DEF Freed, Count
  <2>2. Drops(m, refs, X, a) <= Drops(m, refs, Y, a)
    BY <1>1, <2>1
  <2>3. Drops(m, refs, X, a) \in Nat /\ Drops(m, refs, Y, a) \in Nat /\ Count(m, a) \in Nat
    BY <2>1, DropsFacts, BalanceType DEF Parts
  <2>4. Drops(m, refs, Y, a) > 0 /\ Count(m, a) <= Drops(m, refs, Y, a)
    BY ONLY <2>1, <2>2, <2>3
  <2>. QED BY <2>1, <2>4 DEF Freed, Count
<1>. QED BY <1>2

\* Dead is the least set that is freed when it is freed.
LEMMA DeadFacts ==
  ASSUME NEW m, Shape(m), NEW refs, IsFiniteSet(DOMAIN refs)
  PROVE  /\ Dead(m, refs) \in SUBSET (DOMAIN m.heap \ {Nil})
         /\ Freed(m, refs, Dead(m, refs)) = Dead(m, refs)
         /\ \A Z \in SUBSET DOMAIN m.heap : Freed(m, refs, Z) \subseteq Z => Dead(m, refs) \subseteq Z
<1>. DEFINE A == DOMAIN m.heap
            F == [X \in SUBSET A |-> Freed(m, refs, X)]
            dies == CHOOSE g : g = [D \in SUBSET A |->
                      IF Freed(m, refs, D) = D THEN D ELSE g[Freed(m, refs, D)]]
<1>1. IsFiniteSet(A)
  BY OwnedFinite
<1>2. F \in [SUBSET A -> SUBSET A] /\ \A X \in SUBSET A : F[X] = Freed(m, refs, X)
  BY DEF Freed
<1>3. \A X, Y \in SUBSET A : X \subseteq Y => F[X] \subseteq F[Y]
  BY <1>2, FreedGrows
<1>4. ASSUME NEW g
      PROVE  g = [D \in SUBSET A |-> IF Freed(m, refs, D) = D THEN D ELSE g[Freed(m, refs, D)]]
             <=> Limit(A, F, g)
  <2>1. \A D \in SUBSET A : (IF Freed(m, refs, D) = D THEN D ELSE g[Freed(m, refs, D)])
                             = (IF F[D] = D THEN D ELSE g[F[D]])
    BY <1>2
  <2>. HIDE DEF F, A
  <2>. QED BY <2>1 DEF Limit
<1>5. Dead(m, refs) = dies[{}]
  BY DEF Dead
<1>. HIDE DEF F, A
<1>6. \E g : g = [D \in SUBSET A |-> IF Freed(m, refs, D) = D THEN D ELSE g[Freed(m, refs, D)]]
  <2>1. PICK g : Limit(A, F, g)
    BY <1>2, LimitExists
  <2>2. g = [D \in SUBSET A |-> IF Freed(m, refs, D) = D THEN D ELSE g[Freed(m, refs, D)]]
    BY <1>4, <2>1
  <2>. QED BY <2>2
<1>7. dies = [D \in SUBSET A |-> IF Freed(m, refs, D) = D THEN D ELSE dies[Freed(m, refs, D)]]
  BY <1>6
<1>8. Limit(A, F, dies)
  BY <1>4, <1>7
<1>. HIDE DEF dies
<1>9. /\ dies[{}] \in SUBSET A /\ F[dies[{}]] = dies[{}]
      /\ \A Z \in SUBSET A : F[Z] \subseteq Z => dies[{}] \subseteq Z
  BY <1>1, <1>2, <1>3, <1>8, LimitLeast
<1>10. Freed(m, refs, dies[{}]) = dies[{}]
  BY <1>2, <1>9
<1>11. Freed(m, refs, dies[{}]) \in SUBSET (DOMAIN m.heap \ {Nil})
  BY DEF Freed
<1>. QED BY <1>2, <1>5, <1>9, <1>10, <1>11 DEF A

LEMMA WithoutFacts ==
  ASSUME NEW m, Shape(m), NEW refs, NEW D
  PROVE  LET m2 == Without(m, refs, D) IN
         /\ SameNames(m, m2) /\ m2.stray = m.stray /\ m2.heap[Nil] = m.heap[Nil]
         /\ \A a \in DOMAIN m.heap \ {Nil} :
              /\ a \in D => m2.heap[a] = Gone
              /\ a \notin D => /\ SameObj(m.heap[a], m2.heap[a]) /\ m2.heap[a].lost = m.heap[a].lost
                               /\ m2.heap[a].count = m.heap[a].count - Drops(m, refs, D, a)
<1>. DEFINE m2 == Without(m, refs, D)
            h == [a \in DOMAIN m.heap |->
                    IF a = Nil THEN m.heap[a] ELSE IF a \in D THEN Gone
                    ELSE [m.heap[a] EXCEPT !.count = @ - Drops(m, refs, D, a)]]
<1>1. m2 = [m EXCEPT !.heap = h]
  BY DEF Without
<1>2. m2.heap = h /\ DOMAIN m2 = DOMAIN m /\ m2.bindings = m.bindings /\ m2.scopes = m.scopes
      /\ m2.stray = m.stray
  BY <1>1 DEF Shape
<1>3. Len(m.heap) \in Nat /\ h = [i \in 1 .. Len(m.heap) |-> h[i]]
  BY SeqFacts DEF Shape
<1>4. IsSeq(h) /\ Len(h) = Len(m.heap)
  <2>. HIDE DEF h
  <2>. QED BY <1>3, SeqMade
<1>5. ASSUME NEW a \in DOMAIN m.heap \ {Nil}
      PROVE  /\ a \in D => h[a] = Gone
             /\ a \notin D => /\ SameObj(m.heap[a], h[a]) /\ h[a].lost = m.heap[a].lost
                              /\ h[a].count = m.heap[a].count - Drops(m, refs, D, a)
  <2>1. DOMAIN m.heap[a] = Fields
    BY DEF Shape, Sound
  <2>. QED BY <2>1 DEF SameObj, Fields
<1>6. h[Nil] = m.heap[Nil]
  BY Addresses
<1>. HIDE DEF h, m2
<1>7. QED BY <1>2, <1>4, <1>5, <1>6 DEF SameNames, m2

LEMMA GoneFacts == DOMAIN Gone = Fields /\ Gone.count = 0 /\ Gone.lost = 0 /\ Gone.type = "gone"
                   /\ Gone.items = <<>> /\ Gone.props = <<>> /\ Gone.closure = <<>> /\ Gone.parent = NULL
                   /\ Slots(Gone) = {}
BY DEF Gone, Obj, Fields, Slots

\* A count, and what it counts: references that go away by themselves and with
\* what is freed, those that stay, of scopes, lost, and kept.
FreeSum(count, r, in, out, scope, lost, keep) ==
  /\ r + in > 0 /\ count <= r + in =>
       /\ count - (in + out) - scope - lost - keep = r /\ scope = 0 /\ keep = 0 /\ lost = 0 /\ out = 0
  /\ ~(r + in > 0 /\ count <= r + in) =>
       /\ count - (r + in) \in Nat /\ (count - (r + in) = 0 <=> count = 0) /\ (count = 0 => lost = 0)

LEMMA FreeSums ==
  ASSUME NEW count \in Nat, NEW r \in Nat, NEW in \in Nat, NEW out \in Nat, NEW scope \in Nat,
         NEW lost \in Nat, NEW keep \in Nat,
         count - (in + out) - scope - lost - keep >= r
  PROVE  FreeSum(count, r, in, out, scope, lost, keep)
BY DEF FreeSum

\* What a reference family frees, when all of it is accounted for.
LEMMA DeadAccount ==
  ASSUME NEW m, Good(m), NEW refs, IsFiniteSet(DOMAIN refs),
         \A a \in DOMAIN m.heap \ {Nil} : Balance(m, a) >= Occurrences(refs, a),
         NEW a \in DOMAIN m.heap \ {Nil}
  PROVE  LET D == Dead(m, refs) IN
         /\ a \in D => /\ Balance(m, a) = Occurrences(refs, a) /\ ScopeOcc(m, a) = 0 /\ Keeps(a) = 0
                       /\ Lost(m, a) = 0 /\ Occurrences(OwnedBy(m, DOMAIN m.heap \ D), a) = 0
         /\ a \notin D => /\ Count(m, a) - Drops(m, refs, D, a) \in Nat
                          /\ (Count(m, a) - Drops(m, refs, D, a) = 0 <=> Count(m, a) = 0)
                          /\ (Count(m, a) = 0 => Lost(m, a) = 0)
         /\ Balance(m, a) \in Int /\ Occurrences(refs, a) \in Nat
<1>0. PICK D : D = Dead(m, refs)
  OBVIOUS
<1>1. D \in SUBSET DOMAIN m.heap /\ Freed(m, refs, D) = D /\ Shape(m)
  BY <1>0, DeadFacts DEF Good
<1>2. /\ Balance(m, a) \in Int /\ HeapOcc(m, a) \in Nat /\ ScopeOcc(m, a) \in Nat
      /\ Keeps(a) \in Nat /\ Count(m, a) \in Nat /\ Lost(m, a) \in Nat
  BY BalanceType DEF Good
<1>. DEFINE r == Occurrences(refs, a)
            d == Drops(m, refs, D, a)
            in == Occurrences(OwnedBy(m, D), a)
            out == Occurrences(OwnedBy(m, DOMAIN m.heap \ D), a)
<1>3. d \in Nat /\ d = r + in /\ r \in Nat /\ in \in Nat /\ out \in Nat /\ HeapOcc(m, a) = in + out
  <2>1. Parts(m, refs, D, a)
    BY <1>1, DropsFacts
  <2>. QED BY <2>1 DEF Parts
<1>4. Balance(m, a) >= r
  OBVIOUS
<1>5. a \in D <=> d > 0 /\ Count(m, a) <= d
  BY <1>1 DEF Freed, Count
<1>6. Balance(m, a) = Count(m, a) - HeapOcc(m, a) - ScopeOcc(m, a) - Lost(m, a) - Keeps(a)
  BY DEF Balance
<1>. HIDE DEF r, d, in, out
<1>7. Balance(m, a) = Count(m, a) - (in + out) - ScopeOcc(m, a) - Lost(m, a) - Keeps(a)
  BY <1>3, <1>6
<1>8. Count(m, a) - (in + out) - ScopeOcc(m, a) - Lost(m, a) - Keeps(a) >= r
  BY <1>4, <1>7
<1>9. FreeSum(Count(m, a), r, in, out, ScopeOcc(m, a), Lost(m, a), Keeps(a))
  BY <1>2, <1>3, <1>8, FreeSums
<1>10. /\ a \in D => /\ Balance(m, a) = r /\ ScopeOcc(m, a) = 0 /\ Keeps(a) = 0
                     /\ Lost(m, a) = 0 /\ out = 0
       /\ a \notin D => /\ Count(m, a) - d \in Nat
                        /\ (Count(m, a) - d = 0 <=> Count(m, a) = 0)
                        /\ (Count(m, a) = 0 => Lost(m, a) = 0)
  BY <1>3, <1>5, <1>7, <1>9 DEF FreeSum
<1>. QED BY <1>0, <1>2, <1>3, <1>10 DEF r, d, in, out

LEMMA ReleaseAllGood ==
  ASSUME NEW m, Good(m), NEW refs, IsFiniteSet(DOMAIN refs),
         \A a \in DOMAIN m.heap \ {Nil} : Balance(m, a) >= Occurrences(refs, a)
  PROVE  LET m2 == ReleaseAll(m, refs) IN
         /\ Good(m2) /\ Same(m, m2) /\ m2.stray = m.stray
         /\ \A a : Alive(m2, a) <=> Alive(m, a) /\ a \notin Dead(m, refs)
         /\ \A a \in DOMAIN m.heap \ {Nil} : Balance(m2, a) = Balance(m, a) - Occurrences(refs, a)
<1>. DEFINE D == Dead(m, refs)
            m2 == Without(m, refs, D)
<1>1. Shape(m) /\ NULL \notin DOMAIN m.heap /\ Nil \in DOMAIN m.heap
  BY Addresses DEF Good
<1>2. D \in SUBSET (DOMAIN m.heap \ {Nil})
  BY <1>1, DeadFacts
<1>3. /\ SameNames(m, m2) /\ m2.stray = m.stray /\ m2.heap[Nil] = m.heap[Nil]
      /\ \A a \in DOMAIN m.heap \ {Nil} :
           /\ a \in D => m2.heap[a] = Gone
           /\ a \notin D => /\ SameObj(m.heap[a], m2.heap[a]) /\ m2.heap[a].lost = m.heap[a].lost
                            /\ m2.heap[a].count = m.heap[a].count - Drops(m, refs, D, a)
  BY <1>1, WithoutFacts
<1>4. DOMAIN m2.heap = DOMAIN m.heap
  BY <1>1, <1>3, SeqFacts DEF SameNames, Shape
<1>5. \A a \in DOMAIN m.heap \ {Nil} :
         /\ a \in D => /\ Balance(m, a) = Occurrences(refs, a) /\ ScopeOcc(m, a) = 0 /\ Keeps(a) = 0
                       /\ Lost(m, a) = 0 /\ Occurrences(OwnedBy(m, DOMAIN m.heap \ D), a) = 0
         /\ a \notin D => /\ Count(m, a) - Drops(m, refs, D, a) \in Nat
                          /\ (Count(m, a) - Drops(m, refs, D, a) = 0 <=> Count(m, a) = 0)
                          /\ (Count(m, a) = 0 => Lost(m, a) = 0)
         /\ Balance(m, a) \in Int /\ Occurrences(refs, a) \in Nat
  BY DeadAccount
<1>6. ReleaseAll(m, refs) = m2
  BY DEF ReleaseAll
<1>. HIDE DEF m2, D
<1>7. ASSUME NEW a \in DOMAIN m.heap \ {Nil}
      PROVE  /\ a \in D => Count(m2, a) = 0 /\ Lost(m2, a) = 0
             /\ a \notin D => /\ Count(m2, a) = Count(m, a) - Drops(m, refs, D, a) /\ Lost(m2, a) = Lost(m, a)
                              /\ Count(m2, a) \in Nat /\ (Count(m2, a) = 0 <=> Count(m, a) = 0)
  <2>1. CASE a \in D
    BY <1>3, <2>1, GoneFacts DEF Count, Lost
  <2>2. CASE a \notin D
    <3>1. Count(m2, a) = Count(m, a) - Drops(m, refs, D, a) /\ Lost(m2, a) = Lost(m, a)
      BY <1>3, <2>2 DEF Count, Lost
    <3>. QED BY <1>5, <2>2, <3>1
  <2>. QED BY <2>1, <2>2
<1>8. ASSUME NEW a \in DOMAIN m.heap PROVE Sound(m2, m2.heap[a])
  <2>1. CASE a = Nil
    BY <1>1, <1>3, <2>1 DEF Shape, Sound, SameNames, Addr, Table
  <2>2. CASE a \in D
    <3>1. m2.heap[a] = Gone
      BY <1>2, <1>3, <2>2
    <3>2. IsSeq(<<>>) /\ Table(<<>>, Addr(m2)) /\ Table(<<>>, DOMAIN m2.bindings) /\ NULL \in Addr(m2)
          /\ DOMAIN <<>> = {}
      <4>1. DOMAIN <<>> = {} /\ IsSeq(<<>>)
        BY DEF IsSeq
      <4>2. NULL \in Addr(m)
        BY <1>1, Addresses
      <4>. QED BY <1>3, <4>1, <4>2, FS_EmptySet DEF Table, SameNames, Addr
    <3>3. Empty(Gone)
      BY <3>2, GoneFacts DEF Empty
    <3>4. /\ DOMAIN Gone = Fields /\ Gone.count = 0 /\ Gone.lost = 0 /\ Gone.parent = NULL
          /\ Gone.items = <<>> /\ Gone.props = <<>> /\ Gone.closure = <<>>
      BY GoneFacts
    <3>. QED BY <3>1, <3>2, <3>3, <3>4 DEF Sound
  <2>3. CASE a # Nil /\ a \notin D
    <3>1. Count(m2, a) \in Nat /\ (Count(m2, a) = 0 <=> Count(m, a) = 0)
      BY <1>7, <2>3
    <3>2. m2.heap[a].count \in Nat /\ (m2.heap[a].count = 0 <=> m.heap[a].count = 0)
      BY <3>1 DEF Count
    <3>3. SameObj(m.heap[a], m2.heap[a]) /\ m2.heap[a].lost = m.heap[a].lost
      BY <1>3, <2>3
    <3>. QED BY <1>1, <1>3, <3>2, <3>3 DEF Shape, Sound, SameNames, SameObj, Addr, Table, Empty
  <2>. QED BY <2>1, <2>2, <2>3
<1>9. Shape(m2)
  BY <1>1, <1>3, <1>8, SameShape DEF Shape
<1>10. ASSUME NEW a PROVE Alive(m2, a) <=> Alive(m, a) /\ a \notin D
  <2>1. CASE a \in DOMAIN m.heap \ {Nil}
    <3>1. Count(m, a) \in Nat
      BY <1>1, <2>1, BalanceType
    <3>2. CASE a \in D
      BY <1>7, <2>1, <3>2 DEF Alive
    <3>3. CASE a \notin D
      <4>1. Count(m2, a) \in Nat /\ (Count(m2, a) = 0 <=> Count(m, a) = 0)
        BY <1>7, <2>1, <3>3
      <4>. QED BY <1>4, <2>1, <3>1, <3>3, <4>1 DEF Alive
    <3>. QED BY <3>2, <3>3
  <2>2. CASE a = Nil
    BY <1>1, <1>2, <1>9, <2>2, Addresses
  <2>3. CASE a \notin DOMAIN m.heap
    BY <1>4, <2>3 DEF Alive
  <2>. QED BY <2>1, <2>2, <2>3
<1>11. ASSUME NEW a \in DOMAIN m.heap, a \notin D PROVE SameObj(m.heap[a], m2.heap[a])
  BY <1>3, <1>11 DEF SameObj
<1>12. Same(m, m2)
  BY <1>3, <1>10, <1>11 DEF Same, Alive
<1>13. ASSUME NEW a
       PROVE  /\ HeapOcc(m2, a) = Occurrences(OwnedBy(m, DOMAIN m.heap \ D), a)
              /\ ScopeOcc(m2, a) = ScopeOcc(m, a)
  <2>1. Occurrences(OwnedBy(m2, DOMAIN m.heap \ D), a) = Occurrences(OwnedBy(m, DOMAIN m.heap \ D), a)
    BY <1>3, <1>11, HeapOccSame DEF SameNames
  <2>2. Occurrences(OwnedBy(m2, D), a) = 0
    <3>1. \A x \in D : Slots(m2.heap[x]) = {}
      BY <1>2, <1>3, GoneFacts
    <3>2. DOMAIN OwnedBy(m2, D) = {}
      BY <3>1, OwnedFacts
    <3>. QED BY <3>2, OccNone
  <2>3. /\ DOMAIN m2.heap = (DOMAIN m2.heap \ D) \cup D /\ (DOMAIN m2.heap \ D) \cap D = {}
        /\ DOMAIN m2.heap \ D \in SUBSET DOMAIN m2.heap /\ D \in SUBSET DOMAIN m2.heap
    BY <1>2, <1>4
  <2>4. HeapOcc(m2, a) = Occurrences(OwnedBy(m2, DOMAIN m2.heap \ D), a) + Occurrences(OwnedBy(m2, D), a)
    <3>1. Occurrences(OwnedBy(m2, (DOMAIN m2.heap \ D) \cup D), a)
          = Occurrences(OwnedBy(m2, DOMAIN m2.heap \ D), a) + Occurrences(OwnedBy(m2, D), a)
      BY <1>9, <2>3, OwnedSplit
    <3>. QED BY <2>3, <3>1 DEF HeapOcc
  <2>5. Occurrences(OwnedBy(m2, DOMAIN m2.heap \ D), a) \in Nat
    BY <1>9, <2>3, OwnedType
  <2>6. HeapOcc(m2, a) = Occurrences(OwnedBy(m2, DOMAIN m2.heap \ D), a)
    BY <2>2, <2>4, <2>5
  <2>7. ScopeOcc(m2, a) = ScopeOcc(m, a)
    BY <1>3, ScopeOccSame DEF SameNames
  <2>. QED BY <1>4, <2>1, <2>6, <2>7
<1>14. ASSUME NEW a \in DOMAIN m.heap \ {Nil}
       PROVE  Balance(m2, a) = Balance(m, a) - Occurrences(refs, a) /\ Balance(m2, a) >= 0
  <2>. DEFINE r == Occurrences(refs, a)
              d == Drops(m, refs, D, a)
              in == Occurrences(OwnedBy(m, D), a)
              out == Occurrences(OwnedBy(m, DOMAIN m.heap \ D), a)
  <2>1. d \in Nat /\ d = r + in /\ r \in Nat /\ in \in Nat /\ out \in Nat /\ HeapOcc(m, a) = in + out
    <3>1. D \in SUBSET DOMAIN m.heap
      BY <1>2
    <3>2. Parts(m, refs, D, a)
      BY <1>1, <3>1, DropsFacts
    <3>. QED BY <3>2 DEF Parts
  <2>2. /\ Balance(m, a) \in Int /\ HeapOcc(m, a) \in Nat /\ ScopeOcc(m, a) \in Nat
        /\ Keeps(a) \in Nat /\ Count(m, a) \in Nat /\ Lost(m, a) \in Nat /\ Balance(m, a) >= r
    BY <1>1, BalanceType
  <2>3. /\ Balance(m, a) = Count(m, a) - HeapOcc(m, a) - ScopeOcc(m, a) - Lost(m, a) - Keeps(a)
        /\ Balance(m2, a) = Count(m2, a) - HeapOcc(m2, a) - ScopeOcc(m2, a) - Lost(m2, a) - Keeps(a)
    BY DEF Balance
  <2>4. HeapOcc(m2, a) = out /\ ScopeOcc(m2, a) = ScopeOcc(m, a)
    BY <1>13
  <2>5. CASE a \in D
    <3>1. Count(m2, a) = 0 /\ Lost(m2, a) = 0 /\ Balance(m, a) = r /\ ScopeOcc(m, a) = 0 /\ Keeps(a) = 0
          /\ out = 0
      BY <1>5, <1>7, <2>5
    <3>. HIDE DEF r, d, in, out
    <3>2. Balance(m2, a) = Balance(m, a) - r /\ Balance(m2, a) >= 0
      BY ONLY <2>1, <2>2, <2>3, <2>4, <3>1
    <3>. QED BY <3>2 DEF r
  <2>6. CASE a \notin D
    <3>1. Count(m2, a) = Count(m, a) - d /\ Lost(m2, a) = Lost(m, a)
      BY <1>7, <2>6
    <3>. HIDE DEF r, d, in, out
    <3>2. Balance(m2, a) = Balance(m, a) - r /\ Balance(m2, a) >= 0
      BY ONLY <2>1, <2>2, <2>3, <2>4, <3>1
    <3>. QED BY <3>2 DEF r
  <2>. QED BY <2>5, <2>6
<1>15. Good(m2)
  <2>1. Grows(m, m2)
    BY <1>1, <1>12, SameGrows
  <2>. QED BY <1>4, <1>9, <1>14, <2>1, GoodNext
<1>. QED BY <1>3, <1>6, <1>10, <1>12, <1>14, <1>15 DEF D

LEMMA ReleaseGood ==
  ASSUME NEW m, Good(m), NEW x, \A a \in DOMAIN m.heap \ {Nil} : Balance(m, a) >= Ind(x, a)
  PROVE  LET m2 == Release(m, x) IN
         /\ Good(m2) /\ Same(m, m2) /\ m2.stray = m.stray
         /\ \A a : Alive(m2, a) <=> Alive(m, a) /\ a \notin Dead(m, <<x>>)
         /\ \A a \in DOMAIN m.heap \ {Nil} : Balance(m2, a) = Balance(m, a) - Ind(x, a)
<1>1. IsFiniteSet(DOMAIN <<x>>) /\ \A a : Occurrences(<<x>>, a) = Ind(x, a)
  BY OccOne
<1>. QED BY <1>1, ReleaseAllGood DEF Release

-----------------------------------------------------------------------------
(* Steps of memories. *)

\* What is counted, and the references that C locals own.
Counted(m) == DOMAIN m.heap \ {Nil}
Bal(m, a) == IF a \in Counted(m) THEN Balance(m, a) ELSE 0

\* A good memory, with the same scopes.
Moved(m, m2) == Good(m2) /\ Grows(m, m2) /\ m2.scopes = m.scopes /\ m2.stray = m.stray

LEMMA BalType == ASSUME NEW m, Good(m), NEW a PROVE Bal(m, a) \in Nat
<1>1. CASE a \in Counted(m)
  <2>1. Balance(m, a) \in Int /\ Balance(m, a) >= 0
    BY <1>1, BalanceType DEF Good, Counted
  <2>. QED BY <1>1, <2>1 DEF Bal
<1>. QED BY <1>1 DEF Bal

LEMMA MovedSelf == ASSUME NEW m, Good(m) PROVE Moved(m, m)
BY GrowsSelf DEF Moved, Good

LEMMA MovedMore ==
  ASSUME NEW m, NEW m2, NEW m3, Good(m), Moved(m, m2), Moved(m2, m3)
  PROVE  Moved(m, m3)
BY GrowsMore DEF Moved, Good

\* What has a balance lives.
LEMMA BalAlive ==
  ASSUME NEW m, Good(m), NEW a, Bal(m, a) # 0
  PROVE  Alive(m, a)
<1>1. a \in Counted(m) /\ Bal(m, a) = Balance(m, a)
  BY DEF Bal
<1>2. Balance(m, a) \in Int /\ Balance(m, a) >= 0
  BY <1>1, BalanceType DEF Good, Counted
<1>3. Balance(m, a) > 0
  BY <1>1, <1>2
<1>. QED BY <1>1, <1>2, <1>3, Referred DEF Good, Counted

LEMMA NilAlive == ASSUME NEW m, Good(m) PROVE Alive(m, Nil) /\ Nil # NULL /\ ~Alive(m, NULL)
BY Addresses DEF Good, Alive

LEMMA RetainStep ==
  ASSUME NEW m, Good(m), NEW x, x = NULL \/ Alive(m, x)
  PROVE  LET m2 == Retain(m, x) IN
         /\ Moved(m, m2) /\ Same(m, m2) /\ Counted(m2) = Counted(m)
         /\ \A a : Alive(m2, a) <=> Alive(m, a)
         /\ \A a \in Counted(m) : Bal(m2, a) = Bal(m, a) + Ind(x, a)
<1>. DEFINE m2 == Retain(m, x)
<1>1. /\ Good(m2) /\ Same(m, m2) /\ m2.stray = m.stray
      /\ \A a : Alive(m, a) <=> Alive(m2, a)
      /\ \A a \in DOMAIN m.heap \ {Nil} : Balance(m2, a) = Balance(m, a) + Ind(x, a)
  BY RetainGood
<1>. HIDE DEF m2
<1>2. Grows(m, m2) /\ DOMAIN m2.heap = DOMAIN m.heap
  BY <1>1, SameGrows DEF Good
<1>3. Moved(m, m2) /\ Counted(m2) = Counted(m)
  BY <1>1, <1>2 DEF Moved, Same, SameNames, Counted
<1>. QED BY <1>1, <1>3 DEF Bal, Counted, m2

LEMMA LoseStep ==
  ASSUME NEW m, Good(m), NEW x, \A a \in Counted(m) : Bal(m, a) >= Ind(x, a)
  PROVE  LET m2 == Lose(m, x) IN
         /\ Moved(m, m2) /\ Same(m, m2) /\ Counted(m2) = Counted(m)
         /\ \A a : Alive(m2, a) <=> Alive(m, a)
         /\ \A a \in Counted(m) : Bal(m2, a) = Bal(m, a) - Ind(x, a)
<1>. DEFINE m2 == Lose(m, x)
<1>0. \A a \in DOMAIN m.heap \ {Nil} : Balance(m, a) >= Ind(x, a)
  BY DEF Bal, Counted
<1>1. /\ Good(m2) /\ Same(m, m2) /\ m2.stray = m.stray
      /\ \A a : Alive(m, a) <=> Alive(m2, a)
      /\ \A a \in DOMAIN m.heap \ {Nil} : Balance(m2, a) = Balance(m, a) - Ind(x, a)
  BY <1>0, LoseGood
<1>. HIDE DEF m2
<1>2. Grows(m, m2) /\ DOMAIN m2.heap = DOMAIN m.heap
  BY <1>1, SameGrows DEF Good
<1>3. Moved(m, m2) /\ Counted(m2) = Counted(m)
  BY <1>1, <1>2 DEF Moved, Same, SameNames, Counted
<1>. QED BY <1>1, <1>3 DEF Bal, Counted, m2

LEMMA LoseAllStep ==
  ASSUME NEW m, Good(m), NEW refs, IsFiniteSet(DOMAIN refs),
         \A a \in Counted(m) : Bal(m, a) >= Occurrences(refs, a)
  PROVE  LET m2 == LoseAll(m, refs) IN
         /\ Moved(m, m2) /\ Same(m, m2) /\ Counted(m2) = Counted(m)
         /\ \A a : Alive(m2, a) <=> Alive(m, a)
         /\ \A a \in Counted(m) : Bal(m2, a) = Bal(m, a) - Occurrences(refs, a)
<1>. DEFINE m2 == LoseAll(m, refs)
<1>0. \A a \in DOMAIN m.heap \ {Nil} : Balance(m, a) >= Occurrences(refs, a)
  BY DEF Bal, Counted
<1>1. /\ Good(m2) /\ Same(m, m2) /\ m2.stray = m.stray
      /\ \A a : Alive(m, a) <=> Alive(m2, a)
      /\ \A a \in DOMAIN m.heap \ {Nil} : Balance(m2, a) = Balance(m, a) - Occurrences(refs, a)
  BY <1>0, LoseAllGood
<1>. HIDE DEF m2
<1>2. Grows(m, m2) /\ DOMAIN m2.heap = DOMAIN m.heap
  BY <1>1, SameGrows DEF Good
<1>3. Moved(m, m2) /\ Counted(m2) = Counted(m)
  BY <1>1, <1>2 DEF Moved, Same, SameNames, Counted
<1>. QED BY <1>1, <1>3 DEF Bal, Counted, m2

LEMMA ReleaseAllStep ==
  ASSUME NEW m, Good(m), NEW refs, IsFiniteSet(DOMAIN refs),
         \A a \in Counted(m) : Bal(m, a) >= Occurrences(refs, a)
  PROVE  LET m2 == ReleaseAll(m, refs) IN
         /\ Moved(m, m2) /\ Same(m, m2) /\ Counted(m2) = Counted(m)
         /\ \A a : Alive(m2, a) <=> Alive(m, a) /\ a \notin Dead(m, refs)
         /\ \A a \in Counted(m) : Bal(m2, a) = Bal(m, a) - Occurrences(refs, a)
<1>. DEFINE m2 == ReleaseAll(m, refs)
<1>0. \A a \in DOMAIN m.heap \ {Nil} : Balance(m, a) >= Occurrences(refs, a)
  BY DEF Bal, Counted
<1>1. /\ Good(m2) /\ Same(m, m2) /\ m2.stray = m.stray
      /\ \A a : Alive(m2, a) <=> Alive(m, a) /\ a \notin Dead(m, refs)
      /\ \A a \in DOMAIN m.heap \ {Nil} : Balance(m2, a) = Balance(m, a) - Occurrences(refs, a)
  BY <1>0, ReleaseAllGood
<1>. HIDE DEF m2
<1>2. Grows(m, m2) /\ DOMAIN m2.heap = DOMAIN m.heap
  BY <1>1, SameGrows DEF Good
<1>3. Moved(m, m2) /\ Counted(m2) = Counted(m)
  BY <1>1, <1>2 DEF Moved, Same, SameNames, Counted
<1>. QED BY <1>1, <1>3 DEF Bal, Counted, m2

LEMMA ReleaseStep ==
  ASSUME NEW m, Good(m), NEW x, \A a \in Counted(m) : Bal(m, a) >= Ind(x, a)
  PROVE  LET m2 == Release(m, x) IN
         /\ Moved(m, m2) /\ Same(m, m2) /\ Counted(m2) = Counted(m)
         /\ \A a : Alive(m2, a) <=> Alive(m, a) /\ a \notin Dead(m, <<x>>)
         /\ \A a \in Counted(m) : Bal(m2, a) = Bal(m, a) - Ind(x, a)
<1>1. IsFiniteSet(DOMAIN <<x>>) /\ \A a : Occurrences(<<x>>, a) = Ind(x, a)
  BY OccOne
<1>2. \A a \in Counted(m) : Bal(m, a) >= Occurrences(<<x>>, a)
  BY <1>1
<1>. QED BY <1>1, <1>2, ReleaseAllStep DEF Release

LEMMA ReleaseTwoStep ==
  ASSUME NEW m, Good(m), NEW x, NEW y,
         \A a \in Counted(m) : Bal(m, a) >= Ind(x, a) + Ind(y, a)
  PROVE  LET m2 == ReleaseAll(m, <<x, y>>) IN
         /\ Moved(m, m2) /\ Same(m, m2) /\ Counted(m2) = Counted(m)
         /\ \A a \in Counted(m) : Bal(m2, a) = Bal(m, a) - (Ind(x, a) + Ind(y, a))
<1>1. IsFiniteSet(DOMAIN <<x, y>>) /\ \A a : Occurrences(<<x, y>>, a) = Ind(x, a) + Ind(y, a)
  BY OccTwo
<1>2. \A a \in Counted(m) : Bal(m, a) >= Occurrences(<<x, y>>, a)
  BY <1>1
<1>. QED BY <1>1, <1>2, ReleaseAllStep

LEMMA ReleaseThreeStep ==
  ASSUME NEW m, Good(m), NEW x, NEW y, NEW z,
         \A a \in Counted(m) : Bal(m, a) >= Ind(x, a) + Ind(y, a) + Ind(z, a)
  PROVE  LET m2 == ReleaseAll(m, <<x, y, z>>) IN
         /\ Moved(m, m2) /\ Same(m, m2) /\ Counted(m2) = Counted(m)
         /\ \A a \in Counted(m) : Bal(m2, a) = Bal(m, a) - (Ind(x, a) + Ind(y, a) + Ind(z, a))
<1>1. IsFiniteSet(DOMAIN <<x, y, z>>)
      /\ \A a : Occurrences(<<x, y, z>>, a) = Ind(x, a) + Ind(y, a) + Ind(z, a)
  BY OccThree
<1>2. \A a \in Counted(m) : Bal(m, a) >= Occurrences(<<x, y, z>>, a)
  BY <1>1
<1>. QED BY <1>1, <1>2, ReleaseAllStep

\* An object whose references can be retained.
Proper(m, o) ==
  /\ DOMAIN o = Fields /\ o.count = 1 /\ o.lost = 0
  /\ o.parent = NULL \/ Alive(m, o.parent)
  /\ IsSeq(o.items) /\ \A i \in DOMAIN o.items : o.items[i] = NULL \/ Alive(m, o.items[i])
  /\ IsFiniteSet(DOMAIN o.props) /\ \A n \in DOMAIN o.props : o.props[n] = NULL \/ Alive(m, o.props[n])
  /\ Table(o.closure, DOMAIN m.bindings)
  /\ \A n \in DOMAIN o.closure :
       m.bindings[o.closure[n]] = NULL \/ Alive(m, m.bindings[o.closure[n]])
  /\ Kind(m, o)

\* One object more, with its slots.
LEMMA OwnedMore ==
  ASSUME NEW m, NEW m1, Shape(m), Shape(m1), NEW x, x \notin DOMAIN m.heap,
         DOMAIN m1.heap = DOMAIN m.heap \cup {x}, m1.bindings = m.bindings,
         \A a \in DOMAIN m.heap : SameObj(m.heap[a], m1.heap[a]), NEW a
  PROVE  HeapOcc(m1, a) = HeapOcc(m, a) + Occurrences(Owned(m, m1.heap[x]), a)
<1>. DEFINE o == m1.heap[x]
<1>1. Occurrences(OwnedBy(m1, DOMAIN m.heap), a) = HeapOcc(m, a)
  BY HeapOccSame DEF HeapOcc
<1>2. Occurrences(OwnedBy(m1, {x}), a) = Occurrences(Owned(m, o), a)
  <2>. DEFINE b == [s \in Slots(o) |-> <<x, s>>]
  <2>0. PICK f, g : f = Owned(m, o) /\ g = OwnedBy(m1, {x})
    OBVIOUS
  <2>1. DOMAIN f = Slots(o) /\ \A s \in Slots(o) : f[s] = At(m, o, s)
    BY <2>0 DEF Owned
  <2>2. Sound(m1, o)
    BY DEF Shape
  <2>3. IsFiniteSet(DOMAIN f)
    BY <2>1, <2>2, SlotsFinite
  <2>4. /\ \A p : p \in DOMAIN g <=> \E s \in Slots(o) : p = <<x, s>>
        /\ \A s \in Slots(o) : g[<<x, s>>] = At(m1, o, s)
    BY <2>0, OwnedFacts
  <2>5. \A s \in Slots(o) : At(m1, o, s) = At(m, o, s)
    BY DEF At
  <2>6. \A p \in DOMAIN f : b[p] \in DOMAIN g /\ g[b[p]] = f[p]
    BY <2>1, <2>4, <2>5
  <2>7. \A q \in DOMAIN g : g[q] = a => \E p \in DOMAIN f : b[p] = q
    BY <2>1, <2>4
  <2>8. \A p, q \in DOMAIN f : b[p] = b[q] => p = q
    BY <2>1
  <2>. HIDE DEF b
  <2>9. Occurrences(g, a) = Occurrences(f, a)
    BY <2>3, <2>6, <2>7, <2>8, OccMoved
  <2>. QED BY <2>0, <2>9
<1>3. /\ DOMAIN m.heap \in SUBSET DOMAIN m1.heap /\ {x} \in SUBSET DOMAIN m1.heap
      /\ DOMAIN m.heap \cap {x} = {}
  OBVIOUS
<1>4. Occurrences(OwnedBy(m1, DOMAIN m.heap \cup {x}), a)
      = Occurrences(OwnedBy(m1, DOMAIN m.heap), a) + Occurrences(OwnedBy(m1, {x}), a)
  BY <1>3, OwnedSplit
<1>. QED BY <1>1, <1>2, <1>4 DEF HeapOcc

\* A new object is owned by who asked for it.
LEMMA NewStep ==
  ASSUME NEW m, Good(m), NEW o, Proper(m, o)
  PROVE  LET m2 == New(m, o)
             x == Fresh(m) IN
         /\ Moved(m, m2) /\ m2.bindings = m.bindings
         /\ x \notin DOMAIN m.heap /\ x # NULL /\ x # Nil
         /\ DOMAIN m2.heap = DOMAIN m.heap \cup {x} /\ Counted(m2) = Counted(m) \cup {x}
         /\ Alive(m2, x) /\ SameObj(o, m2.heap[x])
         /\ \A a : Alive(m, a) => Alive(m2, a)
         /\ \A a \in DOMAIN m.heap : SameObj(m.heap[a], m2.heap[a])
         /\ \A a \in Counted(m2) : Bal(m2, a) = Bal(m, a) + Ind(x, a)
<1>0. PICK x : x = Fresh(m)
  OBVIOUS
<1>. DEFINE m1 == [m EXCEPT !.heap = Append(@, o)]
            refs == Owned(m, o)
            m2 == RetainAll(m1, refs)
<1>1. Shape(m) /\ NULL \notin DOMAIN m.heap /\ Nil \in DOMAIN m.heap /\ DOMAIN m.heap \subseteq Nat
      /\ Len(m.heap) \in Nat /\ DOMAIN m.heap = 1 .. Len(m.heap) /\ Addr(m) = DOMAIN m.heap \cup {NULL}
  BY Addresses DEF Good
<1>2. /\ m1.heap = Append(m.heap, o) /\ m1.bindings = m.bindings /\ m1.scopes = m.scopes
      /\ m1.stray = m.stray /\ DOMAIN m1 = DOMAIN m
  BY <1>1 DEF Shape
<1>3. /\ IsSeq(m1.heap) /\ Len(m1.heap) = x /\ DOMAIN m1.heap = 1 .. x /\ x = Len(m.heap) + 1
      /\ m1.heap[x] = o /\ \A a \in DOMAIN m.heap : m1.heap[a] = m.heap[a]
  <2>1. IsSeq(m.heap) /\ x = Len(m.heap) + 1
    BY <1>0, <1>1 DEF Shape, Fresh
  <2>. HIDE DEF m1
  <2>. QED BY <1>1, <1>2, <2>1, SeqMore
<1>4. x \notin DOMAIN m.heap /\ x # NULL /\ x # Nil /\ DOMAIN m1.heap = DOMAIN m.heap \cup {x}
  BY <1>1, <1>3 DEF NULL, Nil
<1>. HIDE DEF m1
<1>5. Addr(m1) = Addr(m) \cup {x} /\ \A a : Alive(m, a) => a \in Addr(m)
  <2>1. Addr(m1) = DOMAIN m1.heap \cup {NULL}
    BY <1>1, <1>3 DEF Addr, NULL
  <2>. QED BY <1>1, <1>4, <2>1 DEF Alive
<1>6. \A a \in DOMAIN m.heap : Sound(m1, m.heap[a])
  BY <1>1, <1>2, <1>5 DEF Shape, Sound, Table, Empty
<1>7. Sound(m1, o)
  <2>1. \A i \in DOMAIN o.items : o.items[i] \in Addr(m1)
    BY <1>1, <1>5 DEF Proper
  <2>2. Table(o.props, Addr(m1)) /\ Table(o.closure, DOMAIN m1.bindings) /\ o.parent \in Addr(m1)
    BY <1>1, <1>2, <1>5 DEF Proper, Table
  <2>. QED BY <2>1, <2>2 DEF Proper, Sound
<1>8. Shape(m1)
  <2>1. \A b \in DOMAIN m1.bindings : m1.bindings[b] \in Addr(m1)
    BY <1>1, <1>2, <1>5 DEF Shape
  <2>2. \A a \in DOMAIN m1.heap : Sound(m1, m1.heap[a])
    BY <1>3, <1>4, <1>6, <1>7
  <2>3. Len(m1.heap) >= False
    BY <1>1, <1>3 DEF Shape, False
  <2>. QED BY <1>1, <1>2, <1>3, <1>4, <2>1, <2>2, <2>3 DEF Shape
<1>9. /\ SameNames(m1, m2) /\ m2.stray = m1.stray
      /\ \A a \in DOMAIN m1.heap :
           /\ SameObj(m1.heap[a], m2.heap[a]) /\ m2.heap[a].lost = m1.heap[a].lost
           /\ m2.heap[a].count = IF a = Nil THEN m1.heap[a].count
                                 ELSE m1.heap[a].count + Occurrences(refs, a)
  BY <1>8, RetainFacts
<1>10. m2.heap[Nil] = m1.heap[Nil]
  BY <1>1, <1>4 DEF RetainAll, Shape
<1>11. DOMAIN m2.heap = DOMAIN m1.heap
  BY <1>8, <1>9, SeqFacts DEF SameNames, Shape
<1>12. New(m, o) = m2
  BY DEF New, m1
<1>. HIDE DEF m2
<1>13. /\ IsFiniteSet(DOMAIN refs)
       /\ \A p \in DOMAIN refs : refs[p] = NULL \/ Alive(m, refs[p])
  <2>1. DOMAIN refs = Slots(o) /\ \A s \in Slots(o) : refs[s] = At(m, o, s)
    BY DEF Owned
  <2>2. IsFiniteSet(Slots(o))
    BY <1>7, SlotsFinite
  <2>3. \A s \in Slots(o) : At(m, o, s) = NULL \/ Alive(m, At(m, o, s))
    BY DEF Slots, At, Proper
  <2>. QED BY <2>1, <2>2, <2>3
<1>. HIDE DEF refs
<1>14. ASSUME NEW a
       PROVE  Occurrences(refs, a) \in Nat /\ (Occurrences(refs, a) # 0 => a = NULL \/ Alive(m, a))
  BY <1>13, OccType
<1>15. Occurrences(refs, x) = 0
  BY <1>4, <1>14 DEF Alive
<1>16. ASSUME NEW a \in DOMAIN m.heap
       PROVE  /\ Count(m2, a) = IF a = Nil THEN Count(m, a) ELSE Count(m, a) + Occurrences(refs, a)
              /\ Lost(m2, a) = Lost(m, a) /\ Count(m, a) \in Nat /\ Lost(m, a) \in Nat
              /\ Count(m2, a) \in Nat /\ (Count(m2, a) = 0 <=> Count(m, a) = 0)
  <2>1. Count(m1, a) = Count(m, a) /\ Lost(m1, a) = Lost(m, a)
    BY <1>3 DEF Count, Lost
  <2>2. /\ Count(m2, a) = IF a = Nil THEN Count(m1, a) ELSE Count(m1, a) + Occurrences(refs, a)
        /\ Lost(m2, a) = Lost(m1, a)
    BY <1>4, <1>9 DEF Count, Lost
  <2>3. Count(m, a) \in Nat /\ Lost(m, a) \in Nat
    BY <1>1, BalanceType
  <2>4. Occurrences(refs, a) \in Nat /\ (Occurrences(refs, a) # 0 => Count(m, a) > 0)
    BY <1>1, <1>14 DEF Alive
  <2>. QED BY <2>1, <2>2, <2>3, <2>4
<1>17. Count(m2, x) = 1 /\ Lost(m2, x) = 0
  <2>1. m1.heap[x].count = 1 /\ m1.heap[x].lost = 0
    BY <1>3 DEF Proper
  <2>. QED BY <1>4, <1>9, <1>15, <2>1 DEF Count, Lost
<1>18. ASSUME NEW a \in DOMAIN m1.heap PROVE Sound(m2, m2.heap[a])
  <2>1. CASE a = x
    <3>1. m2.heap[x].count \in Nat /\ m2.heap[x].lost \in Nat /\ m2.heap[x].count # 0
      BY <1>17 DEF Count, Lost
    <3>. QED BY <1>4, <1>8, <1>9, <2>1, <3>1, SameSound
  <2>2. CASE a \in DOMAIN m.heap
    <3>1. /\ m2.heap[a].count \in Nat /\ (m2.heap[a].count = 0 <=> m.heap[a].count = 0)
          /\ m2.heap[a].lost = m.heap[a].lost
      BY <1>16, <2>2 DEF Count, Lost
    <3>2. SameObj(m.heap[a], m2.heap[a])
      BY <1>3, <1>4, <1>9, <2>2
    <3>3. Sound(m1, m.heap[a])
      BY <1>6, <2>2
    <3>4. Addr(m2) = Addr(m1) /\ m2.bindings = m1.bindings
      BY <1>9 DEF SameNames, Addr
    <3>. QED BY <3>1, <3>2, <3>3, <3>4 DEF Sound, SameObj, Table, Empty
  <2>. QED BY <1>4, <2>1, <2>2
<1>19. Shape(m2)
  BY <1>8, <1>9, <1>10, <1>18, SameShape DEF Shape
<1>20. ASSUME NEW a \in DOMAIN m.heap PROVE SameObj(m.heap[a], m2.heap[a])
  BY <1>3, <1>4, <1>9
<1>21. ASSUME NEW a PROVE Alive(m2, a) <=> Alive(m, a) \/ a = x
  <2>1. CASE a \in DOMAIN m.heap
    BY <1>4, <1>11, <1>16, <2>1 DEF Alive
  <2>2. CASE a = x
    BY <1>4, <1>11, <1>17, <2>2 DEF Alive
  <2>3. CASE a \notin DOMAIN m.heap /\ a # x
    BY <1>4, <1>11, <2>3 DEF Alive
  <2>. QED BY <2>1, <2>2, <2>3
<1>22. Grows(m, m2)
  BY <1>4, <1>11, <1>20, <1>21 DEF Grows, SameObj
<1>23. ASSUME NEW a
       PROVE  /\ HeapOcc(m2, a) = HeapOcc(m, a) + Occurrences(refs, a)
              /\ ScopeOcc(m2, a) = ScopeOcc(m, a)
  <2>1. HeapOcc(m1, a) = HeapOcc(m, a) + Occurrences(Owned(m, m1.heap[x]), a)
    <3>1. \A y \in DOMAIN m.heap : SameObj(m.heap[y], m1.heap[y])
      BY <1>3 DEF SameObj
    <3>. QED BY <1>1, <1>2, <1>4, <1>8, <3>1, OwnedMore
  <2>2. HeapOcc(m2, a) = HeapOcc(m1, a) /\ ScopeOcc(m2, a) = ScopeOcc(m1, a)
    BY <1>8, <1>9, SameOcc
  <2>3. ScopeOcc(m1, a) = ScopeOcc(m, a)
    BY <1>2, ScopeOccSame
  <2>. QED BY <1>3, <2>1, <2>2, <2>3 DEF refs
<1>24. ASSUME NEW a \in Counted(m)
       PROVE  Balance(m2, a) = Balance(m, a) /\ Balance(m2, a) >= 0
  <2>1. a \in DOMAIN m.heap /\ a # Nil
    BY DEF Counted
  <2>2. /\ Count(m2, a) = Count(m, a) + Occurrences(refs, a) /\ Lost(m2, a) = Lost(m, a)
        /\ Count(m, a) \in Nat /\ Lost(m, a) \in Nat /\ Occurrences(refs, a) \in Nat
    BY <1>14, <1>16, <2>1
  <2>3. HeapOcc(m, a) \in Nat /\ ScopeOcc(m, a) \in Nat /\ Keeps(a) \in Nat /\ Balance(m, a) >= 0
    BY <1>1, <2>1, BalanceType DEF Good
  <2>. QED BY <1>23, <2>2, <2>3 DEF Balance
<1>25. Balance(m2, x) = 1
  <2>1. HeapOcc(m, x) = 0
    <3>1. ASSUME NEW p \in DOMAIN OwnedBy(m, DOMAIN m.heap) PROVE OwnedBy(m, DOMAIN m.heap)[p] # x
      <4>0. PICK y \in DOMAIN m.heap : \E s \in Slots(m.heap[y]) : p = <<y, s>>
        BY OwnedFacts
      <4>1. PICK s \in Slots(m.heap[y]) : p = <<y, s>>
        BY <4>0
      <4>2. OwnedBy(m, DOMAIN m.heap)[p] = At(m, m.heap[y], s)
        BY <4>1, OwnedFacts
      <4>3. At(m, m.heap[y], s) \in Addr(m)
        BY <1>1 DEF Shape, Sound, Table, Slots, At
      <4>. QED BY <1>1, <1>4, <4>2, <4>3
    <3>. QED BY <1>1, <3>1, OwnedFinite, OccType DEF HeapOcc
  <2>2. ScopeOcc(m, x) = 0
    <3>1. ASSUME NEW p \in DOMAIN ScopeRefs(m) PROVE ScopeRefs(m)[p] # x
      <4>0. PICK i \in OwnScopes(m) : \E n \in DOMAIN m.scopes[i] : p = <<i, n>>
        BY ScopeFacts
      <4>1. PICK n \in DOMAIN m.scopes[i] : p = <<i, n>>
        BY <4>0
      <4>2. ScopeRefs(m)[p] = m.bindings[m.scopes[i][n]]
        BY <4>1, ScopeFacts
      <4>3. m.bindings[m.scopes[i][n]] \in Addr(m)
        BY <1>1 DEF Shape, Table, OwnScopes
      <4>. QED BY <1>1, <1>4, <4>2, <4>3
    <3>. QED BY <1>1, <3>1, ScopeFinite, OccType DEF ScopeOcc
  <2>3. Keeps(x) = 0
    <3>1. Len(m.heap) >= False /\ x = Len(m.heap) + 1 /\ Len(m.heap) \in Nat /\ False \in Nat
      BY <1>1, <1>3 DEF Shape, False
    <3>2. x \notin 1 .. False
      BY <3>1
    <3>. QED BY <3>2 DEF Keeps, Kept
  <2>4. HeapOcc(m2, x) = 0 /\ ScopeOcc(m2, x) = 0
    BY <1>15, <1>23, <2>1, <2>2
  <2>. QED BY <1>17, <2>3, <2>4 DEF Balance
<1>26. Counted(m2) = Counted(m) \cup {x}
  BY <1>4, <1>11 DEF Counted
<1>27. ASSUME NEW a \in Counted(m2) PROVE Bal(m2, a) = Bal(m, a) + Ind(x, a) /\ Balance(m2, a) >= 0
  <2>1. CASE a = x
    BY <1>4, <1>25, <1>26, <2>1 DEF Bal, Ind, Counted
  <2>2. CASE a # x
    <3>1. a \in Counted(m) /\ Balance(m, a) \in Int
      BY <1>1, <1>26, <2>2, BalanceType DEF Counted
    <3>. QED BY <1>24, <1>26, <2>2, <3>1 DEF Bal, Ind
  <2>. QED BY <2>1, <2>2
<1>28. Kind(m2, m2.heap[x])
  <2>1. SameObj(o, m2.heap[x]) /\ Kind(m, o)
    BY <1>3, <1>4, <1>9 DEF Proper
  <2>2. \A i \in DOMAIN o.items : Type(m, o.items[i]) = "list" => Type(m2, o.items[i]) = "list"
    <3>1. \A i \in DOMAIN o.items : o.items[i] = NULL \/ o.items[i] \in DOMAIN m.heap
      BY DEF Proper, Alive
    <3>. QED BY <1>20, <3>1 DEF Type, SameObj
  <2>. QED BY <2>1, <2>2 DEF Kind, SameObj
<1>29. Good(m2)
  <2>1. \A a \in DOMAIN m2.heap \ {Nil} : Balance(m2, a) >= 0
    BY <1>27 DEF Counted
  <2>2. \A a \in DOMAIN m2.heap \ DOMAIN m.heap : Kind(m2, m2.heap[a])
    BY <1>4, <1>11, <1>28
  <2>. QED BY <1>19, <1>22, <2>1, <2>2, GoodNext
<1>30. Moved(m, m2) /\ m2.bindings = m.bindings
  BY <1>2, <1>9, <1>22, <1>29 DEF Moved, SameNames
<1>31. SameObj(o, m2.heap[x]) /\ DOMAIN m2.heap = DOMAIN m.heap \cup {x}
  BY <1>3, <1>4, <1>9, <1>11
<1>. QED BY <1>0, <1>4, <1>12, <1>20, <1>21, <1>26, <1>27, <1>30, <1>31

-----------------------------------------------------------------------------
(* Lists and properties. *)

LEMMA OwnedOne ==
  ASSUME NEW m, NEW x, NEW o, o = m.heap[x], IsFiniteSet(Slots(o)), NEW a
  PROVE  /\ Occurrences(OwnedBy(m, {x}), a) = Occurrences(Owned(m, o), a)
         /\ Occurrences(Owned(m, o), a) \in Nat /\ IsFiniteSet(DOMAIN Owned(m, o))
<1>. DEFINE b == [s \in Slots(o) |-> <<x, s>>]
<1>0. PICK f, g : f = Owned(m, o) /\ g = OwnedBy(m, {x})
  OBVIOUS
<1>1. DOMAIN f = Slots(o) /\ \A s \in Slots(o) : f[s] = At(m, o, s)
  BY <1>0 DEF Owned
<1>4. /\ \A p : p \in DOMAIN g <=> \E s \in Slots(o) : p = <<x, s>>
      /\ \A s \in Slots(o) : g[<<x, s>>] = At(m, o, s)
  BY <1>0, OwnedFacts
<1>6. \A p \in DOMAIN f : b[p] \in DOMAIN g /\ g[b[p]] = f[p]
  BY <1>1, <1>4
<1>7. \A q \in DOMAIN g : g[q] = a => \E p \in DOMAIN f : b[p] = q
  BY <1>1, <1>4
<1>8. \A p, q \in DOMAIN f : b[p] = b[q] => p = q
  BY <1>1
<1>9. IsFiniteSet(DOMAIN f)
  BY <1>1
<1>. HIDE DEF b
<1>10. Occurrences(g, a) = Occurrences(f, a)
  BY <1>9, <1>6, <1>7, <1>8, OccMoved
<1>. QED BY <1>0, <1>9, <1>10, OccType

\* Only the object at l changes.
LEMMA ObjOcc ==
  ASSUME NEW m, NEW m2, Shape(m), Shape(m2), DOMAIN m2.heap = DOMAIN m.heap, m2.bindings = m.bindings,
         NEW l \in DOMAIN m.heap, \A a \in DOMAIN m.heap \ {l} : SameObj(m.heap[a], m2.heap[a]), NEW x
  PROVE  /\ HeapOcc(m2, x) + Occurrences(Owned(m, m.heap[l]), x)
              = HeapOcc(m, x) + Occurrences(Owned(m, m2.heap[l]), x)
         /\ Occurrences(Owned(m, m.heap[l]), x) \in Nat /\ IsFiniteSet(DOMAIN Owned(m, m.heap[l]))
         /\ Occurrences(Owned(m, m2.heap[l]), x) \in Nat /\ HeapOcc(m2, x) \in Nat /\ HeapOcc(m, x) \in Nat
<1>. DEFINE D == DOMAIN m.heap \ {l}
<1>1. /\ D \in SUBSET DOMAIN m.heap /\ {l} \in SUBSET DOMAIN m.heap /\ D \cap {l} = {}
      /\ DOMAIN m.heap = D \cup {l} /\ D \in SUBSET DOMAIN m2.heap /\ {l} \in SUBSET DOMAIN m2.heap
  OBVIOUS
<1>2. Occurrences(OwnedBy(m2, D), x) = Occurrences(OwnedBy(m, D), x)
  BY HeapOccSame
<1>3. Owned(m2, m2.heap[l]) = Owned(m, m2.heap[l])
  BY DEF Owned, At
<1>4. IsFiniteSet(Slots(m.heap[l])) /\ IsFiniteSet(Slots(m2.heap[l]))
  BY SlotsFinite DEF Shape
<1>5. /\ Occurrences(OwnedBy(m, {l}), x) = Occurrences(Owned(m, m.heap[l]), x)
      /\ Occurrences(Owned(m, m.heap[l]), x) \in Nat /\ IsFiniteSet(DOMAIN Owned(m, m.heap[l]))
  BY <1>4, OwnedOne
<1>6. /\ Occurrences(OwnedBy(m2, {l}), x) = Occurrences(Owned(m2, m2.heap[l]), x)
      /\ Occurrences(Owned(m2, m2.heap[l]), x) \in Nat /\ IsFiniteSet(DOMAIN Owned(m2, m2.heap[l]))
  BY <1>4, OwnedOne
<1>. HIDE DEF D
<1>7. Occurrences(OwnedBy(m, D \cup {l}), x)
        = Occurrences(OwnedBy(m, D), x) + Occurrences(OwnedBy(m, {l}), x)
  BY <1>1, OwnedSplit
<1>8. Occurrences(OwnedBy(m2, D \cup {l}), x)
        = Occurrences(OwnedBy(m2, D), x) + Occurrences(OwnedBy(m2, {l}), x)
  BY <1>1, OwnedSplit
<1>9. /\ HeapOcc(m, x) = Occurrences(OwnedBy(m, D), x) + Occurrences(OwnedBy(m, {l}), x)
      /\ HeapOcc(m2, x) = Occurrences(OwnedBy(m2, D), x) + Occurrences(OwnedBy(m2, {l}), x)
  BY <1>1, <1>7, <1>8 DEF HeapOcc
<1>10. HeapOcc(m, x) \in Nat /\ HeapOcc(m2, x) \in Nat /\ Occurrences(OwnedBy(m, D), x) \in Nat
  BY <1>1, OccTypes, OwnedType
<1>. QED BY <1>2, <1>3, <1>5, <1>6, <1>9, <1>10

\* A list with one item more.
LEMMA ItemOcc ==
  ASSUME NEW m, NEW o, NEW p, NEW a, IsSeq(o.items), p.items = Append(o.items, a),
         p.props = o.props, p.closure = o.closure, p.parent = o.parent,
         IsFiniteSet(DOMAIN Owned(m, o)), NEW x
  PROVE  Occurrences(Owned(m, p), x) = Occurrences(Owned(m, o), x) + Ind(a, x)
<1>. DEFINE d == <<"item", Len(o.items) + 1>>
<1>1. /\ DOMAIN o.items = 1 .. Len(o.items) /\ Len(o.items) \in Nat
      /\ DOMAIN p.items = 1 .. Len(o.items) + 1
      /\ p.items[Len(o.items) + 1] = a /\ \A i \in 1 .. Len(o.items) : p.items[i] = o.items[i]
  BY SeqFacts, SeqMore
<1>2. Slots(p) = Slots(o) \cup {d} /\ d \notin Slots(o)
  BY <1>1 DEF Slots
<1>3. \A s \in Slots(o) : At(m, p, s) = At(m, o, s)
  BY <1>1 DEF Slots, At
<1>4. At(m, p, d) = a
  BY <1>1 DEF At
<1>. HIDE DEF d
<1>5. PICK f, g : f = Owned(m, o) /\ g = Owned(m, p)
  OBVIOUS
<1>6. /\ DOMAIN f = Slots(o) /\ DOMAIN g = Slots(p)
      /\ \A s \in Slots(o) : f[s] = At(m, o, s)
      /\ \A s \in Slots(p) : g[s] = At(m, p, s)
  BY <1>5 DEF Owned
<1>7. DOMAIN g = DOMAIN f \cup {d} /\ d \notin DOMAIN f /\ (\A s \in DOMAIN f : g[s] = f[s]) /\ g[d] = a
  BY <1>2, <1>3, <1>4, <1>6
<1>8. Occurrences(g, x) = Occurrences(f, x) + Ind(g[d], x)
  BY <1>5, <1>7, OccMore
<1>. QED BY <1>5, <1>7, <1>8

\* A table with a property set.
LEMMA PropOcc ==
  ASSUME NEW m, NEW o, NEW p, NEW n, NEW a, p.props = Put(o.props, n, a),
         p.items = o.items, p.closure = o.closure, p.parent = o.parent,
         IsFiniteSet(DOMAIN Owned(m, o)), NEW x
  PROVE  /\ n \in DOMAIN o.props =>
              Occurrences(Owned(m, p), x) = Occurrences(Owned(m, o), x) + Ind(a, x) - Ind(o.props[n], x)
         /\ n \notin DOMAIN o.props =>
              Occurrences(Owned(m, p), x) = Occurrences(Owned(m, o), x) + Ind(a, x)
<1>. DEFINE d == <<"prop", n>>
<1>1. /\ DOMAIN p.props = DOMAIN o.props \cup {n} /\ p.props[n] = a
      /\ \A k \in DOMAIN o.props : k # n => p.props[k] = o.props[k]
  BY DEF Put
<1>2. Slots(p) = Slots(o) \cup {d} /\ (d \in Slots(o) <=> n \in DOMAIN o.props)
  BY <1>1 DEF Slots
<1>3. \A s \in Slots(o) : s # d => At(m, p, s) = At(m, o, s)
  BY <1>1 DEF Slots, At
<1>4. At(m, p, d) = a /\ At(m, o, d) = o.props[n]
  BY <1>1 DEF At
<1>. HIDE DEF d
<1>5. PICK f, g : f = Owned(m, o) /\ g = Owned(m, p)
  OBVIOUS
<1>6. /\ DOMAIN f = Slots(o) /\ DOMAIN g = Slots(p)
      /\ \A s \in Slots(o) : f[s] = At(m, o, s)
      /\ \A s \in Slots(p) : g[s] = At(m, p, s)
  BY <1>5 DEF Owned
<1>7. /\ DOMAIN g = DOMAIN f \cup {d} /\ g[d] = a /\ \A s \in DOMAIN f : s # d => g[s] = f[s]
      /\ (d \in DOMAIN f <=> n \in DOMAIN o.props)
      /\ d \in DOMAIN f => f[d] = o.props[n]
  BY <1>2, <1>3, <1>4, <1>6
<1>8. CASE n \in DOMAIN o.props
  <2>1. DOMAIN g = DOMAIN f /\ d \in DOMAIN f
    BY <1>7, <1>8
  <2>2. Occurrences(g, x) = Occurrences(f, x) + Ind(g[d], x) - Ind(f[d], x)
    BY <1>5, <1>7, <2>1, OccExcept
  <2>. QED BY <1>5, <1>7, <1>8, <2>1, <2>2
<1>9. CASE n \notin DOMAIN o.props
  <2>1. d \notin DOMAIN f /\ \A s \in DOMAIN f : g[s] = f[s]
    BY <1>7, <1>9
  <2>2. Occurrences(g, x) = Occurrences(f, x) + Ind(g[d], x)
    BY <1>5, <1>7, <2>1, OccMore
  <2>. QED BY <1>5, <1>7, <1>9, <2>2
<1>. QED BY <1>8, <1>9

\* One object is written: it gets other items or properties.
Written(m, mz, l) ==
  /\ DOMAIN mz = DOMAIN m /\ mz.bindings = m.bindings /\ mz.scopes = m.scopes /\ mz.stray = m.stray
  /\ IsSeq(mz.heap) /\ DOMAIN mz.heap = DOMAIN m.heap /\ Len(mz.heap) = Len(m.heap)
  /\ \A a \in DOMAIN m.heap \ {l} : mz.heap[a] = m.heap[a]
  /\ LET o == m.heap[l]
         p == mz.heap[l] IN
     /\ DOMAIN p = DOMAIN o
     /\ p.type = o.type /\ p.value = o.value /\ p.closure = o.closure /\ p.parent = o.parent
     /\ p.count = o.count /\ p.lost = o.lost
     /\ IsSeq(p.items) /\ \A i \in DOMAIN p.items : p.items[i] \in Addr(m)
     /\ DOMAIN o.items \subseteq DOMAIN p.items /\ \A i \in DOMAIN o.items : p.items[i] = o.items[i]
     /\ l = Nil => p.items = o.items
     /\ Table(p.props, Addr(m))

LEMMA WrittenFacts ==
  ASSUME NEW m, Good(m), NEW l, Alive(m, l), NEW mz, Written(m, mz, l)
  PROVE  /\ Shape(mz) /\ Grows(m, mz) /\ Counted(mz) = Counted(m)
         /\ \A a : Alive(mz, a) <=> Alive(m, a)
         /\ \A x \in Counted(m) :
              Balance(mz, x) = Balance(m, x) + Occurrences(Owned(m, m.heap[l]), x)
                                 - Occurrences(Owned(m, mz.heap[l]), x)
         /\ IsFiniteSet(DOMAIN Owned(m, m.heap[l]))
<1>1. Shape(m) /\ l \in DOMAIN m.heap /\ Nil \in DOMAIN m.heap
  BY Addresses DEF Good, Alive
<1>2. Addr(mz) = Addr(m)
  BY DEF Written, Addr
<1>3. \A a \in DOMAIN m.heap : Count(mz, a) = Count(m, a) /\ Lost(mz, a) = Lost(m, a)
  BY DEF Written, Count, Lost
<1>4. ASSUME NEW a \in DOMAIN m.heap PROVE Sound(mz, mz.heap[a])
  <2>1. CASE a # l
    BY <1>1, <1>2, <2>1 DEF Written, Shape, Sound, Table
  <2>2. CASE a = l
    <3>1. m.heap[l].count # 0
      BY <1>1 DEF Alive, Count, Shape, Sound
    <3>2. Sound(m, m.heap[l])
      BY <1>1 DEF Shape
    <3>3. mz.heap[l].count # 0
      BY <3>1 DEF Written
    <3>. QED BY <1>2, <2>2, <3>2, <3>3 DEF Written, Sound, Table
  <2>. QED BY <2>1, <2>2
<1>5. mz.heap[Nil].count = 1 /\ mz.heap[Nil].type = "list" /\ mz.heap[Nil].items = <<>>
      /\ DOMAIN mz.heap[Nil].closure = {}
  <2>1. m.heap[Nil].count = 1 /\ m.heap[Nil].type = "list" /\ m.heap[Nil].items = <<>>
        /\ DOMAIN m.heap[Nil].closure = {}
    BY <1>1 DEF Shape
  <2>2. CASE l = Nil
    BY <2>1, <2>2 DEF Written
  <2>3. CASE l # Nil
    BY <1>1, <2>1, <2>3 DEF Written
  <2>. QED BY <2>2, <2>3
<1>6. Shape(mz)
  <2>1. /\ DOMAIN mz = {"heap", "bindings", "scopes", "stray"} /\ mz.stray \in BOOLEAN
        /\ IsSeq(mz.heap) /\ Len(mz.heap) >= False
        /\ IsSeq(mz.bindings) /\ IsSeq(mz.scopes)
        /\ \A i \in DOMAIN mz.scopes : Table(mz.scopes[i], DOMAIN mz.bindings)
    BY <1>1 DEF Written, Shape
  <2>2. \A b \in DOMAIN mz.bindings : mz.bindings[b] \in Addr(mz)
    BY <1>1, <1>2 DEF Written, Shape
  <2>3. \A a \in DOMAIN mz.heap : Sound(mz, mz.heap[a])
    BY <1>4 DEF Written
  <2>. QED BY <1>5, <2>1, <2>2, <2>3 DEF Shape
<1>7. Counted(mz) = Counted(m) /\ DOMAIN mz.heap = DOMAIN m.heap
  BY DEF Written, Counted
<1>8. \A a : Alive(mz, a) <=> Alive(m, a)
  BY <1>3, <1>7 DEF Alive
<1>9. Grows(m, mz)
  <2>1. ASSUME NEW a \in DOMAIN m.heap, Alive(mz, a)
        PROVE  /\ mz.heap[a].type = m.heap[a].type /\ mz.heap[a].value = m.heap[a].value
               /\ mz.heap[a].closure = m.heap[a].closure
               /\ DOMAIN m.heap[a].items \subseteq DOMAIN mz.heap[a].items
               /\ \A i \in DOMAIN m.heap[a].items : mz.heap[a].items[i] = m.heap[a].items[i]
    <3>1. CASE a = l
      BY <3>1 DEF Written
    <3>2. CASE a # l
      BY <3>2 DEF Written
    <3>. QED BY <3>1, <3>2
  <2>. QED BY <1>7, <1>8, <2>1 DEF Grows
<1>10. ASSUME NEW x
       PROVE  /\ HeapOcc(mz, x) + Occurrences(Owned(m, m.heap[l]), x)
                   = HeapOcc(m, x) + Occurrences(Owned(m, mz.heap[l]), x)
              /\ Occurrences(Owned(m, m.heap[l]), x) \in Nat /\ IsFiniteSet(DOMAIN Owned(m, m.heap[l]))
              /\ Occurrences(Owned(m, mz.heap[l]), x) \in Nat /\ HeapOcc(mz, x) \in Nat /\ HeapOcc(m, x) \in Nat
  <2>1. \A a \in DOMAIN m.heap \ {l} : SameObj(m.heap[a], mz.heap[a])
    BY DEF Written, SameObj
  <2>2. DOMAIN mz.heap = DOMAIN m.heap /\ mz.bindings = m.bindings
    BY DEF Written
  <2>. QED BY <1>1, <1>6, <2>1, <2>2, ObjOcc
<1>11. ASSUME NEW x \in Counted(m)
       PROVE  Balance(mz, x) = Balance(m, x) + Occurrences(Owned(m, m.heap[l]), x)
                                 - Occurrences(Owned(m, mz.heap[l]), x)
  <2>1. ScopeOcc(mz, x) = ScopeOcc(m, x)
    <3>1. mz.bindings = m.bindings /\ mz.scopes = m.scopes
      BY DEF Written
    <3>. QED BY <3>1, ScopeOccSame
  <2>2. x \in DOMAIN m.heap
    BY DEF Counted
  <2>3. ScopeOcc(m, x) \in Nat /\ Keeps(x) \in Nat /\ Count(m, x) \in Nat /\ Lost(m, x) \in Nat
    BY <1>1, <2>2, BalanceType
  <2>4. Count(mz, x) = Count(m, x) /\ Lost(mz, x) = Lost(m, x)
    BY <1>3, <2>2
  <2>. QED BY <1>10, <2>1, <2>3, <2>4 DEF Balance
<1>. QED BY <1>6, <1>7, <1>8, <1>9, <1>10, <1>11

\* When the balance stays natural, the memory stays good.
LEMMA WrittenGood ==
  ASSUME NEW m, Good(m), NEW mz, Shape(mz), Grows(m, mz), DOMAIN mz.heap = DOMAIN m.heap,
         \A x \in Counted(m) : Balance(mz, x) >= 0
  PROVE  Good(mz)
<1>1. \A a \in DOMAIN mz.heap \ {Nil} : Balance(mz, a) >= 0
  BY DEF Counted
<1>2. \A a \in DOMAIN mz.heap \ DOMAIN m.heap : Kind(mz, mz.heap[a])
  OBVIOUS
<1>. QED BY <1>1, <1>2, GoodNext

LEMMA ListAddStep ==
  ASSUME NEW m, Good(m), NEW l, Alive(m, l), l # Nil, NEW a, a = NULL \/ Alive(m, a)
  PROVE  LET m2 == ListAdd(m, l, a) IN
         /\ Moved(m, m2) /\ m2.bindings = m.bindings /\ Counted(m2) = Counted(m)
         /\ \A x : Alive(m2, x) <=> Alive(m, x)
         /\ \A x \in Counted(m) : Bal(m2, x) = Bal(m, x)
<1>0. PICK m1, mz : m1 = Retain(m, a) /\ mz = ListAdd(m, l, a)
  OBVIOUS
<1>1. /\ Moved(m, m1) /\ Same(m, m1) /\ Counted(m1) = Counted(m)
      /\ \A x : Alive(m1, x) <=> Alive(m, x)
      /\ \A x \in Counted(m) : Bal(m1, x) = Bal(m, x) + Ind(a, x)
  BY <1>0, RetainStep
<1>2. Shape(m) /\ Shape(m1) /\ Good(m1) /\ l \in DOMAIN m.heap /\ DOMAIN m1.heap = DOMAIN m.heap
  <2>1. Shape(m) /\ Shape(m1) /\ Good(m1)
    BY <1>1 DEF Moved, Good
  <2>2. DOMAIN m1.heap = DOMAIN m.heap
    BY <1>1, <2>1, SeqFacts DEF Same, SameNames, Shape
  <2>. QED BY <2>1, <2>2 DEF Alive
<1>4. Alive(m1, l)
  BY <1>1
<1>5. /\ DOMAIN m1 = {"heap", "bindings", "scopes", "stray"} /\ IsSeq(m1.heap)
      /\ DOMAIN m1.heap[l] = Fields /\ IsSeq(m1.heap[l].items) /\ Table(m1.heap[l].props, Addr(m1))
      /\ \A i \in DOMAIN m1.heap[l].items : m1.heap[l].items[i] \in Addr(m1)
      /\ DOMAIN m = {"heap", "bindings", "scopes", "stray"}
  BY <1>2 DEF Shape, Sound
<1>6. PICK h : h = [m.heap EXCEPT ![l].items = Append(m.heap[l].items, a)]
  OBVIOUS
<1>7. /\ DOMAIN h = DOMAIN m.heap
      /\ \A x \in DOMAIN m.heap \ {l} : h[x] = m.heap[x]
      /\ h[l] = [m.heap[l] EXCEPT !.items = Append(m.heap[l].items, a)]
  BY <1>2, <1>6
<1>8. PICK f : f = [x \in DOMAIN m.heap |-> Occurrences(<<a>>, x)]
  OBVIOUS
<1>9. mz.heap = [x \in DOMAIN m.heap |-> IF x = Nil THEN h[x] ELSE [h[x] EXCEPT !.count = h[x].count + f[x]]]
  BY <1>0, <1>5, <1>6, <1>7, <1>8 DEF ListAdd, Retain, RetainAll
<1>10. m1.heap = [x \in DOMAIN m.heap |->
                    IF x = Nil THEN m.heap[x] ELSE [m.heap[x] EXCEPT !.count = m.heap[x].count + f[x]]]
  BY <1>0, <1>5, <1>8 DEF Retain, RetainAll
<1>11. \A x \in DOMAIN m1.heap \ {l} : mz.heap[x] = m1.heap[x]
  BY <1>2, <1>7, <1>9, <1>10
<1>12. mz.heap[l] = [m1.heap[l] EXCEPT !.items = Append(m1.heap[l].items, a)]
  <2>1. PICK o, c, t : o = m.heap[l] /\ c = m.heap[l].count + f[l] /\ t = Append(m.heap[l].items, a)
    OBVIOUS
  <2>2. DOMAIN o = Fields
    BY <1>2, <2>1 DEF Shape, Sound
  <2>3. mz.heap[l] = [[o EXCEPT !.items = t] EXCEPT !.count = c]
    <3>1. h[l] = [o EXCEPT !.items = t]
      BY <1>7, <2>1
    <3>2. h[l].count = o.count
      BY <2>2, <3>1 DEF Fields
    <3>3. mz.heap[l] = [h[l] EXCEPT !.count = h[l].count + f[l]]
      BY <1>2, <1>9
    <3>. QED BY <2>1, <3>1, <3>2, <3>3
  <2>4. m1.heap[l] = [o EXCEPT !.count = c]
    BY <1>2, <1>10, <2>1
  <2>5. m1.heap[l].items = o.items
    BY <2>2, <2>4 DEF Fields
  <2>6. [[o EXCEPT !.items = t] EXCEPT !.count = c] = [[o EXCEPT !.count = c] EXCEPT !.items = t]
    BY <2>2 DEF Fields
  <2>. QED BY <2>1, <2>3, <2>4, <2>5, <2>6
<1>13. /\ DOMAIN mz = DOMAIN m1 /\ mz.bindings = m1.bindings /\ mz.scopes = m1.scopes
       /\ mz.stray = m1.stray
  <2>1. DOMAIN mz = DOMAIN m /\ mz.bindings = m.bindings /\ mz.scopes = m.scopes /\ mz.stray = m.stray
    BY <1>0, <1>5 DEF ListAdd, Retain, RetainAll
  <2>. QED BY <1>1, <2>1 DEF Moved, Same, SameNames
<1>14. Written(m1, mz, l)
  <2>1. DOMAIN m1.heap = 1 .. Len(m1.heap) /\ Len(m1.heap) \in Nat
    BY <1>5, SeqFacts
  <2>2. IsSeq(mz.heap) /\ Len(mz.heap) = Len(m1.heap) /\ DOMAIN mz.heap = DOMAIN m1.heap
    <3>1. mz.heap = [i \in 1 .. Len(m1.heap) |-> mz.heap[i]]
      BY <1>2, <1>9, <2>1
    <3>. QED BY <2>1, <3>1, SeqMade
  <2>3. PICK o, p : o = m1.heap[l] /\ p = mz.heap[l]
    OBVIOUS
  <2>4. DOMAIN o = Fields
    BY <1>5, <2>3
  <2>5. p = [o EXCEPT !.items = Append(o.items, a)]
    BY <1>12, <2>3
  <2>6. /\ DOMAIN p = DOMAIN o
        /\ p.type = o.type /\ p.value = o.value /\ p.closure = o.closure /\ p.parent = o.parent
        /\ p.count = o.count /\ p.lost = o.lost /\ p.props = o.props /\ p.items = Append(o.items, a)
    BY <2>4, <2>5 DEF Fields
  <2>7. PICK s, t : s = o.items /\ t = p.items
    OBVIOUS
  <2>8. /\ IsSeq(t) /\ DOMAIN t = 1 .. Len(s) + 1 /\ DOMAIN s = 1 .. Len(s) /\ Len(s) \in Nat
        /\ t[Len(s) + 1] = a /\ \A i \in 1 .. Len(s) : t[i] = s[i]
    BY <1>5, <2>3, <2>6, <2>7, SeqMore, SeqFacts
  <2>9. a \in Addr(m1)
    BY <1>1, <1>2, Addresses DEF Alive
  <2>10. \A i \in DOMAIN s : s[i] \in Addr(m1)
    BY <1>5, <2>3, <2>7
  <2>11. \A i \in DOMAIN t : i \in DOMAIN s \/ i = Len(s) + 1
    BY <2>8
  <2>12. /\ IsSeq(t) /\ \A i \in DOMAIN t : t[i] \in Addr(m1)
    BY <2>8, <2>9, <2>10, <2>11
  <2>13. DOMAIN s \subseteq DOMAIN t /\ \A i \in DOMAIN s : t[i] = s[i]
    BY <2>8
  <2>14. Table(p.props, Addr(m1))
    BY <1>5, <2>3, <2>6
  <2>. QED BY <1>11, <1>13, <2>2, <2>3, <2>6, <2>7, <2>12, <2>13, <2>14 DEF Written
<1>15. mz.heap[l].items = Append(m1.heap[l].items, a) /\ mz.heap[l].props = m1.heap[l].props
       /\ mz.heap[l].closure = m1.heap[l].closure /\ mz.heap[l].parent = m1.heap[l].parent
       /\ mz.bindings = m1.bindings /\ m1.bindings = m.bindings
  BY <1>1, <1>5, <1>12, <1>13 DEF Fields, Same, SameNames
<1>16. /\ Shape(mz) /\ Grows(m1, mz) /\ Counted(mz) = Counted(m1)
       /\ \A x : Alive(mz, x) <=> Alive(m1, x)
       /\ \A x \in Counted(m1) :
              Balance(mz, x) = Balance(m1, x) + Occurrences(Owned(m1, m1.heap[l]), x)
                                 - Occurrences(Owned(m1, mz.heap[l]), x)
       /\ IsFiniteSet(DOMAIN Owned(m1, m1.heap[l]))
  BY <1>2, <1>4, <1>14, WrittenFacts
<1>17. IsFiniteSet(DOMAIN Owned(m1, m1.heap[l]))
  BY <1>16
<1>18. ASSUME NEW x \in Counted(m) PROVE Balance(mz, x) = Balance(m, x) /\ Balance(m, x) >= 0 /\ Balance(m, x) \in Int
  <2>1. x \in DOMAIN m.heap /\ x \in Counted(m1) /\ x \in DOMAIN m1.heap
    BY <1>1, <1>2 DEF Counted
  <2>2. Balance(m1, x) = Balance(m, x) + Ind(a, x)
    BY <1>1, <2>1 DEF Bal
  <2>3. Occurrences(Owned(m1, mz.heap[l]), x) = Occurrences(Owned(m1, m1.heap[l]), x) + Ind(a, x)
    BY <1>5, <1>15, <1>17, ItemOcc
  <2>4. Occurrences(Owned(m1, m1.heap[l]), x) \in Nat /\ Ind(a, x) \in Nat
    BY <1>17, OccType DEF Ind
  <2>5. Balance(mz, x) = Balance(m1, x) + Occurrences(Owned(m1, m1.heap[l]), x)
                                 - Occurrences(Owned(m1, mz.heap[l]), x)
    BY <1>16, <2>1
  <2>6. Balance(m, x) \in Int /\ Balance(m, x) >= 0
    <3>1. Balance(m, x) >= 0
      BY <2>1 DEF Good, Counted
    <3>. QED BY <1>2, <2>1, <3>1, BalanceType
  <2>. QED BY <2>2, <2>3, <2>4, <2>5, <2>6
<1>19. Good(mz)
  <2>1. DOMAIN mz.heap = DOMAIN m1.heap
    BY <1>14 DEF Written
  <2>2. \A x \in Counted(m1) : Balance(mz, x) >= 0
    BY <1>1, <1>18
  <2>. QED BY <1>2, <1>16, <2>1, <2>2, WrittenGood
<1>20. Moved(m, mz)
  <2>1. Moved(m1, mz)
    BY <1>14, <1>16, <1>19 DEF Moved, Written
  <2>. QED BY <1>1, <2>1, MovedMore
<1>21. Counted(mz) = Counted(m) /\ \A x : Alive(mz, x) <=> Alive(m, x)
  BY <1>1, <1>16
<1>22. \A x \in Counted(m) : Bal(mz, x) = Bal(m, x)
  BY <1>18, <1>21 DEF Bal
<1>. QED BY <1>0, <1>15, <1>20, <1>21, <1>22

\* What is freed depends only on the counts, and on what it owns.
LEMMA DeadSame ==
  ASSUME NEW m, Shape(m), NEW m2, Shape(m2), NEW refs, IsFiniteSet(DOMAIN refs),
         DOMAIN m2.heap = DOMAIN m.heap, \A x \in DOMAIN m.heap : Count(m2, x) = Count(m, x),
         \A d \in Dead(m, refs) :
           /\ Slots(m2.heap[d]) = Slots(m.heap[d])
           /\ \A s \in Slots(m.heap[d]) : At(m2, m2.heap[d], s) = At(m, m.heap[d], s)
  PROVE  /\ Dead(m2, refs) = Dead(m, refs)
         /\ \A x : Drops(m2, refs, Dead(m, refs), x) = Drops(m, refs, Dead(m, refs), x)
<1>1. PICK D, E : D = Dead(m, refs) /\ E = Dead(m2, refs)
  OBVIOUS
<1>2. /\ D \in SUBSET (DOMAIN m.heap \ {Nil}) /\ Freed(m, refs, D) = D
      /\ \A Z \in SUBSET DOMAIN m.heap : Freed(m, refs, Z) \subseteq Z => D \subseteq Z
  BY <1>1, DeadFacts
<1>3. /\ E \in SUBSET (DOMAIN m2.heap \ {Nil}) /\ Freed(m2, refs, E) = E
      /\ \A Z \in SUBSET DOMAIN m2.heap : Freed(m2, refs, Z) \subseteq Z => E \subseteq Z
  BY <1>1, DeadFacts
<1>4. ASSUME NEW X \in SUBSET D, NEW x PROVE Drops(m2, refs, X, x) = Drops(m, refs, X, x)
  <2>1. PICK f, g : f = OwnedBy(m, X) /\ g = OwnedBy(m2, X)
    OBVIOUS
  <2>2. /\ \A p : p \in DOMAIN f <=> \E a \in X : \E s \in Slots(m.heap[a]) : p = <<a, s>>
        /\ \A a \in X : \A s \in Slots(m.heap[a]) : f[<<a, s>>] = At(m, m.heap[a], s)
    BY <2>1, OwnedFacts
  <2>3. /\ \A p : p \in DOMAIN g <=> \E a \in X : \E s \in Slots(m2.heap[a]) : p = <<a, s>>
        /\ \A a \in X : \A s \in Slots(m2.heap[a]) : g[<<a, s>>] = At(m2, m2.heap[a], s)
    BY <2>1, OwnedFacts
  <2>4. \A a \in X : /\ Slots(m2.heap[a]) = Slots(m.heap[a])
                     /\ \A s \in Slots(m.heap[a]) : At(m2, m2.heap[a], s) = At(m, m.heap[a], s)
    BY <1>1
  <2>5. \A p : p \in DOMAIN f <=> p \in DOMAIN g
    BY <2>2, <2>3, <2>4
  <2>6. \A p \in DOMAIN f : f[p] = g[p]
    <3>1. ASSUME NEW p \in DOMAIN f PROVE f[p] = g[p]
      <4>1. PICK a \in X : \E s \in Slots(m.heap[a]) : p = <<a, s>>
        BY <2>2
      <4>2. PICK s \in Slots(m.heap[a]) : p = <<a, s>>
        BY <4>1
      <4>. QED BY <2>2, <2>3, <2>4, <4>2
    <3>. QED BY <3>1
  <2>7. Occurrences(f, x) = Occurrences(g, x)
    BY <2>5, <2>6, OccSame
  <2>. QED BY <2>1, <2>7 DEF Drops
<1>5. ASSUME NEW X \in SUBSET D PROVE Freed(m2, refs, X) = Freed(m, refs, X)
  BY <1>4 DEF Freed, Count
<1>6. E \subseteq D
  <2>1. Freed(m2, refs, D) \subseteq D /\ D \in SUBSET DOMAIN m2.heap
    BY <1>2, <1>5
  <2>. QED BY <1>3, <2>1
<1>7. D \subseteq E
  <2>1. Freed(m, refs, E) \subseteq E /\ E \in SUBSET DOMAIN m.heap
    BY <1>3, <1>5, <1>6
  <2>. QED BY <1>2, <2>1
<1>. QED BY <1>1, <1>4, <1>6, <1>7

\* The same objects are freed whatever the scopes are.
LEMMA ReleaseSame ==
  ASSUME NEW m, Shape(m), NEW m2, Shape(m2), NEW refs, IsFiniteSet(DOMAIN refs), m2.heap = m.heap,
         \A d \in Dead(m, refs) : \A s \in Slots(m.heap[d]) : At(m2, m.heap[d], s) = At(m, m.heap[d], s)
  PROVE  Dead(m2, refs) = Dead(m, refs) /\ ReleaseAll(m2, refs).heap = ReleaseAll(m, refs).heap
<1>1. /\ Dead(m2, refs) = Dead(m, refs)
      /\ \A x : Drops(m2, refs, Dead(m, refs), x) = Drops(m, refs, Dead(m, refs), x)
  BY DeadSame DEF Count
<1>2. PICK D, h : D = Dead(m, refs) /\ h = m.heap
  OBVIOUS
<1>3. \A x : Drops(m2, refs, D, x) = Drops(m, refs, D, x)
  BY <1>1, <1>2
<1>4. PICK f : f = [x \in DOMAIN h |-> Drops(m, refs, D, x)]
  OBVIOUS
<1>5. DOMAIN m = {"heap", "bindings", "scopes", "stray"} /\ DOMAIN m2 = {"heap", "bindings", "scopes", "stray"}
  BY DEF Shape
<1>6. ReleaseAll(m, refs).heap = [x \in DOMAIN h |-> IF x = Nil THEN h[x] ELSE IF x \in D THEN Gone
                                                     ELSE [h[x] EXCEPT !.count = h[x].count - f[x]]]
  BY <1>2, <1>4, <1>5 DEF ReleaseAll, Without
<1>7. ReleaseAll(m2, refs).heap = [x \in DOMAIN h |-> IF x = Nil THEN h[x] ELSE IF x \in D THEN Gone
                                                     ELSE [h[x] EXCEPT !.count = h[x].count - f[x]]]
  <2>1. Dead(m2, refs) = D /\ m2.heap = h
    BY <1>1, <1>2
  <2>2. ReleaseAll(m2, refs).heap =
          [x \in DOMAIN h |-> IF x = Nil THEN h[x] ELSE IF x \in D THEN Gone
                              ELSE [h[x] EXCEPT !.count = h[x].count - Drops(m2, refs, D, x)]]
    BY <1>5, <2>1 DEF ReleaseAll, Without
  <2>. QED BY <1>3, <1>4, <2>2
<1>. QED BY <1>1, <1>6, <1>7

\* Memories with the same parts are the same.
LEMMA MemEq ==
  ASSUME NEW m, NEW m2, m = [k \in DOMAIN m |-> m[k]], m2 = [k \in DOMAIN m2 |-> m2[k]],
         DOMAIN m = {"heap", "bindings", "scopes", "stray"}, DOMAIN m2 = DOMAIN m,
         m.heap = m2.heap, m.bindings = m2.bindings, m.scopes = m2.scopes, m.stray = m2.stray
  PROVE  m = m2
<1>1. \A k \in DOMAIN m : m[k] = m2[k]
  OBVIOUS
<1>2. m = [k \in DOMAIN m |-> m2[k]]
  BY <1>1
<1>. QED BY <1>2

\* A property is set: its old value is released.
PropsSet(m, m2, a, n, v) ==
  /\ Alive(m2, a)
  /\ \A x \in DOMAIN m.heap : Alive(m2, x) =>
       m2.heap[x].props = IF x = a THEN Put(m.heap[a].props, n, v) ELSE m.heap[x].props

LEMMA SetPropStep ==
  ASSUME NEW m, Good(m), NEW a, Alive(m, a), a = Nil \/ Bal(m, a) # 0,
         NEW n, NEW v, v = NULL \/ Alive(m, v)
  PROVE  LET m2 == SetProp(m, a, n, v) IN
         /\ Moved(m, m2) /\ m2.bindings = m.bindings /\ Counted(m2) = Counted(m)
         /\ \A x \in Counted(m) : Bal(m2, x) = Bal(m, x)
         /\ PropsSet(m, m2, a, n, v)
<1>0. PICK m1, mz : m1 = Retain(m, v) /\ mz = [m1 EXCEPT !.heap[a].props = Put(m1.heap[a].props, n, v)]
  OBVIOUS
<1>1. /\ Moved(m, m1) /\ Same(m, m1) /\ Counted(m1) = Counted(m)
      /\ \A x : Alive(m1, x) <=> Alive(m, x)
      /\ \A x \in Counted(m) : Bal(m1, x) = Bal(m, x) + Ind(v, x)
  BY <1>0, RetainStep
<1>2. Shape(m) /\ Shape(m1) /\ Good(m1) /\ a \in DOMAIN m.heap /\ DOMAIN m1.heap = DOMAIN m.heap
  <2>1. Shape(m) /\ Shape(m1) /\ Good(m1)
    BY <1>1 DEF Moved, Good
  <2>2. DOMAIN m1.heap = DOMAIN m.heap
    BY <1>1, <2>1, SeqFacts DEF Same, SameNames, Shape
  <2>. QED BY <2>1, <2>2 DEF Alive
<1>3. Alive(m1, a)
  BY <1>1
<1>4. /\ DOMAIN m1 = {"heap", "bindings", "scopes", "stray"} /\ IsSeq(m1.heap)
      /\ DOMAIN m1.heap[a] = Fields /\ IsSeq(m1.heap[a].items) /\ Table(m1.heap[a].props, Addr(m1))
      /\ \A i \in DOMAIN m1.heap[a].items : m1.heap[a].items[i] \in Addr(m1)
  BY <1>2 DEF Shape, Sound
<1>5. PICK t : t = Put(m1.heap[a].props, n, v)
  OBVIOUS
<1>6. /\ mz.heap = [m1.heap EXCEPT ![a].props = t]
      /\ DOMAIN mz = DOMAIN m1 /\ mz.bindings = m1.bindings /\ mz.scopes = m1.scopes
      /\ mz.stray = m1.stray /\ mz = [k \in DOMAIN mz |-> mz[k]]
  BY <1>0, <1>4, <1>5
<1>7. mz.heap[a] = [m1.heap[a] EXCEPT !.props = t] /\ \A x \in DOMAIN m1.heap \ {a} : mz.heap[x] = m1.heap[x]
  BY <1>2, <1>6
<1>8. Written(m1, mz, a)
  <2>1. DOMAIN m1.heap = 1 .. Len(m1.heap) /\ Len(m1.heap) \in Nat
    BY <1>4, SeqFacts
  <2>2. IsSeq(mz.heap) /\ Len(mz.heap) = Len(m1.heap) /\ DOMAIN mz.heap = DOMAIN m1.heap
    <3>1. mz.heap = [i \in 1 .. Len(m1.heap) |-> mz.heap[i]]
      BY <1>2, <1>6, <2>1
    <3>. QED BY <2>1, <3>1, SeqMade
  <2>3. PICK o, p : o = m1.heap[a] /\ p = mz.heap[a]
    OBVIOUS
  <2>4. DOMAIN o = Fields
    BY <1>4, <2>3
  <2>5. p = [o EXCEPT !.props = t]
    BY <1>7, <2>3
  <2>6. /\ DOMAIN p = DOMAIN o
        /\ p.type = o.type /\ p.value = o.value /\ p.closure = o.closure /\ p.parent = o.parent
        /\ p.count = o.count /\ p.lost = o.lost /\ p.props = t /\ p.items = o.items
    BY <2>4, <2>5 DEF Fields
  <2>7. v \in Addr(m1)
    BY <1>1, <1>2, Addresses DEF Alive
  <2>8. Table(t, Addr(m1))
    <3>1. Table(o.props, Addr(m1)) /\ t = Put(o.props, n, v)
      BY <1>4, <1>5, <2>3
    <3>2. DOMAIN t = DOMAIN o.props \cup {n} /\ \A k \in DOMAIN t : t[k] \in Addr(m1)
      BY <2>7, <3>1 DEF Put, Table
    <3>. QED BY <3>1, <3>2, FS_AddElement DEF Table
  <2>9. IsSeq(o.items) /\ \A i \in DOMAIN o.items : o.items[i] \in Addr(m1)
    BY <1>4, <2>3
  <2>. QED BY <1>6, <1>7, <2>2, <2>3, <2>6, <2>8, <2>9 DEF Written
<1>9. /\ Shape(mz) /\ Grows(m1, mz) /\ Counted(mz) = Counted(m1)
      /\ \A x : Alive(mz, x) <=> Alive(m1, x)
      /\ \A x \in Counted(m1) :
              Balance(mz, x) = Balance(m1, x) + Occurrences(Owned(m1, m1.heap[a]), x)
                                 - Occurrences(Owned(m1, mz.heap[a]), x)
      /\ IsFiniteSet(DOMAIN Owned(m1, m1.heap[a]))
  BY <1>2, <1>3, <1>8, WrittenFacts
<1>10. IsFiniteSet(DOMAIN Owned(m1, m1.heap[a]))
  BY <1>9
<1>11. mz.heap[a].props = Put(m1.heap[a].props, n, v) /\ mz.heap[a].items = m1.heap[a].items
       /\ mz.heap[a].closure = m1.heap[a].closure /\ mz.heap[a].parent = m1.heap[a].parent
  BY <1>4, <1>5, <1>7 DEF Fields
<1>12. ASSUME NEW x
       PROVE  /\ n \in DOMAIN m1.heap[a].props =>
                   Occurrences(Owned(m1, mz.heap[a]), x) = Occurrences(Owned(m1, m1.heap[a]), x) + Ind(v, x)
                                                             - Ind(m1.heap[a].props[n], x)
              /\ n \notin DOMAIN m1.heap[a].props =>
                   Occurrences(Owned(m1, mz.heap[a]), x) = Occurrences(Owned(m1, m1.heap[a]), x) + Ind(v, x)
  <2>1. PICK o, p : o = m1.heap[a] /\ p = mz.heap[a]
    OBVIOUS
  <2>2. p.props = Put(o.props, n, v)
    BY <1>11, <2>1
  <2>3. p.items = o.items /\ p.closure = o.closure /\ p.parent = o.parent
    BY <1>11, <2>1
  <2>4. IsFiniteSet(DOMAIN Owned(m1, o))
    BY <1>10, <2>1
  <2>5. /\ n \in DOMAIN o.props =>
             Occurrences(Owned(m1, p), x) = Occurrences(Owned(m1, o), x) + Ind(v, x) - Ind(o.props[n], x)
        /\ n \notin DOMAIN o.props =>
             Occurrences(Owned(m1, p), x) = Occurrences(Owned(m1, o), x) + Ind(v, x)
    BY <2>2, <2>3, <2>4, PropOcc
  <2>. QED BY <2>1, <2>5
<1>13. ASSUME NEW x \in Counted(m)
       PROVE  /\ n \in DOMAIN m1.heap[a].props => Balance(mz, x) = Bal(m, x) + Ind(m1.heap[a].props[n], x)
              /\ n \notin DOMAIN m1.heap[a].props => Balance(mz, x) = Bal(m, x)
              /\ Balance(mz, x) >= 0 /\ Bal(m, x) \in Nat
  <2>1. x \in DOMAIN m.heap /\ x \in Counted(m1) /\ x \in DOMAIN m1.heap
    BY <1>1, <1>2 DEF Counted
  <2>2. Balance(m1, x) = Bal(m, x) + Ind(v, x)
    BY <1>1, <2>1 DEF Bal
  <2>4. Occurrences(Owned(m1, m1.heap[a]), x) \in Nat /\ Ind(v, x) \in Nat /\ Ind(m1.heap[a].props[n], x) \in Nat
    BY <1>10, OccType DEF Ind
  <2>5. Balance(mz, x) = Balance(m1, x) + Occurrences(Owned(m1, m1.heap[a]), x)
                                 - Occurrences(Owned(m1, mz.heap[a]), x)
    BY <1>9, <2>1
  <2>6. Bal(m, x) \in Nat
    BY BalType
  <2>. QED BY <1>12, <2>2, <2>4, <2>5, <2>6
<1>14. Good(mz)
  <2>1. DOMAIN mz.heap = DOMAIN m1.heap
    BY <1>8 DEF Written
  <2>2. \A x \in Counted(m1) : Balance(mz, x) >= 0
    BY <1>1, <1>13
  <2>. QED BY <1>2, <1>9, <2>1, <2>2, WrittenGood
<1>15. Moved(m, mz) /\ Counted(mz) = Counted(m) /\ Alive(mz, a) /\ mz.bindings = m.bindings
  <2>1. Moved(m1, mz)
    BY <1>8, <1>9, <1>14 DEF Moved, Written
  <2>2. mz.bindings = m.bindings
    BY <1>1, <1>6 DEF Same, SameNames
  <2>. QED BY <1>1, <1>3, <1>9, <2>1, <2>2, MovedMore
<1>16. \A x \in DOMAIN m.heap : Alive(mz, x) =>
         mz.heap[x].props = IF x = a THEN Put(m.heap[a].props, n, v) ELSE m.heap[x].props
  <2>1. \A x \in DOMAIN m.heap : Alive(m1, x) => m1.heap[x].props = m.heap[x].props
    BY <1>1 DEF Same, SameObj
  <2>. QED BY <1>2, <1>3, <1>7, <1>9, <1>11, <2>1
<1>17. m.heap[a].props = m1.heap[a].props
  BY <1>1, <1>3 DEF Same, SameObj
<1>18. CASE n \notin DOMAIN m1.heap[a].props
  <2>1. SetProp(m, a, n, v) = mz
    BY <1>0, <1>18 DEF SetProp, DropProp
  <2>2. \A x \in Counted(m) : Bal(mz, x) = Bal(m, x)
    BY <1>13, <1>15, <1>18 DEF Bal
  <2>. QED BY <1>15, <1>16, <2>1, <2>2 DEF PropsSet
<1>19. CASE n \in DOMAIN m1.heap[a].props
  <2>0. PICK old, mw, mr, ms : /\ old = m1.heap[a].props[n] /\ mw = Release(m1, old) /\ mr = Release(mz, old)
                               /\ ms = SetProp(m, a, n, v)
    OBVIOUS
  <2>1. \A x \in Counted(mz) : Bal(mz, x) = Bal(m, x) + Ind(old, x)
    BY <1>13, <1>15, <1>19, <2>0 DEF Bal
  <2>2. \A x \in Counted(mz) : Bal(mz, x) >= Ind(old, x)
    BY <2>1, BalType DEF Ind
  <2>3. /\ Moved(mz, mr) /\ Same(mz, mr) /\ Counted(mr) = Counted(mz)
        /\ \A x : Alive(mr, x) <=> Alive(mz, x) /\ x \notin Dead(mz, <<old>>)
        /\ \A x \in Counted(mz) : Bal(mr, x) = Bal(mz, x) - Ind(old, x)
    BY <1>14, <2>0, <2>2, ReleaseStep
  <2>4. \A x \in Counted(m) : Bal(mr, x) = Bal(m, x)
    <3>1. ASSUME NEW x \in Counted(m) PROVE Bal(mr, x) = Bal(m, x)
      <4>1. Bal(mr, x) = Bal(mz, x) - Ind(old, x) /\ Bal(mz, x) = Bal(m, x) + Ind(old, x)
        BY <1>15, <2>1, <2>3
      <4>. QED BY <1>13, <4>1 DEF Ind
    <3>. QED BY <3>1
  <2>5. Moved(m, mr)
    BY <1>15, <2>3, MovedMore
  <2>6. Alive(mr, a)
    <3>1. CASE a = Nil
      BY <2>5, <3>1, NilAlive DEF Moved
    <3>2. CASE a # Nil
      <4>1. a \in Counted(m)
        BY <1>2, <3>2 DEF Counted
      <4>2. Bal(mr, a) # 0
        BY <2>4, <3>2, <4>1
      <4>. QED BY <2>5, <4>2, BalAlive DEF Moved
    <3>. QED BY <3>1, <3>2
  <2>7. PICK D : D = Dead(mz, <<old>>)
    OBVIOUS
  <2>8. a \notin D
    BY <2>3, <2>6, <2>7
  <2>9. IsFiniteSet(DOMAIN <<old>>)
    BY OccOne
  <2>10. D \subseteq DOMAIN mz.heap
    BY <1>9, <2>7, <2>9, DeadFacts
  <2>11. /\ DOMAIN m1.heap = DOMAIN mz.heap
         /\ \A x \in DOMAIN mz.heap : Count(m1, x) = Count(mz, x)
         /\ \A d \in D : /\ Slots(m1.heap[d]) = Slots(mz.heap[d])
                         /\ \A s \in Slots(mz.heap[d]) : At(m1, m1.heap[d], s) = At(mz, mz.heap[d], s)
    <3>1. DOMAIN m1.heap = DOMAIN mz.heap
      BY <1>8 DEF Written
    <3>2. \A x \in DOMAIN mz.heap : Count(m1, x) = Count(mz, x)
      BY <3>1, <1>8 DEF Written, Count
    <3>3. \A d \in D : m1.heap[d] = mz.heap[d]
      BY <1>7, <2>8, <2>10, <3>1
    <3>4. m1.bindings = mz.bindings
      BY <1>6
    <3>. QED BY <3>1, <3>2, <3>3, <3>4 DEF At
  <2>12. Dead(m1, <<old>>) = D /\ \A x : Drops(m1, <<old>>, D, x) = Drops(mz, <<old>>, D, x)
    BY <1>2, <1>9, <2>7, <2>9, <2>11, DeadSame
  <2>13. PICK f, h, g : /\ f = [x \in DOMAIN m1.heap |-> Drops(mz, <<old>>, D, x)]
                        /\ h = m1.heap /\ g = mz.heap
    OBVIOUS
  <2>14. mw.heap = [x \in DOMAIN h |-> IF x = Nil THEN h[x] ELSE IF x \in D THEN Gone
                                       ELSE [h[x] EXCEPT !.count = h[x].count - f[x]]]
    <3>1. mw.heap = [x \in DOMAIN h |-> IF x = Nil THEN h[x] ELSE IF x \in D THEN Gone
                                       ELSE [h[x] EXCEPT !.count = h[x].count - Drops(m1, <<old>>, D, x)]]
      BY <1>4, <2>0, <2>12, <2>13 DEF Release, ReleaseAll, Without
    <3>. QED BY <2>12, <2>13, <3>1
  <2>15. mr.heap = [x \in DOMAIN h |-> IF x = Nil THEN g[x] ELSE IF x \in D THEN Gone
                                       ELSE [g[x] EXCEPT !.count = g[x].count - f[x]]]
    BY <1>4, <1>6, <2>0, <2>7, <2>11, <2>13 DEF Release, ReleaseAll, Without
  <2>16. DOMAIN mw = DOMAIN m1 /\ mw.bindings = m1.bindings /\ mw.scopes = m1.scopes /\ mw.stray = m1.stray
    BY <1>4, <2>0 DEF Release, ReleaseAll, Without
  <2>17. /\ DOMAIN mr = DOMAIN mz /\ mr.bindings = mz.bindings /\ mr.scopes = mz.scopes /\ mr.stray = mz.stray
         /\ mr = [k \in DOMAIN mr |-> mr[k]]
    BY <1>4, <1>6, <2>0 DEF Release, ReleaseAll, Without
  <2>18. mw.heap[a].props = h[a].props /\ a \in DOMAIN h /\ a \in DOMAIN mw.heap /\ DOMAIN h[a] = Fields
    BY <1>2, <1>4, <2>8, <2>13, <2>14 DEF Fields
  <2>19. ms = [mw EXCEPT !.heap[a].props = Put(mw.heap[a].props, n, v)]
    BY <1>0, <1>19, <2>0 DEF SetProp, DropProp
  <2>20. /\ ms.heap = [mw.heap EXCEPT ![a].props = t] /\ DOMAIN ms = DOMAIN mw /\ ms.bindings = mw.bindings
         /\ ms.scopes = mw.scopes /\ ms.stray = mw.stray /\ ms = [k \in DOMAIN ms |-> ms[k]]
    BY <1>4, <1>5, <2>13, <2>16, <2>18, <2>19
  <2>21. ms.heap = mr.heap
    <3>1. ms.heap = [x \in DOMAIN h |-> ms.heap[x]] /\ mr.heap = [x \in DOMAIN h |-> mr.heap[x]]
      BY <2>14, <2>15, <2>20
    <3>2. ASSUME NEW x \in DOMAIN h PROVE ms.heap[x] = mr.heap[x]
      <4>1. CASE x # a
        <5>1. ms.heap[x] = mw.heap[x] /\ g[x] = h[x]
          BY <1>7, <2>13, <2>14, <2>20, <4>1
        <5>. QED BY <2>14, <2>15, <5>1
      <4>2. CASE x = a
        <5>1. ms.heap[a] = [mw.heap[a] EXCEPT !.props = t] /\ g[a] = [h[a] EXCEPT !.props = t]
          BY <1>7, <2>13, <2>18, <2>20
        <5>2. CASE a = Nil
          BY <2>14, <2>15, <2>18, <4>2, <5>1, <5>2
        <5>3. CASE a # Nil
          <6>1. PICK o, c : o = h[a] /\ c = h[a].count - f[a]
            OBVIOUS
          <6>2. mw.heap[a] = [o EXCEPT !.count = c]
            BY <2>8, <2>14, <2>18, <5>3, <6>1
          <6>3. g[a].count = o.count
            BY <2>18, <5>1, <6>1 DEF Fields
          <6>4. mr.heap[a] = [g[a] EXCEPT !.count = g[a].count - f[a]]
            BY <2>8, <2>15, <2>18, <5>3
          <6>5. mr.heap[a] = [[o EXCEPT !.props = t] EXCEPT !.count = c]
            BY <5>1, <6>1, <6>3, <6>4
          <6>6. ms.heap[a] = [[o EXCEPT !.count = c] EXCEPT !.props = t]
            BY <5>1, <6>2
          <6>7. [[o EXCEPT !.props = t] EXCEPT !.count = c] = [[o EXCEPT !.count = c] EXCEPT !.props = t]
            BY <2>18, <6>1 DEF Fields
          <6>. QED BY <4>2, <6>5, <6>6, <6>7
        <5>. QED BY <5>2, <5>3
      <4>. QED BY <4>1, <4>2
    <3>. QED BY <3>1, <3>2
  <2>22. ms = mr
    BY <1>4, <1>6, <2>16, <2>17, <2>20, <2>21, MemEq
  <2>23. PropsSet(m, mr, a, n, v)
    <3>1. \A x : Alive(mr, x) => Alive(mz, x) /\ mr.heap[x].props = mz.heap[x].props
      BY <2>3 DEF Same, SameObj
    <3>. QED BY <1>16, <2>6, <3>1 DEF PropsSet
  <2>24. mr.bindings = m.bindings /\ Counted(mr) = Counted(m)
    BY <1>15, <2>3, <2>17
  <2>. QED BY <2>0, <2>4, <2>5, <2>22, <2>23, <2>24
<1>. QED BY <1>18, <1>19

\* Properties of a have been set, one after the other.
Along(m, m2, a, ns, vs) ==
  /\ Moved(m, m2) /\ m2.bindings = m.bindings /\ Counted(m2) = Counted(m) /\ Alive(m2, a)
  /\ \A x \in Counted(m) : Bal(m2, x) = Bal(m, x)
  /\ \A x \in DOMAIN m.heap : Alive(m2, x) /\ x # a => m2.heap[x].props = m.heap[x].props
  /\ \A k \in DOMAIN m.heap[a].props :
       /\ k \in DOMAIN m2.heap[a].props
       /\ \/ m2.heap[a].props[k] = m.heap[a].props[k]
          \/ \E i \in 1 .. Len(ns) : ns[i] = k /\ m2.heap[a].props[k] = vs[i]

\* The memories on the way.
SetsProps(m, a, ns, vs, k, w) ==
  w = [i \in 0 .. k |-> IF i = 0 THEN m ELSE SetProp(w[i - 1], a, ns[i], vs[i])]

LEMMA SetPropsExist ==
  ASSUME NEW m, NEW a, NEW ns, NEW vs, NEW n \in Nat
  PROVE  \E w : SetsProps(m, a, ns, vs, n, w)
<1>. DEFINE S == {k \in Nat : \E w : SetsProps(m, a, ns, vs, k, w)}
<1>1. 0 \in S
  <2>1. PICK w : w = [i \in 0 .. 0 |-> m]
    OBVIOUS
  <2>2. \A i \in 0 .. 0 : i = 0
    OBVIOUS
  <2>3. w = [i \in 0 .. 0 |-> IF i = 0 THEN m ELSE SetProp(w[i - 1], a, ns[i], vs[i])]
    BY <2>1, <2>2
  <2>. QED BY <2>3 DEF SetsProps
<1>2. ASSUME NEW k \in Nat, k \in S PROVE k + 1 \in S
  <2>1. PICK w : SetsProps(m, a, ns, vs, k, w)
    BY <1>2
  <2>2. PICK u : u = [i \in 0 .. k + 1 |-> IF i <= k THEN w[i] ELSE SetProp(w[k], a, ns[k + 1], vs[k + 1])]
    OBVIOUS
  <2>3. w = [i \in 0 .. k |-> IF i = 0 THEN m ELSE SetProp(w[i - 1], a, ns[i], vs[i])]
    BY <2>1 DEF SetsProps
  <2>4. ASSUME NEW i \in 0 .. k + 1
        PROVE  u[i] = IF i = 0 THEN m ELSE SetProp(u[i - 1], a, ns[i], vs[i])
    <3>1. CASE i = 0
      <4>1. u[0] = w[0] /\ w[0] = m
        BY <2>2, <2>3
      <4>. QED BY <3>1, <4>1
    <3>2. CASE i \in 1 .. k
      <4>1. u[i] = w[i] /\ u[i - 1] = w[i - 1] /\ i \in 0 .. k /\ i # 0
        BY <2>2, <3>2
      <4>. QED BY <2>3, <4>1
    <3>3. CASE i = k + 1
      <4>1. u[k + 1] = SetProp(w[k], a, ns[k + 1], vs[k + 1]) /\ u[k] = w[k] /\ (k + 1) - 1 = k /\ k + 1 # 0
        BY <2>2
      <4>. QED BY <3>3, <4>1
    <3>. QED BY <3>1, <3>2, <3>3
  <2>5. u = [i \in 0 .. k + 1 |-> IF i = 0 THEN m ELSE SetProp(u[i - 1], a, ns[i], vs[i])]
    BY <2>2, <2>4
  <2>. QED BY <2>5 DEF SetsProps
<1>. HIDE DEF S
<1>3. Nat \subseteq S
  BY <1>1, <1>2, SetInduction
<1>. QED BY <1>3 DEF S

LEMMA SetPropsStep ==
  ASSUME NEW m, Good(m), NEW a, Alive(m, a), a = Nil \/ Bal(m, a) # 0,
         NEW ns, NEW vs, Len(ns) \in Nat,
         \A m2, k : Along(m, m2, a, ns, vs) /\ k \in 1 .. Len(ns) => vs[k] = NULL \/ Alive(m2, vs[k])
  PROVE  Along(m, SetProps(m, a, ns, vs), a, ns, vs)
<1>. DEFINE w == CHOOSE f : f = [i \in 0 .. Len(ns) |-> IF i = 0 THEN m ELSE SetProp(f[i - 1], a, ns[i], vs[i])]
<1>1. SetProps(m, a, ns, vs) = w[Len(ns)]
  BY DEF SetProps
<1>2. w = [i \in 0 .. Len(ns) |-> IF i = 0 THEN m ELSE SetProp(w[i - 1], a, ns[i], vs[i])]
  BY SetPropsExist DEF SetsProps
<1>. HIDE DEF w
<1>. DEFINE S == {k \in Nat : k <= Len(ns) => Along(m, w[k], a, ns, vs)}
<1>3. 0 \in S
  <2>1. w[0] = m
    BY <1>2
  <2>2. Along(m, m, a, ns, vs)
    BY MovedSelf DEF Along
  <2>. QED BY <2>1, <2>2
<1>4. ASSUME NEW k \in Nat, k \in S PROVE k + 1 \in S
  <2>1. SUFFICES ASSUME k + 1 <= Len(ns) PROVE Along(m, w[k + 1], a, ns, vs)
    OBVIOUS
  <2>2. PICK m1, m2 : m1 = w[k] /\ m2 = w[k + 1]
    OBVIOUS
  <2>3. Along(m, m1, a, ns, vs)
    BY <1>4, <2>1, <2>2
  <2>4. m2 = SetProp(m1, a, ns[k + 1], vs[k + 1])
    <3>1. k + 1 \in 0 .. Len(ns) /\ k + 1 # 0 /\ (k + 1) - 1 = k
      BY <2>1
    <3>. QED BY <1>2, <2>2, <3>1
  <2>5. PICK n, v : n = ns[k + 1] /\ v = vs[k + 1]
    OBVIOUS
  <2>6. k + 1 \in 1 .. Len(ns)
    BY <2>1
  <2>7. v = NULL \/ Alive(m1, v)
    BY <2>3, <2>5, <2>6
  <2>8. Good(m1) /\ Alive(m1, a) /\ (a = Nil \/ Bal(m1, a) # 0)
    <3>1. Alive(m, a) /\ Counted(m) = DOMAIN m.heap \ {Nil}
      BY DEF Counted
    <3>. QED BY <2>3, <3>1 DEF Along, Moved, Alive
  <2>9. /\ Moved(m1, m2) /\ m2.bindings = m1.bindings /\ Counted(m2) = Counted(m1)
        /\ \A x \in Counted(m1) : Bal(m2, x) = Bal(m1, x)
        /\ PropsSet(m1, m2, a, n, v)
    BY <2>4, <2>5, <2>7, <2>8, SetPropStep
  <2>10. Moved(m, m2)
    BY <2>3, <2>9, MovedMore DEF Along
  <2>11. /\ m2.bindings = m.bindings /\ Counted(m2) = Counted(m) /\ Alive(m2, a)
         /\ \A x \in Counted(m) : Bal(m2, x) = Bal(m, x)
    BY <2>3, <2>9 DEF Along, PropsSet
  <2>12. ASSUME NEW x \in DOMAIN m.heap, Alive(m2, x), x # a PROVE m2.heap[x].props = m.heap[x].props
    <3>1. x \in DOMAIN m1.heap /\ Alive(m1, x)
      BY <2>3, <2>9, <2>12 DEF Along, Moved, Grows
    <3>2. m2.heap[x].props = m1.heap[x].props
      BY <2>9, <2>12, <3>1 DEF PropsSet
    <3>. QED BY <2>3, <2>12, <3>1, <3>2 DEF Along
  <2>13. ASSUME NEW j \in DOMAIN m.heap[a].props
         PROVE  /\ j \in DOMAIN m2.heap[a].props
                /\ \/ m2.heap[a].props[j] = m.heap[a].props[j]
                   \/ \E i \in 1 .. Len(ns) : ns[i] = j /\ m2.heap[a].props[j] = vs[i]
    <3>1. PICK p, q, t : p = m.heap[a].props /\ q = m1.heap[a].props /\ t = m2.heap[a].props
      OBVIOUS
    <3>2. t = Put(q, n, v)
      BY <2>8, <2>11, <2>9, <3>1 DEF PropsSet, Alive
    <3>3. j \in DOMAIN q /\ (q[j] = p[j] \/ \E i \in 1 .. Len(ns) : ns[i] = j /\ q[j] = vs[i])
      BY <2>3, <3>1 DEF Along
    <3>4. j \in DOMAIN t /\ (t[j] = q[j] \/ (n = j /\ t[j] = v))
      BY <3>2, <3>3 DEF Put
    <3>5. t[j] = p[j] \/ \E i \in 1 .. Len(ns) : ns[i] = j /\ t[j] = vs[i]
      BY <2>5, <2>6, <3>3, <3>4
    <3>. QED BY <3>1, <3>4, <3>5
  <2>. QED BY <2>2, <2>10, <2>11, <2>12, <2>13 DEF Along
<1>. HIDE DEF S
<1>5. Nat \subseteq S
  BY <1>3, <1>4, SetInduction
<1>. QED BY <1>1, <1>5 DEF S

-----------------------------------------------------------------------------
(* Scopes. *)

\* What the names of a table stand for.
Row(m, t) == [n \in DOMAIN t |-> m.bindings[t[n]]]

LEMMA RowType ==
  ASSUME NEW m, NEW t, IsFiniteSet(DOMAIN t), NEW x
  PROVE  IsFiniteSet(DOMAIN Row(m, t)) /\ Occurrences(Row(m, t), x) \in Nat
<1>1. DOMAIN Row(m, t) = DOMAIN t
  BY DEF Row
<1>. QED BY <1>1, OccType

\* The local scope is that of a function, or the global one.
OddTop(m) == Len(m.scopes) % 2 = 1

\* m2 has one scope more, t.
Topped(m, m2, t) ==
  /\ IsSeq(m.scopes) /\ IsSeq(m2.scopes) /\ Len(m2.scopes) = Len(m.scopes) + 1
  /\ \A i \in 1 .. Len(m.scopes) : m2.scopes[i] = m.scopes[i]
  /\ m2.scopes[Len(m.scopes) + 1] = t
  /\ m2.bindings = m.bindings

LEMMA OddEven ==
  ASSUME NEW n \in Nat
  PROVE  /\ n % 2 \in {0, 1} /\ (n % 2 = 0 <=> (n + 1) % 2 = 1) /\ (n % 2 = 1 <=> (n + 1) % 2 = 0)
         /\ (n + 2) % 2 = n % 2
  OBVIOUS

LEMMA ScopeMore ==
  ASSUME NEW m, NEW m2, NEW t, Topped(m, m2, t), IsFiniteSet(DOMAIN ScopeRefs(m)), IsFiniteSet(DOMAIN t), NEW x
  PROVE  /\ ~OddTop(m) => ScopeOcc(m2, x) = ScopeOcc(m, x) + Occurrences(Row(m, t), x)
         /\ OddTop(m) => ScopeOcc(m2, x) = ScopeOcc(m, x)
<1>1. PICK L : L = Len(m.scopes)
  OBVIOUS
<1>2. /\ L \in Nat /\ DOMAIN m.scopes = 1 .. L /\ DOMAIN m2.scopes = 1 .. L + 1
      /\ \A i \in 1 .. L : m2.scopes[i] = m.scopes[i]
      /\ m2.scopes[L + 1] = t /\ m2.bindings = m.bindings
  BY <1>1, SeqFacts DEF Topped
<1>3. PICK f, g : f = ScopeRefs(m) /\ g = ScopeRefs(m2)
  OBVIOUS
<1>4. /\ \A p : p \in DOMAIN f <=> \E i \in OwnScopes(m) : \E n \in DOMAIN m.scopes[i] : p = <<i, n>>
      /\ \A i \in OwnScopes(m) : \A n \in DOMAIN m.scopes[i] : f[<<i, n>>] = m.bindings[m.scopes[i][n]]
  BY <1>3, ScopeFacts
<1>5. /\ \A p : p \in DOMAIN g <=> \E i \in OwnScopes(m2) : \E n \in DOMAIN m2.scopes[i] : p = <<i, n>>
      /\ \A i \in OwnScopes(m2) : \A n \in DOMAIN m2.scopes[i] : g[<<i, n>>] = m.bindings[m2.scopes[i][n]]
  BY <1>2, <1>3, ScopeFacts
<1>6. CASE L % 2 = 1
  <2>1. OwnScopes(m2) = OwnScopes(m)
    <3>1. (L + 1) % 2 # 1
      BY <1>2, <1>6, OddEven
    <3>. QED BY <1>2, <3>1 DEF OwnScopes
  <2>2. \A i \in OwnScopes(m) : m2.scopes[i] = m.scopes[i]
    BY <1>2 DEF OwnScopes
  <2>3. \A p : p \in DOMAIN f <=> p \in DOMAIN g
    BY <1>4, <1>5, <2>1, <2>2
  <2>4. ASSUME NEW p \in DOMAIN f PROVE f[p] = g[p]
    <3>1. PICK i \in OwnScopes(m) : \E n \in DOMAIN m.scopes[i] : p = <<i, n>>
      BY <1>4
    <3>2. PICK n \in DOMAIN m.scopes[i] : p = <<i, n>>
      BY <3>1
    <3>. QED BY <1>4, <1>5, <2>1, <2>2, <3>2
  <2>5. Occurrences(f, x) = Occurrences(g, x)
    BY <2>3, <2>4, OccSame
  <2>6. ScopeOcc(m2, x) = ScopeOcc(m, x)
    BY <1>3, <2>5 DEF ScopeOcc
  <2>7. OddTop(m)
    BY <1>1, <1>6 DEF OddTop
  <2>. QED BY <2>6, <2>7
<1>7. CASE L % 2 = 0
  <2>0. OwnScopes(m2) = OwnScopes(m) \cup {L + 1}
    <3>1. (L + 1) % 2 = 1
      BY <1>2, <1>7, OddEven
    <3>2. 1 .. L + 1 = (1 .. L) \cup {L + 1}
      BY <1>2
    <3>. QED BY <1>2, <3>1, <3>2 DEF OwnScopes
  <2>1. \A i \in OwnScopes(m) : m2.scopes[i] = m.scopes[i] /\ i # L + 1
    BY <1>2 DEF OwnScopes
  <2>2. PICK h : h = [p \in {L + 1} \X DOMAIN t |-> m.bindings[t[p[2]]]]
    OBVIOUS
  <2>3. /\ \A p : p \in DOMAIN h <=> \E n \in DOMAIN t : p = <<L + 1, n>>
        /\ \A n \in DOMAIN t : h[<<L + 1, n>>] = m.bindings[t[n]]
    BY <2>2
  <2>4. DOMAIN g = DOMAIN f \cup DOMAIN h
    <3>1. \A p : p \in DOMAIN g <=> p \in DOMAIN f \/ p \in DOMAIN h
      BY <1>2, <1>4, <1>5, <2>0, <2>1, <2>3
    <3>. QED BY <3>1
  <2>5. DOMAIN f \cap DOMAIN h = {}
    BY <1>4, <2>1, <2>3
  <2>6. ASSUME NEW p \in DOMAIN f PROVE g[p] = f[p]
    <3>1. PICK i \in OwnScopes(m) : \E n \in DOMAIN m.scopes[i] : p = <<i, n>>
      BY <1>4
    <3>2. PICK n \in DOMAIN m.scopes[i] : p = <<i, n>>
      BY <3>1
    <3>. QED BY <1>4, <1>5, <2>0, <2>1, <3>2
  <2>7. ASSUME NEW p \in DOMAIN h PROVE g[p] = h[p]
    <3>1. PICK n \in DOMAIN t : p = <<L + 1, n>>
      BY <2>3
    <3>2. g[<<L + 1, n>>] = m.bindings[t[n]]
      BY <1>2, <1>5, <2>0
    <3>. QED BY <2>3, <3>1, <3>2
  <2>8. PICK r : r = Row(m, t)
    OBVIOUS
  <2>9. DOMAIN r = DOMAIN t /\ \A n \in DOMAIN t : r[n] = m.bindings[t[n]]
    BY <2>8 DEF Row
  <2>10. IsFiniteSet(DOMAIN h) /\ Occurrences(h, x) = Occurrences(r, x)
    <3>. DEFINE b == [n \in DOMAIN r |-> <<L + 1, n>>]
    <3>1. \A n \in DOMAIN r : b[n] \in DOMAIN h /\ h[b[n]] = r[n]
      BY <2>3, <2>9
    <3>2. \A q \in DOMAIN h : q \in {b[n] : n \in DOMAIN r}
      BY <2>3, <2>9
    <3>3. \A p, q \in DOMAIN r : b[p] = b[q] => p = q
      OBVIOUS
    <3>4. IsFiniteSet(DOMAIN r)
      BY <2>9
    <3>. HIDE DEF b
    <3>5. \A q \in DOMAIN h : h[q] = x => \E n \in DOMAIN r : b[n] = q
      BY <3>2
    <3>6. Occurrences(h, x) = Occurrences(r, x)
      BY <3>1, <3>3, <3>4, <3>5, OccMoved
    <3>7. DOMAIN h = {L + 1} \X DOMAIN t /\ IsFiniteSet({L + 1})
      BY <2>2, FS_Singleton
    <3>8. IsFiniteSet(DOMAIN h)
      BY <3>7, FS_Product
    <3>. QED BY <3>6, <3>8
  <2>11. IsFiniteSet(DOMAIN f)
    BY <1>3
  <2>12. \A p \in DOMAIN f : g[p] = f[p]
    BY <2>6
  <2>16. \A p \in DOMAIN h : g[p] = h[p]
    BY <2>7
  <2>17. IsFiniteSet(DOMAIN h)
    BY <2>10
  <2>13. IsFiniteSet(DOMAIN g) /\ Occurrences(g, x) = Occurrences(f, x) + Occurrences(h, x)
    <3>1. Splits(f, h, g)
      BY <2>4, <2>5, <2>11, <2>12, <2>16, <2>17 DEF Splits
    <3>. QED BY <3>1, OccSplit
  <2>14. ScopeOcc(m2, x) = ScopeOcc(m, x) + Occurrences(Row(m, t), x)
    BY <1>3, <2>8, <2>10, <2>13 DEF ScopeOcc
  <2>15. ~OddTop(m)
    <3>1. L % 2 # 1
      BY <1>2, <1>7
    <3>. QED BY <1>1, <3>1 DEF OddTop
  <2>. QED BY <2>14, <2>15
<1>8. L % 2 \in {0, 1}
  BY <1>2, OddEven
<1>. QED BY <1>6, <1>7, <1>8

\* Bindings may come to those that are there.
Binds(m, m2) ==
  /\ DOMAIN m.bindings \subseteq DOMAIN m2.bindings
  /\ \A b \in DOMAIN m.bindings : m2.bindings[b] = m.bindings[b]

LEMMA BindsMore ==
  ASSUME NEW m, NEW m2, NEW m3, Binds(m, m2), Binds(m2, m3)
  PROVE  Binds(m, m3)
  BY DEF Binds

LEMMA BindsOcc ==
  ASSUME NEW m, Shape(m), NEW m2, m2.heap = m.heap, Binds(m, m2), NEW x
  PROVE  /\ HeapOcc(m2, x) = HeapOcc(m, x)
         /\ m2.scopes = m.scopes => ScopeOcc(m2, x) = ScopeOcc(m, x)
<1>1. PICK f, g : f = OwnedBy(m, DOMAIN m.heap) /\ g = OwnedBy(m2, DOMAIN m.heap)
  OBVIOUS
<1>2. /\ \A p : p \in DOMAIN f <=> \E a \in DOMAIN m.heap : \E s \in Slots(m.heap[a]) : p = <<a, s>>
      /\ \A a \in DOMAIN m.heap : \A s \in Slots(m.heap[a]) : f[<<a, s>>] = At(m, m.heap[a], s)
  BY <1>1, OwnedFacts
<1>3. /\ \A p : p \in DOMAIN g <=> \E a \in DOMAIN m.heap : \E s \in Slots(m.heap[a]) : p = <<a, s>>
      /\ \A a \in DOMAIN m.heap : \A s \in Slots(m.heap[a]) : g[<<a, s>>] = At(m2, m.heap[a], s)
  BY <1>1, OwnedFacts
<1>4. ASSUME NEW a \in DOMAIN m.heap, NEW s \in Slots(m.heap[a])
      PROVE  At(m2, m.heap[a], s) = At(m, m.heap[a], s)
  <2>1. \A n \in DOMAIN m.heap[a].closure : m.heap[a].closure[n] \in DOMAIN m.bindings
    BY DEF Shape, Sound, Table
  <2>2. s[1] = "closure" => s[2] \in DOMAIN m.heap[a].closure
    BY DEF Slots
  <2>. QED BY <2>1, <2>2 DEF At, Binds
<1>5. \A p : p \in DOMAIN f <=> p \in DOMAIN g
  BY <1>2, <1>3
<1>6. ASSUME NEW p \in DOMAIN f PROVE f[p] = g[p]
  <2>1. PICK a \in DOMAIN m.heap : \E s \in Slots(m.heap[a]) : p = <<a, s>>
    BY <1>2
  <2>2. PICK s \in Slots(m.heap[a]) : p = <<a, s>>
    BY <2>1
  <2>. QED BY <1>2, <1>3, <1>4, <2>2
<1>7. Occurrences(f, x) = Occurrences(g, x)
  BY <1>5, <1>6, OccSame
<1>8. ASSUME m2.scopes = m.scopes PROVE ScopeOcc(m2, x) = ScopeOcc(m, x)
  <2>1. PICK u, w : u = ScopeRefs(m) /\ w = ScopeRefs(m2)
    OBVIOUS
  <2>2. OwnScopes(m2) = OwnScopes(m)
    BY <1>8 DEF OwnScopes
  <2>3. /\ \A p : p \in DOMAIN u <=> \E i \in OwnScopes(m) : \E n \in DOMAIN m.scopes[i] : p = <<i, n>>
        /\ \A i \in OwnScopes(m) : \A n \in DOMAIN m.scopes[i] : u[<<i, n>>] = m.bindings[m.scopes[i][n]]
    BY <2>1, ScopeFacts
  <2>4. /\ \A p : p \in DOMAIN w <=> \E i \in OwnScopes(m) : \E n \in DOMAIN m.scopes[i] : p = <<i, n>>
        /\ \A i \in OwnScopes(m) : \A n \in DOMAIN m.scopes[i] : w[<<i, n>>] = m2.bindings[m.scopes[i][n]]
    BY <1>8, <2>1, <2>2, ScopeFacts
  <2>5. \A i \in OwnScopes(m) : \A n \in DOMAIN m.scopes[i] :
          m2.bindings[m.scopes[i][n]] = m.bindings[m.scopes[i][n]]
    BY DEF OwnScopes, Shape, Table, Binds
  <2>6. \A p : p \in DOMAIN u <=> p \in DOMAIN w
    BY <2>3, <2>4
  <2>7. ASSUME NEW p \in DOMAIN u PROVE u[p] = w[p]
    <3>1. PICK i \in OwnScopes(m) : \E n \in DOMAIN m.scopes[i] : p = <<i, n>>
      BY <2>3
    <3>2. PICK n \in DOMAIN m.scopes[i] : p = <<i, n>>
      BY <3>1
    <3>. QED BY <2>3, <2>4, <2>5, <3>2
  <2>8. Occurrences(u, x) = Occurrences(w, x)
    BY <2>6, <2>7, OccSame
  <2>. QED BY <2>1, <2>8 DEF ScopeOcc
<1>. QED BY <1>1, <1>7, <1>8 DEF HeapOcc

LEMMA PopShape ==
  ASSUME NEW m, Shape(m), Len(m.scopes) > 0
  PROVE  LET mb == PopClosure(m) IN
         /\ Shape(mb) /\ Topped(mb, m, Local(m)) /\ mb.heap = m.heap /\ mb.stray = m.stray
         /\ mb.scopes = Front(m.scopes) /\ Table(Local(m), DOMAIN m.bindings)
<1>1. PICK mb : mb = PopClosure(m)
  OBVIOUS
<1>2. /\ DOMAIN mb = DOMAIN m /\ mb.heap = m.heap /\ mb.bindings = m.bindings /\ mb.stray = m.stray
      /\ mb.scopes = Front(m.scopes)
  BY <1>1 DEF PopClosure, Shape
<1>3. PICK s, t : s = m.scopes /\ t = mb.scopes
  OBVIOUS
<1>4. IsSeq(s) /\ Len(s) > 0 /\ \A i \in DOMAIN s : Table(s[i], DOMAIN m.bindings)
  BY <1>3 DEF Shape
<1>5. IsSeq(t) /\ Len(t) = Len(s) - 1 /\ DOMAIN t = 1 .. Len(s) - 1 /\ \A i \in DOMAIN t : t[i] = s[i]
  BY <1>2, <1>3, <1>4, SeqFront
<1>6. Len(s) \in Nat /\ DOMAIN s = 1 .. Len(s)
  BY <1>4, SeqFacts
<1>7. \A i \in DOMAIN t : Table(t[i], DOMAIN m.bindings)
  BY <1>4, <1>5, <1>6
<1>8. Addr(mb) = Addr(m)
  BY <1>2 DEF Addr
<1>9. \A a \in DOMAIN m.heap : Sound(mb, m.heap[a])
  BY <1>2, <1>8 DEF Shape, Sound
<1>10. Shape(mb)
  BY <1>2, <1>3, <1>5, <1>7, <1>8, <1>9 DEF Shape
<1>11. Len(s) \in DOMAIN s /\ (Len(s) - 1) + 1 = Len(s) /\ Local(m) = s[Len(s)]
  BY <1>3, <1>4, <1>6 DEF Local
<1>12. Topped(mb, m, Local(m))
  BY <1>2, <1>3, <1>4, <1>5, <1>6, <1>11 DEF Topped
<1>. QED BY <1>1, <1>2, <1>4, <1>10, <1>11, <1>12

\* Only the last scope changes, to t.
LastTo(m, m2, t) ==
  /\ IsSeq(m2.scopes) /\ Len(m2.scopes) = Len(m.scopes)
  /\ \A i \in 1 .. Len(m.scopes) : i # Len(m.scopes) => m2.scopes[i] = m.scopes[i]
  /\ m2.scopes[Len(m.scopes)] = t

LEMMA OddLen ==
  ASSUME NEW m, Shape(m), OddTop(m)
  PROVE  /\ Len(m.scopes) \in Nat /\ Len(m.scopes) > 0 /\ Len(m.scopes) \in DOMAIN m.scopes
         /\ DOMAIN m.scopes = 1 .. Len(m.scopes) /\ Len(m.scopes) \in OwnScopes(m)
         /\ Local(m) = m.scopes[Len(m.scopes)] /\ Table(Local(m), DOMAIN m.bindings)
<1>1. Len(m.scopes) \in Nat /\ DOMAIN m.scopes = 1 .. Len(m.scopes)
  BY SeqFacts DEF Shape
<1>2. Len(m.scopes) > 0
  <2>1. PICK k : k = Len(m.scopes)
    OBVIOUS
  <2>2. k \in Nat /\ k % 2 = 1
    BY <1>1, <2>1 DEF OddTop
  <2>3. k > 0
    BY <2>2
  <2>. QED BY <2>1, <2>3
<1>3. Len(m.scopes) \in DOMAIN m.scopes
  BY <1>1, <1>2
<1>4. Len(m.scopes) \in OwnScopes(m)
  BY <1>3 DEF OwnScopes, OddTop
<1>5. Local(m) = m.scopes[Len(m.scopes)]
  BY DEF Local
<1>6. Table(Local(m), DOMAIN m.bindings)
  BY <1>3, <1>5 DEF Shape
<1>. QED BY <1>1, <1>2, <1>3, <1>4, <1>5, <1>6

LEMMA LocalOcc ==
  ASSUME NEW m, Shape(m), OddTop(m), NEW m2, NEW t, LastTo(m, m2, t),
         IsFiniteSet(DOMAIN t), m2.bindings = m.bindings, NEW x
  PROVE  /\ ScopeOcc(m2, x) + Occurrences(Row(m, Local(m)), x) = ScopeOcc(m, x) + Occurrences(Row(m, t), x)
         /\ ScopeOcc(m2, x) \in Nat /\ ScopeOcc(m, x) \in Nat
         /\ Occurrences(Row(m, Local(m)), x) \in Nat /\ Occurrences(Row(m, t), x) \in Nat
<1>1. Len(m.scopes) \in Nat /\ Len(m.scopes) > 0 /\ Table(Local(m), DOMAIN m.bindings)
  BY OddLen
<1>2. PICK mb : mb = PopClosure(m)
  OBVIOUS
<1>3. Shape(mb) /\ Topped(mb, m, Local(m))
  BY <1>1, <1>2, PopShape
<1>4. Len(m.scopes) = Len(mb.scopes) + 1 /\ Len(mb.scopes) \in Nat
  <2>1. Len(mb.scopes) \in Nat
    BY <1>3, SeqFacts DEF Shape
  <2>. QED BY <1>3, <2>1 DEF Topped
<1>5. Topped(mb, m2, t)
  <2>1. \A i \in 1 .. Len(mb.scopes) : m2.scopes[i] = mb.scopes[i]
    <3>1. \A i \in 1 .. Len(mb.scopes) : i \in 1 .. Len(m.scopes) /\ i # Len(m.scopes)
      BY <1>4
    <3>2. \A i \in 1 .. Len(mb.scopes) : m.scopes[i] = mb.scopes[i]
      BY <1>3 DEF Topped
    <3>3. \A i \in 1 .. Len(m.scopes) : i # Len(m.scopes) => m2.scopes[i] = m.scopes[i]
      BY DEF LastTo
    <3>. QED BY <3>1, <3>2, <3>3
  <2>2. IsSeq(mb.scopes) /\ mb.bindings = m.bindings
    BY <1>3 DEF Topped
  <2>. QED BY <1>4, <2>1, <2>2 DEF Topped, LastTo
<1>6. ~OddTop(mb)
  <2>1. PICK k, l : k = Len(mb.scopes) /\ l = Len(m.scopes)
    OBVIOUS
  <2>2. k \in Nat /\ l = k + 1 /\ l % 2 = 1
    BY <1>4, <2>1 DEF OddTop
  <2>3. k % 2 # 1
    BY <2>2
  <2>. QED BY <2>1, <2>3 DEF OddTop
<1>7. IsFiniteSet(DOMAIN ScopeRefs(mb)) /\ IsFiniteSet(DOMAIN Local(m))
  BY <1>1, <1>3, ScopeFinite DEF Table
<1>8. ScopeOcc(m, x) = ScopeOcc(mb, x) + Occurrences(Row(mb, Local(m)), x)
  BY <1>3, <1>6, <1>7, ScopeMore
<1>9. ScopeOcc(m2, x) = ScopeOcc(mb, x) + Occurrences(Row(mb, t), x)
  BY <1>5, <1>6, <1>7, ScopeMore
<1>10. Row(mb, t) = Row(m, t) /\ Row(mb, Local(m)) = Row(m, Local(m))
  BY <1>3 DEF Row, Topped
<1>11. /\ ScopeOcc(mb, x) \in Nat /\ Occurrences(Row(m, Local(m)), x) \in Nat
       /\ Occurrences(Row(m, t), x) \in Nat
  BY <1>3, <1>7, OccTypes, RowType
<1>. QED BY <1>8, <1>9, <1>10, <1>11

\* A memory with the same objects, and other names.
LEMMA NamesGood ==
  ASSUME NEW m, Good(m), NEW m2, m2.heap = m.heap, DOMAIN m2 = DOMAIN m, Binds(m, m2),
         IsSeq(m2.bindings), \A b \in DOMAIN m2.bindings : m2.bindings[b] \in Addr(m),
         IsSeq(m2.scopes), \A i \in DOMAIN m2.scopes : Table(m2.scopes[i], DOMAIN m2.bindings),
         m2.stray \in BOOLEAN
  PROVE  /\ Shape(m2) /\ Grows(m, m2) /\ Counted(m2) = Counted(m)
         /\ (\A x \in Counted(m) : Balance(m2, x) >= 0) => Good(m2)
         /\ \A x \in Counted(m) : Balance(m2, x) = Balance(m, x) + ScopeOcc(m, x) - ScopeOcc(m2, x)
<1>1. Shape(m)
  BY DEF Good
<1>2. Addr(m2) = Addr(m)
  BY DEF Addr
<1>3. \A a \in DOMAIN m.heap : Sound(m2, m.heap[a])
  BY <1>1, <1>2 DEF Shape, Sound, Table, Binds
<1>4. Shape(m2)
  BY <1>1, <1>2, <1>3 DEF Shape
<1>5. Grows(m, m2)
  BY DEF Grows, Alive, Count
<1>6. Counted(m2) = Counted(m)
  BY DEF Counted
<1>7. ASSUME \A x \in Counted(m) : Balance(m2, x) >= 0 PROVE Good(m2)
  <2>1. \A a \in DOMAIN m2.heap \ {Nil} : Balance(m2, a) >= 0
    BY <1>7 DEF Counted
  <2>2. \A a \in DOMAIN m2.heap \ DOMAIN m.heap : Kind(m2, m2.heap[a])
    OBVIOUS
  <2>. QED BY <1>4, <1>5, <2>1, <2>2, GoodNext
<1>8. ASSUME NEW x \in Counted(m)
      PROVE  Balance(m2, x) = Balance(m, x) + ScopeOcc(m, x) - ScopeOcc(m2, x)
  <2>1. HeapOcc(m2, x) = HeapOcc(m, x)
    BY <1>1, BindsOcc
  <2>2. x \in DOMAIN m.heap /\ x \in DOMAIN m2.heap
    BY DEF Counted
  <2>3. /\ HeapOcc(m, x) \in Nat /\ ScopeOcc(m, x) \in Nat /\ Keeps(x) \in Nat
        /\ Count(m, x) \in Nat /\ Lost(m, x) \in Nat
    BY <1>1, <2>2, BalanceType
  <2>4. ScopeOcc(m2, x) \in Nat
    BY <1>4, <2>2, BalanceType
  <2>5. Count(m2, x) = Count(m, x) /\ Lost(m2, x) = Lost(m, x)
    BY DEF Count, Lost
  <2>. QED BY <2>1, <2>3, <2>4, <2>5 DEF Balance
<1>. QED BY <1>4, <1>5, <1>6, <1>7, <1>8

\* The local scope without a name.
CutOut(m, n) == [m EXCEPT !.scopes[Len(m.scopes)] = [k \in DOMAIN Local(m) \ {n} |-> Local(m)[k]]]

LEMMA CutFacts ==
  ASSUME NEW m, Shape(m), OddTop(m), NEW n
  PROVE  LET c == CutOut(m, n)
             t == [k \in DOMAIN Local(m) \ {n} |-> Local(m)[k]] IN
         /\ c.heap = m.heap /\ c.bindings = m.bindings /\ c.stray = m.stray /\ DOMAIN c = DOMAIN m
         /\ LastTo(m, c, t) /\ Local(c) = t /\ Len(c.scopes) = Len(m.scopes)
         /\ IsSeq(c.scopes) /\ \A i \in DOMAIN c.scopes : Table(c.scopes[i], DOMAIN m.bindings)
<1>1. PICK c, t : c = CutOut(m, n) /\ t = [k \in DOMAIN Local(m) \ {n} |-> Local(m)[k]]
  OBVIOUS
<1>2. PICK L : L = Len(m.scopes)
  OBVIOUS
<1>3. /\ L \in Nat /\ L > 0 /\ L \in DOMAIN m.scopes /\ DOMAIN m.scopes = 1 .. L
      /\ Table(Local(m), DOMAIN m.bindings)
  BY <1>2, OddLen
<1>4. c.heap = m.heap /\ c.bindings = m.bindings /\ c.stray = m.stray /\ DOMAIN c = DOMAIN m
      /\ c.scopes = [m.scopes EXCEPT ![L] = t]
  BY <1>1, <1>2 DEF CutOut, Shape
<1>5. IsSeq(c.scopes) /\ Len(c.scopes) = L /\ DOMAIN c.scopes = 1 .. L
  <2>1. c.scopes = [i \in 1 .. L |-> c.scopes[i]]
    BY <1>3, <1>4
  <2>. QED BY <1>3, <2>1, SeqMade
<1>6. c.scopes[L] = t /\ \A i \in 1 .. L : i # L => c.scopes[i] = m.scopes[i]
  BY <1>3, <1>4
<1>7. Table(t, DOMAIN m.bindings)
  <2>1. DOMAIN t \subseteq DOMAIN Local(m)
    BY <1>1
  <2>2. IsFiniteSet(DOMAIN t)
    BY <1>3, <2>1, FS_Subset DEF Table
  <2>. QED BY <1>1, <1>3, <2>2 DEF Table
<1>8. \A i \in DOMAIN c.scopes : Table(c.scopes[i], DOMAIN m.bindings)
  <2>1. \A i \in DOMAIN m.scopes : Table(m.scopes[i], DOMAIN m.bindings)
    BY DEF Shape
  <2>. QED BY <1>3, <1>5, <1>6, <1>7, <2>1
<1>9. Local(c) = t
  BY <1>5, <1>6 DEF Local
<1>10. LastTo(m, c, t)
  BY <1>2, <1>5, <1>6 DEF LastTo
<1>. QED BY <1>1, <1>2, <1>4, <1>5, <1>8, <1>9, <1>10

LEMMA CutStep ==
  ASSUME NEW m, Good(m), OddTop(m), NEW n
  PROVE  LET c == CutOut(m, n) IN
         /\ Good(c) /\ Grows(m, c) /\ Counted(c) = Counted(m)
         /\ n \in DOMAIN Local(m) =>
              \A x \in Counted(m) : Bal(c, x) = Bal(m, x) + Ind(m.bindings[Local(m)[n]], x)
         /\ n \notin DOMAIN Local(m) => \A x \in Counted(m) : Bal(c, x) = Bal(m, x)
<1>1. PICK c, t : c = CutOut(m, n) /\ t = [k \in DOMAIN Local(m) \ {n} |-> Local(m)[k]]
  OBVIOUS
<1>2. Shape(m)
  BY DEF Good
<1>3. /\ c.heap = m.heap /\ c.bindings = m.bindings /\ c.stray = m.stray /\ DOMAIN c = DOMAIN m
      /\ LastTo(m, c, t)
      /\ IsSeq(c.scopes) /\ \A i \in DOMAIN c.scopes : Table(c.scopes[i], DOMAIN m.bindings)
  BY <1>1, <1>2, CutFacts
<1>4. Table(Local(m), DOMAIN m.bindings)
  BY <1>2, OddLen
<1>5. IsFiniteSet(DOMAIN t) /\ IsFiniteSet(DOMAIN Local(m))
  <2>1. DOMAIN t \subseteq DOMAIN Local(m)
    BY <1>1
  <2>. QED BY <1>4, <2>1, FS_Subset DEF Table
<1>6. /\ Shape(c) /\ Grows(m, c) /\ Counted(c) = Counted(m)
      /\ (\A x \in Counted(m) : Balance(c, x) >= 0) => Good(c)
      /\ \A x \in Counted(m) : Balance(c, x) = Balance(m, x) + ScopeOcc(m, x) - ScopeOcc(c, x)
  <2>1. Binds(m, c) /\ IsSeq(c.bindings) /\ c.stray \in BOOLEAN
        /\ \A b \in DOMAIN c.bindings : c.bindings[b] \in Addr(m)
    BY <1>2, <1>3 DEF Binds, Shape
  <2>2. \A i \in DOMAIN c.scopes : Table(c.scopes[i], DOMAIN c.bindings)
    BY <1>3
  <2>. QED BY <1>3, <2>1, <2>2, NamesGood
<1>7. PICK f, g, old : f = Row(m, Local(m)) /\ g = Row(m, t) /\ old = m.bindings[Local(m)[n]]
  OBVIOUS
<1>8. /\ DOMAIN f = DOMAIN Local(m) /\ DOMAIN g = DOMAIN f \ {n} /\ \A k \in DOMAIN g : g[k] = f[k]
      /\ n \in DOMAIN f => f[n] = old
  BY <1>1, <1>7 DEF Row
<1>9. ASSUME NEW x
      PROVE  /\ n \in DOMAIN f => Occurrences(f, x) = Occurrences(g, x) + Ind(old, x)
             /\ n \notin DOMAIN f => Occurrences(f, x) = Occurrences(g, x)
  <2>1. CASE n \in DOMAIN f
    <3>1. IsFiniteSet(DOMAIN g) /\ n \notin DOMAIN g /\ DOMAIN f = DOMAIN g \cup {n}
          /\ \A k \in DOMAIN g : f[k] = g[k]
      <4>1. IsFiniteSet(DOMAIN g)
        BY <1>5, <1>7 DEF Row
      <4>. QED BY <1>8, <2>1, <4>1
    <3>2. Occurrences(f, x) = Occurrences(g, x) + Ind(f[n], x)
      BY <3>1, OccMore
    <3>. QED BY <1>8, <2>1, <3>2
  <2>2. CASE n \notin DOMAIN f
    <3>1. \A p : (p \in DOMAIN f /\ f[p] = x) <=> (p \in DOMAIN g /\ g[p] = x)
      BY <1>8, <2>2
    <3>2. Occurrences(f, x) = Occurrences(g, x)
      BY <3>1, OccSame
    <3>. QED BY <2>2, <3>2
  <2>. QED BY <2>1, <2>2
<1>10. ASSUME NEW x
       PROVE  /\ ScopeOcc(c, x) + Occurrences(f, x) = ScopeOcc(m, x) + Occurrences(g, x)
              /\ ScopeOcc(c, x) \in Nat /\ ScopeOcc(m, x) \in Nat
              /\ Occurrences(f, x) \in Nat /\ Occurrences(g, x) \in Nat
  BY <1>2, <1>3, <1>5, <1>7, LocalOcc
<1>11. ASSUME NEW x \in Counted(m)
       PROVE  /\ n \in DOMAIN f => Bal(c, x) = Bal(m, x) + Ind(old, x)
              /\ n \notin DOMAIN f => Bal(c, x) = Bal(m, x)
              /\ Balance(c, x) >= 0
  <2>1. Bal(c, x) = Balance(c, x) /\ Bal(m, x) = Balance(m, x)
    BY <1>6 DEF Bal
  <2>2. Bal(m, x) \in Nat /\ Ind(old, x) \in Nat
    BY BalType DEF Ind
  <2>3. Balance(c, x) = Balance(m, x) + ScopeOcc(m, x) - ScopeOcc(c, x)
    BY <1>6
  <2>. QED BY <1>9, <1>10, <2>1, <2>2, <2>3
<1>. QED BY <1>1, <1>6, <1>7, <1>8, <1>11

\* A name that the local scope does not have is added.
LEMMA PutStep ==
  ASSUME NEW c, Good(c), OddTop(c), NEW n, n \notin DOMAIN Local(c),
         NEW p, p.heap = c.heap, DOMAIN p = DOMAIN c, Binds(c, p), p.stray \in BOOLEAN,
         IsSeq(p.bindings), \A k \in DOMAIN p.bindings : p.bindings[k] \in Addr(c),
         NEW b \in DOMAIN p.bindings, LastTo(c, p, Put(Local(c), n, b)),
         \A x \in Counted(c) : Bal(c, x) >= Ind(p.bindings[b], x)
  PROVE  /\ Good(p) /\ Grows(c, p) /\ Counted(p) = Counted(c)
         /\ \A x \in Counted(c) : Bal(p, x) = Bal(c, x) - Ind(p.bindings[b], x)
<1>1. PICK q, t, L : q = [c EXCEPT !.bindings = p.bindings] /\ t = Put(Local(c), n, b) /\ L = Len(c.scopes)
  OBVIOUS
<1>2. Shape(c)
  BY DEF Good
<1>3. /\ L \in Nat /\ L > 0 /\ DOMAIN c.scopes = 1 .. L /\ Table(Local(c), DOMAIN c.bindings)
  BY <1>1, <1>2, OddLen
<1>4. /\ DOMAIN q = DOMAIN c /\ q.heap = c.heap /\ q.bindings = p.bindings /\ q.scopes = c.scopes
      /\ q.stray = c.stray
  BY <1>1, <1>2 DEF Shape
<1>5. \A i \in 1 .. L : Table(c.scopes[i], DOMAIN p.bindings)
  BY <1>2, <1>3 DEF Shape, Table, Binds
<1>6. /\ DOMAIN t = DOMAIN Local(c) \cup {n} /\ t[n] = b /\ \A k \in DOMAIN Local(c) : t[k] = Local(c)[k]
  BY <1>1 DEF Put
<1>7. Table(t, DOMAIN p.bindings)
  <2>1. IsFiniteSet(DOMAIN t)
    BY <1>3, <1>6, FS_AddElement DEF Table
  <2>2. \A k \in DOMAIN t : t[k] \in DOMAIN p.bindings
    BY <1>3, <1>6 DEF Table, Binds
  <2>. QED BY <2>1, <2>2 DEF Table
<1>8. IsSeq(p.scopes) /\ DOMAIN p.scopes = 1 .. L /\ \A i \in DOMAIN p.scopes : Table(p.scopes[i], DOMAIN p.bindings)
  <2>1. IsSeq(p.scopes) /\ Len(p.scopes) = L /\ p.scopes[L] = t
        /\ \A i \in 1 .. L : i # L => p.scopes[i] = c.scopes[i]
    BY <1>1 DEF LastTo
  <2>2. DOMAIN p.scopes = 1 .. L
    BY <2>1, SeqFacts
  <2>. QED BY <1>5, <1>7, <2>1, <2>2
<1>9. /\ Shape(p) /\ Grows(c, p) /\ Counted(p) = Counted(c)
      /\ (\A x \in Counted(c) : Balance(p, x) >= 0) => Good(p)
      /\ \A x \in Counted(c) : Balance(p, x) = Balance(c, x) + ScopeOcc(c, x) - ScopeOcc(p, x)
  BY <1>8, NamesGood
<1>10. Shape(q)
  <2>1. Binds(c, q) /\ IsSeq(q.bindings) /\ IsSeq(q.scopes) /\ q.stray \in BOOLEAN
        /\ \A k \in DOMAIN q.bindings : q.bindings[k] \in Addr(c)
    BY <1>2, <1>4 DEF Binds, Shape
  <2>2. \A i \in DOMAIN q.scopes : Table(q.scopes[i], DOMAIN q.bindings)
    BY <1>3, <1>4, <1>5
  <2>. QED BY <1>4, <2>1, <2>2, NamesGood
<1>11. PICK f, g, v : f = Row(q, Local(c)) /\ g = Row(q, t) /\ v = p.bindings[b]
  OBVIOUS
<1>12. /\ DOMAIN f = DOMAIN Local(c) /\ DOMAIN g = DOMAIN f \cup {n} /\ g[n] = v
       /\ \A k \in DOMAIN f : g[k] = f[k]
  BY <1>4, <1>6, <1>11 DEF Row
<1>13. ASSUME NEW x PROVE Occurrences(g, x) = Occurrences(f, x) + Ind(v, x)
  <2>1. IsFiniteSet(DOMAIN f) /\ n \notin DOMAIN f
    BY <1>3, <1>12 DEF Table
  <2>2. Occurrences(g, x) = Occurrences(f, x) + Ind(g[n], x)
    BY <1>12, <2>1, OccMore
  <2>. QED BY <1>12, <2>2
<1>14. ASSUME NEW x
       PROVE  /\ ScopeOcc(p, x) + Occurrences(f, x) = ScopeOcc(q, x) + Occurrences(g, x)
              /\ ScopeOcc(p, x) \in Nat /\ ScopeOcc(q, x) \in Nat
              /\ Occurrences(f, x) \in Nat /\ Occurrences(g, x) \in Nat
  <2>1. Local(q) = Local(c) /\ Len(q.scopes) = Len(c.scopes)
    BY <1>4 DEF Local
  <2>2. LastTo(q, p, t)
    BY <1>1, <1>4 DEF LastTo
  <2>3. IsFiniteSet(DOMAIN t)
    BY <1>7 DEF Table
  <2>4. /\ ScopeOcc(p, x) + Occurrences(Row(q, Local(q)), x) = ScopeOcc(q, x) + Occurrences(Row(q, t), x)
        /\ ScopeOcc(p, x) \in Nat /\ ScopeOcc(q, x) \in Nat
        /\ Occurrences(Row(q, Local(q)), x) \in Nat /\ Occurrences(Row(q, t), x) \in Nat
    <3>1. OddTop(q) /\ p.bindings = q.bindings
      BY <1>4, <2>1 DEF OddTop
    <3>. QED BY <1>10, <2>2, <2>3, <3>1, LocalOcc
  <2>. QED BY <1>11, <2>1, <2>4
<1>15. ASSUME NEW x PROVE ScopeOcc(q, x) = ScopeOcc(c, x)
  <2>1. Binds(c, q)
    BY <1>4 DEF Binds
  <2>. QED BY <1>2, <1>4, <2>1, BindsOcc
<1>16. ASSUME NEW x \in Counted(c)
       PROVE  Bal(p, x) = Bal(c, x) - Ind(v, x) /\ Balance(p, x) >= 0
  <2>1. Bal(p, x) = Balance(p, x) /\ Bal(c, x) = Balance(c, x)
    BY <1>9 DEF Bal
  <2>2. Bal(c, x) \in Nat /\ Ind(v, x) \in Nat /\ Bal(c, x) >= Ind(v, x)
    BY <1>11, BalType DEF Ind
  <2>3. Balance(p, x) = Balance(c, x) + ScopeOcc(c, x) - ScopeOcc(p, x)
    BY <1>9
  <2>. QED BY <1>13, <1>14, <1>15, <2>1, <2>2, <2>3
<1>. QED BY <1>9, <1>11, <1>16

\* u is m without what n stood for, but it still has the entry; c has not.
Cutting(m, u, c, n) ==
  /\ Good(c) /\ Grows(m, c) /\ Counted(c) = Counted(m) /\ c.heap = u.heap
  /\ c.bindings = m.bindings /\ u.bindings = m.bindings /\ u.scopes = m.scopes /\ u.stray = m.stray
  /\ DOMAIN u = DOMAIN m /\ DOMAIN c = DOMAIN m
  /\ LastTo(m, c, [k \in DOMAIN Local(m) \ {n} |-> Local(m)[k]])

LEMMA UnbindStep ==
  ASSUME NEW m, Good(m), OddTop(m), NEW n
  PROVE  \E c : /\ Cutting(m, Unbind(m, n), c, n)
                /\ \A x \in Counted(m) : Bal(c, x) = Bal(m, x)
<1>1. PICK d, t : d = CutOut(m, n) /\ t = [k \in DOMAIN Local(m) \ {n} |-> Local(m)[k]]
  OBVIOUS
<1>2. Shape(m)
  BY DEF Good
<1>3. /\ d.heap = m.heap /\ d.bindings = m.bindings /\ d.stray = m.stray /\ DOMAIN d = DOMAIN m
      /\ LastTo(m, d, t)
  BY <1>1, <1>2, CutFacts
<1>4. /\ Good(d) /\ Grows(m, d) /\ Counted(d) = Counted(m)
      /\ n \in DOMAIN Local(m) =>
           \A x \in Counted(m) : Bal(d, x) = Bal(m, x) + Ind(m.bindings[Local(m)[n]], x)
      /\ n \notin DOMAIN Local(m) => \A x \in Counted(m) : Bal(d, x) = Bal(m, x)
  BY <1>1, CutStep
<1>5. CASE n \notin DOMAIN Local(m)
  <2>1. Unbind(m, n) = m
    BY <1>5 DEF Unbind
  <2>2. Cutting(m, m, d, n)
    BY <1>1, <1>3, <1>4 DEF Cutting
  <2>. QED BY <1>4, <1>5, <2>1, <2>2
<1>6. CASE n \in DOMAIN Local(m)
  <2>1. PICK old, u, c : old = m.bindings[Local(m)[n]] /\ u = Release(m, old) /\ c = Release(d, old)
    OBVIOUS
  <2>2. \A x \in Counted(m) : Bal(d, x) = Bal(m, x) + Ind(old, x)
    BY <1>4, <1>6, <2>1
  <2>3. \A x \in Counted(d) : Bal(d, x) >= Ind(old, x)
    <3>1. ASSUME NEW x \in Counted(d) PROVE Bal(d, x) >= Ind(old, x)
      <4>1. Bal(m, x) \in Nat /\ Ind(old, x) \in Nat /\ Bal(d, x) = Bal(m, x) + Ind(old, x)
        BY <1>4, <2>2, BalType DEF Ind
      <4>. QED BY <4>1
    <3>. QED BY <3>1
  <2>4. /\ Moved(d, c) /\ Same(d, c) /\ Counted(c) = Counted(d)
        /\ \A x \in Counted(d) : Bal(c, x) = Bal(d, x) - Ind(old, x)
    BY <1>4, <2>1, <2>3, ReleaseStep
  <2>5. Shape(d) /\ Shape(c) /\ Good(c)
    BY <1>4, <2>4 DEF Moved, Good
  <2>6. u.heap = c.heap
    <3>1. IsFiniteSet(DOMAIN <<old>>)
      BY OccOne
    <3>2. \A o, s : At(d, o, s) = At(m, o, s)
      BY <1>3 DEF At
    <3>3. ReleaseAll(d, <<old>>).heap = ReleaseAll(m, <<old>>).heap
      BY <1>2, <1>3, <2>5, <3>1, <3>2, ReleaseSame
    <3>. QED BY <2>1, <3>3 DEF Release
  <2>7. u.bindings = m.bindings /\ u.scopes = m.scopes /\ u.stray = m.stray /\ DOMAIN u = DOMAIN m
    <3>1. SameNames(m, u) /\ u.stray = m.stray
      BY <1>2, <2>1, WithoutFacts DEF Release, ReleaseAll
    <3>. QED BY <3>1 DEF SameNames
  <2>8. c.bindings = m.bindings /\ c.scopes = d.scopes /\ DOMAIN c = DOMAIN m
    BY <1>3, <2>4 DEF Same, SameNames
  <2>9. LastTo(m, c, t)
    BY <1>3, <2>8 DEF LastTo
  <2>10. Grows(m, c)
    BY <1>2, <1>4, <2>4, <2>5, GrowsMore DEF Moved
  <2>11. Cutting(m, u, c, n)
    BY <1>1, <1>4, <2>4, <2>5, <2>6, <2>7, <2>8, <2>9, <2>10 DEF Cutting
  <2>12. ASSUME NEW x \in Counted(m) PROVE Bal(c, x) = Bal(m, x)
    <3>1. Bal(m, x) \in Nat /\ Ind(old, x) \in Nat
      BY BalType DEF Ind
    <3>2. Bal(d, x) = Bal(m, x) + Ind(old, x) /\ Bal(c, x) = Bal(d, x) - Ind(old, x)
      BY <1>4, <2>2, <2>4
    <3>. QED BY <3>1, <3>2
  <2>13. Unbind(m, n) = u
    BY <1>6, <2>1 DEF Unbind
  <2>. QED BY <2>11, <2>12, <2>13
<1>. QED BY <1>5, <1>6

\* A good memory with the same scopes, but for the last, and more bindings.
Changed(m, p) ==
  /\ Good(p) /\ Grows(m, p) /\ Binds(m, p)
  /\ Len(p.scopes) = Len(m.scopes)
  /\ \A i \in 1 .. Len(m.scopes) : i # Len(m.scopes) => p.scopes[i] = m.scopes[i]
  /\ Counted(p) = Counted(m) /\ DOMAIN Local(m) \subseteq DOMAIN Local(p)

LEMMA RebindStep ==
  ASSUME NEW m, Good(m), OddTop(m), NEW n, NEW u, NEW c, Cutting(m, u, c, n),
         NEW p, p.heap = c.heap, DOMAIN p = DOMAIN m, Binds(m, p), p.stray \in BOOLEAN,
         IsSeq(p.bindings), \A k \in DOMAIN p.bindings : p.bindings[k] \in Addr(c),
         NEW b \in DOMAIN p.bindings, p.scopes = [m.scopes EXCEPT ![Len(m.scopes)] = Put(Local(m), n, b)],
         \A x \in Counted(m) : Bal(c, x) >= Ind(p.bindings[b], x)
  PROVE  /\ Changed(m, p) /\ n \in DOMAIN Local(p)
         /\ \A x \in Counted(m) : Bal(p, x) = Bal(c, x) - Ind(p.bindings[b], x)
<1>1. PICK L, t, r : L = Len(m.scopes) /\ t = Put(Local(m), n, b) /\ r = [k \in DOMAIN Local(m) \ {n} |-> Local(m)[k]]
  OBVIOUS
<1>2. /\ L \in Nat /\ L > 0 /\ DOMAIN m.scopes = 1 .. L
  BY <1>1, OddLen DEF Good
<1>3. /\ Good(c) /\ Grows(m, c) /\ Counted(c) = Counted(m) /\ c.bindings = m.bindings
      /\ DOMAIN c = DOMAIN m /\ LastTo(m, c, r)
  BY <1>1 DEF Cutting
<1>4. Local(c) = r /\ Len(c.scopes) = L /\ \A i \in 1 .. L : i # L => c.scopes[i] = m.scopes[i]
  BY <1>1, <1>3 DEF LastTo, Local
<1>5. Put(Local(c), n, b) = t
  <2>1. Put(r, n, b) = Put(Local(m), n, b)
    BY <1>1 DEF Put
  <2>. QED BY <1>1, <1>4, <2>1
<1>6. IsSeq(p.scopes) /\ Len(p.scopes) = L /\ p.scopes[L] = t
      /\ \A i \in 1 .. L : i # L => p.scopes[i] = m.scopes[i]
  <2>1. p.scopes = [m.scopes EXCEPT ![L] = t]
    BY <1>1
  <2>2. p.scopes = [i \in 1 .. L |-> p.scopes[i]]
    BY <1>2, <2>1
  <2>3. p.scopes[L] = t /\ \A i \in 1 .. L : i # L => p.scopes[i] = m.scopes[i]
    BY <1>2, <2>1
  <2>. QED BY <1>2, <2>2, <2>3, SeqMade
<1>7. LastTo(c, p, Put(Local(c), n, b))
  BY <1>4, <1>5, <1>6 DEF LastTo
<1>8. OddTop(c) /\ n \notin DOMAIN Local(c) /\ Binds(c, p) /\ DOMAIN p = DOMAIN c
  BY <1>1, <1>3, <1>4 DEF OddTop, Binds
<1>9. /\ Good(p) /\ Grows(c, p) /\ Counted(p) = Counted(c)
      /\ \A x \in Counted(c) : Bal(p, x) = Bal(c, x) - Ind(p.bindings[b], x)
  BY <1>3, <1>7, <1>8, PutStep
<1>10. Grows(m, p)
  BY <1>3, <1>9, GrowsMore DEF Good
<1>11. Local(p) = t
  BY <1>6 DEF Local
<1>12. n \in DOMAIN t /\ DOMAIN Local(m) \subseteq DOMAIN t
  BY <1>1 DEF Put
<1>13. Changed(m, p)
  BY <1>1, <1>3, <1>6, <1>9, <1>10, <1>11, <1>12 DEF Changed
<1>. QED BY <1>3, <1>9, <1>11, <1>12, <1>13

\* A name gets a new binding.
LEMMA FreshStep ==
  ASSUME NEW m, Good(m), OddTop(m), NEW n, NEW v, v \in Addr(m),
         \A x \in Counted(m) : Bal(m, x) >= Ind(v, x)
  PROVE  LET p == BindFresh(Unbind(m, n), n, v) IN
         /\ Changed(m, p) /\ n \in DOMAIN Local(p) /\ p.stray = m.stray /\ DOMAIN p = DOMAIN m
         /\ \A x \in Counted(m) : Bal(p, x) = Bal(m, x) - Ind(v, x)
<1>1. PICK u : u = Unbind(m, n)
  OBVIOUS
<1>2. PICK c : Cutting(m, u, c, n) /\ \A x \in Counted(m) : Bal(c, x) = Bal(m, x)
  BY <1>1, UnbindStep
<1>3. PICK B, p : B = Len(m.bindings) /\ p = BindFresh(u, n, v)
  OBVIOUS
<1>4. DOMAIN m = {"heap", "bindings", "scopes", "stray"} /\ m.stray \in BOOLEAN /\ IsSeq(m.bindings)
      /\ \A k \in DOMAIN m.bindings : m.bindings[k] \in Addr(m)
  BY DEF Good, Shape
<1>5. /\ u.bindings = m.bindings /\ u.scopes = m.scopes /\ u.stray = m.stray /\ DOMAIN u = DOMAIN m
      /\ u.heap = c.heap /\ Grows(m, c) /\ Shape(c)
  BY <1>2 DEF Cutting, Good
<1>6. Local(u) = Local(m) /\ Len(u.scopes) = Len(m.scopes) /\ Len(u.bindings) = B
  BY <1>3, <1>5 DEF Local
<1>7. /\ p.heap = c.heap /\ p.bindings = Append(m.bindings, v) /\ p.stray = m.stray /\ DOMAIN p = DOMAIN m
      /\ p.scopes = [m.scopes EXCEPT ![Len(m.scopes)] = Put(Local(m), n, B + 1)]
  <2>1. PICK q : q = [u EXCEPT !.bindings = Append(u.bindings, v)]
    OBVIOUS
  <2>2. q.heap = u.heap /\ q.bindings = Append(u.bindings, v) /\ q.scopes = u.scopes /\ q.stray = u.stray
        /\ DOMAIN q = DOMAIN u
    BY <1>4, <1>5, <2>1
  <2>3. p = [q EXCEPT !.scopes[Len(q.scopes)] = Put(Local(q), n, B + 1)]
    BY <1>3, <1>6, <2>1 DEF BindFresh, Rebind
  <2>4. Local(q) = Local(m)
    BY <1>5, <2>2 DEF Local
  <2>5. p.heap = q.heap /\ p.bindings = q.bindings /\ p.stray = q.stray /\ DOMAIN p = DOMAIN q
        /\ p.scopes = [q.scopes EXCEPT ![Len(q.scopes)] = Put(Local(m), n, B + 1)]
    BY <1>4, <1>5, <2>2, <2>3, <2>4
  <2>. QED BY <1>5, <2>2, <2>5
<1>8. /\ IsSeq(p.bindings) /\ B \in Nat /\ DOMAIN m.bindings = 1 .. B /\ DOMAIN p.bindings = 1 .. B + 1
      /\ p.bindings[B + 1] = v /\ \A k \in 1 .. B : p.bindings[k] = m.bindings[k]
  BY <1>3, <1>4, <1>7, SeqMore, SeqFacts
<1>9. Binds(m, p) /\ B + 1 \in DOMAIN p.bindings
  BY <1>8 DEF Binds
<1>10. Addr(m) \subseteq Addr(c)
  BY <1>5, Addresses DEF Grows, Good
<1>11. \A k \in DOMAIN p.bindings : p.bindings[k] \in Addr(c)
  <2>1. \A k \in 1 .. B + 1 : k \in 1 .. B \/ k = B + 1
    BY <1>8
  <2>. QED BY <1>4, <1>8, <1>10, <2>1
<1>12. \A x \in Counted(m) : Bal(c, x) >= Ind(p.bindings[B + 1], x)
  BY <1>2, <1>8
<1>13. /\ Changed(m, p) /\ n \in DOMAIN Local(p)
       /\ \A x \in Counted(m) : Bal(p, x) = Bal(c, x) - Ind(p.bindings[B + 1], x)
  <2>1. Cutting(m, u, c, n) /\ p.stray \in BOOLEAN
    BY <1>2, <1>4, <1>7
  <2>2. PICK b : b = B + 1
    OBVIOUS
  <2>3. p.scopes = [m.scopes EXCEPT ![Len(m.scopes)] = Put(Local(m), n, b)]
    BY <1>7, <2>2
  <2>4. b \in DOMAIN p.bindings /\ \A x \in Counted(m) : Bal(c, x) >= Ind(p.bindings[b], x)
    BY <1>9, <1>12, <2>2
  <2>5. p.heap = c.heap /\ DOMAIN p = DOMAIN m /\ Binds(m, p) /\ IsSeq(p.bindings)
        /\ \A k \in DOMAIN p.bindings : p.bindings[k] \in Addr(c)
    BY <1>7, <1>8, <1>9, <1>11
  <2>6. /\ Changed(m, p) /\ n \in DOMAIN Local(p)
        /\ \A x \in Counted(m) : Bal(p, x) = Bal(c, x) - Ind(p.bindings[b], x)
    BY <2>1, <2>3, <2>4, <2>5, RebindStep
  <2>. QED BY <2>2, <2>6
<1>. QED BY <1>1, <1>2, <1>3, <1>7, <1>8, <1>13

\* What m2 keeps of m: whatever lives because of C locals goes on living.
Follows(m, m2) ==
  Good(m2) /\ Grows(m, m2) /\ Binds(m, m2) /\ \A x \in Counted(m) : Bal(m2, x) >= Bal(m, x)

LEMMA FollowsMore ==
  ASSUME NEW m, NEW m2, NEW m3, Good(m), Follows(m, m2), Follows(m2, m3)
  PROVE  Follows(m, m3)
<1>1. Grows(m, m3)
  BY GrowsMore DEF Follows, Good
<1>2. Binds(m, m3)
  BY BindsMore DEF Follows
<1>3. ASSUME NEW x \in Counted(m) PROVE Bal(m3, x) >= Bal(m, x)
  <2>1. x \in Counted(m2)
    BY DEF Counted, Follows, Grows
  <2>2. Bal(m2, x) >= Bal(m, x) /\ Bal(m3, x) >= Bal(m2, x)
    BY <2>1 DEF Follows
  <2>3. Bal(m, x) \in Nat /\ Bal(m2, x) \in Nat /\ Bal(m3, x) \in Nat
    BY BalType DEF Follows
  <2>. QED BY <2>2, <2>3
<1>. QED BY <1>1, <1>2, <1>3 DEF Follows

\* Closures among the scopes have live values, whatever C locals do not own.
Secure(m) ==
  \A m2 : Follows(m, m2) =>
    \A i \in DOMAIN m.scopes \ OwnScopes(m) : \A k \in DOMAIN m.scopes[i] :
      m.bindings[m.scopes[i][k]] = NULL \/ Alive(m2, m.bindings[m.scopes[i][k]])

LEMMA SecureKept ==
  ASSUME NEW m, Good(m), Secure(m), NEW p, Follows(m, p), DOMAIN p.scopes = DOMAIN m.scopes,
         \A i \in DOMAIN m.scopes \ OwnScopes(m) : p.scopes[i] = m.scopes[i]
  PROVE  Secure(p)
<1>1. SUFFICES ASSUME NEW m2, Follows(p, m2), NEW i \in DOMAIN p.scopes \ OwnScopes(p), NEW k \in DOMAIN p.scopes[i]
               PROVE  p.bindings[p.scopes[i][k]] = NULL \/ Alive(m2, p.bindings[p.scopes[i][k]])
  BY DEF Secure
<1>2. Follows(m, m2)
  BY <1>1, FollowsMore
<1>3. i \in DOMAIN m.scopes \ OwnScopes(m)
  BY DEF OwnScopes
<1>4. p.scopes[i] = m.scopes[i] /\ k \in DOMAIN m.scopes[i]
  BY <1>3
<1>5. m.bindings[m.scopes[i][k]] = NULL \/ Alive(m2, m.bindings[m.scopes[i][k]])
  BY <1>2, <1>3, <1>4 DEF Secure
<1>6. m.scopes[i][k] \in DOMAIN m.bindings
  BY <1>3, <1>4 DEF Good, Shape, Table
<1>7. p.bindings[m.scopes[i][k]] = m.bindings[m.scopes[i][k]]
  BY <1>6 DEF Follows, Binds
<1>. QED BY <1>4, <1>5, <1>7

\* A name stands for its most local entry.
LEMMA FoundFacts ==
  ASSUME NEW m, Shape(m), NEW n
  PROVE  /\ Found(m, n) # NULL => /\ Found(m, n) \in DOMAIN m.bindings
                                  /\ \E i \in Holders(m, n) : /\ Found(m, n) = m.scopes[i][n]
                                                              /\ \A j \in Holders(m, n) : j <= i
         /\ Holders(m, n) # {} => Found(m, n) # NULL
<1>1. CASE Holders(m, n) = {}
  BY <1>1 DEF Found
<1>2. CASE Holders(m, n) # {}
  <2>1. PICK L, H : L = Len(m.scopes) /\ H = Holders(m, n)
    OBVIOUS
  <2>2. L \in Nat /\ DOMAIN m.scopes = 1 .. L
    BY <2>1, SeqFacts DEF Shape
  <2>3. H \subseteq 1 .. L /\ H # {}
    BY <1>2, <2>1, <2>2 DEF Holders
  <2>4. PICK S : S = {k \in Nat : L - k \in H}
    OBVIOUS
  <2>5. S # {}
    <3>1. PICK i \in H : TRUE
      BY <2>3
    <3>2. i \in 1 .. L
      BY <2>3
    <3>3. L - i \in Nat /\ L - (L - i) = i
      BY <2>2, <3>2
    <3>. QED BY <2>4, <3>3
  <2>6. PICK k \in S : \A j \in S : k <= j
    <3>1. S \in SUBSET Nat
      BY <2>4
    <3>. QED BY <2>5, <3>1, Least
  <2>7. L - k \in H /\ \A j \in H : j <= L - k
    <3>1. L - k \in H /\ k \in Nat
      BY <2>4
    <3>2. ASSUME NEW j \in H PROVE j <= L - k
      <4>1. j \in 1 .. L
        BY <2>3
      <4>2. L - j \in Nat /\ L - (L - j) = j
        BY <2>2, <4>1
      <4>3. L - j \in S
        BY <2>4, <4>2
      <4>4. k <= L - j
        BY <2>6, <4>3
      <4>. QED BY <2>2, <3>1, <4>1, <4>4
    <3>. QED BY <3>1, <3>2
  <2>8. PICK i : i = CHOOSE h \in H : \A j \in H : j <= h
    OBVIOUS
  <2>9. i \in H /\ \A j \in H : j <= i
    BY <2>7, <2>8
  <2>10. Found(m, n) = m.scopes[i][n]
    BY <1>2, <2>1, <2>8 DEF Found
  <2>11. i \in DOMAIN m.scopes /\ n \in DOMAIN m.scopes[i]
    BY <2>1, <2>9 DEF Holders
  <2>12. m.scopes[i][n] \in DOMAIN m.bindings
    BY <2>11 DEF Shape, Table
  <2>13. NULL \notin DOMAIN m.bindings
    <3>1. DOMAIN m.bindings = 1 .. Len(m.bindings) /\ Len(m.bindings) \in Nat
      BY SeqFacts DEF Shape
    <3>. QED BY <3>1 DEF NULL
  <2>. QED BY <2>1, <2>9, <2>10, <2>12, <2>13
<1>. QED BY <1>1, <1>2

\* The value of an alias lives when the entry that it replaces is gone.
LEMMA AliasAlive ==
  ASSUME NEW m, Good(m), OddTop(m), Secure(m), NEW n, NEW u, NEW c, Cutting(m, u, c, n),
         \A x \in Counted(m) : Bal(c, x) = Bal(m, x),
         NEW k, NEW b, b = Found(m, k), b # NULL, ~LastEntry(u, n, b)
  PROVE  m.bindings[b] = NULL \/ Alive(c, m.bindings[b])
<1>1. PICK L, r : L = Len(m.scopes) /\ r = [q \in DOMAIN Local(m) \ {n} |-> Local(m)[q]]
  OBVIOUS
<1>2. Shape(m) /\ L \in Nat /\ DOMAIN m.scopes = 1 .. L /\ L \in DOMAIN m.scopes /\ L \in OwnScopes(m)
      /\ Local(m) = m.scopes[L]
  BY <1>1, OddLen DEF Good
<1>3. /\ Good(c) /\ Grows(m, c) /\ c.bindings = m.bindings /\ c.heap = u.heap
      /\ u.scopes = m.scopes /\ LastTo(m, c, r)
  BY <1>1 DEF Cutting
<1>4. /\ IsSeq(c.scopes) /\ Len(c.scopes) = L /\ c.scopes[L] = r
      /\ \A i \in 1 .. L : i # L => c.scopes[i] = m.scopes[i]
  BY <1>1, <1>3 DEF LastTo
<1>5. DOMAIN c.scopes = 1 .. L
  BY <1>4, SeqFacts
<1>6. Shape(c) /\ \A a \in DOMAIN c.heap \ {Nil} : Balance(c, a) >= 0
  BY <1>3 DEF Good
<1>7. ASSUME NEW i \in OwnScopes(m), NEW q \in DOMAIN m.scopes[i], m.scopes[i][q] = b, i # L \/ q # n
      PROVE  m.bindings[b] = NULL \/ Alive(c, m.bindings[b])
  <2>1. i \in 1 .. L /\ i \in OwnScopes(c)
    BY <1>2, <1>5 DEF OwnScopes
  <2>2. q \in DOMAIN c.scopes[i] /\ c.scopes[i][q] = b
    <3>1. CASE i # L
      BY <1>4, <1>7, <2>1, <3>1
    <3>2. CASE i = L
      <4>1. q \in DOMAIN r /\ r[q] = b
        BY <1>1, <1>2, <1>7, <3>2
      <4>. QED BY <1>4, <3>2, <4>1
    <3>. QED BY <3>1, <3>2
  <2>3. c.bindings[c.scopes[i][q]] = NULL \/ Alive(c, c.bindings[c.scopes[i][q]])
    BY <1>6, <2>1, <2>2, ScopedAlive
  <2>. QED BY <1>3, <2>2, <2>3
<1>8. PICK i \in Holders(m, k) : b = m.scopes[i][k] /\ \A j \in Holders(m, k) : j <= i
  BY <1>2, FoundFacts
<1>9. i \in DOMAIN m.scopes /\ k \in DOMAIN m.scopes[i]
  BY DEF Holders
<1>10. CASE i \notin OwnScopes(m)
  <2>1. Follows(m, c)
    <3>1. \A x \in Counted(m) : Bal(c, x) >= Bal(m, x)
      <4>1. ASSUME NEW x \in Counted(m) PROVE Bal(c, x) >= Bal(m, x)
        BY BalType
      <4>. QED BY <4>1
    <3>2. Binds(m, c)
      BY <1>3 DEF Binds
    <3>. QED BY <1>3, <3>1, <3>2 DEF Follows
  <2>. QED BY <1>8, <1>9, <1>10, <2>1 DEF Secure
<1>11. CASE i \in OwnScopes(m) /\ (i # L \/ k # n)
  BY <1>7, <1>8, <1>9, <1>11
<1>12. CASE i = L /\ k = n
  <2>1. n \in DOMAIN Local(u) /\ Local(u)[n] = b
    BY <1>1, <1>2, <1>3, <1>8, <1>9, <1>12 DEF Local
  <2>2. Entries(u, b) # 1
    BY <2>1 DEF LastEntry
  <2>3. PICK se, ce : se = ScopeEntries(u, b) /\ ce = ClosureEntries(u, b)
    OBVIOUS
  <2>4. ce # {} \/ se # {<<L, n>>}
    <3>1. Cardinality({<<L, n>>}) = 1 /\ Cardinality({}) = 0
      BY FS_Singleton, FS_EmptySet
    <3>. QED BY <2>2, <2>3, <3>1 DEF Entries
  <2>5. OwnScopes(u) = OwnScopes(m)
    BY <1>3 DEF OwnScopes
  <2>6. \A p : p \in se <=> \E j \in OwnScopes(m) : \E q \in DOMAIN m.scopes[j] : p = <<j, q>> /\ m.scopes[j][q] = b
    <3>1. \A p : p \in DOMAIN ScopeRefs(u) <=>
                    \E j \in OwnScopes(u) : \E q \in DOMAIN u.scopes[j] : p = <<j, q>>
      BY ScopeFacts
    <3>2. DOMAIN ScopeRefs(u) = ScopePlaces(u)
      BY ScopeFacts
    <3>. QED BY <1>3, <2>3, <2>5, <3>1, <3>2 DEF ScopeEntries
  <2>7. <<L, n>> \in se
    BY <1>2, <1>8, <1>9, <1>12, <2>6
  <2>8. CASE se # {<<L, n>>}
    <3>1. PICK p \in se : p # <<L, n>>
      BY <2>7, <2>8
    <3>2. PICK j \in OwnScopes(m) : \E q \in DOMAIN m.scopes[j] : p = <<j, q>> /\ m.scopes[j][q] = b
      BY <2>6
    <3>3. PICK q \in DOMAIN m.scopes[j] : p = <<j, q>> /\ m.scopes[j][q] = b
      BY <3>2
    <3>. QED BY <1>7, <3>1, <3>3
  <2>9. CASE ce # {}
    <3>1. PICK p \in ce : TRUE
      BY <2>9
    <3>2. PICK h : h = u.heap
      OBVIOUS
    <3>3. p \in UNION {{a} \X DOMAIN h[a].closure : a \in DOMAIN h} /\ h[p[1]].closure[p[2]] = b
      BY <2>3, <3>1, <3>2 DEF ClosureEntries
    <3>4. PICK a \in DOMAIN h : p \in {a} \X DOMAIN h[a].closure
      BY <3>3
    <3>5. p[1] = a /\ p[2] \in DOMAIN h[a].closure
      BY <3>4
    <3>6. a \in DOMAIN c.heap /\ c.heap = h
      BY <1>3, <3>2, <3>4
    <3>7. \A q \in DOMAIN c.heap[a].closure :
            LET v == c.bindings[c.heap[a].closure[q]] IN v = NULL \/ Alive(c, v)
      BY <1>6, <3>6, OwnedAlive
    <3>. QED BY <1>3, <3>3, <3>5, <3>6, <3>7
  <2>. QED BY <2>4, <2>8, <2>9
<1>. QED BY <1>2, <1>10, <1>11, <1>12

LEMMA ChangedMore ==
  ASSUME NEW m, NEW p, NEW q, Good(m), Changed(m, p), Changed(p, q)
  PROVE  Changed(m, q)
<1>1. Good(p) /\ Good(q) /\ Grows(m, q)
  BY GrowsMore DEF Changed, Good
<1>2. Binds(m, q)
  BY BindsMore DEF Changed
<1>. QED BY <1>1, <1>2 DEF Changed

LEMMA MovedChanged ==
  ASSUME NEW m, NEW p, Moved(m, p), p.bindings = m.bindings, Counted(p) = Counted(m)
  PROVE  Changed(m, p)
<1>1. Binds(m, p) /\ Local(p) = Local(m)
  BY DEF Moved, Binds, Local
<1>. QED BY <1>1 DEF Changed, Moved

\* References are retained in both memories.
LEMMA CuttingRetain ==
  ASSUME NEW m, Good(m), NEW u, NEW c, NEW n, Cutting(m, u, c, n), NEW v, v = NULL \/ Alive(c, v)
  PROVE  /\ Cutting(m, Retain(u, v), Retain(c, v), n)
         /\ \A x \in Counted(m) : Bal(Retain(c, v), x) = Bal(c, x) + Ind(v, x)
<1>1. PICK u1, c1 : u1 = Retain(u, v) /\ c1 = Retain(c, v)
  OBVIOUS
<1>2. Good(c)
  BY DEF Cutting
<1>3. /\ Moved(c, c1) /\ Same(c, c1) /\ Counted(c1) = Counted(c)
      /\ \A x \in Counted(c) : Bal(c1, x) = Bal(c, x) + Ind(v, x)
  BY <1>1, <1>2, RetainStep
<1>4. DOMAIN m = {"heap", "bindings", "scopes", "stray"}
  BY DEF Good, Shape
<1>5. DOMAIN u = DOMAIN m /\ DOMAIN c = DOMAIN m /\ c.heap = u.heap
  BY DEF Cutting
<1>6. PICK h, f : h = c.heap /\ f = [x \in DOMAIN h |-> Occurrences(<<v>>, x)]
  OBVIOUS
<1>7. c1.heap = [x \in DOMAIN h |-> IF x = Nil THEN h[x] ELSE [h[x] EXCEPT !.count = h[x].count + Occurrences(<<v>>, x)]]
  BY <1>1, <1>4, <1>5, <1>6 DEF Retain, RetainAll
<1>8. u1.heap = [x \in DOMAIN h |-> IF x = Nil THEN h[x] ELSE [h[x] EXCEPT !.count = h[x].count + Occurrences(<<v>>, x)]]
  BY <1>1, <1>4, <1>5, <1>6 DEF Retain, RetainAll
<1>9. u1.bindings = u.bindings /\ u1.scopes = u.scopes /\ u1.stray = u.stray /\ DOMAIN u1 = DOMAIN u
  BY <1>1, <1>4, <1>5 DEF Retain, RetainAll
<1>10. c1.bindings = c.bindings /\ c1.scopes = c.scopes /\ DOMAIN c1 = DOMAIN c
  BY <1>3 DEF Same, SameNames
<1>11. Grows(m, c1) /\ Good(c1)
  BY <1>2, <1>3, GrowsMore DEF Moved, Good, Cutting
<1>12. c1.heap = u1.heap
  BY <1>7, <1>8
<1>13. Cutting(m, u1, c1, n)
  BY <1>3, <1>9, <1>10, <1>11, <1>12 DEF Cutting, LastTo
<1>. QED BY <1>1, <1>3, <1>13 DEF Cutting

\* The fields of a memory, also of one where something has gone wrong.
Rec(m) == DOMAIN m = {"heap", "bindings", "scopes", "stray"}

LEMMA RetainRec ==
  ASSUME NEW m, Rec(m), NEW a
  PROVE  /\ Rec(Retain(m, a)) /\ Retain(m, a).stray = m.stray /\ Retain(m, a).bindings = m.bindings
         /\ Retain(m, a).scopes = m.scopes
  BY DEF Rec, Retain, RetainAll

LEMMA ReleaseRec ==
  ASSUME NEW m, Rec(m), NEW a
  PROVE  Rec(Release(m, a)) /\ Release(m, a).stray = m.stray
  BY DEF Rec, Release, ReleaseAll, Without

LEMMA UnbindRec ==
  ASSUME NEW m, Rec(m), NEW n
  PROVE  Rec(Unbind(m, n)) /\ Unbind(m, n).stray = m.stray
  BY ReleaseRec DEF Unbind

LEMMA RebindRec ==
  ASSUME NEW m, Rec(m), NEW n, NEW b
  PROVE  Rec(Rebind(m, n, b)) /\ Rebind(m, n, b).stray = m.stray
  BY DEF Rec, Rebind

LEMMA BindFreshRec ==
  ASSUME NEW m, Rec(m), NEW n, NEW v
  PROVE  Rec(BindFresh(m, n, v)) /\ BindFresh(m, n, v).stray = m.stray
<1>1. PICK q : q = [m EXCEPT !.bindings = Append(m.bindings, v)]
  OBVIOUS
<1>2. Rec(q) /\ q.stray = m.stray
  BY <1>1 DEF Rec
<1>3. BindFresh(m, n, v) = Rebind(q, n, Len(m.bindings) + 1)
  BY <1>1 DEF BindFresh
<1>. QED BY <1>2, <1>3, RebindRec

LEMMA BindAliasRec ==
  ASSUME NEW m, Rec(m), NEW n, NEW b
  PROVE  Rec(BindAlias(m, n, b)) /\ BindAlias(m, n, b).stray = (m.stray \/ LastEntry(m, n, b))
<1>1. PICK q : q = Rebind(Retain(m, m.bindings[b]), n, b)
  OBVIOUS
<1>2. Rec(q) /\ q.stray = m.stray
  BY <1>1, RetainRec, RebindRec
<1>3. BindAlias(m, n, b) = [q EXCEPT !.stray = q.stray \/ LastEntry(m, n, b)]
  BY <1>1 DEF BindAlias
<1>. QED BY <1>2, <1>3 DEF Rec

\* Once a memory has gone astray, it stays so.
LEMMA RegisterRec ==
  ASSUME NEW m, Rec(m), NEW n, NEW a
  PROVE  Rec(Register(m, n, a)) /\ (m.stray = TRUE => Register(m, n, a).stray = TRUE)
<1>1. PICK to, own, token : /\ to = Entry(m, Named(m, a)) /\ own = (OwnName(m, n, a) /\ n \notin DOMAIN Local(m))
                            /\ token = (Type(m, a) = "token" /\ Named(m, a) = "undefined")
  OBVIOUS
<1>2. PICK p1, p2, p3, p4 :
        /\ p1 = [m EXCEPT !.stray = TRUE]
        /\ p2 = Release(BindAlias(Unbind(Retain(m, a), n), n, to), a)
        /\ p3 = BindFresh(Unbind(m, n), n, NULL)
        /\ p4 = BindFresh(Unbind(Retain(m, a), n), n, a)
  OBVIOUS
<1>3. Register(m, n, a) \in {p1, p2, p3, p4}
  <2>1. Register(m, n, a) = CASE own -> p1 [] ~own /\ to # NULL -> p2 [] token -> p3 [] OTHER -> p4
    BY <1>1, <1>2 DEF Register
  <2>. QED BY <2>1
<1>4. Rec(p1) /\ p1.stray = TRUE
  BY <1>2 DEF Rec
<1>5. Rec(p2) /\ (m.stray = TRUE => p2.stray = TRUE)
  <2>1. PICK u, q : u = Unbind(Retain(m, a), n) /\ q = BindAlias(u, n, to)
    OBVIOUS
  <2>2. Rec(u) /\ u.stray = m.stray
    BY <2>1, RetainRec, UnbindRec
  <2>3. Rec(q) /\ q.stray = (u.stray \/ LastEntry(u, n, to))
    BY <2>1, <2>2, BindAliasRec
  <2>4. Rec(p2) /\ p2.stray = q.stray
    BY <1>2, <2>1, <2>3, ReleaseRec
  <2>5. m.stray = TRUE => (u.stray \/ LastEntry(u, n, to)) = TRUE
    BY <2>2
  <2>. QED BY <2>3, <2>4, <2>5
<1>6. Rec(p3) /\ p3.stray = m.stray
  BY <1>2, UnbindRec, BindFreshRec
<1>7. Rec(p4) /\ p4.stray = m.stray
  BY <1>2, RetainRec, UnbindRec, BindFreshRec
<1>. QED BY <1>3, <1>4, <1>5, <1>6, <1>7

\* Nothing has gone wrong.
Straight(m) == m.stray # TRUE

\* A name gets the binding of a variable.
LEMMA AliasStep ==
  ASSUME NEW m, Good(m), OddTop(m), Secure(m), NEW n, NEW a, a = NULL \/ Alive(m, a),
         NEW k, NEW to, to = Found(m, k), to # NULL,
         NEW p, p = Release(BindAlias(Unbind(Retain(m, a), n), n, to), a), Straight(p)
  PROVE  /\ Changed(m, p) /\ n \in DOMAIN Local(p)
         /\ \A x \in Counted(m) : Bal(p, x) = Bal(m, x)
<1>1. PICK m1, u, v : m1 = Retain(m, a) /\ u = Unbind(m1, n) /\ v = m.bindings[to]
  OBVIOUS
<1>2. /\ Moved(m, m1) /\ Same(m, m1) /\ Counted(m1) = Counted(m)
      /\ \A x \in Counted(m) : Bal(m1, x) = Bal(m, x) + Ind(a, x)
  BY <1>1, RetainStep
<1>3. Good(m1) /\ m1.bindings = m.bindings /\ m1.scopes = m.scopes /\ DOMAIN m1 = DOMAIN m /\ Grows(m, m1)
      /\ Local(m1) = Local(m)
  BY <1>2 DEF Moved, Same, SameNames, Local
<1>4. OddTop(m1)
  BY <1>3 DEF OddTop
<1>5. PICK c : Cutting(m1, u, c, n) /\ \A x \in Counted(m1) : Bal(c, x) = Bal(m1, x)
  BY <1>1, <1>3, <1>4, UnbindStep
<1>6. Rec(m) /\ Rec(m1) /\ Rec(u) /\ u.bindings = m.bindings /\ u.scopes = m.scopes /\ u.stray = m1.stray
      /\ m1.stray \in BOOLEAN
  BY <1>3, <1>5 DEF Rec, Good, Shape, Cutting
<1>7. PICK w, w2, q : w = Retain(u, v) /\ w2 = Rebind(w, n, to) /\ q = [w2 EXCEPT !.stray = w2.stray \/ LastEntry(u, n, to)]
  OBVIOUS
<1>8. q = BindAlias(u, n, to) /\ p = Release(q, a)
  BY <1>1, <1>6, <1>7 DEF BindAlias
<1>9. Rec(w) /\ w.stray = m1.stray /\ w.bindings = m.bindings /\ w.scopes = m.scopes
  BY <1>6, <1>7, RetainRec
<1>10. Rec(w2) /\ w2.heap = w.heap /\ w2.bindings = m.bindings /\ w2.stray = w.stray
       /\ w2.scopes = [m.scopes EXCEPT ![Len(m.scopes)] = Put(Local(m), n, to)]
  <2>1. Local(w) = Local(m)
    BY <1>9 DEF Local
  <2>2. w2 = [w EXCEPT !.scopes[Len(w.scopes)] = Put(Local(m), n, to)]
    BY <1>7, <2>1 DEF Rebind
  <2>. QED BY <1>9, <2>2 DEF Rec
<1>11. Rec(q) /\ q.heap = w.heap /\ q.bindings = m.bindings /\ q.scopes = w2.scopes
       /\ q.stray = (w2.stray \/ LastEntry(u, n, to))
  BY <1>7, <1>10 DEF Rec
<1>12. p.stray = q.stray
  BY <1>8, <1>11, ReleaseRec
<1>13. ~LastEntry(u, n, to) /\ q.stray \in BOOLEAN
  BY <1>11, <1>12 DEF Straight
<1>14. v = NULL \/ Alive(c, v)
  <2>1. Follows(m, m1)
    <3>1. ASSUME NEW x \in Counted(m) PROVE Bal(m1, x) >= Bal(m, x)
      <4>1. Bal(m, x) \in Nat /\ Ind(a, x) \in Nat /\ Bal(m1, x) = Bal(m, x) + Ind(a, x)
        BY <1>2, BalType DEF Ind
      <4>. QED BY <4>1
    <3>2. Binds(m, m1)
      BY <1>3 DEF Binds
    <3>. QED BY <1>3, <3>1, <3>2 DEF Follows
  <2>2. Secure(m1)
    BY <1>3, <2>1, SecureKept
  <2>3. Found(m1, k) = to
    BY <1>3 DEF Found, Holders
  <2>4. m1.bindings[to] = NULL \/ Alive(c, m1.bindings[to])
    BY <1>3, <1>4, <1>5, <1>13, <2>2, <2>3, AliasAlive
  <2>. QED BY <1>1, <1>3, <2>4
<1>15. PICK c1 : c1 = Retain(c, v)
  OBVIOUS
<1>16. Cutting(m1, w, c1, n) /\ \A x \in Counted(m1) : Bal(c1, x) = Bal(c, x) + Ind(v, x)
  BY <1>3, <1>5, <1>7, <1>14, <1>15, CuttingRetain
<1>17. Good(c) /\ Good(c1) /\ c1.heap = w.heap /\ Grows(m1, c1)
  BY <1>5, <1>16 DEF Cutting
<1>18. ASSUME NEW x \in Counted(m1) PROVE Bal(c1, x) >= Ind(v, x) /\ Bal(c1, x) = Bal(m1, x) + Ind(v, x)
  <2>1. Bal(c, x) \in Nat /\ Ind(v, x) \in Nat /\ Bal(c1, x) = Bal(c, x) + Ind(v, x) /\ Bal(c, x) = Bal(m1, x)
    BY <1>5, <1>16, <1>17, BalType DEF Ind
  <2>. QED BY <2>1
<1>19. to \in DOMAIN m.bindings
  BY FoundFacts DEF Good
<1>20. /\ Changed(m1, q) /\ n \in DOMAIN Local(q)
       /\ \A x \in Counted(m1) : Bal(q, x) = Bal(c1, x) - Ind(q.bindings[to], x)
  <2>1. IsSeq(q.bindings) /\ \A j \in DOMAIN q.bindings : q.bindings[j] \in Addr(c1)
    <3>1. Addr(m1) \subseteq Addr(c1)
      BY <1>3, <1>17, Addresses DEF Good, Grows
    <3>. QED BY <1>3, <1>11, <3>1 DEF Good, Shape
  <2>2. Binds(m1, q) /\ to \in DOMAIN q.bindings /\ DOMAIN q = DOMAIN m1
    BY <1>3, <1>6, <1>11, <1>19 DEF Binds, Rec
  <2>3. \A x \in Counted(m1) : Bal(c1, x) >= Ind(q.bindings[to], x)
    BY <1>1, <1>11, <1>18
  <2>4. q.scopes = [m1.scopes EXCEPT ![Len(m1.scopes)] = Put(Local(m1), n, to)]
    BY <1>3, <1>10, <1>11
  <2>5. q.heap = c1.heap
    BY <1>11, <1>17
  <2>. QED BY <1>3, <1>4, <1>13, <1>16, <2>1, <2>2, <2>3, <2>4, <2>5, RebindStep
<1>21. ASSUME NEW x \in Counted(m)
       PROVE  Bal(q, x) = Bal(m, x) + Ind(a, x) /\ Bal(m, x) \in Nat /\ Ind(a, x) \in Nat
  <2>1. Bal(q, x) = Bal(c1, x) - Ind(v, x) /\ Bal(c1, x) = Bal(m1, x) + Ind(v, x)
    BY <1>1, <1>2, <1>11, <1>18, <1>20
  <2>2. Bal(m1, x) = Bal(m, x) + Ind(a, x)
    BY <1>2
  <2>3. Bal(m, x) \in Nat /\ Ind(a, x) \in Nat /\ Ind(v, x) \in Nat
    BY BalType DEF Ind
  <2>. QED BY <2>1, <2>2, <2>3
<1>22. Good(q) /\ Counted(q) = Counted(m)
  BY <1>2, <1>20 DEF Changed
<1>23. /\ Moved(q, p) /\ Same(q, p) /\ Counted(p) = Counted(q)
       /\ \A x \in Counted(q) : Bal(p, x) = Bal(q, x) - Ind(a, x)
  <2>1. \A x \in Counted(q) : Bal(q, x) >= Ind(a, x)
    BY <1>21, <1>22
  <2>2. /\ Moved(q, Release(q, a)) /\ Same(q, Release(q, a)) /\ Counted(Release(q, a)) = Counted(q)
        /\ \A x \in Counted(q) : Bal(Release(q, a), x) = Bal(q, x) - Ind(a, x)
    BY <1>22, <2>1, ReleaseStep
  <2>. QED BY <1>8, <2>2
<1>24. p.bindings = q.bindings /\ Local(p) = Local(q)
  BY <1>23 DEF Same, SameNames, Moved, Local
<1>25. Changed(m, p)
  <2>1. Changed(m, m1)
    BY <1>2, <1>3, MovedChanged
  <2>2. Changed(q, p)
    BY <1>23, <1>24, MovedChanged
  <2>. QED BY <1>3, <1>20, <2>1, <2>2, ChangedMore
<1>26. ASSUME NEW x \in Counted(m) PROVE Bal(p, x) = Bal(m, x)
  BY <1>21, <1>22, <1>23
<1>. QED BY <1>20, <1>24, <1>25, <1>26

LEMMA RegisterStep ==
  ASSUME NEW m, Good(m), OddTop(m), Secure(m), NEW n, NEW a, a = NULL \/ Alive(m, a),
         NEW p, p = Register(m, n, a), Straight(p)
  PROVE  /\ Changed(m, p) /\ n \in DOMAIN Local(p)
         /\ \A x \in Counted(m) : Bal(p, x) = Bal(m, x)
<1>1. PICK to, own, token : /\ to = Entry(m, Named(m, a)) /\ own = (OwnName(m, n, a) /\ n \notin DOMAIN Local(m))
                            /\ token = (Type(m, a) = "token" /\ Named(m, a) = "undefined")
  OBVIOUS
<1>2. PICK p1, p2, p3, p4 :
        /\ p1 = [m EXCEPT !.stray = TRUE]
        /\ p2 = Release(BindAlias(Unbind(Retain(m, a), n), n, to), a)
        /\ p3 = BindFresh(Unbind(m, n), n, NULL)
        /\ p4 = BindFresh(Unbind(Retain(m, a), n), n, a)
  OBVIOUS
<1>3. p = p1 \/ (p = p2 /\ to # NULL) \/ p = p3 \/ p = p4
  <2>1. Register(m, n, a) = CASE own -> p1 [] ~own /\ to # NULL -> p2 [] token -> p3 [] OTHER -> p4
    BY <1>1, <1>2 DEF Register
  <2>. QED BY <2>1
<1>4. p # p1
  <2>1. p1.stray = TRUE
    BY <1>2 DEF Good, Shape
  <2>. QED BY <2>1 DEF Straight
<1>5. NULL \in Addr(m) /\ a \in Addr(m) /\ Shape(m)
  BY Addresses DEF Good, Alive
<1>6. CASE p = p2 /\ to # NULL
  <2>1. to = Found(m, Named(m, a))
    BY <1>1, <1>6 DEF Entry
  <2>2. PICK k : k = Named(m, a)
    OBVIOUS
  <2>3. to = Found(m, k) /\ to # NULL /\ p = Release(BindAlias(Unbind(Retain(m, a), n), n, to), a)
    BY <1>2, <1>6, <2>1, <2>2
  <2>. QED BY <2>3, AliasStep
<1>7. CASE p = p3
  <2>1. ASSUME NEW x \in Counted(m) PROVE Bal(m, x) >= Ind(NULL, x) /\ Ind(NULL, x) = 0 /\ Bal(m, x) \in Nat
    <3>1. x # NULL /\ Bal(m, x) \in Nat
      BY <1>5, Addresses, BalType DEF Counted
    <3>. QED BY <3>1 DEF Ind
  <2>2. /\ Changed(m, p) /\ n \in DOMAIN Local(p)
        /\ \A x \in Counted(m) : Bal(p, x) = Bal(m, x) - Ind(NULL, x)
    BY <1>2, <1>5, <1>7, <2>1, FreshStep
  <2>. QED BY <2>1, <2>2
<1>8. CASE p = p4
  <2>1. PICK m1 : m1 = Retain(m, a)
    OBVIOUS
  <2>2. /\ Moved(m, m1) /\ Same(m, m1) /\ Counted(m1) = Counted(m)
        /\ \A x \in Counted(m) : Bal(m1, x) = Bal(m, x) + Ind(a, x)
    BY <2>1, RetainStep
  <2>3. Good(m1) /\ m1.bindings = m.bindings /\ m1.scopes = m.scopes /\ Grows(m, m1)
    BY <2>2 DEF Moved, Same, SameNames
  <2>4. OddTop(m1) /\ a \in Addr(m1)
    <3>1. Addr(m) \subseteq Addr(m1)
      BY <1>5, <2>3, Addresses DEF Good, Grows
    <3>. QED BY <1>5, <2>3, <3>1 DEF OddTop
  <2>5. ASSUME NEW x \in Counted(m)
        PROVE  Bal(m1, x) >= Ind(a, x) /\ Bal(m, x) \in Nat /\ Ind(a, x) \in Nat
               /\ Bal(m1, x) = Bal(m, x) + Ind(a, x)
    <3>1. Bal(m, x) \in Nat /\ Ind(a, x) \in Nat /\ Bal(m1, x) = Bal(m, x) + Ind(a, x)
      BY <2>2, BalType DEF Ind
    <3>. QED BY <3>1
  <2>6. /\ Changed(m1, p) /\ n \in DOMAIN Local(p)
        /\ \A x \in Counted(m1) : Bal(p, x) = Bal(m1, x) - Ind(a, x)
    BY <1>2, <1>8, <2>1, <2>2, <2>3, <2>4, <2>5, FreshStep
  <2>7. Changed(m, p)
    BY <2>2, <2>3, <2>6, MovedChanged, ChangedMore
  <2>8. ASSUME NEW x \in Counted(m) PROVE Bal(p, x) = Bal(m, x)
    <3>1. Bal(p, x) = Bal(m1, x) - Ind(a, x)
      BY <2>2, <2>6
    <3>. QED BY <2>5, <3>1
  <2>. QED BY <2>6, <2>7, <2>8
<1>. QED BY <1>3, <1>4, <1>6, <1>7, <1>8

\* Objects that are not freed keep their properties.
Whole(m) == \A x \in DOMAIN m.heap : DOMAIN m.heap[x] = Fields
Fixed(m, p) ==
  /\ DOMAIN p.heap = DOMAIN m.heap
  /\ \A x \in DOMAIN m.heap :
       /\ DOMAIN p.heap[x] = Fields
       /\ p.heap[x].type # "gone" => m.heap[x].type # "gone" /\ p.heap[x].props = m.heap[x].props

LEMMA FixedMore ==
  ASSUME NEW m, NEW p, NEW q, Fixed(m, p), Fixed(p, q)
  PROVE  Fixed(m, q) /\ Whole(p) /\ Whole(q)
  BY DEF Fixed, Whole

LEMMA FixedSelf ==
  ASSUME NEW m, Whole(m), NEW p, p.heap = m.heap
  PROVE  Fixed(m, p) /\ Whole(p)
  BY DEF Fixed, Whole

LEMMA RetainFixed ==
  ASSUME NEW m, Rec(m), Whole(m), NEW a
  PROVE  Fixed(m, Retain(m, a)) /\ Whole(Retain(m, a))
<1>1. PICK refs, h : /\ refs = <<a>>
                     /\ h = [x \in DOMAIN m.heap |->
                               IF x = Nil THEN m.heap[x] ELSE [m.heap[x] EXCEPT !.count = @ + Occurrences(refs, x)]]
  OBVIOUS
<1>2. Retain(m, a) = [m EXCEPT !.heap = h]
  BY <1>1 DEF Retain, RetainAll
<1>3. Retain(m, a).heap = h
  BY <1>2 DEF Rec
<1>4. ASSUME NEW x \in DOMAIN m.heap
      PROVE  DOMAIN h[x] = Fields /\ h[x].type = m.heap[x].type /\ h[x].props = m.heap[x].props
  BY <1>1 DEF Whole, Fields
<1>5. DOMAIN h = DOMAIN m.heap
  BY <1>1
<1>. QED BY <1>3, <1>4, <1>5 DEF Fixed, Whole

LEMMA ReleaseFixed ==
  ASSUME NEW m, Rec(m), Whole(m), NEW a
  PROVE  Fixed(m, Release(m, a)) /\ Whole(Release(m, a))
<1>1. PICK refs, D, h :
        /\ refs = <<a>> /\ D = Dead(m, refs)
        /\ h = [x \in DOMAIN m.heap |->
                  IF x = Nil THEN m.heap[x] ELSE IF x \in D THEN Gone
                  ELSE [m.heap[x] EXCEPT !.count = @ - Drops(m, refs, D, x)]]
  OBVIOUS
<1>2. Release(m, a) = [m EXCEPT !.heap = h]
  BY <1>1 DEF Release, ReleaseAll, Without
<1>3. Release(m, a).heap = h
  BY <1>2 DEF Rec
<1>4. ASSUME NEW x \in DOMAIN m.heap
      PROVE  /\ DOMAIN h[x] = Fields
             /\ h[x].type # "gone" => h[x].type = m.heap[x].type /\ h[x].props = m.heap[x].props
  <2>1. CASE x # Nil /\ x \in D
    BY <1>1, <2>1, GoneFacts
  <2>2. CASE x = Nil \/ x \notin D
    BY <1>1, <2>2 DEF Whole, Fields
  <2>. QED BY <2>1, <2>2
<1>5. DOMAIN h = DOMAIN m.heap
  BY <1>1
<1>. QED BY <1>3, <1>4, <1>5 DEF Fixed, Whole

LEMMA UnbindFixed ==
  ASSUME NEW m, Rec(m), Whole(m), NEW n
  PROVE  Fixed(m, Unbind(m, n)) /\ Whole(Unbind(m, n))
  BY ReleaseFixed, FixedSelf DEF Unbind

LEMMA RebindHeap ==
  ASSUME NEW m, Rec(m), NEW n, NEW b
  PROVE  Rebind(m, n, b).heap = m.heap
  BY DEF Rec, Rebind

LEMMA BindFreshHeap ==
  ASSUME NEW m, Rec(m), NEW n, NEW v
  PROVE  BindFresh(m, n, v).heap = m.heap
<1>1. PICK q : q = [m EXCEPT !.bindings = Append(m.bindings, v)]
  OBVIOUS
<1>2. Rec(q) /\ q.heap = m.heap
  BY <1>1 DEF Rec
<1>3. BindFresh(m, n, v) = Rebind(q, n, Len(m.bindings) + 1)
  BY <1>1 DEF BindFresh
<1>. QED BY <1>2, <1>3, RebindHeap

LEMMA BindAliasFixed ==
  ASSUME NEW m, Rec(m), Whole(m), NEW n, NEW b
  PROVE  Fixed(m, BindAlias(m, n, b)) /\ Whole(BindAlias(m, n, b))
<1>1. PICK r, q : r = Retain(m, m.bindings[b]) /\ q = Rebind(r, n, b)
  OBVIOUS
<1>2. Rec(r) /\ Rec(q) /\ q.heap = r.heap /\ Fixed(m, r) /\ Whole(r)
  BY <1>1, RetainRec, RebindRec, RebindHeap, RetainFixed
<1>3. BindAlias(m, n, b) = [q EXCEPT !.stray = q.stray \/ LastEntry(m, n, b)]
  BY <1>1 DEF BindAlias
<1>4. BindAlias(m, n, b).heap = r.heap
  BY <1>2, <1>3 DEF Rec
<1>. QED BY <1>2, <1>4, FixedSelf, FixedMore

LEMMA RegisterFixed ==
  ASSUME NEW m, Rec(m), Whole(m), NEW n, NEW a
  PROVE  Fixed(m, Register(m, n, a)) /\ Whole(Register(m, n, a))
<1>1. PICK to, own, token : /\ to = Entry(m, Named(m, a)) /\ own = (OwnName(m, n, a) /\ n \notin DOMAIN Local(m))
                            /\ token = (Type(m, a) = "token" /\ Named(m, a) = "undefined")
  OBVIOUS
<1>2. PICK p1, p2, p3, p4 :
        /\ p1 = [m EXCEPT !.stray = TRUE]
        /\ p2 = Release(BindAlias(Unbind(Retain(m, a), n), n, to), a)
        /\ p3 = BindFresh(Unbind(m, n), n, NULL)
        /\ p4 = BindFresh(Unbind(Retain(m, a), n), n, a)
  OBVIOUS
<1>3. Register(m, n, a) \in {p1, p2, p3, p4}
  <2>1. Register(m, n, a) = CASE own -> p1 [] ~own /\ to # NULL -> p2 [] token -> p3 [] OTHER -> p4
    BY <1>1, <1>2 DEF Register
  <2>. QED BY <2>1
<1>4. Fixed(m, p1) /\ Whole(p1)
  <2>1. p1.heap = m.heap
    BY <1>2 DEF Rec
  <2>. QED BY <2>1, FixedSelf
<1>5. PICK r, u : r = Retain(m, a) /\ u = Unbind(r, n)
  OBVIOUS
<1>6. Rec(r) /\ Rec(u) /\ Fixed(m, r) /\ Whole(r) /\ Fixed(r, u) /\ Whole(u) /\ Fixed(m, u)
  BY <1>5, RetainRec, UnbindRec, RetainFixed, UnbindFixed, FixedMore
<1>7. Fixed(m, p2) /\ Whole(p2)
  <2>1. PICK q : q = BindAlias(u, n, to)
    OBVIOUS
  <2>2. Rec(q) /\ Fixed(u, q) /\ Whole(q)
    BY <1>6, <2>1, BindAliasRec, BindAliasFixed
  <2>3. Fixed(q, p2) /\ Whole(p2)
    BY <1>2, <1>5, <2>1, <2>2, ReleaseFixed
  <2>. QED BY <1>6, <2>2, <2>3, FixedMore
<1>8. Fixed(m, p3) /\ Whole(p3)
  <2>1. PICK q : q = Unbind(m, n)
    OBVIOUS
  <2>2. Rec(q) /\ Fixed(m, q) /\ Whole(q)
    BY <2>1, UnbindRec, UnbindFixed
  <2>3. p3.heap = q.heap
    BY <1>2, <2>1, <2>2, BindFreshHeap
  <2>. QED BY <2>2, <2>3, FixedSelf, FixedMore
<1>9. Fixed(m, p4) /\ Whole(p4)
  <2>1. p4.heap = u.heap
    BY <1>2, <1>5, <1>6, BindFreshHeap
  <2>. QED BY <1>6, <2>1, FixedSelf, FixedMore
<1>. QED BY <1>3, <1>4, <1>7, <1>8, <1>9

LEMMA FixedAlive ==
  ASSUME NEW m, NEW p, Good(p), Fixed(m, p), NEW x \in DOMAIN m.heap, Alive(p, x)
  PROVE  p.heap[x].props = m.heap[x].props
<1>1. Kind(p, p.heap[x])
  BY DEF Good
<1>2. p.heap[x].type # "gone"
  BY <1>1 DEF Kind
<1>. QED BY <1>2 DEF Fixed

\* Names have been registered, one after the other.
Settled(m, p) == Changed(m, p) /\ Fixed(m, p) /\ \A x \in Counted(m) : Bal(p, x) = Bal(m, x)

LEMMA SettledFollows ==
  ASSUME NEW m, Good(m), NEW p, Settled(m, p)
  PROVE  Follows(m, p)
<1>1. ASSUME NEW x \in Counted(m) PROVE Bal(p, x) >= Bal(m, x)
  <2>1. Bal(m, x) \in Nat /\ Bal(p, x) = Bal(m, x)
    BY BalType DEF Settled
  <2>. QED BY <2>1
<1>. QED BY <1>1 DEF Settled, Changed, Follows

LEMMA SettledMore ==
  ASSUME NEW m, NEW p, NEW q, Good(m), Settled(m, p), Settled(p, q)
  PROVE  Settled(m, q)
<1>1. Changed(m, q) /\ Counted(p) = Counted(m)
  BY ChangedMore DEF Settled, Changed
<1>2. Fixed(m, q)
  BY FixedMore DEF Settled
<1>. QED BY <1>1, <1>2 DEF Settled

\* The closures among the scopes stay where they are.
LEMMA SettledSecure ==
  ASSUME NEW m, Good(m), OddTop(m), Secure(m), NEW p, Settled(m, p)
  PROVE  Secure(p) /\ OddTop(p)
<1>1. /\ Good(p) /\ Len(p.scopes) = Len(m.scopes)
      /\ \A i \in 1 .. Len(m.scopes) : i # Len(m.scopes) => p.scopes[i] = m.scopes[i]
  BY DEF Settled, Changed
<1>2. DOMAIN m.scopes = 1 .. Len(m.scopes) /\ DOMAIN p.scopes = 1 .. Len(p.scopes) /\ Len(m.scopes) \in OwnScopes(m)
  BY <1>1, OddLen, SeqFacts DEF Good, Shape
<1>3. Follows(m, p)
  BY SettledFollows
<1>4. \A i \in DOMAIN m.scopes \ OwnScopes(m) : p.scopes[i] = m.scopes[i]
  BY <1>1, <1>2
<1>5. Secure(p)
  BY <1>1, <1>2, <1>3, <1>4, SecureKept
<1>. QED BY <1>1, <1>5 DEF OddTop

\* The memories on the way.
Registers(m, ns, vs, k, w) ==
  w = [i \in 0 .. k |-> IF i = 0 THEN m ELSE Register(w[i - 1], ns[i], vs[i])]

LEMMA RegistersExist ==
  ASSUME NEW m, NEW ns, NEW vs, NEW n \in Nat
  PROVE  \E w : Registers(m, ns, vs, n, w)
<1>. DEFINE S == {k \in Nat : \E w : Registers(m, ns, vs, k, w)}
<1>1. 0 \in S
  <2>1. PICK w : w = [i \in 0 .. 0 |-> m]
    OBVIOUS
  <2>2. \A i \in 0 .. 0 : i = 0
    OBVIOUS
  <2>3. w = [i \in 0 .. 0 |-> IF i = 0 THEN m ELSE Register(w[i - 1], ns[i], vs[i])]
    BY <2>1, <2>2
  <2>. QED BY <2>3 DEF Registers
<1>2. ASSUME NEW k \in Nat, k \in S PROVE k + 1 \in S
  <2>1. PICK w : Registers(m, ns, vs, k, w)
    BY <1>2
  <2>2. PICK u : u = [i \in 0 .. k + 1 |-> IF i <= k THEN w[i] ELSE Register(w[k], ns[k + 1], vs[k + 1])]
    OBVIOUS
  <2>3. w = [i \in 0 .. k |-> IF i = 0 THEN m ELSE Register(w[i - 1], ns[i], vs[i])]
    BY <2>1 DEF Registers
  <2>4. ASSUME NEW i \in 0 .. k + 1
        PROVE  u[i] = IF i = 0 THEN m ELSE Register(u[i - 1], ns[i], vs[i])
    <3>1. CASE i = 0
      <4>1. u[0] = w[0] /\ w[0] = m
        BY <2>2, <2>3
      <4>. QED BY <3>1, <4>1
    <3>2. CASE i \in 1 .. k
      <4>1. u[i] = w[i] /\ u[i - 1] = w[i - 1] /\ i \in 0 .. k /\ i # 0
        BY <2>2, <3>2
      <4>. QED BY <2>3, <4>1
    <3>3. CASE i = k + 1
      <4>1. u[k + 1] = Register(w[k], ns[k + 1], vs[k + 1]) /\ u[k] = w[k] /\ (k + 1) - 1 = k /\ k + 1 # 0
        BY <2>2
      <4>. QED BY <3>3, <4>1
    <3>. QED BY <3>1, <3>2, <3>3
  <2>5. u = [i \in 0 .. k + 1 |-> IF i = 0 THEN m ELSE Register(u[i - 1], ns[i], vs[i])]
    BY <2>2, <2>4
  <2>. QED BY <2>5 DEF Registers
<1>. HIDE DEF S
<1>3. Nat \subseteq S
  BY <1>1, <1>2, SetInduction
<1>. QED BY <1>3 DEF S

LEMMA RegisterAllStep ==
  ASSUME NEW m, Good(m), OddTop(m), Secure(m), NEW ns, NEW vs, Len(ns) \in Nat,
         \A p, k : Settled(m, p) /\ k \in 1 .. Len(ns) => vs[k] = NULL \/ Alive(p, vs[k]),
         Straight(RegisterAll(m, ns, vs))
  PROVE  Settled(m, RegisterAll(m, ns, vs))
<1>. DEFINE w == CHOOSE f : f = [i \in 0 .. Len(ns) |-> IF i = 0 THEN m ELSE Register(f[i - 1], ns[i], vs[i])]
<1>1. RegisterAll(m, ns, vs) = w[Len(ns)]
  BY DEF RegisterAll
<1>2. w = [i \in 0 .. Len(ns) |-> IF i = 0 THEN m ELSE Register(w[i - 1], ns[i], vs[i])]
  BY RegistersExist DEF Registers
<1>. HIDE DEF w
<1>. DEFINE S == {k \in Nat : k <= Len(ns) => Rec(w[k]) /\ (Straight(w[k]) => Settled(m, w[k]))}
<1>3. 0 \in S
  <2>1. w[0] = m
    BY <1>2
  <2>2. Settled(m, m) /\ Rec(m)
    <3>1. Changed(m, m)
      BY MovedSelf, MovedChanged
    <3>2. Whole(m) /\ Rec(m)
      BY DEF Whole, Rec, Good, Shape, Sound
    <3>3. Fixed(m, m)
      BY <3>2, FixedSelf
    <3>. QED BY <3>1, <3>2, <3>3 DEF Settled
  <2>. QED BY <2>1, <2>2
<1>4. ASSUME NEW k \in Nat, k \in S PROVE k + 1 \in S
  <2>1. SUFFICES ASSUME k + 1 <= Len(ns)
                 PROVE  Rec(w[k + 1]) /\ (Straight(w[k + 1]) => Settled(m, w[k + 1]))
    OBVIOUS
  <2>2. PICK m1, m2, n, a : m1 = w[k] /\ m2 = w[k + 1] /\ n = ns[k + 1] /\ a = vs[k + 1]
    OBVIOUS
  <2>3. Rec(m1) /\ (Straight(m1) => Settled(m, m1))
    BY <1>4, <2>1, <2>2
  <2>4. m2 = Register(m1, n, a)
    <3>1. k + 1 \in 0 .. Len(ns) /\ k + 1 # 0 /\ (k + 1) - 1 = k
      BY <2>1
    <3>. QED BY <1>2, <2>2, <3>1
  <2>5. Rec(m2) /\ (m1.stray = TRUE => m2.stray = TRUE)
    BY <2>3, <2>4, RegisterRec
  <2>6. ASSUME Straight(m2) PROVE Settled(m, m2)
    <3>1. Straight(m1)
      BY <2>5, <2>6 DEF Straight
    <3>2. Settled(m, m1)
      BY <2>3, <3>1
    <3>3. Good(m1) /\ OddTop(m1) /\ Secure(m1)
      BY <3>2, SettledSecure DEF Settled, Changed
    <3>4. k + 1 \in 1 .. Len(ns)
      BY <2>1
    <3>5. a = NULL \/ Alive(m1, a)
      BY <2>2, <3>2, <3>4
    <3>6. Changed(m1, m2) /\ \A x \in Counted(m1) : Bal(m2, x) = Bal(m1, x)
      BY <2>4, <2>6, <3>3, <3>5, RegisterStep
    <3>7. Fixed(m1, m2)
      <4>1. Whole(m1) /\ Rec(m1)
        BY <3>3 DEF Whole, Rec, Good, Shape, Sound
      <4>. QED BY <2>4, <4>1, RegisterFixed
    <3>8. Settled(m1, m2)
      BY <3>6, <3>7 DEF Settled
    <3>. QED BY <3>2, <3>8, SettledMore
  <2>. QED BY <2>2, <2>5, <2>6
<1>. HIDE DEF S
<1>5. Nat \subseteq S
  BY <1>3, <1>4, SetInduction
<1>. QED BY <1>1, <1>5 DEF S

\* What has been registered can be returned.
LEMMA RegisteredAlive ==
  ASSUME NEW m, Good(m), OddTop(m), NEW n, n \in DOMAIN Local(m)
  PROVE  Registered(m, n) = NULL \/ Alive(m, Registered(m, n))
<1>1. Shape(m) /\ (\A a \in DOMAIN m.heap \ {Nil} : Balance(m, a) >= 0)
  BY DEF Good
<1>2. PICK i : i = Len(m.scopes)
  OBVIOUS
<1>3. i \in OwnScopes(m) /\ Local(m) = m.scopes[i]
  BY <1>1, <1>2, OddLen
<1>4. m.bindings[m.scopes[i][n]] = NULL \/ Alive(m, m.bindings[m.scopes[i][n]])
  BY <1>1, <1>3, ScopedAlive
<1>. QED BY <1>3, <1>4 DEF Registered

-----------------------------------------------------------------------------
(* Variables that are set. *)

Times(n, v, x) == IF v = x THEN n ELSE 0

\* The places in P had old, and have new.
Swapped(f, g, P, old, new) ==
  /\ IsFiniteSet(DOMAIN f) /\ DOMAIN g = DOMAIN f /\ P \in SUBSET DOMAIN f
  /\ \A p \in P : f[p] = old /\ g[p] = new
  /\ \A p \in DOMAIN f \ P : g[p] = f[p]

Agree(f, P, v) == IsFiniteSet(DOMAIN f) /\ P \subseteq DOMAIN f /\ \A p \in P : f[p] = v
Parted(f, P, v, x, rest) ==
  /\ Occurrences(f, x) = Times(Cardinality(P), v, x) + Occurrences(rest, x)
  /\ Cardinality(P) \in Nat /\ Occurrences(f, x) \in Nat /\ Occurrences(rest, x) \in Nat

LEMMA OccPart ==
  ASSUME NEW f, NEW P, NEW v, Agree(f, P, v), NEW x
  PROVE  Parted(f, P, v, x, [p \in DOMAIN f \ P |-> f[p]])
<1>0. IsFiniteSet(DOMAIN f) /\ P \subseteq DOMAIN f /\ \A p \in P : f[p] = v
  BY DEF Agree
<1>1. PICK h, r : h = [p \in P |-> f[p]] /\ r = [p \in DOMAIN f \ P |-> f[p]]
  OBVIOUS
<1>2. IsFiniteSet(P) /\ IsFiniteSet(DOMAIN f \ P)
  BY <1>0, FS_Subset
<1>3. Cardinality(P) \in Nat
  BY <1>2, FS_CardinalityType
<1>4. Splits(h, r, f)
  BY <1>0, <1>1, <1>2 DEF Splits
<1>5. Occurrences(f, x) = Occurrences(h, x) + Occurrences(r, x)
  BY <1>4, OccSplit
<1>6. Occurrences(h, x) = Times(Cardinality(P), v, x)
  <2>1. CASE v = x
    <3>1. {p \in DOMAIN h : h[p] = x} = P
      BY <1>0, <1>1, <2>1
    <3>. QED BY <2>1, <3>1 DEF Occurrences, Times
  <2>2. CASE v # x
    <3>1. {p \in DOMAIN h : h[p] = x} = {}
      BY <1>0, <1>1, <2>2
    <3>. QED BY <2>2, <3>1, FS_EmptySet DEF Occurrences, Times
  <2>. QED BY <2>1, <2>2
<1>7. Occurrences(f, x) \in Nat /\ Occurrences(r, x) \in Nat
  BY <1>0, <1>1, <1>2, OccType
<1>. QED BY <1>1, <1>3, <1>5, <1>6, <1>7 DEF Parted

LEMMA OccSwapped ==
  ASSUME NEW f, NEW g, NEW P, NEW old, NEW new, Swapped(f, g, P, old, new), NEW x
  PROVE  /\ Occurrences(g, x) + Times(Cardinality(P), old, x) = Occurrences(f, x) + Times(Cardinality(P), new, x)
         /\ Cardinality(P) \in Nat /\ Occurrences(f, x) \in Nat /\ Occurrences(g, x) \in Nat
<1>1. PICK r, s : r = [p \in DOMAIN f \ P |-> f[p]] /\ s = [p \in DOMAIN g \ P |-> g[p]]
  OBVIOUS
<1>2. r = s
  BY <1>1 DEF Swapped
<1>3. /\ Occurrences(f, x) = Times(Cardinality(P), old, x) + Occurrences(r, x)
      /\ Cardinality(P) \in Nat /\ Occurrences(f, x) \in Nat /\ Occurrences(r, x) \in Nat
  <2>1. Agree(f, P, old)
    BY DEF Swapped, Agree
  <2>2. Parted(f, P, old, x, [p \in DOMAIN f \ P |-> f[p]])
    BY <2>1, OccPart
  <2>. QED BY <1>1, <2>2 DEF Parted
<1>4. /\ Occurrences(g, x) = Times(Cardinality(P), new, x) + Occurrences(s, x)
      /\ Occurrences(g, x) \in Nat
  <2>1. Agree(g, P, new)
    BY DEF Swapped, Agree
  <2>2. Parted(g, P, new, x, [p \in DOMAIN g \ P |-> g[p]])
    BY <2>1, OccPart
  <2>. QED BY <1>1, <2>2 DEF Parted
<1>5. Times(Cardinality(P), old, x) \in Nat /\ Times(Cardinality(P), new, x) \in Nat
  BY <1>3 DEF Times
<1>. QED BY <1>2, <1>3, <1>4, <1>5

\* The places of a binding in closures.
ClosurePlaces(m, b) ==
  {q \in DOMAIN OwnedBy(m, DOMAIN m.heap) :
     \E a \in DOMAIN m.heap : \E k \in DOMAIN m.heap[a].closure :
       q = <<a, <<"closure", k>>>> /\ m.heap[a].closure[k] = b}

LEMMA EntriesFacts ==
  ASSUME NEW m, Shape(m), NEW b
  PROVE  /\ Cardinality(ClosurePlaces(m, b)) = Cardinality(ClosureEntries(m, b))
         /\ Cardinality(ClosureEntries(m, b)) \in Nat /\ Cardinality(ScopeEntries(m, b)) \in Nat
         /\ IsFiniteSet(ClosurePlaces(m, b)) /\ IsFiniteSet(ScopeEntries(m, b))
<1>1. PICK h, P, E : h = m.heap /\ P = ClosurePlaces(m, b) /\ E = ClosureEntries(m, b)
  OBVIOUS
<1>2. IsFiniteSet(P)
  <2>1. IsFiniteSet(DOMAIN OwnedBy(m, DOMAIN m.heap))
    BY OwnedFinite
  <2>2. P \subseteq DOMAIN OwnedBy(m, DOMAIN m.heap)
    BY <1>1 DEF ClosurePlaces
  <2>. QED BY <2>1, <2>2, FS_Subset
<1>3. \A q : q \in P <=> \E a \in DOMAIN h : \E k \in DOMAIN h[a].closure : q = <<a, <<"closure", k>>>> /\ h[a].closure[k] = b
  <2>1. \A p : p \in DOMAIN OwnedBy(m, DOMAIN h) <=> \E a \in DOMAIN h : \E s \in Slots(h[a]) : p = <<a, s>>
    BY <1>1, OwnedFacts
  <2>2. \A a \in DOMAIN h : \A k \in DOMAIN h[a].closure : <<"closure", k>> \in Slots(h[a])
    BY DEF Slots
  <2>. QED BY <1>1, <2>1, <2>2 DEF ClosurePlaces
<1>4. \A p : p \in E <=> \E a \in DOMAIN h : \E k \in DOMAIN h[a].closure : p = <<a, k>> /\ h[a].closure[k] = b
  <2>1. E = {p \in UNION {{a} \X DOMAIN h[a].closure : a \in DOMAIN h} : h[p[1]].closure[p[2]] = b}
    BY <1>1 DEF ClosureEntries
  <2>2. \A p : p \in UNION {{a} \X DOMAIN h[a].closure : a \in DOMAIN h}
                 <=> \E a \in DOMAIN h : \E k \in DOMAIN h[a].closure : p = <<a, k>>
    OBVIOUS
  <2>. QED BY <2>1, <2>2
<1>5. PICK f, g, t : f = [q \in P |-> b] /\ g = [p \in E |-> b] /\ t = [q \in P |-> <<q[1], q[2][2]>>]
  OBVIOUS
<1>6. ASSUME NEW q \in P PROVE t[q] \in E
  <2>1. PICK a \in DOMAIN h : \E k \in DOMAIN h[a].closure : q = <<a, <<"closure", k>>>> /\ h[a].closure[k] = b
    BY <1>3
  <2>2. PICK k \in DOMAIN h[a].closure : q = <<a, <<"closure", k>>>> /\ h[a].closure[k] = b
    BY <2>1
  <2>3. t[q] = <<a, k>>
    BY <1>5, <2>2
  <2>. QED BY <1>4, <2>2, <2>3
<1>7. ASSUME NEW p \in E PROVE \E q \in P : t[q] = p
  <2>1. PICK a \in DOMAIN h : \E k \in DOMAIN h[a].closure : p = <<a, k>> /\ h[a].closure[k] = b
    BY <1>4
  <2>2. PICK k \in DOMAIN h[a].closure : p = <<a, k>> /\ h[a].closure[k] = b
    BY <2>1
  <2>3. PICK q : q = <<a, <<"closure", k>>>>
    OBVIOUS
  <2>4. q \in P
    BY <1>3, <2>2, <2>3
  <2>5. t[q] = <<a, k>>
    BY <1>5, <2>3, <2>4
  <2>. QED BY <2>2, <2>4, <2>5
<1>8. ASSUME NEW q \in P, NEW r \in P, t[q] = t[r] PROVE q = r
  <2>1. PICK a \in DOMAIN h : \E k \in DOMAIN h[a].closure : q = <<a, <<"closure", k>>>>
    BY <1>3
  <2>2. PICK k \in DOMAIN h[a].closure : q = <<a, <<"closure", k>>>>
    BY <2>1
  <2>3. PICK c \in DOMAIN h : \E j \in DOMAIN h[c].closure : r = <<c, <<"closure", j>>>>
    BY <1>3
  <2>4. PICK j \in DOMAIN h[c].closure : r = <<c, <<"closure", j>>>>
    BY <2>3
  <2>5. t[q] = <<a, k>> /\ t[r] = <<c, j>>
    BY <1>5, <2>2, <2>4
  <2>. QED BY <1>8, <2>2, <2>4, <2>5
<1>9. Occurrences(g, b) = Occurrences(f, b)
  <2>1. /\ IsFiniteSet(DOMAIN f) /\ \A p \in DOMAIN f : t[p] \in DOMAIN g /\ g[t[p]] = f[p]
        /\ \A q \in DOMAIN g : g[q] = b => \E p \in DOMAIN f : t[p] = q
        /\ \A p, q \in DOMAIN f : t[p] = t[q] => p = q
    BY <1>2, <1>5, <1>6, <1>7, <1>8
  <2>. QED BY <2>1, OccMoved
<1>10. Occurrences(f, b) = Cardinality(P) /\ Occurrences(g, b) = Cardinality(E)
  <2>1. {p \in DOMAIN f : f[p] = b} = P /\ {p \in DOMAIN g : g[p] = b} = E
    BY <1>5
  <2>. QED BY <2>1 DEF Occurrences
<1>11. Cardinality(P) \in Nat
  BY <1>2, FS_CardinalityType
<1>12. IsFiniteSet(ScopeEntries(m, b)) /\ Cardinality(ScopeEntries(m, b)) \in Nat
  <2>1. IsFiniteSet(ScopePlaces(m))
    BY ScopeFinite, ScopeFacts
  <2>2. ScopeEntries(m, b) \subseteq ScopePlaces(m)
    BY DEF ScopeEntries
  <2>. QED BY <2>1, <2>2, FS_Subset, FS_CardinalityType
<1>. QED BY <1>1, <1>2, <1>9, <1>10, <1>11, <1>12

ScopesPlaced(m) ==
  /\ \A p : p \in DOMAIN ScopeRefs(m) <=> \E i \in OwnScopes(m) : \E n \in DOMAIN m.scopes[i] : p = <<i, n>>
  /\ \A i \in OwnScopes(m) : \A n \in DOMAIN m.scopes[i] : ScopeRefs(m)[<<i, n>>] = m.bindings[m.scopes[i][n]]

LEMMA ScopesPlacedAll == ASSUME NEW m PROVE ScopesPlaced(m)
  BY ScopeFacts DEF ScopesPlaced

\* A binding is given another value.
LEMMA BindingOcc ==
  ASSUME NEW m, Shape(m), NEW b \in DOMAIN m.bindings, NEW a, NEW m2,
         m2.heap = m.heap, m2.scopes = m.scopes, m2.bindings = [m.bindings EXCEPT ![b] = a],
         NEW old, old = m.bindings[b], NEW n, n = Entries(m, b), NEW x
  PROVE  /\ HeapOcc(m2, x) + ScopeOcc(m2, x) + Times(n, old, x) = HeapOcc(m, x) + ScopeOcc(m, x) + Times(n, a, x)
         /\ HeapOcc(m2, x) \in Nat /\ ScopeOcc(m2, x) \in Nat /\ n \in Nat
<1>1. PICK h, P, S, f, g, r, s :
        /\ h = m.heap /\ P = ClosurePlaces(m, b) /\ S = ScopeEntries(m, b)
        /\ f = OwnedBy(m, DOMAIN m.heap) /\ g = OwnedBy(m2, DOMAIN m2.heap)
        /\ r = ScopeRefs(m) /\ s = ScopeRefs(m2)
  OBVIOUS
<1>2. m2.bindings[b] = a /\ \A k \in DOMAIN m.bindings : k # b => m2.bindings[k] = m.bindings[k]
  OBVIOUS
<1>3. Swapped(f, g, P, old, a)
  <2>1. IsFiniteSet(DOMAIN f)
    BY <1>1, OwnedFinite
  <2>2. /\ \A p : p \in DOMAIN f <=> \E c \in DOMAIN h : \E q \in Slots(h[c]) : p = <<c, q>>
        /\ \A c \in DOMAIN h : \A q \in Slots(h[c]) : f[<<c, q>>] = At(m, h[c], q)
    BY <1>1, OwnedFacts
  <2>3. /\ \A p : p \in DOMAIN g <=> \E c \in DOMAIN h : \E q \in Slots(h[c]) : p = <<c, q>>
        /\ \A c \in DOMAIN h : \A q \in Slots(h[c]) : g[<<c, q>>] = At(m2, h[c], q)
    BY <1>1, OwnedFacts
  <2>4. DOMAIN g = DOMAIN f
    <3>1. \A p : p \in DOMAIN f <=> p \in DOMAIN g
      BY <2>2, <2>3
    <3>. QED BY <3>1
  <2>5. P \in SUBSET DOMAIN f /\ \A p \in P : \E c \in DOMAIN h : \E k \in DOMAIN h[c].closure :
          p = <<c, <<"closure", k>>>> /\ h[c].closure[k] = b
    BY <1>1 DEF ClosurePlaces
  <2>6. ASSUME NEW p \in P PROVE f[p] = old /\ g[p] = a
    <3>1. PICK c \in DOMAIN h : \E k \in DOMAIN h[c].closure : p = <<c, <<"closure", k>>>> /\ h[c].closure[k] = b
      BY <2>5
    <3>2. PICK k \in DOMAIN h[c].closure : p = <<c, <<"closure", k>>>> /\ h[c].closure[k] = b
      BY <3>1
    <3>3. <<"closure", k>> \in Slots(h[c])
      BY DEF Slots
    <3>4. At(m, h[c], <<"closure", k>>) = m.bindings[h[c].closure[k]]
          /\ At(m2, h[c], <<"closure", k>>) = m2.bindings[h[c].closure[k]]
      BY DEF At
    <3>. QED BY <1>2, <2>2, <2>3, <3>2, <3>3, <3>4
  <2>7. ASSUME NEW p \in DOMAIN f \ P PROVE g[p] = f[p]
    <3>1. PICK c \in DOMAIN h : \E q \in Slots(h[c]) : p = <<c, q>>
      BY <2>2
    <3>2. PICK q \in Slots(h[c]) : p = <<c, q>>
      BY <3>1
    <3>3. CASE q[1] # "closure"
      <4>1. At(m2, h[c], q) = At(m, h[c], q)
        BY <3>3 DEF At
      <4>. QED BY <2>2, <2>3, <3>2, <4>1
    <3>4. CASE q[1] = "closure"
      <4>1. PICK k \in DOMAIN h[c].closure : q = <<"closure", k>>
        BY <3>4 DEF Slots
      <4>2. h[c].closure[k] # b
        BY <1>1, <2>7, <3>2, <4>1 DEF ClosurePlaces
      <4>3. h[c].closure[k] \in DOMAIN m.bindings
        BY <1>1 DEF Shape, Sound, Table
      <4>4. At(m, h[c], q) = m.bindings[h[c].closure[k]] /\ At(m2, h[c], q) = m2.bindings[h[c].closure[k]]
        BY <4>1 DEF At
      <4>. QED BY <1>2, <2>2, <2>3, <3>2, <4>2, <4>3, <4>4
    <3>. QED BY <3>3, <3>4
  <2>. QED BY <2>1, <2>4, <2>5, <2>6, <2>7 DEF Swapped
<1>4. Swapped(r, s, S, old, a)
  <2>1. IsFiniteSet(DOMAIN r) /\ DOMAIN r = ScopePlaces(m)
    BY <1>1, ScopeFinite, ScopeFacts
  <2>2. OwnScopes(m2) = OwnScopes(m)
    BY DEF OwnScopes
  <2>3. /\ \A p : p \in DOMAIN r <=> \E i \in OwnScopes(m) : \E k \in DOMAIN m.scopes[i] : p = <<i, k>>
        /\ \A i \in OwnScopes(m) : \A k \in DOMAIN m.scopes[i] : r[<<i, k>>] = m.bindings[m.scopes[i][k]]
    BY <1>1, ScopeFacts
  <2>4. /\ \A p : p \in DOMAIN s <=> \E i \in OwnScopes(m) : \E k \in DOMAIN m.scopes[i] : p = <<i, k>>
        /\ \A i \in OwnScopes(m) : \A k \in DOMAIN m.scopes[i] : s[<<i, k>>] = m2.bindings[m.scopes[i][k]]
    <3>1. /\ \A p : p \in DOMAIN s <=> \E i \in OwnScopes(m2) : \E k \in DOMAIN m2.scopes[i] : p = <<i, k>>
          /\ \A i \in OwnScopes(m2) : \A k \in DOMAIN m2.scopes[i] : s[<<i, k>>] = m2.bindings[m2.scopes[i][k]]
      <4>1. ScopesPlaced(m2)
        BY ScopesPlacedAll
      <4>. QED BY <1>1, <4>1 DEF ScopesPlaced
    <3>. QED BY <2>2, <3>1
  <2>5. DOMAIN s = DOMAIN r
    <3>1. \A p : p \in DOMAIN r <=> p \in DOMAIN s
      BY <2>3, <2>4
    <3>. QED BY <3>1
  <2>6. S \in SUBSET DOMAIN r /\ \A p \in DOMAIN r : p \in S <=> m.scopes[p[1]][p[2]] = b
    BY <1>1, <2>1 DEF ScopeEntries
  <2>7. ASSUME NEW p \in DOMAIN r
        PROVE  (p \in S => r[p] = old /\ s[p] = a) /\ (p \notin S => s[p] = r[p])
    <3>1. PICK i \in OwnScopes(m) : \E k \in DOMAIN m.scopes[i] : p = <<i, k>>
      BY <2>3
    <3>2. PICK k \in DOMAIN m.scopes[i] : p = <<i, k>>
      BY <3>1
    <3>3. p \in S <=> m.scopes[i][k] = b
      BY <2>6, <3>2
    <3>4. r[p] = m.bindings[m.scopes[i][k]] /\ s[p] = m2.bindings[m.scopes[i][k]]
      BY <2>3, <2>4, <3>2
    <3>5. m.scopes[i][k] \in DOMAIN m.bindings
      BY DEF Shape, Table, OwnScopes
    <3>. QED BY <1>2, <3>3, <3>4, <3>5
  <2>. QED BY <2>1, <2>5, <2>6, <2>7 DEF Swapped
<1>5. /\ Occurrences(g, x) + Times(Cardinality(P), old, x) = Occurrences(f, x) + Times(Cardinality(P), a, x)
      /\ Cardinality(P) \in Nat /\ Occurrences(f, x) \in Nat /\ Occurrences(g, x) \in Nat
  BY <1>3, OccSwapped
<1>6. /\ Occurrences(s, x) + Times(Cardinality(S), old, x) = Occurrences(r, x) + Times(Cardinality(S), a, x)
      /\ Cardinality(S) \in Nat /\ Occurrences(r, x) \in Nat /\ Occurrences(s, x) \in Nat
  BY <1>4, OccSwapped
<1>7. n = Cardinality(S) + Cardinality(P)
  <2>1. Cardinality(ClosurePlaces(m, b)) = Cardinality(ClosureEntries(m, b))
    BY EntriesFacts
  <2>. QED BY <1>1, <2>1 DEF Entries
<1>8. \A v : Times(n, v, x) = Times(Cardinality(S), v, x) + Times(Cardinality(P), v, x)
  BY <1>5, <1>6, <1>7 DEF Times
<1>9. /\ Times(Cardinality(S), old, x) \in Nat /\ Times(Cardinality(P), old, x) \in Nat
      /\ Times(Cardinality(S), a, x) \in Nat /\ Times(Cardinality(P), a, x) \in Nat
  BY <1>5, <1>6 DEF Times
<1>10. HeapOcc(m, x) = Occurrences(f, x) /\ HeapOcc(m2, x) = Occurrences(g, x)
       /\ ScopeOcc(m, x) = Occurrences(r, x) /\ ScopeOcc(m2, x) = Occurrences(s, x)
  BY <1>1 DEF HeapOcc, ScopeOcc
<1>. QED BY <1>5, <1>6, <1>7, <1>8, <1>9, <1>10

\* n references to v.
Copies(refs, n, v) == IsFiniteSet(DOMAIN refs) /\ \A x : Occurrences(refs, x) = Times(n, v, x)

LEMMA CopiesOcc ==
  ASSUME NEW n \in Nat, NEW v, NEW refs, refs = [i \in 1 .. n |-> v]
  PROVE  Copies(refs, n, v)
<1>1. IsFiniteSet(1 .. n) /\ Cardinality(1 .. n) = n
  BY FS_Interval
<1>2. ASSUME NEW x PROVE Occurrences(refs, x) = Times(n, v, x)
  <2>1. v = x => {p \in DOMAIN refs : refs[p] = x} = 1 .. n
    OBVIOUS
  <2>2. v # x => {p \in DOMAIN refs : refs[p] = x} = {}
    OBVIOUS
  <2>. QED BY <1>1, <2>1, <2>2, FS_EmptySet DEF Occurrences, Times
<1>. QED BY <1>1, <1>2 DEF Copies

\* They have been retained.
Copied(m, m2, n, a) ==
  /\ Moved(m, m2) /\ Same(m, m2) /\ Counted(m2) = Counted(m)
  /\ \A x : Alive(m2, x) <=> Alive(m, x)
  /\ \A x \in Counted(m) : Bal(m2, x) = Bal(m, x) + Times(n, a, x)

LEMMA RetainTimes ==
  ASSUME NEW m, Good(m), NEW a, a = NULL \/ Alive(m, a), NEW n \in Nat,
         NEW m0, m0 = RetainAll(m, [i \in 1 .. n |-> a])
  PROVE  Copied(m, m0, n, a)
<1>1. PICK refs, m2 : refs = [i \in 1 .. n |-> a] /\ m2 = RetainAll(m, refs) /\ m2 = m0
  OBVIOUS
<1>2. IsFiniteSet(DOMAIN refs) /\ \A x : Occurrences(refs, x) = Times(n, a, x)
  BY <1>1, CopiesOcc DEF Copies
<1>3. \A p \in DOMAIN refs : refs[p] = NULL \/ Alive(m, refs[p])
  BY <1>1
<1>4. /\ Good(m2) /\ Same(m, m2) /\ m2.stray = m.stray
      /\ \A x : Alive(m, x) <=> Alive(m2, x)
      /\ \A x \in DOMAIN m.heap \ {Nil} : Balance(m2, x) = Balance(m, x) + Occurrences(refs, x)
  BY <1>1, <1>2, <1>3, RetainAllGood
<1>5. Grows(m, m2) /\ DOMAIN m2.heap = DOMAIN m.heap
  BY <1>4, SameGrows DEF Good
<1>6. Moved(m, m2) /\ Counted(m2) = Counted(m)
  BY <1>4, <1>5 DEF Moved, Same, SameNames, Counted
<1>7. ASSUME NEW x \in Counted(m) PROVE Bal(m2, x) = Bal(m, x) + Times(n, a, x)
  BY <1>2, <1>4, <1>6 DEF Bal, Counted
<1>. QED BY <1>1, <1>4, <1>6, <1>7 DEF Copied

LEMMA ReplaceStep ==
  ASSUME NEW m, Good(m), NEW b \in DOMAIN m.bindings, NEW a, a = NULL \/ Alive(m, a),
         NEW r, r = Replace(m, b, a, Entries(m, b)), Straight(r)
  PROVE  Moved(m, r) /\ Counted(r) = Counted(m) /\ \A x \in Counted(m) : Bal(r, x) = Bal(m, x)
<1>1. PICK n, old, refs : n = Entries(m, b) /\ old = m.bindings[b] /\ refs = [i \in 1 .. n |-> old]
  OBVIOUS
<1>2. Shape(m) /\ n \in Nat
  BY <1>1, EntriesFacts DEF Good, Entries
<1>3. PICK m1, mz, rz : /\ m1 = RetainAll(m, [i \in 1 .. n |-> a])
                        /\ mz = [m1 EXCEPT !.bindings[b] = a]
                        /\ rz = ReleaseAll(mz, refs)
  OBVIOUS
<1>4. /\ Moved(m, m1) /\ Same(m, m1) /\ Counted(m1) = Counted(m)
      /\ \A x : Alive(m1, x) <=> Alive(m, x)
      /\ \A x \in Counted(m) : Bal(m1, x) = Bal(m, x) + Times(n, a, x)
  <2>1. Copied(m, m1, n, a)
    BY <1>2, <1>3, RetainTimes
  <2>. QED BY <2>1 DEF Copied
<1>5. /\ Shape(m1) /\ Good(m1) /\ m1.bindings = m.bindings /\ m1.scopes = m.scopes /\ m1.stray = m.stray
      /\ DOMAIN m1 = DOMAIN m /\ Rec(m) /\ Rec(m1) /\ DOMAIN m1.heap = DOMAIN m.heap
  <2>1. Shape(m1) /\ Good(m1) /\ m1.bindings = m.bindings /\ m1.scopes = m.scopes /\ m1.stray = m.stray
        /\ DOMAIN m1 = DOMAIN m /\ Rec(m) /\ Rec(m1)
    BY <1>2, <1>4 DEF Moved, Good, Same, SameNames, Rec, Shape
  <2>2. DOMAIN m1.heap = DOMAIN m.heap
    BY <1>2, <1>4, SameGrows
  <2>. QED BY <2>1, <2>2
<1>6. Rec(mz) /\ mz.heap = m1.heap /\ mz.scopes = m1.scopes /\ mz.stray = m1.stray
      /\ mz.bindings = [m1.bindings EXCEPT ![b] = a]
  BY <1>3, <1>5 DEF Rec
<1>7. a \in Addr(m1)
  BY <1>4, <1>5, Addresses DEF Alive
<1>8. Shape(mz)
  <2>1. DOMAIN mz.bindings = DOMAIN m1.bindings /\ \A k \in DOMAIN mz.bindings : mz.bindings[k] \in Addr(mz)
    BY <1>5, <1>6, <1>7 DEF Shape, Addr
  <2>2. IsSeq(mz.bindings)
    <3>1. PICK B : B = Len(m1.bindings)
      OBVIOUS
    <3>2. B \in Nat /\ DOMAIN m1.bindings = 1 .. B
      BY <1>5, <3>1, SeqFacts DEF Shape
    <3>3. mz.bindings = [i \in 1 .. B |-> mz.bindings[i]]
      BY <1>6, <3>2
    <3>. QED BY <3>2, <3>3, SeqMade
  <2>3. \A i \in DOMAIN mz.scopes : Table(mz.scopes[i], DOMAIN mz.bindings)
    BY <1>5, <1>6, <2>1 DEF Shape
  <2>4. \A x \in DOMAIN mz.heap : Sound(mz, mz.heap[x])
    BY <1>5, <1>6, <2>1 DEF Shape, Sound, Addr
  <2>5. /\ IsSeq(mz.heap) /\ Len(mz.heap) >= False /\ IsSeq(mz.scopes) /\ mz.stray \in BOOLEAN
        /\ mz.heap[Nil].count = 1 /\ mz.heap[Nil].type = "list" /\ mz.heap[Nil].items = <<>>
        /\ DOMAIN mz.heap[Nil].closure = {}
    BY <1>5, <1>6 DEF Shape
  <2>. QED BY <1>6, <2>1, <2>2, <2>3, <2>4, <2>5 DEF Shape, Rec
<1>9. Grows(m1, mz) /\ Counted(mz) = Counted(m1) /\ \A x : Alive(mz, x) <=> Alive(m1, x)
  BY <1>6 DEF Grows, Counted, Alive, Count
<1>10. Entries(m1, b) = n
  <2>1. ScopeEntries(m1, b) = ScopeEntries(m, b)
    BY <1>5 DEF ScopeEntries, ScopePlaces, OwnScopes
  <2>2. ClosureEntries(m1, b) = ClosureEntries(m, b)
    <3>1. PICK h, h1 : h = m.heap /\ h1 = m1.heap
      OBVIOUS
    <3>2. DOMAIN h1 = DOMAIN h /\ \A x \in DOMAIN h : h1[x].closure = h[x].closure
      <4>1. \A x \in DOMAIN m.heap : SameObj(m.heap[x], m1.heap[x])
        BY <1>2, <1>3, RetainFacts
      <4>. QED BY <1>5, <3>1, <4>1 DEF SameObj
    <3>3. UNION {{x} \X DOMAIN h1[x].closure : x \in DOMAIN h1} = UNION {{x} \X DOMAIN h[x].closure : x \in DOMAIN h}
      BY <3>2
    <3>4. \A p \in UNION {{x} \X DOMAIN h[x].closure : x \in DOMAIN h} : p[1] \in DOMAIN h
      OBVIOUS
    <3>5. ClosureEntries(m1, b) = {p \in UNION {{x} \X DOMAIN h1[x].closure : x \in DOMAIN h1} : h1[p[1]].closure[p[2]] = b}
      BY <3>1 DEF ClosureEntries
    <3>6. ClosureEntries(m, b) = {p \in UNION {{x} \X DOMAIN h[x].closure : x \in DOMAIN h} : h[p[1]].closure[p[2]] = b}
      BY <3>1 DEF ClosureEntries
    <3>. QED BY <3>2, <3>3, <3>4, <3>5, <3>6
  <2>. QED BY <1>1, <2>1, <2>2 DEF Entries
<1>11. ASSUME NEW x \in Counted(m)
       PROVE  Balance(mz, x) = Bal(m, x) + Times(n, old, x) /\ Bal(m, x) \in Nat /\ Times(n, old, x) \in Nat
  <2>1. /\ HeapOcc(mz, x) + ScopeOcc(mz, x) + Times(n, old, x) = HeapOcc(m1, x) + ScopeOcc(m1, x) + Times(n, a, x)
        /\ HeapOcc(mz, x) \in Nat /\ ScopeOcc(mz, x) \in Nat
    <3>1. b \in DOMAIN m1.bindings /\ old = m1.bindings[b] /\ n = Entries(m1, b)
      BY <1>1, <1>5, <1>10
    <3>. QED BY <1>5, <1>6, <3>1, BindingOcc
  <2>2. x \in Counted(m1) /\ x \in DOMAIN m1.heap
    BY <1>4 DEF Counted
  <2>3. Bal(m1, x) = Bal(m, x) + Times(n, a, x) /\ Bal(m1, x) = Balance(m1, x)
    BY <1>4, <2>2 DEF Bal
  <2>4. Count(mz, x) = Count(m1, x) /\ Lost(mz, x) = Lost(m1, x)
    BY <1>6 DEF Count, Lost
  <2>5. /\ Balance(m1, x) = Count(m1, x) - HeapOcc(m1, x) - ScopeOcc(m1, x) - Lost(m1, x) - Keeps(x)
        /\ Balance(mz, x) = Count(m1, x) - HeapOcc(mz, x) - ScopeOcc(mz, x) - Lost(m1, x) - Keeps(x)
    BY <2>4 DEF Balance
  <2>6. Count(m1, x) \in Nat /\ HeapOcc(m1, x) \in Nat /\ ScopeOcc(m1, x) \in Nat /\ Lost(m1, x) \in Nat /\ Keeps(x) \in Nat
    BY <1>5, <2>2, BalanceType
  <2>7. Bal(m, x) \in Nat /\ Times(n, a, x) \in Nat /\ Times(n, old, x) \in Nat
    BY <1>2, BalType DEF Times
  <2>. QED BY <2>1, <2>3, <2>5, <2>6, <2>7
<1>12. Good(mz)
  <2>1. \A x \in DOMAIN mz.heap \ {Nil} : Balance(mz, x) >= 0
    <3>1. ASSUME NEW x \in DOMAIN mz.heap \ {Nil} PROVE Balance(mz, x) >= 0
      <4>1. x \in Counted(m)
        BY <1>4, <1>9 DEF Counted
      <4>2. Balance(mz, x) = Bal(m, x) + Times(n, old, x) /\ Bal(m, x) \in Nat /\ Times(n, old, x) \in Nat
        BY <1>11, <4>1
      <4>. QED BY <4>2
    <3>. QED BY <3>1
  <2>2. \A x \in DOMAIN mz.heap \ DOMAIN m1.heap : Kind(mz, mz.heap[x])
    BY <1>6
  <2>. QED BY <1>5, <1>8, <1>9, <2>1, <2>2, GoodNext
<1>13. IsFiniteSet(DOMAIN refs) /\ \A x : Occurrences(refs, x) = Times(n, old, x)
  BY <1>1, <1>2, CopiesOcc DEF Copies
<1>14. /\ Moved(mz, rz) /\ Same(mz, rz) /\ Counted(rz) = Counted(mz)
       /\ \A x \in Counted(mz) : Bal(rz, x) = Bal(mz, x) - Occurrences(refs, x)
  <2>1. ASSUME NEW x \in Counted(mz) PROVE Bal(mz, x) >= Occurrences(refs, x)
    <3>1. Balance(mz, x) = Bal(m, x) + Times(n, old, x) /\ Bal(m, x) \in Nat /\ Times(n, old, x) \in Nat
      BY <1>4, <1>9, <1>11
    <3>2. Bal(mz, x) = Balance(mz, x)
      BY DEF Bal
    <3>. QED BY <1>13, <3>1, <3>2
  <2>2. \A x \in Counted(mz) : Bal(mz, x) >= Occurrences(refs, x)
    BY <2>1
  <2>3. IsFiniteSet(DOMAIN refs)
    BY <1>13
  <2>4. LET m2 == ReleaseAll(mz, refs) IN
        /\ Moved(mz, m2) /\ Same(mz, m2) /\ Counted(m2) = Counted(mz)
        /\ \A x : Alive(m2, x) <=> Alive(mz, x) /\ x \notin Dead(mz, refs)
        /\ \A x \in Counted(mz) : Bal(m2, x) = Bal(mz, x) - Occurrences(refs, x)
    BY <1>12, <2>2, <2>3, ReleaseAllStep
  <2>. QED BY <1>3, <2>4
<1>15. ASSUME NEW x \in Counted(m) PROVE Bal(rz, x) = Bal(m, x)
  <2>1. Balance(mz, x) = Bal(m, x) + Times(n, old, x) /\ Bal(m, x) \in Nat /\ Times(n, old, x) \in Nat
    BY <1>11
  <2>2. x \in Counted(mz) /\ Bal(mz, x) = Balance(mz, x)
    BY <1>4, <1>9 DEF Bal
  <2>3. Bal(rz, x) = Bal(mz, x) - Times(n, old, x)
    BY <1>13, <1>14, <2>2
  <2>. QED BY <2>1, <2>2, <2>3
<1>16. PICK q, bad : q = ReleaseAll(m1, refs) /\ bad = (\E d \in Dead(m1, refs) : b \in Range(m.heap[d].closure))
  OBVIOUS
<1>17. r = [q EXCEPT !.bindings[b] = a, !.stray = q.stray \/ bad]
  BY <1>1, <1>3, <1>16 DEF Replace
<1>18. Rec(q) /\ q.stray = m1.stray /\ q.bindings = m1.bindings /\ q.scopes = m1.scopes
  BY <1>5, <1>16 DEF ReleaseAll, Without, Rec
<1>19. /\ Rec(r) /\ r.heap = q.heap /\ r.bindings = [m1.bindings EXCEPT ![b] = a] /\ r.scopes = m.scopes
       /\ r.stray = (m.stray \/ bad)
  BY <1>5, <1>17, <1>18 DEF Rec
<1>20. ~bad /\ m.stray = FALSE /\ r.stray = FALSE
  <2>1. m.stray \in BOOLEAN
    BY <1>2 DEF Shape
  <2>. QED BY <1>19, <2>1 DEF Straight
<1>21. r.heap = rz.heap
  <2>1. Dead(m1, refs) \subseteq DOMAIN m.heap
    BY <1>5, <1>13, DeadFacts
  <2>2. ASSUME NEW d \in Dead(m1, refs), NEW s \in Slots(m1.heap[d])
        PROVE  At(mz, m1.heap[d], s) = At(m1, m1.heap[d], s)
    <3>1. PICK o : o = m1.heap[d]
      OBVIOUS
    <3>2. CASE s[1] = "closure"
      <4>1. s[2] \in DOMAIN o.closure
        BY <3>1, <3>2 DEF Slots
      <4>2. o.closure = m.heap[d].closure /\ Sound(m1, o)
        <5>1. SameObj(m.heap[d], m1.heap[d])
          BY <1>2, <1>3, <2>1, RetainFacts
        <5>. QED BY <1>5, <2>1, <3>1, <5>1 DEF SameObj, Shape
      <4>3. b \notin Range(o.closure)
        BY <1>16, <1>20, <4>2
      <4>4. o.closure[s[2]] # b /\ o.closure[s[2]] \in DOMAIN m1.bindings
        BY <4>1, <4>2, <4>3 DEF Range, Sound, Table
      <4>5. At(mz, o, s) = mz.bindings[o.closure[s[2]]] /\ At(m1, o, s) = m1.bindings[o.closure[s[2]]]
        BY <3>2 DEF At
      <4>6. mz.bindings[o.closure[s[2]]] = m1.bindings[o.closure[s[2]]]
        BY <1>6, <4>4
      <4>. QED BY <3>1, <4>5, <4>6
    <3>3. CASE s[1] # "closure"
      BY <3>3 DEF At
    <3>. QED BY <3>2, <3>3
  <2>3. ReleaseAll(mz, refs).heap = ReleaseAll(m1, refs).heap
    BY <1>5, <1>6, <1>8, <1>13, <2>2, ReleaseSame
  <2>. QED BY <1>3, <1>16, <1>19, <2>3
<1>22. Good(rz) /\ Rec(rz) /\ rz.bindings = mz.bindings /\ rz.scopes = mz.scopes
  BY <1>6, <1>14 DEF Moved, Same, SameNames, Rec
<1>23. Good(r) /\ Grows(rz, r) /\ Counted(r) = Counted(rz)
       /\ \A x \in Counted(rz) : Balance(r, x) = Balance(rz, x)
  <2>1. Shape(rz) /\ Binds(rz, r) /\ DOMAIN r = DOMAIN rz /\ r.stray \in BOOLEAN
    BY <1>6, <1>5, <1>19, <1>20, <1>22 DEF Good, Binds, Rec
  <2>2. /\ IsSeq(r.bindings) /\ IsSeq(r.scopes) /\ r.heap = rz.heap
        /\ \A k \in DOMAIN r.bindings : r.bindings[k] \in Addr(rz)
        /\ \A i \in DOMAIN r.scopes : Table(r.scopes[i], DOMAIN r.bindings)
    BY <1>5, <1>6, <1>19, <1>21, <1>22, <2>1 DEF Shape
  <2>3. /\ Grows(rz, r) /\ Counted(r) = Counted(rz)
        /\ (\A x \in Counted(rz) : Balance(r, x) >= 0) => Good(r)
        /\ \A x \in Counted(rz) : Balance(r, x) = Balance(rz, x) + ScopeOcc(rz, x) - ScopeOcc(r, x)
    BY <1>22, <2>1, <2>2, NamesGood
  <2>4. ASSUME NEW x \in Counted(rz) PROVE Balance(r, x) = Balance(rz, x) /\ Balance(r, x) >= 0
    <3>1. ScopeOcc(r, x) = ScopeOcc(rz, x)
      <4>1. r.bindings = rz.bindings /\ r.scopes = rz.scopes
        BY <1>5, <1>6, <1>19, <1>22
      <4>. QED BY <4>1, ScopeOccSame
    <3>2. Balance(rz, x) \in Int /\ Balance(rz, x) >= 0 /\ ScopeOcc(rz, x) \in Nat
      BY <1>22, <2>1, BalanceType DEF Good, Counted
    <3>. QED BY <2>3, <3>1, <3>2
  <2>. QED BY <2>3, <2>4
<1>24. Grows(m, r)
  <2>1. Shape(rz) /\ Shape(r)
    BY <1>22, <1>23 DEF Good
  <2>2. Grows(m, mz)
    BY <1>2, <1>4, <1>5, <1>8, <1>9, GrowsMore DEF Moved
  <2>3. Grows(m, rz)
    BY <1>2, <1>8, <1>14, <2>1, <2>2, GrowsMore DEF Moved
  <2>. QED BY <1>2, <1>23, <2>1, <2>3, GrowsMore
<1>25. Moved(m, r) /\ Counted(r) = Counted(m)
  BY <1>4, <1>9, <1>14, <1>19, <1>20, <1>23, <1>24 DEF Moved
<1>26. ASSUME NEW x \in Counted(m) PROVE Bal(r, x) = Bal(m, x)
  <2>1. x \in Counted(rz) /\ x \in Counted(r)
    BY <1>4, <1>9, <1>14, <1>25
  <2>2. Bal(r, x) = Balance(r, x) /\ Bal(rz, x) = Balance(rz, x)
    BY <2>1 DEF Bal
  <2>. QED BY <1>15, <1>23, <2>1, <2>2
<1>. QED BY <1>25, <1>26

LEMMA UpdateStep ==
  ASSUME NEW m, Good(m), NEW n, NEW a, a = NULL \/ Alive(m, a), Straight(Update(m, n, a))
  PROVE  LET r == Update(m, n, a) IN
         Moved(m, r) /\ Counted(r) = Counted(m) /\ \A x \in Counted(m) : Bal(r, x) = Bal(m, x)
<1>1. PICK b, r : b = Found(m, n) /\ r = Update(m, n, a)
  OBVIOUS
<1>2. CASE b = NULL
  <2>1. r = m
    BY <1>1, <1>2 DEF Update
  <2>. QED BY <1>1, <2>1, MovedSelf
<1>3. CASE b # NULL
  <2>1. r = Replace(m, b, a, Entries(m, b)) /\ Straight(r)
    BY <1>1, <1>3 DEF Update
  <2>2. b \in DOMAIN m.bindings
    BY <1>1, <1>3, FoundFacts DEF Good
  <2>3. Moved(m, r) /\ Counted(r) = Counted(m) /\ \A x \in Counted(m) : Bal(r, x) = Bal(m, x)
    BY <2>1, <2>2, ReplaceStep
  <2>. QED BY <1>1, <2>3
<1>. QED BY <1>2, <1>3

-----------------------------------------------------------------------------
(* Scopes that come and go. *)

\* The same objects are owned, whatever the scopes are now.
Scoped(m, p) ==
  /\ Good(p) /\ Grows(m, p) /\ Counted(p) = Counted(m) /\ p.bindings = m.bindings /\ p.stray = m.stray
  /\ \A x \in Counted(m) : Bal(p, x) = Bal(m, x)

LEMMA PushOne ==
  ASSUME NEW m, Good(m), NEW t, Table(t, DOMAIN m.bindings)
  PROVE  LET p == PushScope(m, t) IN
         /\ p.heap = m.heap /\ p.bindings = m.bindings /\ p.stray = m.stray /\ DOMAIN p = DOMAIN m
         /\ Topped(m, p, t) /\ IsSeq(p.scopes) /\ \A i \in DOMAIN p.scopes : Table(p.scopes[i], DOMAIN p.bindings)
<1>1. PICK p, s, L : p = PushScope(m, t) /\ s = Append(m.scopes, t) /\ L = Len(m.scopes)
  OBVIOUS
<1>2. Rec(m) /\ Shape(m)
  BY DEF Good, Shape, Rec
<1>3. p.heap = m.heap /\ p.bindings = m.bindings /\ p.stray = m.stray /\ DOMAIN p = DOMAIN m /\ p.scopes = s
  BY <1>1, <1>2 DEF Rec, PushScope
<1>4. IsSeq(m.scopes) /\ L \in Nat /\ DOMAIN m.scopes = 1 .. L
  BY <1>1, <1>2, SeqFacts DEF Shape
<1>5. /\ IsSeq(s) /\ Len(s) = L + 1 /\ DOMAIN s = 1 .. L + 1
      /\ s[L + 1] = t /\ \A i \in 1 .. L : s[i] = m.scopes[i]
  BY <1>1, <1>4, SeqMore
<1>6. ASSUME NEW i \in DOMAIN s PROVE Table(s[i], DOMAIN m.bindings)
  <2>1. i \in 1 .. L \/ i = L + 1
    BY <1>4, <1>5
  <2>. QED BY <1>2, <1>4, <1>5, <2>1 DEF Shape
<1>. QED BY <1>1, <1>3, <1>4, <1>5, <1>6 DEF Topped

\* A function's scopes are pushed: the closure owns nothing more.
LEMMA EnterStep ==
  ASSUME NEW m, Good(m), OddTop(m), NEW t, Table(t, DOMAIN m.bindings),
         NEW p, p = PushScope(PushScope(m, t), <<>>)
  PROVE  /\ Scoped(m, p) /\ OddTop(p) /\ p.heap = m.heap
         /\ Len(p.scopes) = Len(m.scopes) + 2 /\ p.scopes[Len(m.scopes) + 1] = t
         /\ \A i \in 1 .. Len(m.scopes) : p.scopes[i] = m.scopes[i]
<1>1. PICK q : q = PushScope(m, t)
  OBVIOUS
<1>2. Shape(m) /\ Len(m.scopes) \in Nat /\ IsFiniteSet(DOMAIN t)
  BY OddLen DEF Good, Table
<1>3. /\ q.heap = m.heap /\ q.bindings = m.bindings /\ q.stray = m.stray /\ DOMAIN q = DOMAIN m
      /\ Topped(m, q, t) /\ IsSeq(q.scopes) /\ \A i \in DOMAIN q.scopes : Table(q.scopes[i], DOMAIN q.bindings)
  BY <1>1, PushOne
<1>4. ASSUME NEW x PROVE ScopeOcc(q, x) = ScopeOcc(m, x)
  BY <1>2, <1>3, ScopeMore, ScopeFinite
<1>5. /\ Shape(q) /\ Grows(m, q) /\ Counted(q) = Counted(m)
      /\ (\A x \in Counted(m) : Balance(q, x) >= 0) => Good(q)
      /\ \A x \in Counted(m) : Balance(q, x) = Balance(m, x) + ScopeOcc(m, x) - ScopeOcc(q, x)
  <2>1. /\ Binds(m, q) /\ q.stray \in BOOLEAN /\ IsSeq(q.bindings)
        /\ \A b \in DOMAIN q.bindings : q.bindings[b] \in Addr(m)
    BY <1>2, <1>3 DEF Binds, Shape
  <2>. QED BY <1>3, <2>1, NamesGood
<1>6. ASSUME NEW x \in Counted(m) PROVE Balance(q, x) = Balance(m, x) /\ Balance(m, x) \in Int /\ Balance(m, x) >= 0
  <2>1. Balance(m, x) \in Int /\ ScopeOcc(m, x) \in Nat /\ Balance(m, x) >= 0
    BY <1>2, BalanceType DEF Counted, Good
  <2>. QED BY <1>4, <1>5, <2>1
<1>7. Good(q)
  BY <1>5, <1>6
<1>8. Table(<<>>, DOMAIN q.bindings)
  <2>1. DOMAIN <<>> = {}
    OBVIOUS
  <2>. QED BY <2>1, FS_EmptySet DEF Table
<1>9. /\ p.heap = q.heap /\ p.bindings = q.bindings /\ p.stray = q.stray /\ DOMAIN p = DOMAIN q
      /\ Topped(q, p, <<>>) /\ IsSeq(p.scopes) /\ \A i \in DOMAIN p.scopes : Table(p.scopes[i], DOMAIN p.bindings)
  BY <1>1, <1>7, <1>8, PushOne
<1>10. /\ Len(q.scopes) = Len(m.scopes) + 1 /\ Len(p.scopes) = Len(q.scopes) + 1
       /\ q.scopes[Len(m.scopes) + 1] = t
       /\ \A i \in 1 .. Len(m.scopes) : q.scopes[i] = m.scopes[i]
       /\ \A i \in 1 .. Len(q.scopes) : p.scopes[i] = q.scopes[i]
  BY <1>3, <1>9 DEF Topped
<1>11. ~OddTop(q) /\ OddTop(p)
  <2>1. PICK L, Lq, Lp : L = Len(m.scopes) /\ Lq = Len(q.scopes) /\ Lp = Len(p.scopes)
    OBVIOUS
  <2>2. L \in Nat /\ Lq = L + 1 /\ Lp = Lq + 1 /\ L % 2 = 1
    BY <1>2, <1>10, <2>1 DEF OddTop
  <2>3. (L + 1) % 2 = 0 /\ (L + 2) % 2 = L % 2
    BY <2>2, OddEven
  <2>4. Lq % 2 = 0 /\ Lp % 2 = 1
    <3>1. Lp = L + 2
      BY <2>2
    <3>. QED BY <2>2, <2>3, <3>1
  <2>5. 0 # 1
    OBVIOUS
  <2>. QED BY <2>1, <2>4, <2>5 DEF OddTop
<1>12. ASSUME NEW x PROVE ScopeOcc(p, x) = ScopeOcc(q, x)
  <2>1. ScopeOcc(p, x) = ScopeOcc(q, x) + Occurrences(Row(q, <<>>), x)
    BY <1>5, <1>8, <1>9, <1>11, ScopeMore, ScopeFinite DEF Table
  <2>2. DOMAIN Row(q, <<>>) = {}
    BY DEF Row
  <2>3. Occurrences(Row(q, <<>>), x) = 0 /\ ScopeOcc(q, x) \in Nat
    BY <1>5, <2>2, OccNone, OccTypes
  <2>. QED BY <2>1, <2>3
<1>13. /\ Shape(p) /\ Grows(q, p) /\ Counted(p) = Counted(q)
       /\ (\A x \in Counted(q) : Balance(p, x) >= 0) => Good(p)
       /\ \A x \in Counted(q) : Balance(p, x) = Balance(q, x) + ScopeOcc(q, x) - ScopeOcc(p, x)
  <2>1. /\ Binds(q, p) /\ p.stray \in BOOLEAN /\ IsSeq(p.bindings)
        /\ \A b \in DOMAIN p.bindings : p.bindings[b] \in Addr(q)
    BY <1>5, <1>9 DEF Binds, Shape
  <2>. QED BY <1>7, <1>9, <2>1, NamesGood
<1>14. ASSUME NEW x \in Counted(m) PROVE Balance(p, x) = Balance(m, x) /\ Balance(p, x) >= 0
  <2>1. ScopeOcc(q, x) \in Nat /\ x \in Counted(q)
    BY <1>5, OccTypes
  <2>2. Balance(p, x) = Balance(q, x) + ScopeOcc(q, x) - ScopeOcc(p, x)
    BY <1>13, <2>1
  <2>. QED BY <1>6, <1>12, <2>1, <2>2
<1>15. Good(p) /\ Counted(p) = Counted(m) /\ Grows(m, p)
  BY <1>2, <1>5, <1>13, <1>14, GrowsMore
<1>16. \A x \in Counted(m) : Bal(p, x) = Bal(m, x)
  BY <1>14, <1>15 DEF Bal
<1>17. Scoped(m, p)
  BY <1>3, <1>9, <1>15, <1>16 DEF Scoped
<1>18. p.scopes[Len(m.scopes) + 1] = t /\ Len(p.scopes) = Len(m.scopes) + 2
       /\ \A i \in 1 .. Len(m.scopes) : p.scopes[i] = m.scopes[i]
  <2>1. PICK L, Lq, Lp, sq, sp, s : /\ L = Len(m.scopes) /\ Lq = Len(q.scopes) /\ Lp = Len(p.scopes)
                                    /\ s = m.scopes /\ sq = q.scopes /\ sp = p.scopes
    OBVIOUS
  <2>2. /\ L \in Nat /\ Lq = L + 1 /\ Lp = Lq + 1 /\ sq[L + 1] = t
        /\ (\A i \in 1 .. L : sq[i] = s[i]) /\ (\A i \in 1 .. Lq : sp[i] = sq[i])
    BY <1>2, <1>10, <2>1
  <2>3. sp[L + 1] = t /\ Lp = L + 2 /\ \A i \in 1 .. L : sp[i] = s[i]
    BY <2>2
  <2>. QED BY <2>1, <2>3
<1>. QED BY <1>3, <1>9, <1>11, <1>17, <1>18

\* A function's scopes are popped: what the local names stand for is released.
LEMMA LeaveStep ==
  ASSUME NEW m, Good(m), OddTop(m), Len(m.scopes) >= 3,
         NEW p, p = PopClosure(PopScope(m))
  PROVE  /\ Scoped(m, p) /\ OddTop(p)
         /\ Len(p.scopes) = Len(m.scopes) - 2
         /\ \A i \in 1 .. Len(m.scopes) - 2 : p.scopes[i] = m.scopes[i]
<1>1. PICK mb, row, mr : mb = PopClosure(m) /\ row = Row(m, Local(m)) /\ mr = ReleaseAll(mb, row)
  OBVIOUS
<1>2. p = PopClosure(mr)
  BY <1>1 DEF PopScope, Row
<1>3. PICK L : L = Len(m.scopes) /\ L \in Nat /\ L >= 3 /\ Shape(m) /\ L % 2 = 1 /\ Rec(m)
  BY OddLen DEF Good, Rec, Shape, OddTop
<1>4. /\ Shape(mb) /\ Topped(mb, m, Local(m)) /\ mb.heap = m.heap /\ mb.stray = m.stray
      /\ mb.scopes = Front(m.scopes) /\ Table(Local(m), DOMAIN m.bindings)
  BY <1>1, <1>3, PopShape
<1>5. mb.bindings = m.bindings /\ IsFiniteSet(DOMAIN Local(m)) /\ Row(mb, Local(m)) = row
  BY <1>1, <1>4 DEF Topped, Table, Row
<1>6. PICK Lb : Lb = Len(mb.scopes) /\ Lb \in Nat /\ Lb = L - 1
  <2>1. Len(mb.scopes) \in Nat
    BY <1>4, SeqFacts DEF Shape
  <2>2. Len(m.scopes) = Len(mb.scopes) + 1
    BY <1>4 DEF Topped
  <2>. QED BY <1>3, <2>1, <2>2
<1>7. ~OddTop(mb)
  <2>1. Lb + 1 = L
    BY <1>3, <1>6
  <2>2. Lb % 2 = 0
    BY <1>3, <1>6, <2>1, OddEven
  <2>. QED BY <1>6, <2>2 DEF OddTop
<1>8. ASSUME NEW x PROVE ScopeOcc(m, x) = ScopeOcc(mb, x) + Occurrences(row, x)
  BY <1>4, <1>5, <1>7, ScopeMore, ScopeFinite
<1>9. /\ Grows(m, mb) /\ Counted(mb) = Counted(m)
      /\ (\A x \in Counted(m) : Balance(mb, x) >= 0) => Good(mb)
      /\ \A x \in Counted(m) : Balance(mb, x) = Balance(m, x) + ScopeOcc(m, x) - ScopeOcc(mb, x)
  <2>1. /\ Binds(m, mb) /\ mb.stray \in BOOLEAN /\ IsSeq(mb.bindings) /\ DOMAIN mb = DOMAIN m
        /\ \A b \in DOMAIN mb.bindings : mb.bindings[b] \in Addr(m)
    BY <1>3, <1>4, <1>5 DEF Binds, Shape
  <2>2. IsSeq(mb.scopes) /\ \A i \in DOMAIN mb.scopes : Table(mb.scopes[i], DOMAIN mb.bindings)
    BY <1>4 DEF Shape
  <2>. QED BY <1>4, <2>1, <2>2, NamesGood
<1>10. ASSUME NEW x \in Counted(m)
       PROVE  /\ Balance(mb, x) = Balance(m, x) + Occurrences(row, x) /\ Balance(mb, x) >= Occurrences(row, x)
              /\ Balance(m, x) \in Int /\ Occurrences(row, x) \in Nat /\ Balance(mb, x) >= 0
  <2>1. Balance(m, x) \in Int /\ ScopeOcc(m, x) \in Nat /\ Balance(m, x) >= 0 /\ ScopeOcc(mb, x) \in Nat
    BY <1>3, <1>4, BalanceType, OccTypes DEF Counted, Good
  <2>2. Occurrences(row, x) \in Nat
    BY <1>1, <1>5, RowType
  <2>. QED BY <1>8, <1>9, <2>1, <2>2
<1>11. Good(mb) /\ IsFiniteSet(DOMAIN row)
  BY <1>1, <1>5, <1>9, <1>10, RowType
<1>12. LET m2 == ReleaseAll(mb, row) IN
       /\ Moved(mb, m2) /\ Same(mb, m2) /\ Counted(m2) = Counted(mb)
       /\ \A x : Alive(m2, x) <=> Alive(mb, x) /\ x \notin Dead(mb, row)
       /\ \A x \in Counted(mb) : Bal(m2, x) = Bal(mb, x) - Occurrences(row, x)
  <2>1. \A x \in Counted(mb) : Bal(mb, x) >= Occurrences(row, x)
    BY <1>9, <1>10 DEF Bal
  <2>. QED BY <1>11, <2>1, ReleaseAllStep
<1>13. /\ Good(mr) /\ Grows(mb, mr) /\ mr.scopes = mb.scopes /\ mr.stray = m.stray /\ mr.bindings = m.bindings
       /\ DOMAIN mr = DOMAIN m /\ Counted(mr) = Counted(m)
  BY <1>1, <1>3, <1>4, <1>5, <1>9, <1>12 DEF Moved, Same, SameNames, Shape, Rec
<1>14. ASSUME NEW x \in Counted(m) PROVE Balance(mr, x) = Balance(m, x) /\ Balance(m, x) \in Int /\ Balance(m, x) >= 0
  <2>1. x \in Counted(mb) /\ x \in Counted(mr)
    BY <1>9, <1>13
  <2>2. Bal(mr, x) = Bal(mb, x) - Occurrences(row, x) /\ Bal(mr, x) = Balance(mr, x) /\ Bal(mb, x) = Balance(mb, x)
    BY <1>1, <1>12, <2>1 DEF Bal
  <2>3. Balance(m, x) >= 0
    BY DEF Good, Counted
  <2>. QED BY <1>10, <2>2, <2>3
<1>15. Shape(mr) /\ Len(mr.scopes) > 0 /\ Len(mr.scopes) = Lb
  <2>1. Lb > 0
    BY <1>3, <1>6
  <2>2. Len(mr.scopes) = Lb
    BY <1>6, <1>13
  <2>3. Shape(mr)
    BY <1>13 DEF Good
  <2>. QED BY <2>1, <2>2, <2>3
<1>16. /\ Shape(p) /\ Topped(p, mr, Local(mr)) /\ p.heap = mr.heap /\ p.stray = mr.stray
       /\ p.scopes = Front(mr.scopes) /\ Table(Local(mr), DOMAIN mr.bindings)
  BY <1>2, <1>15, PopShape
<1>17. PICK Lp : Lp = Len(p.scopes) /\ Lp \in Nat /\ Lp = L - 2
  <2>1. PICK Lp : Lp = Len(p.scopes)
    OBVIOUS
  <2>2. Lp \in Nat
    BY <1>16, <2>1, SeqFacts DEF Shape
  <2>3. Lb = Lp + 1
    BY <1>15, <1>16, <2>1 DEF Topped
  <2>4. Lp = L - 2
    BY <1>3, <1>6, <2>2, <2>3
  <2>. QED BY <2>1, <2>2, <2>4
<1>18. OddTop(p)
  <2>1. Lp + 2 = L
    BY <1>3, <1>17
  <2>2. Lp % 2 = 1
    BY <1>3, <1>17, <2>1, OddEven
  <2>. QED BY <1>17, <2>2 DEF OddTop
<1>19. ASSUME NEW x PROVE ScopeOcc(mr, x) = ScopeOcc(p, x)
  BY <1>16, <1>18, ScopeMore, ScopeFinite DEF Table
<1>20. /\ Grows(mr, p) /\ Counted(p) = Counted(mr) /\ p.bindings = mr.bindings
       /\ (\A x \in Counted(mr) : Balance(p, x) >= 0) => Good(p)
       /\ \A x \in Counted(mr) : Balance(p, x) = Balance(mr, x) + ScopeOcc(mr, x) - ScopeOcc(p, x)
  <2>1. p.bindings = mr.bindings
    BY <1>16 DEF Topped
  <2>2. /\ Binds(mr, p) /\ p.stray \in BOOLEAN /\ IsSeq(p.bindings) /\ DOMAIN p = DOMAIN mr
        /\ \A b \in DOMAIN p.bindings : p.bindings[b] \in Addr(mr)
    BY <1>15, <1>16, <2>1 DEF Binds, Shape
  <2>3. IsSeq(p.scopes) /\ \A i \in DOMAIN p.scopes : Table(p.scopes[i], DOMAIN p.bindings)
    BY <1>16 DEF Shape
  <2>. QED BY <1>13, <1>16, <2>1, <2>2, <2>3, NamesGood
<1>21. ASSUME NEW x \in Counted(m) PROVE Balance(p, x) = Balance(m, x) /\ Balance(p, x) >= 0
  <2>1. ScopeOcc(mr, x) \in Nat /\ x \in Counted(mr)
    BY <1>13, <1>15, OccTypes
  <2>2. Balance(p, x) = Balance(mr, x) + ScopeOcc(mr, x) - ScopeOcc(p, x)
    BY <1>20, <2>1
  <2>. QED BY <1>14, <1>19, <2>1, <2>2
<1>22. Good(p) /\ Counted(p) = Counted(m)
  BY <1>13, <1>20, <1>21
<1>23. Grows(m, p)
  <2>1. Grows(m, mr)
    BY <1>3, <1>4, <1>9, <1>13, <1>15, GrowsMore
  <2>. QED BY <1>3, <1>15, <1>16, <1>20, <2>1, GrowsMore
<1>24. \A x \in Counted(m) : Bal(p, x) = Bal(m, x)
  BY <1>21, <1>22 DEF Bal
<1>25. Scoped(m, p)
  BY <1>13, <1>16, <1>20, <1>22, <1>23, <1>24 DEF Scoped
<1>26. Len(p.scopes) = Len(m.scopes) - 2 /\ \A i \in 1 .. Len(m.scopes) - 2 : p.scopes[i] = m.scopes[i]
  <2>1. PICK s, sb, sp : s = m.scopes /\ sb = mb.scopes /\ sp = p.scopes
    OBVIOUS
  <2>2. \A i \in 1 .. Lb : s[i] = sb[i]
    BY <1>4, <1>6, <2>1 DEF Topped
  <2>3. \A i \in 1 .. Lp : sb[i] = sp[i]
    BY <1>13, <1>16, <1>17, <2>1 DEF Topped
  <2>4. Lp = L - 2 /\ \A i \in 1 .. L - 2 : sp[i] = s[i]
    BY <1>3, <1>6, <1>17, <2>2, <2>3
  <2>. QED BY <1>3, <1>17, <2>1, <2>4
<1>. QED BY <1>18, <1>25, <1>26

\* A closure among the scopes has live values if its function lives.
LEMMA SecureBy ==
  ASSUME NEW m, Good(m),
         \A i \in DOMAIN m.scopes \ OwnScopes(m) :
           \E f \in DOMAIN m.heap : /\ m.heap[f].closure = m.scopes[i]
                                    /\ \A m2 : Follows(m, m2) => Alive(m2, f)
  PROVE  Secure(m)
<1>1. SUFFICES ASSUME NEW m2, Follows(m, m2), NEW i \in DOMAIN m.scopes \ OwnScopes(m), NEW k \in DOMAIN m.scopes[i]
               PROVE  m.bindings[m.scopes[i][k]] = NULL \/ Alive(m2, m.bindings[m.scopes[i][k]])
  BY DEF Secure
<1>2. PICK f \in DOMAIN m.heap : m.heap[f].closure = m.scopes[i] /\ Alive(m2, f)
  BY <1>1
<1>3. Good(m2) /\ Grows(m, m2) /\ Binds(m, m2)
  BY <1>1 DEF Follows
<1>4. m2.heap[f].closure = m.scopes[i] /\ f \in DOMAIN m2.heap
  BY <1>2, <1>3 DEF Grows
<1>5. m2.bindings[m.scopes[i][k]] = m.bindings[m.scopes[i][k]]
  BY <1>3 DEF Good, Shape, Table, Binds
<1>6. Shape(m2) /\ \A a \in DOMAIN m2.heap \ {Nil} : Balance(m2, a) >= 0
  BY <1>3 DEF Good
<1>7. \A n \in DOMAIN m2.heap[f].closure :
        LET a == m2.bindings[m2.heap[f].closure[n]] IN a = NULL \/ Alive(m2, a)
  BY <1>4, <1>6, OwnedAlive
<1>. QED BY <1>4, <1>5, <1>7

-----------------------------------------------------------------------------
(* Booleans. *)

\* The same memory, but for counts; and one with one more reference to a.
Idle(m, p) ==
  /\ Moved(m, p) /\ p.bindings = m.bindings /\ Counted(p) = Counted(m)
  /\ \A x : Alive(p, x) <=> Alive(m, x)
  /\ \A x \in Counted(m) : Bal(p, x) = Bal(m, x)
Shift(m, p, a) ==
  /\ Moved(m, p) /\ p.bindings = m.bindings /\ Counted(p) = Counted(m)
  /\ \A x : Alive(p, x) <=> Alive(m, x)
  /\ \A x \in Counted(m) : Bal(p, x) = Bal(m, x) + Ind(a, x)

LEMMA BooleanFacts == True \in Nat /\ True > 1 /\ False = True + 1 /\ DOMAIN Kept = 1 .. False
<1>1. PICK n : n = Len(BuiltinNames)
  OBVIOUS
<1>2. n \in Nat
  BY <1>1 DEF BuiltinNames, GlobalNames, MethodNames
<1>3. True = n + 2 /\ False = n + 3
  BY <1>1 DEF True, False
<1>. QED BY <1>2, <1>3 DEF Kept

LEMMA BoolPlace ==
  ASSUME NEW m, Shape(m), NEW b
  PROVE  {True, False, Bool(b)} \subseteq DOMAIN m.heap
<1>1. Len(m.heap) \in Nat /\ DOMAIN m.heap = 1 .. Len(m.heap) /\ Len(m.heap) >= False
  BY Addresses DEF Shape
<1>2. PICK h : h = Len(m.heap)
  OBVIOUS
<1>3. True \in 1 .. h /\ False \in 1 .. h
  BY <1>1, <1>2, BooleanFacts
<1>. QED BY <1>1, <1>2, <1>3 DEF Bool

LEMMA IdleMore ==
  ASSUME NEW m, NEW p, NEW q, Good(m), Idle(m, p), Idle(p, q)
  PROVE  Idle(m, q)
<1>1. Moved(m, q)
  BY MovedMore DEF Idle
<1>. QED BY <1>1 DEF Idle

LEMMA IdleShift ==
  ASSUME NEW m, NEW p, NEW q, NEW a, Good(m), Idle(m, p), Shift(p, q, a)
  PROVE  Shift(m, q, a)
<1>1. Moved(m, q)
  BY MovedMore DEF Idle, Shift
<1>. QED BY <1>1 DEF Idle, Shift

LEMMA RetainShift ==
  ASSUME NEW m, Good(m), NEW x, x = NULL \/ Alive(m, x)
  PROVE  Shift(m, Retain(m, x), x)
<1>1. PICK p : p = Retain(m, x)
  OBVIOUS
<1>2. /\ Moved(m, p) /\ Same(m, p) /\ Counted(p) = Counted(m)
      /\ \A a : Alive(p, a) <=> Alive(m, a)
      /\ \A a \in Counted(m) : Bal(p, a) = Bal(m, a) + Ind(x, a)
  BY <1>1, RetainStep
<1>3. p.bindings = m.bindings
  BY <1>2 DEF Same, SameNames
<1>. QED BY <1>1, <1>2, <1>3 DEF Shift

\* A reference is taken, and lost.
LEMMA ShiftLost ==
  ASSUME NEW m, Good(m), NEW p, NEW a, Shift(m, p, a)
  PROVE  Idle(m, Lose(p, a))
<1>1. PICK q : q = Lose(p, a)
  OBVIOUS
<1>2. Good(p) /\ Counted(p) = Counted(m)
  BY DEF Shift, Moved
<1>3. ASSUME NEW x \in Counted(p)
      PROVE  Bal(p, x) = Bal(m, x) + Ind(a, x) /\ Bal(m, x) \in Nat /\ Ind(a, x) \in Nat
  BY <1>2, BalType DEF Shift, Ind
<1>4. \A x \in Counted(p) : Bal(p, x) >= Ind(a, x)
  <2>1. ASSUME NEW x \in Counted(p) PROVE Bal(p, x) >= Ind(a, x)
    BY <1>3
  <2>. QED BY <2>1
<1>5. LET m2 == Lose(p, a) IN
      /\ Moved(p, m2) /\ Same(p, m2) /\ Counted(m2) = Counted(p)
      /\ \A x : Alive(m2, x) <=> Alive(p, x)
      /\ \A x \in Counted(p) : Bal(m2, x) = Bal(p, x) - Ind(a, x)
  BY <1>2, <1>4, LoseStep
<1>6. q.bindings = m.bindings /\ Counted(q) = Counted(m) /\ Moved(p, q) /\ \A x : Alive(q, x) <=> Alive(m, x)
  BY <1>1, <1>2, <1>5 DEF Same, SameNames, Shift
<1>7. ASSUME NEW x \in Counted(m) PROVE Bal(q, x) = Bal(m, x)
  <2>1. Bal(q, x) = Bal(p, x) - Ind(a, x)
    BY <1>1, <1>2, <1>5
  <2>. QED BY <1>2, <1>3, <2>1
<1>8. Moved(m, q)
  BY <1>6, MovedMore DEF Shift
<1>. QED BY <1>1, <1>6, <1>7, <1>8 DEF Idle

LEMMA RetainLost ==
  ASSUME NEW m, Good(m), NEW a, a = NULL \/ Alive(m, a)
  PROVE  Idle(m, Lose(Retain(m, a), a))
  BY RetainShift, ShiftLost

LEMMA LoseRec ==
  ASSUME NEW m, Rec(m), NEW a
  PROVE  Rec(Lose(m, a)) /\ Lose(m, a).stray = m.stray
  BY DEF Rec, Lose, LoseAll

LEMMA TouchRec ==
  ASSUME NEW m, Rec(m), NEW a
  PROVE  /\ Rec(Touch(m, a)) /\ Touch(m, a).stray = (m.stray \/ m.heap[a].count = 0)
         /\ Touch(m, a).heap = m.heap /\ Touch(m, a).bindings = m.bindings /\ Touch(m, a).scopes = m.scopes
  BY DEF Rec, Touch

LEMMA GoodRec == ASSUME NEW m, Good(m) PROVE Rec(m) /\ Whole(m)
  BY DEF Good, Shape, Sound, Rec, Whole

\* What is touched without harm lives.
LEMMA TouchStep ==
  ASSUME NEW m, Good(m), NEW a \in DOMAIN m.heap, NEW p, p = Touch(m, a), Straight(p)
  PROVE  Idle(m, p) /\ Alive(m, a) /\ p.heap = m.heap
<1>1. /\ Rec(m) /\ Rec(p) /\ p.stray = (m.stray \/ m.heap[a].count = 0)
      /\ p.heap = m.heap /\ p.bindings = m.bindings /\ p.scopes = m.scopes
  BY GoodRec, TouchRec
<1>2. Shape(m) /\ m.stray \in BOOLEAN /\ m.heap[a].count \in Nat
  BY DEF Good, Shape, Sound
<1>3. m.stray = FALSE /\ p.stray = FALSE /\ m.heap[a].count # 0
  BY <1>1, <1>2 DEF Straight
<1>4. Alive(m, a)
  BY <1>2, <1>3 DEF Alive, Count
<1>5. /\ Shape(p) /\ Grows(m, p) /\ Counted(p) = Counted(m)
      /\ (\A x \in Counted(m) : Balance(p, x) >= 0) => Good(p)
      /\ \A x \in Counted(m) : Balance(p, x) = Balance(m, x) + ScopeOcc(m, x) - ScopeOcc(p, x)
  <2>1. /\ DOMAIN p = DOMAIN m /\ Binds(m, p) /\ IsSeq(p.bindings)
        /\ \A b \in DOMAIN p.bindings : p.bindings[b] \in Addr(m)
    BY <1>1, <1>2 DEF Shape, Rec, Binds
  <2>2. IsSeq(p.scopes) /\ \A i \in DOMAIN p.scopes : Table(p.scopes[i], DOMAIN p.bindings)
    BY <1>1, <1>2 DEF Shape
  <2>. QED BY <1>1, <1>3, <2>1, <2>2, NamesGood
<1>6. ASSUME NEW x \in Counted(m) PROVE Balance(p, x) = Balance(m, x) /\ Balance(p, x) >= 0
  <2>1. ScopeOcc(p, x) = ScopeOcc(m, x)
    BY <1>1, ScopeOccSame
  <2>2. Balance(m, x) \in Int /\ ScopeOcc(m, x) \in Nat /\ Balance(m, x) >= 0
    BY <1>2, BalanceType DEF Good, Counted
  <2>. QED BY <1>5, <2>1, <2>2
<1>7. Good(p)
  BY <1>5, <1>6
<1>8. Moved(m, p)
  BY <1>1, <1>3, <1>5, <1>7 DEF Moved
<1>9. \A x : Alive(p, x) <=> Alive(m, x)
  BY <1>1 DEF Alive, Count
<1>10. \A x \in Counted(m) : Bal(p, x) = Bal(m, x)
  BY <1>5, <1>6 DEF Bal
<1>. QED BY <1>1, <1>4, <1>5, <1>8, <1>9, <1>10 DEF Idle

LEMMA ShareStep ==
  ASSUME NEW m, Good(m), NEW b, NEW p, p = Share(m, b), Straight(p)
  PROVE  Shift(m, p, Bool(b)) /\ Alive(p, Bool(b))
<1>1. PICK q, x : q = Touch(m, Bool(b)) /\ x = Bool(b) /\ p = Retain(q, x)
  BY DEF Share
<1>2. Straight(q) /\ x \in DOMAIN m.heap
  <2>1. Rec(q) /\ p.stray = q.stray
    BY <1>1, GoodRec, TouchRec, RetainRec
  <2>. QED BY <1>1, <2>1, BoolPlace DEF Straight, Good
<1>3. Idle(m, q) /\ Alive(m, x)
  BY <1>1, <1>2, TouchStep
<1>4. Good(q) /\ Alive(q, x)
  BY <1>3 DEF Idle, Moved
<1>5. Shift(q, p, x)
  BY <1>1, <1>4, RetainShift
<1>6. Shift(m, p, x)
  BY <1>3, <1>5, IdleShift
<1>. QED BY <1>1, <1>4, <1>5, <1>6 DEF Shift

LEMMA ValueOfPlace ==
  ASSUME NEW m, Shape(m), NEW a, a = NULL \/ Alive(m, a)
  PROVE  ValueOf(m, a) \in DOMAIN m.heap
<1>1. ValueOf(m, a) \in {True, False, a} /\ (ValueOf(m, a) = a /\ a \notin {True, False} => Type(m, a) = "boolean")
  <2>1. Bool(Items(m, a) # <<>>) \in {True, False}
    BY DEF Bool
  <2>. QED BY <2>1 DEF ValueOf
<1>2. {True, False} \subseteq DOMAIN m.heap
  BY BoolPlace
<1>3. Type(m, a) = "boolean" => a \in DOMAIN m.heap
  BY DEF Type, Alive
<1>. QED BY <1>1, <1>2, <1>3

LEMMA ValuedStep ==
  ASSUME NEW m, Good(m), NEW a, a = NULL \/ Alive(m, a), NEW p, p = Valued(m, a), Straight(p)
  PROVE  Idle(m, p) /\ Alive(m, ValueOf(m, a)) /\ p.heap = m.heap
<1>1. ValueOf(m, a) \in DOMAIN m.heap
  BY ValueOfPlace DEF Good
<1>. QED BY <1>1, TouchStep DEF Valued

LEMMA ValueLostStep ==
  ASSUME NEW m, Good(m), NEW a, a = NULL \/ Alive(m, a), NEW p, p = ValueLost(m, a), Straight(p)
  PROVE  Idle(m, p)
<1>1. PICK v, q, r : v = ValueOf(m, a) /\ q = Valued(m, a) /\ r = Retain(q, v) /\ p = Lose(r, v)
  BY DEF ValueLost
<1>2. Straight(q)
  <2>1. Rec(q) /\ Rec(r) /\ p.stray = q.stray
    BY <1>1, GoodRec, TouchRec, RetainRec, LoseRec DEF Valued
  <2>. QED BY <2>1 DEF Straight
<1>3. Idle(m, q) /\ Alive(m, v)
  BY <1>1, <1>2, ValuedStep
<1>4. Good(q) /\ Alive(q, v)
  BY <1>3 DEF Idle, Moved
<1>5. Idle(q, p)
  BY <1>1, <1>4, RetainLost
<1>. QED BY <1>3, <1>5, IdleMore

LEMMA ValueLostRec ==
  ASSUME NEW m, Rec(m), NEW a
  PROVE  Rec(ValueLost(m, a)) /\ (Straight(ValueLost(m, a)) => Straight(m))
<1>1. PICK v, q, r : v = ValueOf(m, a) /\ q = Touch(m, v) /\ r = Retain(q, v) /\ ValueLost(m, a) = Lose(r, v)
  BY DEF ValueLost, Valued
<1>2. Rec(q) /\ Rec(r) /\ Rec(Lose(r, v)) /\ Lose(r, v).stray = q.stray /\ q.stray = (m.stray \/ m.heap[v].count = 0)
  BY <1>1, TouchRec, RetainRec, LoseRec
<1>. QED BY <1>1, <1>2 DEF Straight


-----------------------------------------------------------------------------
(* Properties and variables that are looked up. *)

LEMMA BuiltinList ==
  /\ Len(BuiltinNames) = 39 /\ DOMAIN BuiltinNames = 1 .. 39
  /\ BuiltinNames[1] = "Object" /\ BuiltinNames[32] = "Object.get" /\ BuiltinNames[33] = "Object.set"
  /\ BuiltinNames[34] = "Object.clone" /\ BuiltinNames[35] = "Object.patch"
  /\ BuiltinNames[36] = "Object.->string" /\ BuiltinNames[37] = "Object.inspect"
  /\ BuiltinNames[38] = "Object.create" /\ BuiltinNames[39] = "RawObject"
<1>1. PICK G, M, R : G = GlobalNames /\ M = MethodNames /\ R = <<"Object.create", "RawObject">>
  OBVIOUS
<1>2. IsSeq(G) /\ Len(G) = 31
  BY <1>1 DEF GlobalNames, IsSeq
<1>3. IsSeq(M) /\ Len(M) = 6
  BY <1>1 DEF MethodNames, IsSeq
<1>4. IsSeq(R) /\ Len(R) = 2
  BY <1>1 DEF IsSeq
<1>5. PICK GM : GM = G \o M
  OBVIOUS
<1>6. IsSeq(GM) /\ Len(GM) = 37 /\ (\A i \in 1 .. 31 : GM[i] = G[i]) /\ (\A i \in 1 .. 6 : GM[31 + i] = M[i])
  <2>1. Joined(G, M, GM)
    BY <1>2, <1>3, <1>5, SeqJoin
  <2>. QED BY <2>1, <1>2, <1>3 DEF Joined
<1>7. PICK B : B = GM \o R
  OBVIOUS
<1>8. IsSeq(B) /\ Len(B) = 39 /\ (\A i \in 1 .. 37 : B[i] = GM[i]) /\ (\A i \in 1 .. 2 : B[37 + i] = R[i])
  <2>1. Joined(GM, R, B)
    BY <1>4, <1>6, <1>7, SeqJoin
  <2>. QED BY <2>1, <1>4, <1>6 DEF Joined
<1>9. B = BuiltinNames
  BY <1>1, <1>5, <1>7 DEF BuiltinNames
<1>10. G[1] = "Object"
  BY <1>1 DEF GlobalNames
<1>11. /\ M[1] = "Object.get" /\ M[2] = "Object.set" /\ M[3] = "Object.clone"
       /\ M[4] = "Object.patch" /\ M[5] = "Object.->string" /\ M[6] = "Object.inspect"
  BY <1>1 DEF MethodNames
<1>12. R[1] = "Object.create" /\ R[2] = "RawObject"
  BY <1>1
<1>13. GM[1] = G[1] /\ GM[32] = M[1] /\ GM[33] = M[2] /\ GM[34] = M[3] /\ GM[35] = M[4] /\ GM[36] = M[5] /\ GM[37] = M[6]
  BY <1>6, 1 \in 1 .. 31, 31 + 1 = 32, 31 + 2 = 33, 31 + 3 = 34, 31 + 4 = 35, 31 + 5 = 36, 31 + 6 = 37
<1>14. B[1] = GM[1] /\ B[32] = GM[32] /\ B[33] = GM[33] /\ B[34] = GM[34] /\ B[35] = GM[35] /\ B[36] = GM[36] /\ B[37] = GM[37]
  BY <1>8
<1>15. B[38] = R[1] /\ B[39] = R[2]
  BY <1>8, 37 + 1 = 38, 37 + 2 = 39
<1>16. Len(B) = 39 /\ DOMAIN B = 1 .. 39
  BY <1>8, SeqFacts
<1>. QED BY <1>9, <1>10, <1>11, <1>12, <1>13, <1>14, <1>15, <1>16

LEMMA BuiltinPlace ==
  ASSUME NEW i \in 1 .. 39
  PROVE  /\ BuiltinNames[i] \in Range(BuiltinNames) /\ BuiltinNames[i] \in DOMAIN Builtin
         /\ Builtin[BuiltinNames[i]] \in 2 .. 40
         /\ BuiltinNames[Builtin[BuiltinNames[i]] - 1] = BuiltinNames[i]
<1>1. DOMAIN BuiltinNames = 1 .. 39
  BY BuiltinList
<1>2. BuiltinNames[i] \in Range(BuiltinNames)
  BY <1>1 DEF Range
<1>3. PICK k : k = CHOOSE j \in DOMAIN BuiltinNames : BuiltinNames[j] = BuiltinNames[i]
  OBVIOUS
<1>4. k \in 1 .. 39 /\ BuiltinNames[k] = BuiltinNames[i]
  BY <1>1, <1>3
<1>5. Builtin[BuiltinNames[i]] = 1 + k /\ BuiltinNames[i] \in DOMAIN Builtin
  BY <1>2, <1>3 DEF Builtin
<1>. QED BY <1>2, <1>4, <1>5

LEMMA MethodFacts ==
  /\ DOMAIN Methods = {"get", "set", "inspect", "clone", "patch", "->string"}
  /\ \A n \in DOMAIN Methods : Methods[n] \in 2 .. 40 /\ Keeps(Methods[n]) # 0
  /\ Keeps(True) # 0 /\ False = 42
<1>1. PICK f : f = [get |-> Builtin["Object.get"], set |-> Builtin["Object.set"], inspect |-> Builtin["Object.inspect"],
                    clone |-> Builtin["Object.clone"], patch |-> Builtin["Object.patch"]]
  OBVIOUS
<1>2. Methods = Put(f, "->string", Builtin["Object.->string"])
  BY <1>1 DEF Methods
<1>3. DOMAIN f = {"get", "set", "inspect", "clone", "patch"}
  BY <1>1
<1>4. DOMAIN Methods = {"get", "set", "inspect", "clone", "patch", "->string"}
  BY <1>2, <1>3 DEF Put
<1>5. /\ Methods["get"] = Builtin["Object.get"] /\ Methods["set"] = Builtin["Object.set"]
      /\ Methods["inspect"] = Builtin["Object.inspect"] /\ Methods["clone"] = Builtin["Object.clone"]
      /\ Methods["patch"] = Builtin["Object.patch"] /\ Methods["->string"] = Builtin["Object.->string"]
  BY <1>1, <1>2, <1>3 DEF Put
<1>6. /\ Builtin["Object.get"] \in 2 .. 40 /\ Builtin["Object.set"] \in 2 .. 40 /\ Builtin["Object.inspect"] \in 2 .. 40
      /\ Builtin["Object.clone"] \in 2 .. 40 /\ Builtin["Object.patch"] \in 2 .. 40
      /\ Builtin["Object.->string"] \in 2 .. 40
  <2>1. \A i \in 1 .. 39 : Builtin[BuiltinNames[i]] \in 2 .. 40
    BY BuiltinPlace
  <2>. QED BY <2>1, BuiltinList
<1>7. \A n \in DOMAIN Methods : Methods[n] \in 2 .. 40
  BY <1>4, <1>5, <1>6
<1>8. False = 42 /\ True = 41 /\ DOMAIN Kept = 1 .. 42
  BY BuiltinList, BooleanFacts DEF True, False
<1>9. PICK raw : raw = {True} \cup {Methods[n] : n \in RawMethods}
  OBVIOUS
<1>10. ASSUME NEW a \in 1 .. 42, a \in raw \/ a \in {Object, RawObject, Methods["clone"], Methods["patch"]}
       PROVE  Keeps(a) # 0
  <2>1. Kept[a] = CASE a \in raw -> 2
                    [] a \in {Object, RawObject, Methods["clone"], Methods["patch"]} -> 1
                    [] OTHER -> 0
    BY <1>8, <1>9 DEF Kept
  <2>2. Kept[a] # 0
    BY <1>10, <2>1
  <2>. QED BY <1>8, <2>2 DEF Keeps
<1>11. \A n \in DOMAIN Methods : Methods[n] \in raw \/ Methods[n] \in {Object, RawObject, Methods["clone"], Methods["patch"]}
  BY <1>4, <1>9 DEF RawMethods
<1>12. True \in raw /\ True \in 1 .. 42
  BY <1>8, <1>9
<1>13. \A n \in DOMAIN Methods : Methods[n] \in 1 .. 42
  BY <1>7
<1>. QED BY <1>4, <1>7, <1>8, <1>10, <1>11, <1>12, <1>13

\* What is kept lives.
LEMMA KeptAlive ==
  ASSUME NEW m, Good(m), NEW a \in 2 .. 42, Keeps(a) # 0
  PROVE  Alive(m, a)
<1>1. a \in DOMAIN m.heap \ {Nil}
  <2>1. Shape(m)
    BY DEF Good
  <2>2. Len(m.heap) \in Nat /\ DOMAIN m.heap = 1 .. Len(m.heap) /\ Len(m.heap) >= False
    BY <2>1, Addresses DEF Shape
  <2>3. PICK h : h = Len(m.heap)
    OBVIOUS
  <2>4. h \in Nat /\ h >= 42
    BY <2>2, <2>3, MethodFacts
  <2>5. a \in 1 .. h /\ a # 1
    BY <2>4
  <2>. QED BY <2>2, <2>3, <2>5 DEF Nil
<1>. QED BY <1>1, Referred DEF Good

LEMMA PropAlive ==
  ASSUME NEW m, Good(m), NEW a \in DOMAIN m.heap, NEW n
  PROVE  GetProp(m, a, n) = NULL \/ Alive(m, GetProp(m, a, n))
<1>1. Shape(m) /\ \A x \in DOMAIN m.heap \ {Nil} : Balance(m, x) >= 0
  BY DEF Good
<1>2. \A k \in DOMAIN m.heap[a].props : m.heap[a].props[k] = NULL \/ Alive(m, m.heap[a].props[k])
  BY <1>1, OwnedAlive
<1>3. Alive(m, True)
  BY KeptAlive, MethodFacts, BooleanFacts
<1>4. \A k \in DOMAIN Methods : Alive(m, Methods[k])
  <2>1. \A k \in DOMAIN Methods : Methods[k] \in 2 .. 42 /\ Keeps(Methods[k]) # 0
    BY MethodFacts
  <2>. QED BY <2>1, KeptAlive
<1>5. PICK own, flag, method :
        /\ own = (n \in DOMAIN m.heap[a].props)
        /\ flag = (n \notin DOMAIN m.heap[a].props /\ n \in Flags /\ Type(m, Root(m, a)) = "function")
        /\ method = (n \notin DOMAIN m.heap[a].props /\ n \in DOMAIN Methods
                       /\ (n \in RawMethods \/ Root(m, a) # RawObject))
  OBVIOUS
<1>6. GetProp(m, a, n) = CASE own -> m.heap[a].props[n] [] flag -> True [] method -> Methods[n] [] OTHER -> NULL
  BY <1>5 DEF GetProp
<1>. QED BY <1>2, <1>3, <1>4, <1>5, <1>6

\* What a name stands for lives as long as the same scopes do.
LEMMA ResolveAlive ==
  ASSUME NEW m, Good(m), Secure(m), NEW n, NEW m2, Follows(m, m2), m2.scopes = m.scopes
  PROVE  Resolve(m, n) = NULL \/ Alive(m2, Resolve(m, n))
<1>1. PICK b : b = Found(m, n)
  OBVIOUS
<1>2. Resolve(m, n) = NULL \/ (b # NULL /\ Resolve(m, n) = m.bindings[b])
  BY <1>1 DEF Resolve, Entry
<1>3. ASSUME b # NULL PROVE m.bindings[b] = NULL \/ Alive(m2, m.bindings[b])
  <2>1. PICK i \in Holders(m, n) : b = m.scopes[i][n] /\ b \in DOMAIN m.bindings
    BY <1>1, <1>3, FoundFacts DEF Good
  <2>2. i \in DOMAIN m.scopes /\ n \in DOMAIN m.scopes[i]
    BY DEF Holders
  <2>3. Good(m2) /\ Binds(m, m2)
    BY DEF Follows
  <2>4. CASE i \in OwnScopes(m)
    <3>1. Shape(m2) /\ (\A a \in DOMAIN m2.heap \ {Nil} : Balance(m2, a) >= 0) /\ i \in OwnScopes(m2)
      BY <2>3, <2>4 DEF Good, OwnScopes
    <3>2. LET a == m2.bindings[m2.scopes[i][n]] IN a = NULL \/ Alive(m2, a)
      BY <2>2, <3>1, ScopedAlive
    <3>3. m2.bindings[b] = m.bindings[b]
      BY <2>1, <2>3 DEF Binds
    <3>. QED BY <2>1, <3>2, <3>3
  <2>5. CASE i \notin OwnScopes(m)
    BY <2>1, <2>2, <2>5 DEF Secure
  <2>. QED BY <2>4, <2>5
<1>. QED BY <1>2, <1>3

-----------------------------------------------------------------------------
(* What sol_runtime_init creates. *)

\* The names of the builtins, one by one: they differ.
Named39 ==
  /\ BuiltinNames[1] = "Object" /\ BuiltinNames[2] = "+" /\ BuiltinNames[3] = "-" /\ BuiltinNames[4] = "*"
  /\ BuiltinNames[5] = "/" /\ BuiltinNames[6] = "mod" /\ BuiltinNames[7] = "exit" /\ BuiltinNames[8] = "bind"
  /\ BuiltinNames[9] = "bound?" /\ BuiltinNames[10] = "set" /\ BuiltinNames[11] = "define"
  /\ BuiltinNames[12] = "evaluate" /\ BuiltinNames[13] = "freeze" /\ BuiltinNames[14] = "list"
  /\ BuiltinNames[15] = "@list" /\ BuiltinNames[16] = "^" /\ BuiltinNames[17] = "#" /\ BuiltinNames[18] = "wrap"
  /\ BuiltinNames[19] = "unwrap" /\ BuiltinNames[20] = "print" /\ BuiltinNames[21] = "not"
  /\ BuiltinNames[22] = "and" /\ BuiltinNames[23] = "or" /\ BuiltinNames[24] = "=" /\ BuiltinNames[25] = "<"
  /\ BuiltinNames[26] = ">" /\ BuiltinNames[27] = "<=" /\ BuiltinNames[28] = ">=" /\ BuiltinNames[29] = "?"
  /\ BuiltinNames[30] = "loop" /\ BuiltinNames[31] = "cat" /\ BuiltinNames[32] = "Object.get"
  /\ BuiltinNames[33] = "Object.set" /\ BuiltinNames[34] = "Object.clone" /\ BuiltinNames[35] = "Object.patch"
  /\ BuiltinNames[36] = "Object.->string" /\ BuiltinNames[37] = "Object.inspect"
  /\ BuiltinNames[38] = "Object.create" /\ BuiltinNames[39] = "RawObject"

LEMMA BuiltinEach == Named39
<1>1. PICK G, M, R : G = GlobalNames /\ M = MethodNames /\ R = <<"Object.create", "RawObject">>
  OBVIOUS
<1>2. IsSeq(G) /\ Len(G) = 31
  BY <1>1 DEF GlobalNames, IsSeq
<1>3. IsSeq(M) /\ Len(M) = 6
  BY <1>1 DEF MethodNames, IsSeq
<1>4. IsSeq(R) /\ Len(R) = 2
  BY <1>1 DEF IsSeq
<1>5. PICK GM : GM = G \o M
  OBVIOUS
<1>6. IsSeq(GM) /\ Len(GM) = 37 /\ (\A i \in 1 .. 31 : GM[i] = G[i])
  <2>1. Joined(G, M, GM)
    BY <1>2, <1>3, <1>5, SeqJoin
  <2>. QED BY <2>1, <1>2, <1>3 DEF Joined
<1>7. PICK B : B = GM \o R
  OBVIOUS
<1>8. \A i \in 1 .. 37 : B[i] = GM[i]
  <2>1. Joined(GM, R, B)
    BY <1>4, <1>6, <1>7, SeqJoin
  <2>. QED BY <2>1, <1>4, <1>6 DEF Joined
<1>9. B = BuiltinNames
  BY <1>1, <1>5, <1>7 DEF BuiltinNames
<1>10. \A i \in 1 .. 31 : BuiltinNames[i] = G[i]
  BY <1>6, <1>8, <1>9
<1>11.
  /\ G[1] = "Object" /\ G[2] = "+" /\ G[3] = "-" /\ G[4] = "*" /\ G[5] = "/" /\ G[6] = "mod" /\ G[7] = "exit"
  /\ G[8] = "bind" /\ G[9] = "bound?" /\ G[10] = "set" /\ G[11] = "define" /\ G[12] = "evaluate"
  /\ G[13] = "freeze" /\ G[14] = "list" /\ G[15] = "@list" /\ G[16] = "^" /\ G[17] = "#" /\ G[18] = "wrap"
  /\ G[19] = "unwrap" /\ G[20] = "print" /\ G[21] = "not" /\ G[22] = "and" /\ G[23] = "or" /\ G[24] = "="
  /\ G[25] = "<" /\ G[26] = ">" /\ G[27] = "<=" /\ G[28] = ">=" /\ G[29] = "?" /\ G[30] = "loop" /\ G[31] = "cat"
  BY <1>1 DEF GlobalNames
<1>12.
  /\ BuiltinNames[1] = G[1] /\ BuiltinNames[2] = G[2] /\ BuiltinNames[3] = G[3] /\ BuiltinNames[4] = G[4]
  /\ BuiltinNames[5] = G[5] /\ BuiltinNames[6] = G[6] /\ BuiltinNames[7] = G[7] /\ BuiltinNames[8] = G[8]
  /\ BuiltinNames[9] = G[9] /\ BuiltinNames[10] = G[10] /\ BuiltinNames[11] = G[11] /\ BuiltinNames[12] = G[12]
  /\ BuiltinNames[13] = G[13] /\ BuiltinNames[14] = G[14] /\ BuiltinNames[15] = G[15] /\ BuiltinNames[16] = G[16]
  /\ BuiltinNames[17] = G[17] /\ BuiltinNames[18] = G[18] /\ BuiltinNames[19] = G[19] /\ BuiltinNames[20] = G[20]
  /\ BuiltinNames[21] = G[21] /\ BuiltinNames[22] = G[22] /\ BuiltinNames[23] = G[23] /\ BuiltinNames[24] = G[24]
  /\ BuiltinNames[25] = G[25] /\ BuiltinNames[26] = G[26] /\ BuiltinNames[27] = G[27] /\ BuiltinNames[28] = G[28]
  /\ BuiltinNames[29] = G[29] /\ BuiltinNames[30] = G[30] /\ BuiltinNames[31] = G[31]
  BY <1>10
<1>. QED BY <1>11, <1>12, BuiltinList DEF Named39

LEMMA BuiltinDistinct ==
  ASSUME NEW i \in 1 .. 39, NEW j \in 1 .. 39, BuiltinNames[i] = BuiltinNames[j]
  PROVE  i = j
  BY BuiltinEach DEF Named39

LEMMA BuiltinAddress ==
  ASSUME NEW i \in 1 .. 39
  PROVE  Builtin[BuiltinNames[i]] = i + 1
<1>1. PICK k : k = Builtin[BuiltinNames[i]]
  OBVIOUS
<1>2. k \in 2 .. 40 /\ BuiltinNames[k - 1] = BuiltinNames[i]
  BY <1>1, BuiltinPlace
<1>3. k - 1 \in 1 .. 39
  BY <1>2
<1>4. k - 1 = i
  BY <1>2, <1>3, BuiltinDistinct
<1>. QED BY <1>1, <1>2, <1>4

LEMMA GlobalRange ==
  /\ Range(GlobalNames) = {BuiltinNames[i] : i \in 1 .. 31}
  /\ "nil" \notin Range(GlobalNames) /\ "Object.create" \notin Range(GlobalNames)
<1>1. PICK G : G = GlobalNames
  OBVIOUS
<1>2. IsSeq(G) /\ Len(G) = 31
  BY <1>1 DEF GlobalNames, IsSeq
<1>3. DOMAIN G = 1 .. 31
  BY <1>2, SeqFacts
<1>4.
  /\ G[1] = "Object" /\ G[2] = "+" /\ G[3] = "-" /\ G[4] = "*" /\ G[5] = "/" /\ G[6] = "mod" /\ G[7] = "exit"
  /\ G[8] = "bind" /\ G[9] = "bound?" /\ G[10] = "set" /\ G[11] = "define" /\ G[12] = "evaluate"
  /\ G[13] = "freeze" /\ G[14] = "list" /\ G[15] = "@list" /\ G[16] = "^" /\ G[17] = "#" /\ G[18] = "wrap"
  /\ G[19] = "unwrap" /\ G[20] = "print" /\ G[21] = "not" /\ G[22] = "and" /\ G[23] = "or" /\ G[24] = "="
  /\ G[25] = "<" /\ G[26] = ">" /\ G[27] = "<=" /\ G[28] = ">=" /\ G[29] = "?" /\ G[30] = "loop" /\ G[31] = "cat"
  BY <1>1 DEF GlobalNames
<1>5. \A i \in 1 .. 31 : G[i] = BuiltinNames[i]
  BY <1>4, BuiltinEach DEF Named39
<1>6. Range(GlobalNames) = {G[i] : i \in 1 .. 31}
  BY <1>1, <1>3 DEF Range
<1>7. {G[i] : i \in 1 .. 31} = {BuiltinNames[i] : i \in 1 .. 31}
  BY <1>5
<1>8. \A i \in 1 .. 31 : G[i] # "nil" /\ G[i] # "Object.create"
  BY <1>4
<1>. QED BY <1>6, <1>7, <1>8

LEMMA SeqOne == ASSUME NEW x PROVE IsSeq(<<x>>) /\ Len(<<x>>) = 1 /\ <<x>>[1] = x
  BY DEF IsSeq

LEMMA SeqTwo == ASSUME NEW x, NEW y PROVE IsSeq(<<x, y>>) /\ Len(<<x, y>>) = 2 /\ <<x, y>>[1] = x /\ <<x, y>>[2] = y
  BY DEF IsSeq

\* The objects of the start: nil, builtins, and Booleans.
StartHeap ==
  /\ IsSeq(Start.heap) /\ Len(Start.heap) = 42 /\ DOMAIN Start.heap = 1 .. 42
  /\ Start.heap[1] = Obj("list", FALSE, <<>>)
  /\ \A i \in 1 .. 39 : Start.heap[i + 1] = BuiltinObject(BuiltinNames[i])
  /\ Start.heap[41] = [Obj("boolean", TRUE, <<>>) EXCEPT !.count = Kept[41]]
  /\ Start.heap[42] = [Obj("boolean", FALSE, <<>>) EXCEPT !.count = 2 * Cardinality(Unevaluating)]

LEMMA StartHeapFacts == StartHeap
<1>1. PICK v, x, y :
        /\ v = Obj("list", FALSE, <<>>)
        /\ x = [Obj("boolean", TRUE, <<>>) EXCEPT !.count = Kept[True]]
        /\ y = [Obj("boolean", FALSE, <<>>) EXCEPT !.count = 2 * Cardinality(Unevaluating)]
  OBVIOUS
<1>2. PICK n, B, T :
        /\ n = <<v>> /\ B = [i \in DOMAIN BuiltinNames |-> BuiltinObject(BuiltinNames[i])] /\ T = <<x, y>>
  OBVIOUS
<1>3. Start.heap = (n \o B) \o T
  BY <1>1, <1>2 DEF Start
<1>4. IsSeq(n) /\ Len(n) = 1 /\ n[1] = v
  BY <1>2, SeqOne
<1>5. IsSeq(T) /\ Len(T) = 2 /\ T[1] = x /\ T[2] = y
  BY <1>2, SeqTwo
<1>6. B = [i \in 1 .. 39 |-> BuiltinObject(BuiltinNames[i])]
  BY <1>2, BuiltinList
<1>7. IsSeq(B) /\ Len(B) = 39
  <2>1. B = [i \in 1 .. 39 |-> B[i]]
    BY <1>6
  <2>. QED BY <2>1, SeqMade
<1>8. PICK nB : nB = n \o B
  OBVIOUS
<1>9. Joined(n, B, nB)
  BY <1>4, <1>7, <1>8, SeqJoin
<1>10. IsSeq(nB) /\ Len(nB) = 40 /\ nB[1] = v
  <2>1. IsSeq(nB) /\ Len(nB) = Len(n) + Len(B) /\ \A i \in 1 .. Len(n) : nB[i] = n[i]
    BY <1>9 DEF Joined
  <2>2. IsSeq(nB) /\ Len(nB) = 1 + 39 /\ \A i \in 1 .. 1 : nB[i] = n[i]
    BY <2>1, <1>4, <1>7
  <2>. QED BY <2>2, <1>4
<1>11. \A i \in 1 .. 39 : nB[i + 1] = B[i]
  <2>1. \A i \in 1 .. 39 : nB[1 + i] = B[i]
    BY <1>9, <1>4, <1>7 DEF Joined
  <2>2. \A i \in 1 .. 39 : 1 + i = i + 1
    OBVIOUS
  <2>. QED BY <2>1, <2>2
<1>12. PICK h : h = nB \o T
  OBVIOUS
<1>13. Joined(nB, T, h)
  BY <1>5, <1>10, <1>12, SeqJoin
<1>14. IsSeq(h) /\ Len(h) = 40 + 2 /\ (\A i \in 1 .. 40 : h[i] = nB[i]) /\ \A i \in 1 .. 2 : h[40 + i] = T[i]
  BY <1>13, <1>5, <1>10 DEF Joined
<1>15. h = Start.heap
  BY <1>3, <1>8, <1>12
<1>16. Len(h) = 42 /\ DOMAIN h = 1 .. 42
  <2>1. Len(h) = 42
    BY <1>14
  <2>. QED BY <2>1, <1>14, SeqFacts
<1>17. h[1] = v
  BY <1>14, <1>10
<1>18. \A i \in 1 .. 39 : h[i + 1] = BuiltinObject(BuiltinNames[i])
  <2>. TAKE i \in 1 .. 39
  <2>1. i + 1 \in 1 .. 40
    OBVIOUS
  <2>2. h[i + 1] = B[i]
    BY <2>1, <1>14, <1>11
  <2>. QED BY <2>2, <1>6
<1>19. h[41] = x /\ h[42] = y
  BY <1>14, <1>5, 40 + 1 = 41, 40 + 2 = 42
<1>20. True = 41 /\ False = 42
  BY MethodFacts, BooleanFacts
<1>. QED BY <1>1, <1>14, <1>15, <1>16, <1>17, <1>18, <1>19, <1>20 DEF StartHeap

\* An object as it is created.
Newly(o) == DOMAIN o = Fields /\ o.items = <<>> /\ o.closure = <<>> /\ o.parent = NULL /\ o.lost = 0

LEMMA StartObjects ==
  ASSUME NEW a \in 1 .. 42
  PROVE  /\ Newly(Start.heap[a])
         /\ a \in 2 .. 40 => Start.heap[a] = BuiltinObject(BuiltinNames[a - 1])
<1>1. CASE a = 1
  BY <1>1, StartHeapFacts DEF StartHeap, Newly, Obj, Fields
<1>2. CASE a \in 2 .. 40
  <2>1. PICK i \in 1 .. 39 : i = a - 1 /\ i + 1 = a
    BY <1>2
  <2>2. Start.heap[a] = BuiltinObject(BuiltinNames[a - 1])
    BY <2>1, StartHeapFacts DEF StartHeap
  <2>3. \A n : Newly(BuiltinObject(n))
    BY DEF BuiltinObject, Newly, Obj, Fields
  <2>. QED BY <2>2, <2>3
<1>3. CASE a = 41
  BY <1>3, StartHeapFacts DEF StartHeap, Newly, Obj, Fields
<1>4. CASE a = 42
  BY <1>4, StartHeapFacts DEF StartHeap, Newly, Obj, Fields
<1>. QED BY <1>1, <1>2, <1>3, <1>4

\* Their properties, and counts.
LEMMA BuiltinProps ==
  ASSUME NEW n
  PROVE  /\ n = "Object" => BuiltinObject(n).props = [create |-> Builtin["Object.create"]]
         /\ n \in Unevaluating => BuiltinObject(n).props = [flag \in Flags |-> False]
         /\ n # "Object" /\ n \notin Unevaluating => BuiltinObject(n).props = <<>>
         /\ BuiltinObject(n).value = n
         /\ BuiltinObject(n).type = IF n \in {"Object", "RawObject"} THEN "object" ELSE "function"
         /\ BuiltinObject(n).count = IF n \in Range(GlobalNames) \cup {"Object.create"} THEN Kept[Builtin[n]] + 1
                                     ELSE Kept[Builtin[n]]
  BY DEF BuiltinObject, Obj, Unevaluating

LEMMA StartProps ==
  ASSUME NEW a \in 1 .. 42
  PROVE  LET t == Start.heap[a].props IN
         /\ a = 2 => DOMAIN t = {"create"} /\ t["create"] = 39
         /\ a \in {14, 17, 18, 23, 24, 30} => DOMAIN t = Flags /\ \A f \in Flags : t[f] = 42
         /\ a \notin {2, 14, 17, 18, 23, 24, 30} => DOMAIN t = {}
<1>1. \A i \in 1 .. 39 : Builtin[BuiltinNames[i]] = i + 1
  BY BuiltinAddress
<1>2. Builtin["Object.create"] = 39
  BY <1>1, BuiltinEach DEF Named39
<1>3. CASE a \in 2 .. 40
  <2>1. PICK i \in 1 .. 39 : i = a - 1
    BY <1>3
  <2>2. Start.heap[a] = BuiltinObject(BuiltinNames[i])
    BY <1>3, <2>1, StartObjects
  <2>3. (a = 2 <=> BuiltinNames[i] = "Object") /\ (a \in {14, 17, 18, 23, 24, 30} <=> BuiltinNames[i] \in Unevaluating)
    BY <2>1, BuiltinEach DEF Named39, Unevaluating
  <2>4. False = 42
    BY MethodFacts
  <2>5. PICK n, t : n = BuiltinNames[i] /\ t = BuiltinObject(n).props
    OBVIOUS
  <2>6. /\ n = "Object" => t = [create |-> 39]
        /\ n \in Unevaluating => t = [flag \in Flags |-> 42]
        /\ n # "Object" /\ n \notin Unevaluating => t = <<>>
    BY <1>2, <2>4, <2>5, BuiltinProps
  <2>7. Start.heap[a].props = t
    BY <2>2, <2>5
  <2>8. n = "Object" => DOMAIN t = {"create"} /\ t["create"] = 39
    BY <2>6
  <2>9. n \in Unevaluating => DOMAIN t = Flags /\ \A f \in Flags : t[f] = 42
    BY <2>6
  <2>10. n # "Object" /\ n \notin Unevaluating => DOMAIN t = {}
    BY <2>6
  <2>. QED BY <2>3, <2>5, <2>7, <2>8, <2>9, <2>10
<1>4. CASE a \notin 2 .. 40
  <2>1. Start.heap[a].props = <<>>
    <3>1. CASE a = 1
      BY <3>1, StartHeapFacts DEF StartHeap, Obj
    <3>2. CASE a = 41
      BY <3>2, StartHeapFacts DEF StartHeap, Obj
    <3>3. CASE a = 42
      BY <3>3, StartHeapFacts DEF StartHeap, Obj
    <3>. QED BY <1>4, <3>1, <3>2, <3>3
  <2>2. DOMAIN Start.heap[a].props = {}
    BY <2>1
  <2>. QED BY <1>4, <2>2
<1>. QED BY <1>3, <1>4

LEMMA StartOwned ==
  LET F == OwnedBy(Start, DOMAIN Start.heap)
      U == {14, 17, 18, 23, 24, 30} IN
  /\ \A p : p \in DOMAIN F <=> p = <<2, <<"prop", "create">>>> \/ \E x \in U, f \in Flags : p = <<x, <<"prop", f>>>>
  /\ F[<<2, <<"prop", "create">>>>] = 39 /\ \A x \in U, f \in Flags : F[<<x, <<"prop", f>>>>] = 42
<1>1. PICK h, F, U : h = Start.heap /\ F = OwnedBy(Start, DOMAIN Start.heap) /\ U = {14, 17, 18, 23, 24, 30}
  OBVIOUS
<1>2. DOMAIN h = 1 .. 42
  BY <1>1, StartHeapFacts DEF StartHeap
<1>3. ASSUME NEW a \in 1 .. 42
      PROVE  Slots(h[a]) = {"prop"} \X DOMAIN h[a].props
  <2>1. Newly(h[a])
    BY <1>1, StartObjects
  <2>2. DOMAIN h[a].items = {} /\ DOMAIN h[a].closure = {} /\ h[a].parent = NULL
    BY <2>1 DEF Newly
  <2>. QED BY <2>2 DEF Slots
<1>4. /\ DOMAIN h[2].props = {"create"} /\ h[2].props["create"] = 39
      /\ \A a \in U : a \in 1 .. 42 /\ DOMAIN h[a].props = Flags /\ \A f \in Flags : h[a].props[f] = 42
      /\ \A a \in 1 .. 42 : a # 2 /\ a \notin U => DOMAIN h[a].props = {}
  BY <1>1, StartProps
<1>5. Slots(h[2]) = {"prop"} \X {"create"} /\ (\A a \in U : Slots(h[a]) = {"prop"} \X Flags)
      /\ \A a \in 1 .. 42 : a # 2 /\ a \notin U => Slots(h[a]) = {}
  <2>1. Slots(h[2]) = {"prop"} \X {"create"}
    BY <1>3, <1>4
  <2>2. \A a \in U : Slots(h[a]) = {"prop"} \X Flags
    <3>1. \A a \in U : a \in 1 .. 42 /\ DOMAIN h[a].props = Flags
      BY <1>4
    <3>. QED BY <1>3, <3>1
  <2>3. \A a \in 1 .. 42 : a # 2 /\ a \notin U => Slots(h[a]) = {}
    <3>1. \A a \in 1 .. 42 : a # 2 /\ a \notin U => DOMAIN h[a].props = {}
      BY <1>4
    <3>. QED BY <1>3, <3>1
  <2>. QED BY <2>1, <2>2, <2>3
<1>6. /\ \A p : p \in DOMAIN F <=> \E a \in 1 .. 42 : \E s \in Slots(h[a]) : p = <<a, s>>
      /\ \A a \in 1 .. 42 : \A s \in Slots(h[a]) : F[<<a, s>>] = At(Start, h[a], s)
  BY <1>1, <1>2, OwnedFacts
<1>7. \A s : s[1] = "prop" => \A a : At(Start, h[a], s) = h[a].props[s[2]]
  BY DEF At
<1>8. F[<<2, <<"prop", "create">>>>] = 39
  <2>1. <<"prop", "create">> \in Slots(h[2])
    BY <1>5
  <2>2. F[<<2, <<"prop", "create">>>>] = At(Start, h[2], <<"prop", "create">>)
    BY <2>1, <1>6
  <2>3. At(Start, h[2], <<"prop", "create">>) = h[2].props["create"]
    BY <1>7
  <2>. QED BY <2>2, <2>3, <1>4
<1>9. ASSUME NEW x \in U, NEW f \in Flags
      PROVE  F[<<x, <<"prop", f>>>>] = 42 /\ <<"prop", f>> \in Slots(h[x]) /\ x \in 1 .. 42
  <2>1. <<"prop", f>> \in Slots(h[x]) /\ x \in 1 .. 42
    BY <1>5, <1>4
  <2>2. F[<<x, <<"prop", f>>>>] = At(Start, h[x], <<"prop", f>>)
    BY <2>1, <1>6
  <2>3. At(Start, h[x], <<"prop", f>>) = h[x].props[f]
    BY <1>7
  <2>4. h[x].props[f] = 42
    BY <1>4
  <2>. QED BY <2>1, <2>2, <2>3, <2>4
<1>10. ASSUME NEW p, p \in DOMAIN F
       PROVE  p = <<2, <<"prop", "create">>>> \/ \E x \in U, f \in Flags : p = <<x, <<"prop", f>>>>
  <2>1. PICK a \in 1 .. 42 : \E s \in Slots(h[a]) : p = <<a, s>>
    BY <1>6, <1>10
  <2>2. PICK s \in Slots(h[a]) : p = <<a, s>>
    BY <2>1
  <2>3. a = 2 \/ a \in U
    BY <1>5, <2>2
  <2>4. CASE a = 2
    <3>1. s = <<"prop", "create">>
      BY <2>2, <2>4, <1>5
    <3>. QED BY <2>2, <2>4, <3>1
  <2>5. CASE a \in U
    <3>1. PICK f \in Flags : s = <<"prop", f>>
      BY <2>2, <2>5, <1>5
    <3>. QED BY <2>2, <2>5, <3>1
  <2>. QED BY <2>3, <2>4, <2>5
<1>11. <<2, <<"prop", "create">>>> \in DOMAIN F
  <2>1. <<"prop", "create">> \in Slots(h[2]) /\ 2 \in 1 .. 42
    BY <1>5
  <2>. QED BY <2>1, <1>6
<1>12. ASSUME NEW x \in U, NEW f \in Flags PROVE <<x, <<"prop", f>>>> \in DOMAIN F
  <2>1. x \in 1 .. 42 /\ <<"prop", f>> \in Slots(h[x])
    BY <1>9
  <2>. QED BY <1>6, <2>1
<1>. QED BY <1>1, <1>8, <1>9, <1>10, <1>11, <1>12

LEMMA StartHeapOcc ==
  ASSUME NEW a
  PROVE  /\ a = 39 => HeapOcc(Start, a) = 1
         /\ a = 42 => HeapOcc(Start, a) = 2 * Cardinality(Unevaluating)
         /\ a \notin {39, 42} => HeapOcc(Start, a) = 0
<1>1. PICK F, U : F = OwnedBy(Start, DOMAIN Start.heap) /\ U = {14, 17, 18, 23, 24, 30}
  OBVIOUS
<1>2. /\ \A p : p \in DOMAIN F <=> p = <<2, <<"prop", "create">>>> \/ \E x \in U, f \in Flags : p = <<x, <<"prop", f>>>>
      /\ F[<<2, <<"prop", "create">>>>] = 39 /\ \A x \in U, f \in Flags : F[<<x, <<"prop", f>>>>] = 42
  BY <1>1, StartOwned
<1>3. HeapOcc(Start, a) = Occurrences(F, a)
  BY <1>1 DEF HeapOcc
<1>4. CASE a = 39
  <2>1. {p \in DOMAIN F : F[p] = 39} = {<<2, <<"prop", "create">>>>}
    BY <1>2
  <2>2. Cardinality({p \in DOMAIN F : F[p] = a}) = 1
    BY <1>4, <2>1, FS_Singleton
  <2>3. HeapOcc(Start, a) = 1
    BY <1>3, <2>2 DEF Occurrences
  <2>. QED BY <1>4, <2>3
<1>5. CASE a = 42
  <2>1. PICK P, b, f : /\ P = Unevaluating \X Flags
                       /\ b = [q \in P |-> <<Builtin[q[1]], <<"prop", q[2]>>>>]
                       /\ f = [q \in P |-> 42]
    OBVIOUS
  <2>2. IsFiniteSet(Unevaluating) /\ IsFiniteSet(Flags)
    <3>1. Unevaluating = {"freeze"} \cup {"^"} \cup {"#"} \cup {"and"} \cup {"or"} \cup {"?"}
      BY DEF Unevaluating
    <3>2. Flags = {"$evaluate-tokens"} \cup {"$evaluate-lists"}
      BY DEF Flags
    <3>. QED BY <3>1, <3>2, FS_Singleton, FS_Union
  <2>3. Cardinality(Flags) = 2
    <3>1. Flags = {"$evaluate-tokens"} \cup {"$evaluate-lists"} /\ "$evaluate-lists" \notin {"$evaluate-tokens"}
      BY DEF Flags
    <3>2. IsFiniteSet({"$evaluate-tokens"}) /\ Cardinality({"$evaluate-tokens"}) = 1
      BY FS_Singleton
    <3>3. Cardinality(Flags) = 1 + 1
      BY <3>1, <3>2, FS_AddElement
    <3>. QED BY <3>3
  <2>4. IsFiniteSet(P) /\ Cardinality(P) = Cardinality(Unevaluating) * 2
    BY <2>1, <2>2, <2>3, FS_Product
  <2>5. Builtin["freeze"] = 14 /\ Builtin["^"] = 17 /\ Builtin["#"] = 18 /\ Builtin["and"] = 23
        /\ Builtin["or"] = 24 /\ Builtin["?"] = 30
    <3>1. \A i \in 1 .. 39 : Builtin[BuiltinNames[i]] = i + 1
      BY BuiltinAddress
    <3>. QED BY <3>1, BuiltinEach DEF Named39
  <2>6. DOMAIN f = P /\ \A q \in P : b[q] \in DOMAIN F /\ F[b[q]] = 42 /\ f[q] = 42
    <3>1. \A q \in P : q[1] \in Unevaluating /\ q[2] \in Flags
      BY <2>1
    <3>2. \A q \in P : Builtin[q[1]] \in U
      BY <3>1, <2>5, <1>1 DEF Unevaluating
    <3>3. \A q \in P : b[q] = <<Builtin[q[1]], <<"prop", q[2]>>>> /\ f[q] = 42
      BY <2>1
    <3>. QED BY <3>1, <3>2, <3>3, <2>1, <1>2
  <2>7. ASSUME NEW p \in DOMAIN F, F[p] = 42
        PROVE  \E q \in P : b[q] = p
    <3>1. PICK x \in U, g \in Flags : p = <<x, <<"prop", g>>>>
      BY <1>2, <2>7
    <3>2. PICK n \in Unevaluating : Builtin[n] = x
      BY <2>5, <1>1 DEF Unevaluating
    <3>3. <<n, g>> \in P /\ b[<<n, g>>] = p
      BY <2>1, <3>1, <3>2
    <3>. QED BY <3>3
  <2>8. ASSUME NEW p \in P, NEW q \in P, b[p] = b[q]
        PROVE  p = q
    <3>1. p = <<p[1], p[2]>> /\ q = <<q[1], q[2]>> /\ p[1] \in Unevaluating /\ q[1] \in Unevaluating
      BY <2>1
    <3>2. Builtin[p[1]] = Builtin[q[1]] /\ p[2] = q[2]
      BY <2>1, <2>8
    <3>3. p[1] = q[1]
      BY <3>1, <3>2, <2>5 DEF Unevaluating
    <3>. QED BY <3>1, <3>2, <3>3
  <2>9. Occurrences(F, 42) = Occurrences(f, 42)
    BY <2>4, <2>6, <2>7, <2>8, OccMoved
  <2>10. {p \in DOMAIN f : f[p] = 42} = P
    BY <2>6
  <2>11. Cardinality(Unevaluating) \in Nat
    BY <2>2, FS_CardinalityType
  <2>. QED BY <1>3, <1>5, <2>4, <2>9, <2>10, <2>11 DEF Occurrences
<1>6. CASE a \notin {39, 42}
  <2>1. {p \in DOMAIN F : F[p] = a} = {}
    BY <1>2, <1>6
  <2>2. Cardinality({p \in DOMAIN F : F[p] = a}) = 0
    BY <2>1, FS_EmptySet
  <2>3. HeapOcc(Start, a) = 0
    BY <1>3, <2>2 DEF Occurrences
  <2>. QED BY <1>6, <2>3
<1>. QED BY <1>4, <1>5, <1>6

LEMMA StartScope ==
  LET t == Start.scopes[1] IN
  /\ IsSeq(Start.scopes) /\ Len(Start.scopes) = 1 /\ DOMAIN Start.scopes = {1}
  /\ DOMAIN t = {BuiltinNames[i] : i \in 1 .. 31} \cup {"nil"} /\ t["nil"] = 1
  /\ \A i \in 1 .. 31 : t[BuiltinNames[i]] = i + 1 /\ BuiltinNames[i] # "nil"
<1>. DEFINE g == [n \in Range(GlobalNames) |-> Builtin[n]]
<1>1. DOMAIN g = Range(GlobalNames) /\ \A n \in Range(GlobalNames) : g[n] = Builtin[n]
  OBVIOUS
<1>0. Start.scopes = <<Put(g, "nil", Nil)>>
  BY DEF Start
<1>. HIDE DEF g
<1>2. PICK t : t = Put(g, "nil", Nil)
  OBVIOUS
<1>3. Start.scopes = <<t>>
  BY <1>0, <1>2
<1>4. IsSeq(<<t>>) /\ Len(<<t>>) = 1 /\ DOMAIN <<t>> = {1} /\ <<t>>[1] = t
  BY DEF IsSeq
<1>5. DOMAIN t = DOMAIN g \cup {"nil"} /\ t["nil"] = 1 /\ \A n \in DOMAIN g : n # "nil" => t[n] = g[n]
  BY <1>2 DEF Put, Nil
<1>6. DOMAIN g = {BuiltinNames[i] : i \in 1 .. 31} /\ "nil" \notin DOMAIN g
  BY <1>1, GlobalRange
<1>7. \A i \in 1 .. 31 : g[BuiltinNames[i]] = i + 1
  <2>1. \A i \in 1 .. 31 : BuiltinNames[i] \in Range(GlobalNames) /\ Builtin[BuiltinNames[i]] = i + 1
    BY GlobalRange, BuiltinAddress
  <2>. QED BY <1>1, <2>1
<1>8. \A i \in 1 .. 31 : t[BuiltinNames[i]] = i + 1 /\ BuiltinNames[i] # "nil"
  BY <1>5, <1>6, <1>7
<1>. QED BY <1>3, <1>4, <1>5, <1>6, <1>8

LEMMA StartBindings ==
  /\ Start.bindings = [a \in 1 .. 42 |-> a] /\ IsSeq(Start.bindings) /\ DOMAIN Start.bindings = 1 .. 42
  /\ Start.stray = FALSE /\ DOMAIN Start = {"heap", "bindings", "scopes", "stray"}
<1>1. Start.bindings = [a \in 1 .. 42 |-> a]
  BY MethodFacts DEF Start
<1>2. PICK f : f = [a \in 1 .. 42 |-> a]
  OBVIOUS
<1>3. f = [a \in 1 .. 42 |-> f[a]]
  BY <1>2
<1>4. IsSeq(f)
  BY <1>3, SeqMade
<1>. QED BY <1>1, <1>2, <1>4 DEF Start

LEMMA StartScopeOcc ==
  ASSUME NEW a \in 2 .. 42
  PROVE  ScopeOcc(Start, a) = IF a <= 32 THEN 1 ELSE 0
<1>1. PICK t : t = Start.scopes[1]
  OBVIOUS
<1>2. /\ DOMAIN Start.scopes = {1} /\ DOMAIN t = {BuiltinNames[i] : i \in 1 .. 31} \cup {"nil"} /\ t["nil"] = 1
      /\ \A i \in 1 .. 31 : t[BuiltinNames[i]] = i + 1 /\ BuiltinNames[i] # "nil"
  BY <1>1, StartScope
<1>3. OwnScopes(Start) = {1}
  <2>1. 1 % 2 = 1
    OBVIOUS
  <2>. QED BY <1>2, <2>1 DEF OwnScopes
<1>4. PICK F : F = ScopeRefs(Start)
  OBVIOUS
<1>5. /\ \A p : p \in DOMAIN F <=> \E n \in DOMAIN t : p = <<1, n>>
      /\ \A n \in DOMAIN t : F[<<1, n>>] = Start.bindings[t[n]]
  BY <1>1, <1>3, <1>4, ScopeFacts
<1>6. F[<<1, "nil">>] = 1 /\ \A i \in 1 .. 31 : F[<<1, BuiltinNames[i]>>] = i + 1
  <2>1. \A b \in 1 .. 42 : Start.bindings[b] = b
    BY StartBindings
  <2>. QED BY <1>2, <1>5, <2>1
<1>7. CASE a <= 32
  <2>1. PICK i \in 1 .. 31 : a = i + 1
    BY <1>7
  <2>2. {p \in DOMAIN F : F[p] = a} = {<<1, BuiltinNames[i]>>}
    <3>1. ASSUME NEW p \in DOMAIN F, F[p] = a PROVE p = <<1, BuiltinNames[i]>>
      <4>1. PICK n \in DOMAIN t : p = <<1, n>>
        BY <1>5
      <4>2. n # "nil"
        BY <1>6, <3>1, <4>1
      <4>3. PICK j \in 1 .. 31 : n = BuiltinNames[j]
        BY <1>2, <4>2
      <4>4. j = i
        <5>1. F[p] = j + 1
          BY <1>6, <4>1, <4>3
        <5>2. PICK x : x = F[p]
          OBVIOUS
        <5>3. x = j + 1 /\ x = i + 1
          BY <2>1, <3>1, <5>1, <5>2
        <5>. QED BY <5>3
      <4>. QED BY <4>1, <4>3, <4>4
    <3>2. <<1, BuiltinNames[i]>> \in DOMAIN F /\ F[<<1, BuiltinNames[i]>>] = a
      BY <1>2, <1>5, <1>6, <2>1
    <3>. QED BY <3>1, <3>2
  <2>. QED BY <1>4, <1>7, <2>2, FS_Singleton DEF ScopeOcc, Occurrences
<1>8. CASE ~(a <= 32)
  <2>1. ASSUME NEW p \in DOMAIN F PROVE F[p] # a
    <3>1. PICK n \in DOMAIN t : p = <<1, n>>
      BY <1>5
    <3>2. CASE n = "nil"
      BY <1>6, <3>1, <3>2
    <3>3. CASE n # "nil"
      <4>1. PICK j \in 1 .. 31 : n = BuiltinNames[j]
        BY <1>2, <3>3
      <4>2. F[p] = j + 1
        BY <1>6, <3>1, <4>1
      <4>. QED BY <1>8, <4>2
    <3>. QED BY <3>2, <3>3
  <2>2. {p \in DOMAIN F : F[p] = a} = {}
    BY <2>1
  <2>. QED BY <1>4, <1>8, <2>2, FS_EmptySet DEF ScopeOcc, Occurrences
<1>. QED BY <1>7, <1>8

LEMMA StartKeeps ==
  ASSUME NEW a \in 1 .. 42
  PROVE  Keeps(a) = Kept[a] /\ Kept[a] \in Nat /\ (a = 42 => Kept[a] = 0)
<1>1. DOMAIN Kept = 1 .. 42
  BY BooleanFacts, MethodFacts
<1>2. Keeps(a) = Kept[a] /\ Kept[a] \in Nat
  BY <1>1, KeepsType DEF Keeps
<1>3. PICK raw, own : raw = {True} \cup {Methods[n] : n \in RawMethods} /\ own = {Object, RawObject, Methods["clone"], Methods["patch"]}
  OBVIOUS
<1>4. Kept[a] = CASE a \in raw -> 2 [] a \in own -> 1 [] OTHER -> 0
  BY <1>3, BooleanFacts, MethodFacts DEF Kept
<1>5. \A x \in raw \cup own : x # 42
  <2>1. \A n \in DOMAIN Methods : Methods[n] # 42
    BY MethodFacts
  <2>2. RawMethods \cup {"clone", "patch"} \subseteq DOMAIN Methods
    BY MethodFacts DEF RawMethods
  <2>3. True # 42
    BY MethodFacts, BooleanFacts
  <2>4. Object # 42 /\ RawObject # 42
    <3>1. \A i \in 1 .. 39 : Builtin[BuiltinNames[i]] # 42
      BY BuiltinAddress
    <3>. QED BY <3>1, BuiltinList DEF Object, RawObject
  <2>. QED BY <1>3, <2>1, <2>2, <2>3, <2>4
<1>6. a = 42 => Kept[a] = 0
  BY <1>4, <1>5
<1>. QED BY <1>2, <1>6

LEMMA StartCount ==
  ASSUME NEW a \in 2 .. 42
  PROVE  /\ Count(Start, a) = HeapOcc(Start, a) + ScopeOcc(Start, a) + Keeps(a)
         /\ Count(Start, a) \in Nat /\ HeapOcc(Start, a) \in Nat /\ ScopeOcc(Start, a) \in Nat
<1>1. PICK k : k = Kept[a]
  OBVIOUS
<1>2. Keeps(a) = k /\ k \in Nat /\ (a = 42 => k = 0)
  BY <1>1, StartKeeps
<1>3. PICK u : u = 2 * Cardinality(Unevaluating)
  OBVIOUS
<1>4. u \in Nat
  <2>1. Unevaluating = {"freeze"} \cup {"^"} \cup {"#"} \cup {"and"} \cup {"or"} \cup {"?"}
    BY DEF Unevaluating
  <2>2. IsFiniteSet(Unevaluating)
    BY <2>1, FS_Singleton, FS_Union
  <2>. QED BY <1>3, <2>2, FS_CardinalityType
<1>5. ScopeOcc(Start, a) = IF a <= 32 THEN 1 ELSE 0
  BY StartScopeOcc
<1>6. (a = 39 => HeapOcc(Start, a) = 1) /\ (a = 42 => HeapOcc(Start, a) = u) /\ (a \notin {39, 42} => HeapOcc(Start, a) = 0)
  BY <1>3, StartHeapOcc
<1>7. CASE a \in 2 .. 40
  <2>1. PICK i \in 1 .. 39 : i = a - 1
    BY <1>7
  <2>2. PICK n : n = BuiltinNames[i]
    OBVIOUS
  <2>3. Start.heap[a] = BuiltinObject(n)
    BY <1>7, <2>1, <2>2, StartObjects
  <2>4. Builtin[n] = a
    BY <2>1, <2>2, BuiltinAddress
  <2>5. n \in Range(GlobalNames) \cup {"Object.create"} <=> a <= 32 \/ a = 39
    <3>1. n \in Range(GlobalNames) <=> i <= 31
      <4>1. \A j \in 1 .. 39 : BuiltinNames[j] = BuiltinNames[i] => j = i
        BY BuiltinDistinct
      <4>. QED BY <2>2, <4>1, GlobalRange
    <3>2. n = "Object.create" <=> i = 38
      BY <2>2, BuiltinEach DEF Named39
    <3>. QED BY <3>1, <3>2, <2>1
  <2>6. BuiltinObject(n).count = IF n \in Range(GlobalNames) \cup {"Object.create"} THEN Kept[Builtin[n]] + 1
                                 ELSE Kept[Builtin[n]]
    BY BuiltinProps
  <2>7. PICK c : c = BuiltinObject(n).count
    OBVIOUS
  <2>8. Count(Start, a) = c
    BY <2>3, <2>7 DEF Count
  <2>9. CASE a <= 32
    <3>1. c = k + 1
      BY <2>4, <2>5, <2>6, <2>7, <2>9, <1>1
    <3>2. ScopeOcc(Start, a) = 1 /\ HeapOcc(Start, a) = 0
      BY <1>5, <1>6, <2>9
    <3>. QED BY <3>1, <3>2, <2>8, <1>2
  <2>10. CASE a = 39
    <3>1. c = k + 1
      BY <2>4, <2>5, <2>6, <2>7, <2>10, <1>1
    <3>2. ScopeOcc(Start, a) = 0 /\ HeapOcc(Start, a) = 1
      BY <1>5, <1>6, <2>10
    <3>. QED BY <3>1, <3>2, <2>8, <1>2
  <2>11. CASE ~(a <= 32) /\ a # 39
    <3>1. c = k
      BY <2>4, <2>5, <2>6, <2>7, <2>11, <1>1
    <3>2. ScopeOcc(Start, a) = 0 /\ HeapOcc(Start, a) = 0
      BY <1>5, <1>6, <2>11, <1>7
    <3>. QED BY <3>1, <3>2, <2>8, <1>2
  <2>. QED BY <2>9, <2>10, <2>11
<1>8. CASE a = 41
  <2>1. Count(Start, a) = k
    BY <1>8, <1>1, StartHeapFacts DEF StartHeap, Obj, Count
  <2>2. ScopeOcc(Start, a) = 0 /\ HeapOcc(Start, a) = 0
    BY <1>5, <1>6, <1>8
  <2>. QED BY <2>1, <2>2, <1>2
<1>9. CASE a = 42
  <2>1. Count(Start, a) = u
    BY <1>9, <1>3, StartHeapFacts DEF StartHeap, Obj, Count
  <2>2. ScopeOcc(Start, a) = 0 /\ HeapOcc(Start, a) = u /\ k = 0
    BY <1>2, <1>5, <1>6, <1>9
  <2>. QED BY <2>1, <2>2, <1>2, <1>4
<1>. QED BY <1>7, <1>8, <1>9

LEMMA MethodPlaces ==
  /\ Methods["get"] = 33 /\ Methods["set"] = 34 /\ Methods["inspect"] = 38
  /\ Methods["clone"] = 35 /\ Methods["patch"] = 36 /\ Methods["->string"] = 37
  /\ RawObject = 40 /\ Object = 2
<1>1. PICK f : f = [get |-> Builtin["Object.get"], set |-> Builtin["Object.set"], inspect |-> Builtin["Object.inspect"],
                    clone |-> Builtin["Object.clone"], patch |-> Builtin["Object.patch"]]
  OBVIOUS
<1>2. Methods = Put(f, "->string", Builtin["Object.->string"])
  BY <1>1 DEF Methods
<1>3. DOMAIN f = {"get", "set", "inspect", "clone", "patch"}
  BY <1>1
<1>4. /\ Methods["get"] = Builtin["Object.get"] /\ Methods["set"] = Builtin["Object.set"]
      /\ Methods["inspect"] = Builtin["Object.inspect"] /\ Methods["clone"] = Builtin["Object.clone"]
      /\ Methods["patch"] = Builtin["Object.patch"] /\ Methods["->string"] = Builtin["Object.->string"]
  BY <1>1, <1>2, <1>3 DEF Put
<1>5. \A i \in 1 .. 39 : Builtin[BuiltinNames[i]] = i + 1
  BY BuiltinAddress
<1>6. /\ Builtin["Object.get"] = 33 /\ Builtin["Object.set"] = 34 /\ Builtin["Object.inspect"] = 38
      /\ Builtin["Object.clone"] = 35 /\ Builtin["Object.patch"] = 36 /\ Builtin["Object.->string"] = 37
      /\ Builtin["RawObject"] = 40 /\ Builtin["Object"] = 2
  BY <1>5, BuiltinList
<1>. QED BY <1>4, <1>6 DEF RawObject, Object

LEMMA StartPositive ==
  ASSUME NEW a \in 2 .. 42
  PROVE  Count(Start, a) # 0
<1>1. PICK k, u, v : k = Keeps(a) /\ u = HeapOcc(Start, a) /\ v = ScopeOcc(Start, a)
  OBVIOUS
<1>2. Count(Start, a) = u + v + k /\ k \in Nat /\ u \in Nat /\ v \in Nat
  BY <1>1, StartCount, KeepsType
<1>3. CASE a <= 32
  <2>1. v = 1
    BY <1>1, <1>3, StartScopeOcc
  <2>. QED BY <1>2, <2>1
<1>4. CASE a \in {33, 34, 35, 36, 37, 38}
  <2>1. \A n \in {"get", "set", "inspect", "clone", "patch", "->string"} : Keeps(Methods[n]) # 0
    BY MethodFacts
  <2>2. Keeps(a) # 0
    BY <1>4, <2>1, MethodPlaces
  <2>. QED BY <1>1, <1>2, <2>2
<1>5. CASE a = 39
  <2>1. u = 1
    BY <1>1, <1>5, StartHeapOcc
  <2>. QED BY <1>2, <2>1
<1>6. CASE a = 40
  <2>1. DOMAIN Kept = 1 .. 42
    BY BooleanFacts, MethodFacts
  <2>2. PICK raw, own : raw = {True} \cup {Methods[n] : n \in RawMethods} /\ own = {Object, RawObject, Methods["clone"], Methods["patch"]}
    OBVIOUS
  <2>3. Kept[a] = CASE a \in raw -> 2 [] a \in own -> 1 [] OTHER -> 0
    <3>1. False = 42 /\ a \in 1 .. 42
      BY MethodFacts
    <3>. QED BY <2>2, <3>1 DEF Kept
  <2>4. a \in own
    BY <1>6, <2>2, MethodPlaces
  <2>5. Kept[a] # 0
    BY <2>3, <2>4
  <2>6. Keeps(a) # 0
    BY <2>5, StartKeeps
  <2>. QED BY <1>1, <1>2, <2>6
<1>7. CASE a = 41
  <2>1. Keeps(True) # 0 /\ True = 41
    BY MethodFacts, BooleanFacts
  <2>. QED BY <1>1, <1>2, <1>7, <2>1
<1>8. CASE a = 42
  <2>1. Unevaluating = {"freeze"} \cup {"^"} \cup {"#"} \cup {"and"} \cup {"or"} \cup {"?"}
    BY DEF Unevaluating
  <2>2. IsFiniteSet(Unevaluating) /\ Unevaluating # {}
    BY <2>1, FS_Singleton, FS_Union
  <2>3. Cardinality(Unevaluating) \in Nat /\ Cardinality(Unevaluating) # 0
    BY <2>2, FS_EmptySet, FS_CardinalityType
  <2>4. u = 2 * Cardinality(Unevaluating)
    BY <1>1, <1>8, StartHeapOcc
  <2>5. u # 0
    BY <2>3, <2>4
  <2>. QED BY <1>2, <2>5
<1>. QED BY <1>3, <1>4, <1>5, <1>6, <1>7, <1>8

LEMMA StartShape == Shape(Start)
<1>1. /\ IsSeq(Start.heap) /\ Len(Start.heap) = 42 /\ DOMAIN Start.heap = 1 .. 42 /\ False = 42
      /\ Start.heap[1] = Obj("list", FALSE, <<>>)
  BY StartHeapFacts, MethodFacts DEF StartHeap
<1>2. Addr(Start) = 0 .. 42
  BY <1>1 DEF Addr
<1>3. \A b \in 1 .. 42 : Start.bindings[b] \in Addr(Start)
  BY <1>2, StartBindings
<1>4. Table(Start.scopes[1], DOMAIN Start.bindings)
  <2>1. PICK t : t = Start.scopes[1]
    OBVIOUS
  <2>2. PICK N : N = {BuiltinNames[i] : i \in 1 .. 31}
    OBVIOUS
  <2>3. DOMAIN t = N \cup {"nil"} /\ t["nil"] = 1 /\ \A i \in 1 .. 31 : t[BuiltinNames[i]] = i + 1
    BY <2>1, <2>2, StartScope
  <2>4. IsFiniteSet(N)
    <3>1. IsFiniteSet(1 .. 31)
      BY 1 \in Int, 31 \in Int, FS_Interval
    <3>2. PICK f : f = [i \in 1 .. 31 |-> {BuiltinNames[i]}]
      OBVIOUS
    <3>3. \A i \in 1 .. 31 : IsFiniteSet(f[i])
      BY <3>2, FS_Singleton
    <3>4. IsFiniteSet(UNION {f[i] : i \in 1 .. 31})
      BY <3>1, <3>3, FiniteUnion
    <3>5. N = UNION {f[i] : i \in 1 .. 31}
      BY <2>2, <3>2
    <3>. QED BY <3>4, <3>5
  <2>5. IsFiniteSet(DOMAIN t)
    <3>1. IsFiniteSet({"nil"})
      BY FS_Singleton
    <3>2. IsFiniteSet(N \cup {"nil"})
      BY <2>4, <3>1, FS_Union
    <3>. QED BY <2>3, <3>2
  <2>6. \A n \in DOMAIN t : t[n] \in 1 .. 42
    BY <2>2, <2>3
  <2>. QED BY <2>1, <2>5, <2>6, StartBindings DEF Table
<1>5. ASSUME NEW a \in 1 .. 42 PROVE Sound(Start, Start.heap[a])
  <2>1. Newly(Start.heap[a])
    BY StartObjects
  <2>2. PICK o : o = Start.heap[a]
    OBVIOUS
  <2>3. DOMAIN o = Fields /\ o.items = <<>> /\ o.closure = <<>> /\ o.parent = NULL /\ o.lost = 0
    BY <2>1, <2>2 DEF Newly
  <2>4. Table(o.props, Addr(Start))
    <3>1. PICK t : t = o.props
      OBVIOUS
    <3>2. /\ a = 2 => DOMAIN t = {"create"} /\ t["create"] = 39
          /\ a \in {14, 17, 18, 23, 24, 30} => DOMAIN t = Flags /\ \A f \in Flags : t[f] = 42
          /\ a \notin {2, 14, 17, 18, 23, 24, 30} => DOMAIN t = {}
      BY <2>2, <3>1, StartProps
    <3>3. IsFiniteSet({"create"}) /\ IsFiniteSet(Flags) /\ IsFiniteSet({})
      <4>1. Flags = {"$evaluate-tokens"} \cup {"$evaluate-lists"}
        BY DEF Flags
      <4>. QED BY <4>1, FS_Singleton, FS_EmptySet, FS_Union
    <3>4. IsFiniteSet(DOMAIN t) /\ \A n \in DOMAIN t : t[n] \in 0 .. 42
      <4>1. CASE a = 2
        BY <3>2, <3>3, <4>1
      <4>2. CASE a \in {14, 17, 18, 23, 24, 30}
        BY <3>2, <3>3, <4>2
      <4>3. CASE a \notin {2, 14, 17, 18, 23, 24, 30}
        BY <3>2, <3>3, <4>3
      <4>. QED BY <4>1, <4>2, <4>3
    <3>. QED BY <3>1, <3>4, <1>2 DEF Table
  <2>5. Table(o.closure, DOMAIN Start.bindings)
    BY <2>3, FS_EmptySet DEF Table
  <2>6. IsSeq(o.items) /\ DOMAIN o.items = {}
    BY <2>3 DEF IsSeq
  <2>7. o.count \in Nat /\ o.count # 0
    <3>1. CASE a = 1
      BY <3>1, <1>1, <2>2 DEF Obj
    <3>2. CASE a # 1
      <4>1. a \in 2 .. 42
        BY <3>2
      <4>2. Count(Start, a) \in Nat /\ Count(Start, a) # 0
        BY <4>1, StartCount, StartPositive
      <4>. QED BY <2>2, <4>2 DEF Count
    <3>. QED BY <3>1, <3>2
  <2>. QED BY <2>2, <2>3, <2>4, <2>5, <2>6, <2>7, <1>2 DEF Sound, NULL
<1>6. PICK h : h = Start.heap
  OBVIOUS
<1>7. h[Nil].count = 1 /\ h[Nil].type = "list" /\ h[Nil].items = <<>> /\ DOMAIN h[Nil].closure = {}
  BY <1>1, <1>6 DEF Obj, Nil
<1>8. PICK sc : sc = Start.scopes
  OBVIOUS
<1>9. IsSeq(sc) /\ DOMAIN sc = {1} /\ Table(sc[1], DOMAIN Start.bindings)
  BY <1>4, <1>8, StartScope
<1>10. \A a \in DOMAIN h : Sound(Start, h[a])
  BY <1>1, <1>5, <1>6
<1>11. DOMAIN Start.bindings = 1 .. 42 /\ IsSeq(Start.bindings) /\ Start.stray \in BOOLEAN
       /\ DOMAIN Start = {"heap", "bindings", "scopes", "stray"}
  BY StartBindings
<1>12. IsSeq(h) /\ Len(h) >= False
  <2>1. IsSeq(h) /\ Len(h) = False /\ False \in Nat
    BY <1>1, <1>6
  <2>. QED BY <2>1
<1>. QED BY <1>3, <1>6, <1>7, <1>8, <1>9, <1>10, <1>11, <1>12 DEF Shape

\* What sol_runtime_init creates is good, and no C local owns any of it.
LEMMA StartGood == Good(Start) /\ \A a : Bal(Start, a) = 0
<1>1. Shape(Start) /\ DOMAIN Start.heap = 1 .. 42
  BY StartShape, StartHeapFacts DEF StartHeap
<1>2. ASSUME NEW a \in 2 .. 42 PROVE Balance(Start, a) = 0
  <2>1. PICK c, u, v, k : c = Count(Start, a) /\ u = HeapOcc(Start, a) /\ v = ScopeOcc(Start, a) /\ k = Keeps(a)
    OBVIOUS
  <2>2. c = u + v + k /\ u \in Nat /\ v \in Nat /\ k \in Nat
    BY <2>1, StartCount, KeepsType
  <2>3. Lost(Start, a) = 0
    <3>1. Newly(Start.heap[a])
      BY StartObjects
    <3>. QED BY <3>1 DEF Newly, Lost
  <2>4. Balance(Start, a) = c - u - v - 0 - k
    BY <2>1, <2>3 DEF Balance
  <2>. QED BY <2>2, <2>4
<1>3. DOMAIN Start.heap \ {Nil} = 2 .. 42
  BY <1>1 DEF Nil
<1>4. ASSUME NEW a \in 1 .. 42 PROVE Kind(Start, Start.heap[a])
  <2>1. CASE a = 1
    BY <2>1, StartHeapFacts DEF StartHeap, Obj, Kind
  <2>2. CASE a \in 2 .. 40
    <3>1. PICK i \in 1 .. 39 : i = a - 1
      BY <2>2
    <3>2. PICK n : n = BuiltinNames[i]
      OBVIOUS
    <3>3. Start.heap[a] = BuiltinObject(n)
      BY <2>2, <3>1, <3>2, StartObjects
    <3>4. n \in Range(BuiltinNames)
      BY <3>2, BuiltinPlace
    <3>5. PICK o : o = BuiltinObject(n)
      OBVIOUS
    <3>6. o.value = n /\ o.type \in {"object", "function"}
      BY <3>5, BuiltinProps
    <3>7. Kind(Start, o)
      BY <3>4, <3>6 DEF Kind
    <3>. QED BY <3>3, <3>5, <3>7
  <2>3. CASE a = 41
    BY <2>3, StartHeapFacts DEF StartHeap, Obj, Kind
  <2>4. CASE a = 42
    BY <2>4, StartHeapFacts DEF StartHeap, Obj, Kind
  <2>. QED BY <2>1, <2>2, <2>3, <2>4
<1>5. \A a : Alive(Start, a) => a \in 1 .. 42
  BY <1>1 DEF Alive
<1>6. \A a \in 2 .. 42 : Balance(Start, a) >= 0
  BY <1>2
<1>7. Good(Start)
  BY <1>1, <1>3, <1>4, <1>5, <1>6 DEF Good
<1>8. \A a : Bal(Start, a) = 0
  BY <1>2, <1>3 DEF Bal, Counted
<1>. QED BY <1>7, <1>8

-----------------------------------------------------------------------------
(* Numbers and names in bytecode. *)

\* What the bytes are read as, byte by byte.
LowSteps(bytes, range, low) ==
  /\ low[0] = 0
  /\ \A i \in 1 .. Len(bytes) : low[i] = (low[i - 1] % (range \div 256)) * 256 + bytes[i]

LowRun(bytes, range, n, low) ==
  low = [i \in 0 .. n |-> IF i = 0 THEN 0 ELSE (low[i - 1] % (range \div 256)) * 256 + bytes[i]]

LEMMA ByteAt ==
  ASSUME NEW bytes \in Seq(Byte), NEW i \in 1 .. Len(bytes)
  PROVE  bytes[i] \in Byte /\ bytes[i] \in Nat /\ bytes[i] < 256
<1>1. PICK b \in Byte : b = bytes[i]
  OBVIOUS
<1>2. b \in Nat /\ b < 256
  BY DEF Byte
<1>. QED BY <1>1, <1>2

LEMMA LowExist ==
  ASSUME NEW bytes, NEW range, NEW n \in Nat
  PROVE  \E low : LowRun(bytes, range, n, low)
<1>. DEFINE P(k, low) == LowRun(bytes, range, k, low)
            S == {k \in Nat : \E low : P(k, low)}
<1>1. 0 \in S
  <2>. DEFINE low == [i \in 0 .. 0 |-> 0]
  <2>1. P(0, low)
    BY DEF LowRun
  <2>. QED BY <2>1
<1>2. ASSUME NEW k \in Nat, k \in S
      PROVE  k + 1 \in S
  <2>1. PICK low : P(k, low)
    BY <1>2
  <2>2. PICK x : x = (low[k] % (range \div 256)) * 256 + bytes[k + 1]
    OBVIOUS
  <2>. DEFINE next == [i \in 0 .. k + 1 |-> IF i = k + 1 THEN x ELSE low[i]]
  <2>3. DOMAIN low = 0 .. k /\ low[0] = 0
        /\ \A i \in 1 .. k : low[i] = (low[i - 1] % (range \div 256)) * 256 + bytes[i]
    BY <2>1 DEF LowRun
  <2>4. \A i \in 1 .. k + 1 : next[i] = (next[i - 1] % (range \div 256)) * 256 + bytes[i]
    <3>. TAKE i \in 1 .. k + 1
    <3>1. CASE i = k + 1
      <4>1. next[i] = x /\ next[i - 1] = low[k] /\ i - 1 = k
        BY <3>1
      <4>. QED BY <2>2, <3>1, <4>1
    <3>2. CASE i # k + 1
      <4>1. i \in 1 .. k /\ next[i] = low[i] /\ next[i - 1] = low[i - 1]
        BY <3>2
      <4>. QED BY <2>3, <4>1
    <3>. QED BY <3>1, <3>2
  <2>5. next[0] = 0 /\ DOMAIN next = 0 .. k + 1
    BY <2>3
  <2>6. next = [i \in 0 .. k + 1 |-> next[i]]
    OBVIOUS
  <2>. HIDE DEF next
  <2>7. PICK d : d = range \div 256
    OBVIOUS
  <2>8. \A i \in 0 .. k + 1 : next[i] = IF i = 0 THEN 0 ELSE (next[i - 1] % d) * 256 + bytes[i]
    BY <2>4, <2>5, <2>7
  <2>9. next = [i \in 0 .. k + 1 |-> IF i = 0 THEN 0 ELSE (next[i - 1] % d) * 256 + bytes[i]]
    BY <2>6, <2>8
  <2>10. P(k + 1, next)
    BY <2>7, <2>9 DEF LowRun
  <2>. QED BY <2>10
<1>3. Nat \subseteq S
  <2>. HIDE DEF S
  <2>. QED BY <1>1, <1>2, SetInduction
<1>. QED BY <1>3

LEMMA LowBitsSteps ==
  ASSUME NEW bytes \in Seq(Byte), NEW range
  PROVE  \E low : LowSteps(bytes, range, low) /\ LowBits(bytes, range) = low[Len(bytes)]
<1>1. PICK n \in Nat : n = Len(bytes)
  OBVIOUS
<1>. DEFINE P(w) == LowRun(bytes, range, n, w)
            low == CHOOSE w : P(w)
<1>2. LowBits(bytes, range) = low[n]
  BY <1>1 DEF LowBits, LowRun
<1>3. \E w : P(w)
  BY LowExist
<1>4. P(low)
  BY <1>3
<1>. HIDE DEF low
<1>5. low[0] = 0 /\ \A i \in 1 .. n : low[i] = (low[i - 1] % (range \div 256)) * 256 + bytes[i]
  BY <1>4 DEF LowRun
<1>6. LowSteps(bytes, range, low)
  BY <1>1, <1>5 DEF LowSteps
<1>. QED BY <1>1, <1>2, <1>6

LEMMA LowStepsType ==
  ASSUME NEW bytes \in Seq(Byte), NEW range \in Nat, range >= 256, NEW low, LowSteps(bytes, range, low)
  PROVE  \A i \in 0 .. Len(bytes) : low[i] \in Nat
<1>1. PICK n \in Nat, d \in Nat : n = Len(bytes) /\ d = range \div 256 /\ d > 0
  OBVIOUS
<1>. DEFINE S == {k \in Nat : k <= n => low[k] \in Nat}
<1>2. 0 \in S
  BY DEF LowSteps
<1>3. ASSUME NEW k \in Nat, k \in S
      PROVE  k + 1 \in S
  <2>1. CASE k + 1 <= n
    <3>1. low[k] \in Nat
      BY <1>3, <2>1, <1>1
    <3>2. low[k + 1] = (low[k] % d) * 256 + bytes[k + 1]
      <4>1. k + 1 \in 1 .. n /\ k + 1 - 1 = k
        BY <2>1, <1>1
      <4>. QED BY <4>1, <1>1 DEF LowSteps
    <3>3. bytes[k + 1] \in Nat
      BY <2>1, <1>1, ByteAt
    <3>4. PICK x \in Nat : x = low[k] % d
      BY <3>1, <1>1
    <3>. QED BY <3>2, <3>3, <3>4
  <2>2. CASE ~(k + 1 <= n)
    BY <2>2
  <2>. QED BY <2>1, <2>2
<1>4. Nat \subseteq S
  <2>. HIDE DEF S
  <2>. QED BY <1>2, <1>3, SetInduction
<1>. QED BY <1>1, <1>4

LEMMA LowBitsType ==
  ASSUME NEW bytes \in Seq(Byte), NEW range \in Nat, range >= 256
  PROVE  LowBits(bytes, range) \in Nat
<1>1. PICK low : LowSteps(bytes, range, low) /\ LowBits(bytes, range) = low[Len(bytes)]
  BY LowBitsSteps
<1>2. Len(bytes) \in 0 .. Len(bytes)
  OBVIOUS
<1>. QED BY <1>1, <1>2, LowStepsType

\* A length is a number, and what follows it are bytes.
LEMMA LengthIs ==
  ASSUME NEW bytes \in Seq(Byte), bytes # <<>>, LengthType(bytes) \in Forms, ~Short(bytes)
  PROVE  /\ Length(bytes) \in Nat /\ AfterLength(bytes) \in Seq(Byte)
         /\ LengthSize[LengthType(bytes)] \in 1 .. Len(bytes)
<1>1. PICK form \in 1 .. 4 : form = LengthType(bytes)
  BY DEF Forms
<1>2. PICK size \in {1, 2, 4, 8} : size = LengthSize[form]
  BY <1>1 DEF LengthSize
<1>3. size <= Len(bytes)
  BY <1>1, <1>2 DEF Short, Forms
<1>4. PICK rest : rest = AfterLength(bytes)
  OBVIOUS
<1>5. rest \in Seq(Byte)
  BY <1>1, <1>2, <1>3, <1>4 DEF AfterLength
<1>6. PICK range \in Nat : range = LengthRange[form] /\ (form # 1 => range >= 256)
  BY <1>1 DEF LengthRange
<1>7. SubSeq(bytes, 1, size) \in Seq(Byte)
  BY <1>3
<1>8. form # 1 => LowBits(SubSeq(bytes, 1, size), range) \in Nat
  BY <1>6, <1>7, LowBitsType
<1>9. bytes[1] % 16 \in Nat
  <2>1. bytes[1] \in Nat
    BY <1>3, ByteAt
  <2>. QED BY <2>1
<1>10. Length(bytes) = IF form = 1 THEN bytes[1] % 16 ELSE LowBits(SubSeq(bytes, 1, size), range)
  BY <1>1, <1>2, <1>6 DEF Length
<1>11. Length(bytes) \in Nat
  BY <1>8, <1>9, <1>10
<1>12. size \in 1 .. Len(bytes)
  BY <1>3
<1>. QED BY <1>1, <1>2, <1>4, <1>5, <1>11, <1>12

LEMMA SpelledType ==
  ASSUME NEW bytes \in Seq(Byte)
  PROVE  Spelled(bytes) \in Names
<1>1. Cut(bytes) \in Seq(Byte)
  <2>1. PICK zeros : zeros = {i \in DOMAIN bytes : bytes[i] = 0}
    OBVIOUS
  <2>2. CASE zeros = {}
    BY <2>1, <2>2 DEF Cut
  <2>3. CASE zeros # {}
    <3>1. zeros \in SUBSET Nat
      BY <2>1
    <3>2. \E i \in zeros : \A j \in zeros : i <= j
      BY <2>3, <3>1, Least
    <3>3. PICK k : k = CHOOSE i \in zeros : \A j \in zeros : i <= j
      OBVIOUS
    <3>4. k \in zeros
      BY <3>2, <3>3
    <3>5. k \in 1 .. Len(bytes)
      BY <2>1, <3>4
    <3>6. Cut(bytes) = SubSeq(bytes, 1, k - 1)
      BY <2>1, <2>3, <3>3 DEF Cut
    <3>7. SubSeq(bytes, 1, k - 1) \in Seq(Byte)
      BY <3>5
    <3>. QED BY <3>6, <3>7
  <2>. QED BY <2>2, <2>3
<1>2. PICK c : c = Cut(bytes)
  OBVIOUS
<1>3. CASE \E n \in DOMAIN Spelling : Spelling[n] = c
  BY <1>2, <1>3 DEF Spelled, Names
<1>4. CASE ~\E n \in DOMAIN Spelling : Spelling[n] = c
  BY <1>1, <1>2, <1>4 DEF Spelled, Names
<1>. QED BY <1>3, <1>4

LEMMA SignedType ==
  ASSUME NEW bytes \in Seq(Byte), Len(bytes) = 4
  PROVE  Signed(bytes) \in Int
<1>1. PICK zero : zero = <<0>> \o Tail(bytes)
  OBVIOUS
<1>2. zero \in Seq(Byte)
  <2>1. <<0>> \in Seq(Byte)
    BY DEF Byte
  <2>2. Tail(bytes) \in Seq(Byte)
    BY bytes # <<>>
  <2>. QED BY <1>1, <2>1, <2>2
<1>3. LowBits(zero, 16777216) \in Nat
  BY <1>2, LowBitsType
<1>4. PICK b \in Nat : b = bytes[1]
  BY ByteAt
<1>5. Signed(bytes) = LowBits(zero, 16777216) + (IF b < 128 THEN b ELSE b - 256) * 16777216
  BY <1>1, <1>4 DEF Signed
<1>6. PICK x \in Nat : x = LowBits(zero, 16777216)
  BY <1>3
<1>7. PICK y \in Int : y = IF b < 128 THEN b ELSE b - 256
  BY <1>4
<1>8. Signed(bytes) = x + y * 16777216
  BY <1>5, <1>6, <1>7
<1>. QED BY <1>8

LEMMA NumberType ==
  ASSUME NEW bytes \in Seq(Byte), Len(bytes) >= NumberSize
  PROVE  NumberIn(bytes) \in Numbers
<1>1. PICK s, e : s = Signed(SubSeq(bytes, 1, 4)) /\ e = Signed(SubSeq(bytes, 9, 12))
  OBVIOUS
<1>2. SubSeq(bytes, 1, 4) \in Seq(Byte) /\ Len(SubSeq(bytes, 1, 4)) = 4
  BY DEF NumberSize
<1>3. s \in Int
  BY <1>1, <1>2, SignedType
<1>4. \A k \in 1 .. 20 : Power2[k] \in Nat /\ Power2[k] > 0
  <2>1. PICK P, T : P = Power2 /\ T = {x \in Nat : x > 0}
    OBVIOUS
  <2>2. /\ P[1] = 2 /\ P[2] = 4 /\ P[3] = 8 /\ P[4] = 16 /\ P[5] = 32 /\ P[6] = 64 /\ P[7] = 128
        /\ P[8] = 256 /\ P[9] = 512 /\ P[10] = 1024 /\ P[11] = 2048 /\ P[12] = 4096 /\ P[13] = 8192 /\ P[14] = 16384
        /\ P[15] = 32768 /\ P[16] = 65536 /\ P[17] = 131072 /\ P[18] = 262144 /\ P[19] = 524288 /\ P[20] = 1048576
    BY <2>1 DEF Power2
  <2>3. /\ 2 \in T /\ 4 \in T /\ 8 \in T /\ 16 \in T /\ 32 \in T /\ 64 \in T /\ 128 \in T /\ 256 \in T
        /\ 512 \in T /\ 1024 \in T /\ 2048 \in T /\ 4096 \in T /\ 8192 \in T /\ 16384 \in T /\ 32768 \in T /\ 65536 \in T
        /\ 131072 \in T /\ 262144 \in T /\ 524288 \in T /\ 1048576 \in T
    BY <2>1
  <2>4. /\ P[1] \in T /\ P[2] \in T /\ P[3] \in T /\ P[4] \in T /\ P[5] \in T /\ P[6] \in T /\ P[7] \in T /\ P[8] \in T
        /\ P[9] \in T /\ P[10] \in T /\ P[11] \in T /\ P[12] \in T /\ P[13] \in T /\ P[14] \in T /\ P[15] \in T /\ P[16] \in T
        /\ P[17] \in T /\ P[18] \in T /\ P[19] \in T /\ P[20] \in T
    BY <2>2, <2>3
  <2>5. \A k \in 1 .. 20 : P[k] \in T
    <3>. TAKE k \in 1 .. 20
    <3>1. \/ k = 1 \/ k = 2 \/ k = 3 \/ k = 4 \/ k = 5 \/ k = 6 \/ k = 7 \/ k = 8 \/ k = 9 \/ k = 10
          \/ k = 11 \/ k = 12 \/ k = 13 \/ k = 14 \/ k = 15 \/ k = 16 \/ k = 17 \/ k = 18 \/ k = 19 \/ k = 20
      OBVIOUS
    <3>. QED BY <2>4, <3>1
  <2>. QED BY <2>1, <2>5
<1>5. PICK exact : exact = (SubSeq(bytes, 5, 8) = <<0, 0, 0, 0>> /\ e \in 0 .. 19 /\ s % Power2[20 - e] = 0)
  OBVIOUS
<1>6. NumberIn(bytes) = IF exact THEN s \div Power2[20 - e] ELSE Garbage
  BY <1>1, <1>5 DEF NumberIn
<1>7. exact => s \div Power2[20 - e] \in Int
  <2>1. ASSUME e \in 0 .. 19 PROVE s \div Power2[20 - e] \in Int
    <3>1. PICK d \in Nat : d = Power2[20 - e] /\ d > 0
      <4>1. 20 - e \in 1 .. 20
        BY <2>1
      <4>. QED BY <1>4, <4>1
    <3>. QED BY <1>3, <3>1
  <2>. QED BY <1>5, <2>1
<1>. QED BY <1>6, <1>7 DEF Numbers

\* The digits of a number, in bytes.
LEMMA Digits ==
  ASSUME NEW n \in Nat
  PROVE  /\ n = (n \div 256) * 256 + (n % 256) /\ n % 256 \in 0 .. 255 /\ n \div 256 \in Nat
         /\ n \div 65536 = (n \div 256) \div 256 /\ n \div 16777216 = (n \div 65536) \div 256
         /\ n \div 1 = n
<1>1. n = (n \div 256) * 256 + (n % 256) /\ n % 256 \in 0 .. 255 /\ n \div 256 \in Nat /\ n \div 1 = n
  OBVIOUS
<1>2. n \div 65536 = (n \div 256) \div 256
  OBVIOUS
<1>3. n \div 16777216 = (n \div 65536) \div 256
  OBVIOUS
<1>. QED BY <1>1, <1>2, <1>3

LEMMA WrittenTwo ==
  ASSUME NEW n \in Nat, n < 4096
  PROVE  /\ WriteLength(n, 2) = <<32 + n \div 256, n % 256>> /\ 32 + n \div 256 \in 32 .. 47
         /\ n % 256 \in 0 .. 255 /\ ((32 + n \div 256) % 16) * 256 + (n % 256) = n
<1>1. WriteLength(n, 2) = <<32 + n \div 256, n % 256>>
  BY DEF WriteLength
<1>. QED BY <1>1

Three(n, b, c, d) ==
  /\ b \in 0 .. 15 /\ c \in 0 .. 255 /\ d \in 0 .. 255
  /\ WriteLength(n, 3) = <<48, b, c, d>> /\ n = (b * 256 + c) * 256 + d

LEMMA WrittenThree ==
  ASSUME NEW n \in Nat, n < 1048576
  PROVE  \E b, c, d : Three(n, b, c, d)
<1>1. PICK b, c, d : b = (n \div 65536) % 256 /\ c = (n \div 256) % 256 /\ d = (n \div 1) % 256
  OBVIOUS
<1>2. PICK q \in Nat : q = n \div 256
  BY Digits
<1>3. q < 4096 /\ n = q * 256 + d /\ d \in 0 .. 255
  BY <1>1, <1>2, Digits
<1>4. PICK p \in Nat : p = q \div 256
  BY Digits
<1>5. p < 16 /\ q = p * 256 + c /\ c \in 0 .. 255
  BY <1>1, <1>2, <1>3, <1>4, Digits
<1>6. b = p /\ b \in 0 .. 15
  BY <1>1, <1>2, <1>4, <1>5, Digits
<1>7. InBytes(n, 3) = <<b, c, d>>
  <2>1. Weight[3] = 65536 /\ Weight[2] = 256 /\ Weight[1] = 1
    BY DEF Weight
  <2>2. InBytes(n, 3) = [i \in 1 .. 3 |-> (n \div Weight[3 - i + 1]) % 256]
    BY DEF InBytes
  <2>3. PICK f : f = InBytes(n, 3) /\ f = [i \in 1 .. 3 |-> (n \div Weight[3 - i + 1]) % 256]
    BY <2>2
  <2>4. f[1] = b /\ f[2] = c /\ f[3] = d /\ f = [i \in 1 .. 3 |-> f[i]]
    BY <2>1, <2>3, <1>1
  <2>5. f = <<b, c, d>>
    BY <2>4
  <2>. QED BY <2>3, <2>5
<1>. DEFINE s == <<48>>
<1>8. IsSeq(s) /\ Len(s) = 1 /\ s[1] = 48
  BY DEF IsSeq
<1>9. WriteLength(n, 3) = <<48, b, c, d>>
  <2>9. WriteLength(n, 3) = s \o InBytes(n, 3)
    BY DEF WriteLength
  <2>. HIDE DEF s
  <2>1. PICK u : u = WriteLength(n, 3) /\ u = s \o InBytes(n, 3)
    BY <2>9
  <2>2. PICK t : t = InBytes(n, 3) /\ t = <<b, c, d>>
    BY <1>7
  <2>3. IsSeq(s) /\ Len(s) = 1 /\ s[1] = 48
    BY <1>8
  <2>4. IsSeq(t) /\ Len(t) = 3 /\ t[1] = b /\ t[2] = c /\ t[3] = d
    BY <2>2 DEF IsSeq
  <2>5. u = s \o t
    BY <2>1, <2>2
  <2>10. Joined(s, t, u)
    BY <2>3, <2>4, <2>5, SeqJoin
  <2>6. IsSeq(u) /\ Len(u) = 4 /\ u[1] = s[1] /\ u[1 + 1] = t[1] /\ u[1 + 2] = t[2] /\ u[1 + 3] = t[3]
    BY <2>3, <2>4, <2>10 DEF Joined
  <2>7. u = [i \in 1 .. 4 |-> u[i]] /\ u[1] = 48 /\ u[2] = b /\ u[3] = c /\ u[4] = d
    BY <2>3, <2>4, <2>6, SeqFacts
  <2>8. u = <<48, b, c, d>>
    BY <2>7
  <2>. QED BY <2>1, <2>8
<1>10. n = (b * 256 + c) * 256 + d
  BY <1>3, <1>5, <1>6
<1>11. b \in 0 .. 15 /\ c \in 0 .. 255 /\ d \in 0 .. 255
  BY <1>3, <1>5, <1>6
<1>12. Three(n, b, c, d)
  BY <1>9, <1>10, <1>11 DEF Three
<1>. QED BY <1>12

Four(n, b, c, d, e) ==
  /\ b \in 0 .. 15 /\ c \in 0 .. 255 /\ d \in 0 .. 255 /\ e \in 0 .. 255
  /\ WriteLength(n, 4) = <<64, 0, 0, 0, b, c, d, e>> /\ n = ((b * 256 + c) * 256 + d) * 256 + e

LEMMA WrittenFour ==
  ASSUME NEW n \in Nat, n < 268435456
  PROVE  \E b, c, d, e : Four(n, b, c, d, e)
<1>1. PICK b, c, d, e : /\ b = (n \div 16777216) % 256 /\ c = (n \div 65536) % 256
                        /\ d = (n \div 256) % 256 /\ e = (n \div 1) % 256
  OBVIOUS
<1>2. PICK q \in Nat : q = n \div 256
  BY Digits
<1>3. q < 1048576 /\ n = q * 256 + e /\ e \in 0 .. 255
  BY <1>1, <1>2, Digits
<1>4. PICK p \in Nat : p = q \div 256
  BY Digits
<1>5. p < 4096 /\ q = p * 256 + d /\ d \in 0 .. 255 /\ p = n \div 65536
  BY <1>1, <1>2, <1>3, <1>4, Digits
<1>6. PICK r \in Nat : r = p \div 256
  BY Digits
<1>7. r < 16 /\ p = r * 256 + c /\ c \in 0 .. 255 /\ r = n \div 16777216
  BY <1>1, <1>4, <1>5, <1>6, Digits
<1>8. b = r /\ b \in 0 .. 15
  BY <1>1, <1>7
<1>9. InBytes(n, 4) = <<b, c, d, e>>
  <2>1. Weight[4] = 16777216 /\ Weight[3] = 65536 /\ Weight[2] = 256 /\ Weight[1] = 1
    BY DEF Weight
  <2>2. InBytes(n, 4) = [i \in 1 .. 4 |-> (n \div Weight[4 - i + 1]) % 256]
    BY DEF InBytes
  <2>3. PICK f : f = InBytes(n, 4) /\ f = [i \in 1 .. 4 |-> (n \div Weight[4 - i + 1]) % 256]
    BY <2>2
  <2>4. f[1] = b /\ f[2] = c /\ f[3] = d /\ f[4] = e /\ f = [i \in 1 .. 4 |-> f[i]]
    BY <2>1, <2>3, <1>1
  <2>5. f = <<b, c, d, e>>
    BY <2>4
  <2>. QED BY <2>3, <2>5
<1>. DEFINE s == <<64, 0, 0, 0>>
<1>10. IsSeq(s) /\ Len(s) = 4 /\ s[1] = 64 /\ s[2] = 0 /\ s[3] = 0 /\ s[4] = 0
  BY DEF IsSeq
<1>11. WriteLength(n, 4) = <<64, 0, 0, 0, b, c, d, e>>
  <2>1. WriteLength(n, 4) = s \o InBytes(n, 4)
    BY DEF WriteLength
  <2>. HIDE DEF s
  <2>2. PICK u : u = WriteLength(n, 4) /\ u = s \o InBytes(n, 4)
    BY <2>1
  <2>3. PICK t : t = InBytes(n, 4) /\ t = <<b, c, d, e>>
    BY <1>9
  <2>4. IsSeq(t) /\ Len(t) = 4 /\ t[1] = b /\ t[2] = c /\ t[3] = d /\ t[4] = e
    BY <2>3 DEF IsSeq
  <2>5. u = s \o t
    BY <2>2, <2>3
  <2>6. Joined(s, t, u)
    BY <1>10, <2>4, <2>5, SeqJoin
  <2>7. /\ IsSeq(u) /\ Len(u) = 8 /\ u[1] = s[1] /\ u[2] = s[2] /\ u[3] = s[3] /\ u[4] = s[4]
        /\ u[4 + 1] = t[1] /\ u[4 + 2] = t[2] /\ u[4 + 3] = t[3] /\ u[4 + 4] = t[4]
    BY <1>10, <2>4, <2>6 DEF Joined
  <2>8. /\ u = [i \in 1 .. 8 |-> u[i]] /\ u[1] = 64 /\ u[2] = 0 /\ u[3] = 0 /\ u[4] = 0
        /\ u[5] = b /\ u[6] = c /\ u[7] = d /\ u[8] = e
    BY <1>10, <2>4, <2>7, SeqFacts
  <2>9. u = <<64, 0, 0, 0, b, c, d, e>>
    BY <2>8
  <2>. QED BY <2>2, <2>9
<1>12. n = ((b * 256 + c) * 256 + d) * 256 + e
  <2>1. n = q * 256 + e /\ q = p * 256 + d
    BY <1>3, <1>5
  <2>2. p = b * 256 + c
    BY <1>7, <1>8
  <2>. QED BY <2>1, <2>2
<1>13. Four(n, b, c, d, e)
  BY <1>3, <1>5, <1>7, <1>8, <1>11, <1>12 DEF Four
<1>. QED BY <1>13

\* What stands before the rest can be told from it.
Ahead(w, rest, bytes) ==
  /\ bytes \in Seq(Byte) /\ Len(bytes) = Len(w) + Len(rest) /\ bytes[1] = w[1]
  /\ SubSeq(bytes, 1, Len(w)) = w /\ SubSeq(bytes, Len(w) + 1, Len(bytes)) = rest

LEMMA AheadOf ==
  ASSUME NEW w, w \in Seq(Byte), Len(w) > 0, NEW rest, rest \in Seq(Byte), NEW b, b = w \o rest
  PROVE  Ahead(w, rest, b)
<1>8. PICK k \in Nat : k = Len(w)
  OBVIOUS
<1>9. PICK l \in Nat : l = Len(rest)
  OBVIOUS
<1>1. b = w \o rest /\ k = Len(w) /\ l = Len(rest)
  BY <1>8, <1>9
<1>2. b \in Seq(Byte) /\ Len(b) = k + l
  BY <1>1
<1>3. \A i \in 1 .. k + l : b[i] = IF i <= k THEN w[i] ELSE rest[i - k]
  BY <1>1
<1>4. b[1] = w[1]
  BY <1>1, <1>3
<1>5. SubSeq(b, 1, k) = w
  <2>1. SubSeq(b, 1, k) \in Seq(Byte) /\ Len(SubSeq(b, 1, k)) = k /\ \A i \in 1 .. k : SubSeq(b, 1, k)[i] = b[i]
    BY <1>1, <1>2
  <2>2. \A i \in 1 .. k : SubSeq(b, 1, k)[i] = w[i]
    BY <1>1, <1>3, <2>1
  <2>. QED BY <1>1, <2>1, <2>2
<1>6. SubSeq(b, k + 1, k + l) = rest
  <2>3. PICK j \in Nat : j = k + l
    OBVIOUS
  <2>4. SubSeq(b, k + 1, j) \in Seq(Byte) /\ Len(SubSeq(b, k + 1, j)) = j - k
        /\ \A i \in 1 .. j - k : SubSeq(b, k + 1, j)[i] = b[k + i]
    BY <1>2, <2>3
  <2>5. j - k = l
    BY <2>3
  <2>1. SubSeq(b, k + 1, k + l) \in Seq(Byte) /\ Len(SubSeq(b, k + 1, k + l)) = l
        /\ \A i \in 1 .. l : SubSeq(b, k + 1, k + l)[i] = b[k + i]
    BY <2>3, <2>4, <2>5
  <2>2. \A i \in 1 .. l : SubSeq(b, k + 1, k + l)[i] = rest[i]
    <3>. TAKE i \in 1 .. l
    <3>1. PICK h : h = k + i /\ h \in 1 .. k + l /\ ~(h <= k) /\ h - k = i
      BY <1>1
    <3>. QED BY <1>3, <2>1, <3>1
  <2>6. PICK t : t = SubSeq(b, k + 1, k + l)
    OBVIOUS
  <2>7. t \in Seq(Byte) /\ Len(t) = l /\ \A i \in 1 .. l : t[i] = rest[i]
    BY <2>1, <2>2, <2>6
  <2>8. t = rest
    BY <1>1, <2>7
  <2>. QED BY <2>6, <2>8
<1>. QED BY <1>1, <1>2, <1>4, <1>5, <1>6 DEF Ahead

LEMMA LengthOf ==
  ASSUME NEW bytes, NEW k, k \in {2, 3, 4}, LengthType(bytes) = k, NEW w, SubSeq(bytes, 1, LengthSize[k]) = w
  PROVE  Length(bytes) = LowBits(w, LengthRange[k])
<1>1. k # 1 /\ k = LengthType(bytes)
  OBVIOUS
<1>. HIDE DEF LengthSize, LengthRange
<1>. QED BY <1>1 DEF Length

LEMMA LengthSizes ==
  /\ LengthSize[1] = 1 /\ LengthSize[2] = 2 /\ LengthSize[3] = 4 /\ LengthSize[4] = 8
  /\ LengthRange[2] = 4096 /\ LengthRange[3] = 1048576 /\ LengthRange[4] = 268435456
BY DEF LengthSize, LengthRange

LowFor(w, range, low) == LowSteps(w, range, low) /\ LowBits(w, range) = low[Len(w)]

LEMMA LowOf ==
  ASSUME NEW w, w \in Seq(Byte), NEW range
  PROVE  \E low : LowFor(w, range, low)
BY LowBitsSteps DEF LowFor

\* What is read of a length that has been written.
ReadBack(bytes, n, form, rest) == LengthType(bytes) = form /\ Length(bytes) = n /\ AfterLength(bytes) = rest

\* A byte is read after v, which a shift leaves as u.
LEMMA LowNext ==
  ASSUME NEW w, NEW range, NEW low, LowSteps(w, range, low), NEW t, t = range \div 256,
         NEW i, i \in 1 .. Len(w), NEW h, h = i - 1, NEW v, low[h] = v, NEW u, u = v % t
  PROVE  low[i] = u * 256 + w[i]
BY DEF LowSteps

\* One more byte is read: nothing of what was read so far is too high.
LEMMA LowDigit ==
  ASSUME NEW v \in Nat, NEW r \in Nat, v < r
  PROVE  v % r = v
OBVIOUS

(* Every length that a form has room for is read back from it as it was    *)
(* written, and the bytes behind it are left as they are, whatever they    *)
(* are (runtime.c:276-312).                                                *)
THEOREM LengthReadBack ==
  ASSUME NEW form \in Forms, NEW n \in Nat, n < Capacity[form], NEW rest \in Seq(Byte)
  PROVE  ReadBack(WriteLength(n, form) \o rest, n, form, rest)
<1>1. PICK w : w = WriteLength(n, form)
  OBVIOUS
<1>2. PICK bytes : bytes = w \o rest
  OBVIOUS
<1>7. rest \in Seq(Byte)
  OBVIOUS
<1>3. CASE form = 1
  <2>1. n < 16
    BY <1>3 DEF Capacity
  <2>2. w = <<16 + n>>
    BY <1>1, <1>3 DEF WriteLength
  <2>3. w \in Seq(Byte) /\ Len(w) = 1 /\ w[1] = 16 + n
    BY <2>1, <2>2 DEF Byte
  <2>40. w \in Seq(Byte) /\ Len(w) > 0
    BY <2>3
  <2>4. Ahead(w, rest, bytes)
    BY <1>2, <1>7, <2>40, AheadOf
  <2>5. bytes[1] = 16 + n /\ SubSeq(bytes, 1 + 1, Len(bytes)) = rest
    BY <2>3, <2>4 DEF Ahead
  <2>6. LengthType(bytes) = 1 /\ bytes[1] % 16 = n
    BY <2>1, <2>5 DEF LengthType
  <2>7. Length(bytes) = n
    BY <2>6 DEF Length
  <2>8. AfterLength(bytes) = rest
    BY <2>5, <2>6 DEF AfterLength, LengthSize
  <2>. QED BY <1>1, <1>2, <1>3, <2>6, <2>7, <2>8 DEF ReadBack
<1>4. CASE form = 2
  <2>1. n < 4096
    BY <1>4 DEF Capacity
  <2>14. PICK b : b = 32 + n \div 256
    OBVIOUS
  <2>15. PICK c : c = n % 256
    OBVIOUS
  <2>2. w = <<b, c>> /\ (b % 16) * 256 + c = n /\ b \in 32 .. 47 /\ c \in 0 .. 255
    BY <1>1, <1>4, <2>1, <2>14, <2>15, WrittenTwo
  <2>3. w \in Seq(Byte) /\ Len(w) = 2 /\ w[1] = b /\ w[2] = c
    BY <2>2 DEF Byte
  <2>40. w \in Seq(Byte) /\ Len(w) > 0
    BY <2>3
  <2>4. Ahead(w, rest, bytes)
    BY <1>2, <1>7, <2>40, AheadOf
  <2>5. bytes[1] = b /\ SubSeq(bytes, 1, 2) = w /\ SubSeq(bytes, 2 + 1, Len(bytes)) = rest
    BY <2>3, <2>4 DEF Ahead
  <2>6. LengthType(bytes) = 2
    BY <2>2, <2>5 DEF LengthType
  <2>36. w \in Seq(Byte)
    BY <2>3
  <2>37. PICK r : r = 4096
    OBVIOUS
  <2>38. \E low : LowFor(w, r, low)
    BY <2>36, LowOf
  <2>30. PICK low : LowFor(w, 4096, low)
    BY <2>37, <2>38
  <2>7. LowSteps(w, 4096, low) /\ LowBits(w, 4096) = low[2]
    BY <2>3, <2>30 DEF LowFor
  <2>8. 4096 \div 256 = 16
    OBVIOUS
  <2>9. low[0] = 0 /\ low[1] = (low[0] % 16) * 256 + b /\ low[2] = (low[1] % 16) * 256 + c
    BY <2>3, <2>7, <2>8 DEF LowSteps
  <2>10. low[1] = b
    BY <2>9, <2>2
  <2>11. low[2] = n
    BY <2>2, <2>9, <2>10
  <2>31. SubSeq(bytes, 1, LengthSize[2]) = w
    BY <2>5, LengthSizes
  <2>32. Length(bytes) = LowBits(w, LengthRange[2])
    BY <2>6, <2>31, LengthOf
  <2>12. Length(bytes) = n
    BY <2>7, <2>32, <2>11, LengthSizes
  <2>13. AfterLength(bytes) = rest
    BY <2>5, <2>6 DEF AfterLength, LengthSize
  <2>. QED BY <1>1, <1>2, <1>4, <2>6, <2>12, <2>13 DEF ReadBack
<1>5. CASE form = 3
  <2>1. n < 1048576
    BY <1>5 DEF Capacity
  <2>16. PICK b, c, d : Three(n, b, c, d)
    BY <2>1, WrittenThree
  <2>2. w = <<48, b, c, d>> /\ n = (b * 256 + c) * 256 + d /\ b \in 0 .. 15 /\ c \in 0 .. 255 /\ d \in 0 .. 255
    BY <1>1, <1>5, <2>16 DEF Three
  <2>3. w \in Seq(Byte) /\ Len(w) = 4 /\ w[1] = 48 /\ w[2] = b /\ w[3] = c /\ w[4] = d
    BY <2>2 DEF Byte
  <2>40. w \in Seq(Byte) /\ Len(w) > 0
    BY <2>3
  <2>4. Ahead(w, rest, bytes)
    BY <1>2, <1>7, <2>40, AheadOf
  <2>5. bytes[1] = 48 /\ SubSeq(bytes, 1, 4) = w /\ SubSeq(bytes, 4 + 1, Len(bytes)) = rest
    BY <2>3, <2>4 DEF Ahead
  <2>6. LengthType(bytes) = 3
    BY <2>5 DEF LengthType
  <2>36. w \in Seq(Byte)
    BY <2>3
  <2>37. PICK r : r = 1048576
    OBVIOUS
  <2>38. \E low : LowFor(w, r, low)
    BY <2>36, LowOf
  <2>30. PICK low : LowFor(w, 1048576, low)
    BY <2>37, <2>38
  <2>7. LowSteps(w, 1048576, low) /\ LowBits(w, 1048576) = low[4]
    BY <2>3, <2>30 DEF LowFor
  <2>8. 1048576 \div 256 = 4096
    OBVIOUS
  <2>9. /\ low[0] = 0 /\ low[1] = (low[0] % 4096) * 256 + 48 /\ low[2] = (low[1] % 4096) * 256 + b
        /\ low[3] = (low[2] % 4096) * 256 + c /\ low[4] = (low[3] % 4096) * 256 + d
    BY <2>3, <2>7, <2>8 DEF LowSteps
  <2>10. low[1] = 48
    BY <2>9, LowDigit
  <2>11. low[2] = 12288 + b
    BY <2>2, <2>9, <2>10, LowDigit
  <2>33. PICK z : z = low[2] % 4096 /\ z = b
    BY <2>2, <2>11
  <2>12. low[3] = b * 256 + c
    BY <2>9, <2>33
  <2>34. PICK v \in Nat : v = b * 256 + c /\ v < 4096
    BY <2>2
  <2>35. v % 4096 = v
    BY <2>34, LowDigit
  <2>43. low[4] = (low[3] % 4096) * 256 + d
    BY <2>9
  <2>44. low[4] = (v % 4096) * 256 + d
    BY <2>12, <2>34, <2>43
  <2>45. low[4] = v * 256 + d
    BY <2>35, <2>44
  <2>13. low[4] = n
    BY <2>2, <2>34, <2>45
  <2>31. SubSeq(bytes, 1, LengthSize[3]) = w
    BY <2>5, LengthSizes
  <2>32. Length(bytes) = LowBits(w, LengthRange[3])
    BY <2>6, <2>31, LengthOf
  <2>14. Length(bytes) = n
    BY <2>7, <2>32, <2>13, LengthSizes
  <2>15. AfterLength(bytes) = rest
    BY <2>5, <2>6 DEF AfterLength, LengthSize
  <2>. QED BY <1>1, <1>2, <1>5, <2>6, <2>14, <2>15 DEF ReadBack
<1>6. CASE form = 4
  <2>1. n < 268435456
    BY <1>6 DEF Capacity
  <2>20. PICK b, c, d, e : Four(n, b, c, d, e)
    BY <2>1, WrittenFour
  <2>2. /\ b \in 0 .. 15 /\ c \in 0 .. 255 /\ d \in 0 .. 255 /\ e \in 0 .. 255
        /\ w = <<64, 0, 0, 0, b, c, d, e>> /\ n = ((b * 256 + c) * 256 + d) * 256 + e
    BY <1>1, <1>6, <2>20 DEF Four
  <2>3. w \in Seq(Byte) /\ Len(w) = 8 /\ w[1] = 64 /\ w[2] = 0 /\ w[3] = 0 /\ w[4] = 0
        /\ w[5] = b /\ w[6] = c /\ w[7] = d /\ w[8] = e
    BY <2>2 DEF Byte
  <2>40. w \in Seq(Byte) /\ Len(w) > 0
    BY <2>3
  <2>4. Ahead(w, rest, bytes)
    BY <1>2, <1>7, <2>40, AheadOf
  <2>5. bytes[1] = 64 /\ SubSeq(bytes, 1, 8) = w /\ SubSeq(bytes, 8 + 1, Len(bytes)) = rest
    BY <2>3, <2>4 DEF Ahead
  <2>6. LengthType(bytes) = 4
    BY <2>5 DEF LengthType
  <2>36. w \in Seq(Byte)
    BY <2>3
  <2>37. PICK r : r = 268435456
    OBVIOUS
  <2>38. \E low : LowFor(w, r, low)
    BY <2>36, LowOf
  <2>30. PICK low : LowFor(w, 268435456, low)
    BY <2>37, <2>38
  <2>7. LowSteps(w, 268435456, low) /\ LowBits(w, 268435456) = low[8]
    BY <2>3, <2>30 DEF LowFor
  <2>8. PICK t \in Nat : t = 268435456 \div 256 /\ t = 1048576
    OBVIOUS
  <2>9. low[0] = 0 /\ \A i \in 1 .. 8 : i \in 1 .. Len(w)
    BY <2>3, <2>7 DEF LowSteps
  <2>39. 0 = 0 % t /\ 64 = 64 % t /\ 16384 = 16384 % t /\ 0 = 4194304 % t
    BY <2>8
  <2>47. b \in Nat /\ b < t /\ b * 256 + c \in Nat /\ b * 256 + c < t
         /\ (b * 256 + c) * 256 + d \in Nat /\ (b * 256 + c) * 256 + d < t
    BY <2>2, <2>8
  <2>48. b % t = b /\ (b * 256 + c) % t = b * 256 + c
         /\ ((b * 256 + c) * 256 + d) % t = (b * 256 + c) * 256 + d
    <3>1. \A v \in Nat : v < t => v % t = v
      BY <2>8, LowDigit
    <3>2. PICK x \in Nat : x = b * 256 + c
      BY <2>47
    <3>3. PICK y \in Nat : y = (b * 256 + c) * 256 + d
      BY <2>47
    <3>5. b \in Nat /\ b < t /\ x < t /\ y < t
      BY <2>47, <3>2, <3>3
    <3>4. b % t = b /\ x % t = x /\ y % t = y
      BY <3>1, <3>5
    <3>. QED BY <3>2, <3>3, <3>4
  <2>52. low[1] = 0 * 256 + w[1]
    <3>1. PICK i : i = 1 /\ i \in 1 .. Len(w)
      BY <2>9
    <3>2. PICK h : h = 0 /\ h = i - 1
      BY <3>1
    <3>3. PICK u : u = low[h] % t /\ u = 0
      BY <2>9, <3>2, <2>39
    <3>4. low[i] = u * 256 + w[i]
      BY <2>7, <2>8, <3>1, <3>2, <3>3, LowNext
    <3>. QED BY <3>1, <3>3, <3>4
  <2>53. low[1] = 64
    BY <2>52, <2>2, <2>3
  <2>54. low[2] = 64 * 256 + w[2]
    <3>1. PICK i : i = 2 /\ i \in 1 .. Len(w)
      BY <2>9
    <3>2. PICK h : h = 1 /\ h = i - 1
      BY <3>1
    <3>3. PICK u : u = low[h] % t /\ u = 64
      BY <2>53, <3>2, <2>39
    <3>4. low[i] = u * 256 + w[i]
      BY <2>7, <2>8, <3>1, <3>2, <3>3, LowNext
    <3>. QED BY <3>1, <3>3, <3>4
  <2>55. low[2] = 16384
    BY <2>54, <2>2, <2>3
  <2>56. low[3] = 16384 * 256 + w[3]
    <3>1. PICK i : i = 3 /\ i \in 1 .. Len(w)
      BY <2>9
    <3>2. PICK h : h = 2 /\ h = i - 1
      BY <3>1
    <3>3. PICK u : u = low[h] % t /\ u = 16384
      BY <2>55, <3>2, <2>39
    <3>4. low[i] = u * 256 + w[i]
      BY <2>7, <2>8, <3>1, <3>2, <3>3, LowNext
    <3>. QED BY <3>1, <3>3, <3>4
  <2>57. low[3] = 4194304
    BY <2>56, <2>2, <2>3
  <2>58. low[4] = 0 * 256 + w[4]
    <3>1. PICK i : i = 4 /\ i \in 1 .. Len(w)
      BY <2>9
    <3>2. PICK h : h = 3 /\ h = i - 1
      BY <3>1
    <3>3. PICK u : u = low[h] % t /\ u = 0
      BY <2>57, <3>2, <2>39
    <3>4. low[i] = u * 256 + w[i]
      BY <2>7, <2>8, <3>1, <3>2, <3>3, LowNext
    <3>. QED BY <3>1, <3>3, <3>4
  <2>59. low[4] = 0
    BY <2>58, <2>2, <2>3
  <2>60. low[5] = 0 * 256 + w[5]
    <3>1. PICK i : i = 5 /\ i \in 1 .. Len(w)
      BY <2>9
    <3>2. PICK h : h = 4 /\ h = i - 1
      BY <3>1
    <3>3. PICK u : u = low[h] % t /\ u = 0
      BY <2>59, <3>2, <2>39
    <3>4. low[i] = u * 256 + w[i]
      BY <2>7, <2>8, <3>1, <3>2, <3>3, LowNext
    <3>. QED BY <3>1, <3>3, <3>4
  <2>61. low[5] = b
    BY <2>60, <2>2, <2>3
  <2>62. low[6] = b * 256 + w[6]
    <3>1. PICK i : i = 6 /\ i \in 1 .. Len(w)
      BY <2>9
    <3>2. PICK h : h = 5 /\ h = i - 1
      BY <3>1
    <3>3. PICK u : u = low[h] % t /\ u = b
      BY <2>61, <3>2, <2>48
    <3>4. low[i] = u * 256 + w[i]
      BY <2>7, <2>8, <3>1, <3>2, <3>3, LowNext
    <3>. QED BY <3>1, <3>3, <3>4
  <2>63. low[6] = b * 256 + c
    BY <2>62, <2>2, <2>3
  <2>64. low[7] = (b * 256 + c) * 256 + w[7]
    <3>1. PICK i : i = 7 /\ i \in 1 .. Len(w)
      BY <2>9
    <3>2. PICK h : h = 6 /\ h = i - 1
      BY <3>1
    <3>3. PICK u : u = low[h] % t /\ u = (b * 256 + c)
      BY <2>63, <3>2, <2>48
    <3>4. low[i] = u * 256 + w[i]
      BY <2>7, <2>8, <3>1, <3>2, <3>3, LowNext
    <3>. QED BY <3>1, <3>3, <3>4
  <2>65. low[7] = (b * 256 + c) * 256 + d
    BY <2>64, <2>2, <2>3
  <2>66. low[8] = ((b * 256 + c) * 256 + d) * 256 + w[8]
    <3>1. PICK i : i = 8 /\ i \in 1 .. Len(w)
      BY <2>9
    <3>2. PICK h : h = 7 /\ h = i - 1
      BY <3>1
    <3>3. PICK u : u = low[h] % t /\ u = ((b * 256 + c) * 256 + d)
      BY <2>65, <3>2, <2>48
    <3>4. low[i] = u * 256 + w[i]
      BY <2>7, <2>8, <3>1, <3>2, <3>3, LowNext
    <3>. QED BY <3>1, <3>3, <3>4
  <2>67. low[8] = n
    BY <2>66, <2>2, <2>3
  <2>31. SubSeq(bytes, 1, LengthSize[4]) = w
    BY <2>5, LengthSizes
  <2>32. Length(bytes) = LowBits(w, LengthRange[4])
    BY <2>6, <2>31, LengthOf
  <2>18. Length(bytes) = n
    BY <2>7, <2>32, <2>67, LengthSizes
  <2>19. AfterLength(bytes) = rest
    BY <2>5, <2>6 DEF AfterLength, LengthSize
  <2>. QED BY <1>1, <1>2, <1>6, <2>6, <2>18, <2>19 DEF ReadBack
<1>. QED BY <1>3, <1>4, <1>5, <1>6 DEF Forms

-----------------------------------------------------------------------------
(* Closures that are made, and objects that are copied. *)

LEMMA FoundAlive ==
  ASSUME NEW m, Good(m), Secure(m), NEW n, NEW b, b = Found(m, n), b # NULL
  PROVE  b \in DOMAIN m.bindings /\ (m.bindings[b] = NULL \/ Alive(m, m.bindings[b]))
<1>1. Shape(m) /\ \A a \in DOMAIN m.heap \ {Nil} : Balance(m, a) >= 0
  BY DEF Good
<1>2. PICK i \in Holders(m, n) : b = m.scopes[i][n] /\ b \in DOMAIN m.bindings
  BY <1>1, FoundFacts
<1>3. i \in DOMAIN m.scopes /\ n \in DOMAIN m.scopes[i]
  BY DEF Holders
<1>4. CASE i \in OwnScopes(m)
  <2>1. LET a == m.bindings[m.scopes[i][n]] IN a = NULL \/ Alive(m, a)
    BY <1>1, <1>3, <1>4, ScopedAlive
  <2>. QED BY <1>2, <2>1
<1>5. CASE i \notin OwnScopes(m)
  <2>1. Follows(m, m)
    BY <1>1, GrowsSelf, BalType DEF Follows, Binds
  <2>. QED BY <1>2, <1>3, <1>5, <2>1 DEF Secure
<1>. QED BY <1>2, <1>4, <1>5

LEMMA SnapshotGood ==
  ASSUME NEW m, Good(m), Secure(m), NEW t, t = Snapshot(m)
  PROVE  /\ Table(t, DOMAIN m.bindings)
         /\ \A n \in DOMAIN t : m.bindings[t[n]] = NULL \/ Alive(m, m.bindings[t[n]])
<1>1. Shape(m)
  BY DEF Good
<1>2. DOMAIN t = UNION {DOMAIN m.scopes[i] : i \in DOMAIN m.scopes} /\ \A n \in DOMAIN t : t[n] = Found(m, n)
  BY DEF Snapshot
<1>3. IsFiniteSet(DOMAIN m.scopes) /\ \A i \in DOMAIN m.scopes : IsFiniteSet(DOMAIN m.scopes[i])
  BY <1>1, SeqFinite DEF Shape, Table
<1>4. IsFiniteSet(DOMAIN t)
  <2>. DEFINE f == [i \in DOMAIN m.scopes |-> DOMAIN m.scopes[i]]
  <2>1. \A i \in DOMAIN m.scopes : f[i] = DOMAIN m.scopes[i]
    OBVIOUS
  <2>. HIDE DEF f
  <2>2. IsFiniteSet(UNION {f[i] : i \in DOMAIN m.scopes})
    BY <1>3, <2>1, FiniteUnion
  <2>3. UNION {f[i] : i \in DOMAIN m.scopes} = UNION {DOMAIN m.scopes[i] : i \in DOMAIN m.scopes}
    BY <2>1
  <2>. QED BY <1>2, <2>2, <2>3
<1>5. ASSUME NEW n \in DOMAIN t PROVE t[n] # NULL /\ t[n] = Found(m, n)
  <2>1. PICK i \in DOMAIN m.scopes : n \in DOMAIN m.scopes[i]
    BY <1>2
  <2>2. Holders(m, n) # {}
    BY <2>1 DEF Holders
  <2>. QED BY <1>1, <1>2, <2>2, FoundFacts
<1>6. \A n \in DOMAIN t : t[n] \in DOMAIN m.bindings /\ (m.bindings[t[n]] = NULL \/ Alive(m, m.bindings[t[n]]))
  <2>. TAKE n \in DOMAIN t
  <2>. QED BY <1>5, FoundAlive
<1>. QED BY <1>4, <1>6 DEF Table

\* An object more, at x, that is the caller's.
Newer(m, o, x, m2) ==
  /\ Moved(m, m2) /\ m2.bindings = m.bindings
  /\ x \notin DOMAIN m.heap /\ x # NULL /\ x # Nil
  /\ DOMAIN m2.heap = DOMAIN m.heap \cup {x} /\ Counted(m2) = Counted(m) \cup {x}
  /\ Alive(m2, x) /\ SameObj(o, m2.heap[x])
  /\ \A a : Alive(m, a) => Alive(m2, a)
  /\ \A a \in DOMAIN m.heap : SameObj(m.heap[a], m2.heap[a])
  /\ \A a \in Counted(m2) : Bal(m2, a) = Bal(m, a) + Ind(x, a)

LEMMA NewFacts ==
  ASSUME NEW m, Good(m), NEW o, Proper(m, o)
  PROVE  Newer(m, o, Fresh(m), New(m, o))
BY NewStep DEF Newer

Block(m, body) == NewList(m, FALSE, body)
MadeLambda(kind, parameters, x, closure) ==
  [Obj("function", kind, <<parameters, x>>) EXCEPT !.closure = closure]

\* A function is made: r is mem with one object more for its statements, and
\* one for itself, which is the caller's.
LEMMA LambdaStep ==
  ASSUME NEW m, Good(m), Secure(m), NEW parameters, Alive(m, parameters), m.heap[parameters].type = "list",
         NEW kind \in {"function", "macro"}, NEW body, IsSeq(body),
         \A i \in DOMAIN body : body[i] = NULL \/ Alive(m, body[i]),
         NEW x, x = Fresh(m), NEW m1, m1 = Block(m, body),
         NEW o, o = MadeLambda(kind, parameters, x, Snapshot(m)),
         NEW r, r = Release(New(m1, o), x)
  PROVE  /\ Moved(m, r) /\ x + 1 \in Counted(r)
         /\ \A a \in Counted(r) : Bal(r, a) = Bal(m, a) + Ind(x + 1, a)
<1>1. PICK l : l = Obj("list", FALSE, body)
  OBVIOUS
<1>2. Proper(m, l)
  <2>1. /\ DOMAIN l = Fields /\ l.count = 1 /\ l.lost = 0 /\ l.parent = NULL /\ l.items = body
        /\ l.props = <<>> /\ l.closure = <<>> /\ l.type = "list" /\ l.value = FALSE
    BY <1>1 DEF Obj, Fields
  <2>2. IsFiniteSet(DOMAIN l.props) /\ DOMAIN l.props = {} /\ DOMAIN l.closure = {} /\ IsFiniteSet(DOMAIN l.closure)
    BY <2>1, FS_EmptySet
  <2>3. Kind(m, l)
    BY <2>1 DEF Kind
  <2>. QED BY <2>1, <2>2, <2>3 DEF Proper, Table
<1>3. m1 = New(m, l)
  BY <1>1 DEF NewList, Block
<1>4. Newer(m, l, x, m1)
  BY <1>2, <1>3, NewFacts
<1>20. /\ Moved(m, m1) /\ m1.bindings = m.bindings /\ x \notin DOMAIN m.heap /\ x # NULL /\ x # Nil
       /\ DOMAIN m1.heap = DOMAIN m.heap \cup {x} /\ Counted(m1) = Counted(m) \cup {x}
       /\ Alive(m1, x) /\ SameObj(l, m1.heap[x])
       /\ \A a : Alive(m, a) => Alive(m1, a)
       /\ \A a \in DOMAIN m.heap : SameObj(m.heap[a], m1.heap[a])
       /\ \A a \in Counted(m1) : Bal(m1, a) = Bal(m, a) + Ind(x, a)
  BY <1>4 DEF Newer
<1>5. Shape(m) /\ Shape(m1) /\ Good(m1)
  BY <1>20 DEF Moved, Good
<1>6. x = Len(m.heap) + 1 /\ Len(m.heap) \in Nat /\ Len(m1.heap) \in Nat
      /\ DOMAIN m.heap = 1 .. Len(m.heap) /\ DOMAIN m1.heap = 1 .. Len(m1.heap)
  BY <1>5, Addresses DEF Fresh
<1>7. Len(m1.heap) = x
  <2>1. PICK h \in Nat : h = Len(m.heap)
    BY <1>6
  <2>2. PICK k \in Nat : k = Len(m1.heap)
    BY <1>6
  <2>3. 1 .. k = 1 .. h \cup {h + 1} /\ x = h + 1
    BY <1>20, <1>6, <2>1, <2>2
  <2>4. h + 1 \in 1 .. k /\ (k \in 1 .. h \cup {h + 1} \/ k = 0)
    BY <2>3
  <2>5. k = h + 1
    BY ONLY <2>4, h \in Nat, k \in Nat
  <2>. QED BY <2>2, <2>3, <2>5
<1>8. Fresh(m1) = x + 1
  BY <1>7 DEF Fresh
<1>9. Proper(m1, o)
  <2>1. /\ DOMAIN o = Fields /\ o.count = 1 /\ o.lost = 0 /\ o.parent = NULL /\ o.items = <<parameters, x>>
        /\ o.props = <<>> /\ o.closure = Snapshot(m) /\ o.type = "function" /\ o.value = kind
    BY DEF Obj, Fields, MadeLambda
  <2>2. IsFiniteSet(DOMAIN o.props) /\ DOMAIN o.props = {}
    BY <2>1, FS_EmptySet
  <2>3. Table(o.closure, DOMAIN m1.bindings)
    BY <1>20, <2>1, SnapshotGood
  <2>4. \A n \in DOMAIN o.closure : m1.bindings[o.closure[n]] = NULL \/ Alive(m1, m1.bindings[o.closure[n]])
    <3>1. PICK t : t = Snapshot(m)
      OBVIOUS
    <3>2. \A n \in DOMAIN t : m.bindings[t[n]] = NULL \/ Alive(m, m.bindings[t[n]])
      BY <3>1, SnapshotGood
    <3>3. o.closure = t /\ m1.bindings = m.bindings
      BY <1>20, <2>1, <3>1
    <3>4. \A a : Alive(m, a) => Alive(m1, a)
      BY <1>20
    <3>. QED BY ONLY <3>2, <3>3, <3>4
  <2>5. IsSeq(o.items) /\ Len(o.items) = 2 /\ o.items[1] = parameters /\ o.items[2] = x
    BY <2>1, SeqTwo
  <2>6. DOMAIN o.items = 1 .. 2
    BY <2>5, SeqFacts
  <2>7. \A i \in DOMAIN o.items : o.items[i] = NULL \/ Alive(m1, o.items[i])
    <3>1. Alive(m1, parameters) /\ Alive(m1, x)
      BY <1>20
    <3>2. \A i \in DOMAIN o.items : i = 1 \/ i = 2
      BY <2>6
    <3>. QED BY <2>5, <3>1, <3>2
  <2>8. m1.heap[x].type = "list" /\ m1.heap[parameters].type = "list" /\ parameters # NULL
    <3>1. l.type = "list" /\ parameters \in DOMAIN m.heap /\ NULL \notin DOMAIN m.heap
      BY <1>1, <1>5, Addresses DEF Obj, Alive
    <3>. QED BY <1>20, <3>1 DEF SameObj
  <2>9. Type(m1, o.items[1]) = "list" /\ Type(m1, o.items[2]) = "list"
    BY <1>20, <2>5, <2>8 DEF Type
  <2>10. Kind(m1, o)
    <3>1. o.type = "function" /\ o.value \in {"function", "macro"}
      BY <2>1
    <3>2. {1, 2} \subseteq DOMAIN o.items
      BY <2>6
    <3>. QED BY <2>9, <3>1, <3>2 DEF Kind
  <2>. QED BY <2>1, <2>2, <2>3, <2>4, <2>5, <2>7, <2>10 DEF Proper
<1>10. PICK m2 : m2 = New(m1, o)
  OBVIOUS
<1>21. Newer(m1, o, Fresh(m1), m2)
  BY <1>5, <1>9, <1>10, NewFacts
<1>11. /\ Moved(m1, m2) /\ Counted(m2) = Counted(m1) \cup {x + 1}
       /\ \A a \in Counted(m2) : Bal(m2, a) = Bal(m1, a) + Ind(x + 1, a)
  BY <1>8, <1>21 DEF Newer
<1>12. Good(m2)
  BY <1>11 DEF Moved
<1>13. ASSUME NEW a \in Counted(m2) PROVE Bal(m2, a) = Bal(m, a) + Ind(x, a) + Ind(x + 1, a)
  <2>1. a \in Counted(m1) \/ a = x + 1
    BY <1>11
  <2>2. CASE a \in Counted(m1)
    <3>1. Bal(m2, a) = Bal(m1, a) + Ind(x + 1, a) /\ Bal(m1, a) = Bal(m, a) + Ind(x, a)
      BY <1>11, <1>20, <2>2
    <3>. QED BY <3>1
  <2>3. CASE a \notin Counted(m1)
    <3>1. a \notin Counted(m) /\ a # x /\ x \in Counted(m1)
      BY <1>20, <2>3
    <3>2. Bal(m1, a) = 0 /\ Bal(m, a) = 0 /\ Ind(x, a) = 0
      BY <2>3, <3>1 DEF Bal, Ind
    <3>3. Bal(m2, a) = Bal(m1, a) + Ind(x + 1, a)
      BY <1>11
    <3>. QED BY <3>2, <3>3
  <2>. QED BY <2>1, <2>2, <2>3
<1>14. \A a : Bal(m, a) \in Nat /\ Ind(x, a) \in Nat /\ Ind(x + 1, a) \in Nat
  BY BalType DEF Ind
<1>15. ASSUME NEW a \in Counted(m2) PROVE Bal(m2, a) >= Ind(x, a)
  BY <1>13, <1>14
<1>16. /\ Moved(m2, r) /\ Counted(r) = Counted(m2)
       /\ \A a \in Counted(m2) : Bal(r, a) = Bal(m2, a) - Ind(x, a)
  <2>1. r = Release(m2, x)
    BY <1>10
  <2>2. LET m3 == Release(m2, x) IN
        /\ Moved(m2, m3) /\ Same(m2, m3) /\ Counted(m3) = Counted(m2)
        /\ \A a : Alive(m3, a) <=> Alive(m2, a) /\ a \notin Dead(m2, <<x>>)
        /\ \A a \in Counted(m2) : Bal(m3, a) = Bal(m2, a) - Ind(x, a)
    BY <1>12, <1>15, ReleaseStep
  <2>. QED BY <2>1, <2>2
<1>17. Moved(m, r)
  BY <1>20, <1>5, <1>11, <1>12, <1>16, MovedMore
<1>18. ASSUME NEW a \in Counted(r) PROVE Bal(r, a) = Bal(m, a) + Ind(x + 1, a)
  <2>1. a \in Counted(m2)
    BY <1>16
  <2>2. PICK b, c, d, e : b = Bal(m, a) /\ c = Ind(x, a) /\ d = Ind(x + 1, a) /\ e = Bal(r, a)
    OBVIOUS
  <2>3. b \in Nat /\ c \in Nat /\ d \in Nat
    BY <1>14, <2>2
  <2>5. Bal(m2, a) = Bal(m, a) + Ind(x, a) + Ind(x + 1, a) /\ Bal(r, a) = Bal(m2, a) - Ind(x, a)
    BY <1>13, <1>16, <2>1
  <2>7. PICK g : g = Bal(m2, a)
    OBVIOUS
  <2>8. g = b + c + d
    BY <2>2, <2>5, <2>7
  <2>9. e = g - c
    BY <2>2, <2>5, <2>7
  <2>6. e = b + d
    BY ONLY <2>3, <2>8, <2>9
  <2>. QED BY <2>2, <2>6
<1>. QED BY <1>11, <1>16, <1>17, <1>18

\* A finite set, in some order.
Listing(S, s) ==
  /\ IsSeq(s) /\ Len(s) \in Nat /\ DOMAIN s = 1 .. Len(s)
  /\ \A i \in DOMAIN s : s[i] \in S
  /\ \A i, j \in DOMAIN s : s[i] = s[j] => i = j

LEMMA SetToSeqFacts ==
  ASSUME NEW S, IsFiniteSet(S)
  PROVE  Listing(S, SetToSeq(S))
<1>1. PICK n \in Nat : n = Cardinality(S) /\ ExistsBijection(1 .. n, S)
  BY FS_CardinalityType
<1>2. PICK f \in Bijection(1 .. n, S) : TRUE
  BY <1>1 DEF ExistsBijection
<1>4. f \in [1 .. n -> S] /\ IsInjective(f)
  BY <1>2 DEF Bijection, Injection
<1>3. f \in [1 .. n -> S] /\ \A i, j \in 1 .. n : f[i] = f[j] => i = j
  <2>. QED BY <1>4 DEF IsInjective
<1>5. PICK s : s = SetToSeq(S) /\ s \in [1 .. n -> S] /\ IsInjective(s)
  BY <1>1, <1>3, <1>4 DEF SetToSeq
<1>6. s = [i \in 1 .. n |-> s[i]]
  BY <1>5
<1>7. IsSeq(s) /\ Len(s) = n /\ DOMAIN s = 1 .. n
  BY <1>6, SeqMade
<1>. QED BY <1>5, <1>7 DEF Listing, IsInjective

\* Properties of src are copied to a, while both live.
LEMMA CopyStep ==
  ASSUME NEW m, Good(m), NEW a, Alive(m, a), a = Nil \/ Bal(m, a) # 0,
         NEW src \in DOMAIN m.heap, NEW ns, Listing(DOMAIN m.heap[src].props, ns),
         NEW vs, \A i \in DOMAIN ns : vs[i] = m.heap[src].props[ns[i]],
         \A m2 : Along(m, m2, a, ns, vs) => Alive(m2, src)
  PROVE  Along(m, SetProps(m, a, ns, vs), a, ns, vs)
<1>1. ASSUME NEW m2, NEW k, Along(m, m2, a, ns, vs), k \in 1 .. Len(ns)
      PROVE  vs[k] = NULL \/ Alive(m2, vs[k])
  <2>1. Alive(m2, src) /\ src \in DOMAIN m2.heap /\ Good(m2)
    BY <1>1 DEF Alive, Along, Moved
  <2>2. \A n \in DOMAIN m2.heap[src].props : m2.heap[src].props[n] = NULL \/ Alive(m2, m2.heap[src].props[n])
    BY <2>1, OwnedAlive DEF Good
  <2>3. k \in DOMAIN ns /\ ns[k] \in DOMAIN m.heap[src].props /\ vs[k] = m.heap[src].props[ns[k]]
    BY <1>1 DEF Listing
  <2>4. ns[k] \in DOMAIN m2.heap[src].props /\ m2.heap[src].props[ns[k]] = vs[k]
    <3>1. CASE src # a
      BY <1>1, <2>1, <2>3, <3>1 DEF Along
    <3>2. CASE src = a
      <4>1. /\ ns[k] \in DOMAIN m2.heap[a].props
            /\ \/ m2.heap[a].props[ns[k]] = m.heap[a].props[ns[k]]
               \/ \E i \in 1 .. Len(ns) : ns[i] = ns[k] /\ m2.heap[a].props[ns[k]] = vs[i]
        BY <1>1, <2>3, <3>2 DEF Along
      <4>2. \A i \in 1 .. Len(ns) : ns[i] = ns[k] => i = k
        BY <2>3 DEF Listing
      <4>. QED BY <2>3, <3>2, <4>1, <4>2
    <3>. QED BY <3>1, <3>2
  <2>. QED BY <2>2, <2>4
<1>2. Len(ns) \in Nat
  BY DEF Listing
<1>. QED BY <1>1, <1>2, SetPropsStep

\* What has been looked up lives while the object does that has it.
LEMMA PropStays ==
  ASSUME NEW m, NEW p, Good(p), Fixed(m, p), NEW a \in DOMAIN m.heap, Alive(p, a), NEW n
  PROVE  GetProp(m, a, n) = NULL \/ Alive(p, GetProp(m, a, n))
<1>1. Shape(p) /\ (\A x \in DOMAIN p.heap \ {Nil} : Balance(p, x) >= 0) /\ a \in DOMAIN p.heap
  BY DEF Good, Alive
<1>2. \A k \in DOMAIN p.heap[a].props : p.heap[a].props[k] = NULL \/ Alive(p, p.heap[a].props[k])
  BY <1>1, OwnedAlive
<1>3. \A k \in DOMAIN m.heap[a].props : m.heap[a].props[k] = NULL \/ Alive(p, m.heap[a].props[k])
  BY <1>2, FixedAlive
<1>4. Alive(p, True)
  BY KeptAlive, MethodFacts, BooleanFacts
<1>5. \A k \in DOMAIN Methods : Alive(p, Methods[k])
  <2>1. \A k \in DOMAIN Methods : Methods[k] \in 2 .. 42 /\ Keeps(Methods[k]) # 0
    BY MethodFacts
  <2>. QED BY <2>1, KeptAlive
<1>6. PICK own, flag, method :
        /\ own = (n \in DOMAIN m.heap[a].props)
        /\ flag = (n \notin DOMAIN m.heap[a].props /\ n \in Flags /\ Type(m, Root(m, a)) = "function")
        /\ method = (n \notin DOMAIN m.heap[a].props /\ n \in DOMAIN Methods
                       /\ (n \in RawMethods \/ Root(m, a) # RawObject))
  OBVIOUS
<1>7. GetProp(m, a, n) = CASE own -> m.heap[a].props[n] [] flag -> True [] method -> Methods[n] [] OTHER -> NULL
  BY <1>6 DEF GetProp
<1>. QED BY <1>3, <1>4, <1>5, <1>6, <1>7
=============================================================================
