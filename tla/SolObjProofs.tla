---------------------------- MODULE SolObjProofs ----------------------------
(***************************************************************************)
(* Proofs about SolObj: for a careful program the counts of objects are    *)
(* exact while getters, setters, patches, errors and cascades of releases  *)
(* interleave, and objects with properties implement SolStore, for any     *)
(* objects, functions, names and bounds.                                   *)
(***************************************************************************)
EXTENDS SolObj, Integers, FiniteSets, FiniteSetTheorems, WellFoundedInduction, TLAPS

-----------------------------------------------------------------------------
(* Induction over the natural numbers, as facts about sets of numbers. *)

(* A set of numbers that has 0, and with a number the next, has them all:  *)
(* the form in which the proofs about walks, scopes and handlers use it.   *)
LEMMA SetInduction ==
  ASSUME NEW S, 0 \in S, \A n \in Nat : n \in S => n + 1 \in S
  PROVE  Nat \subseteq S
<1>. DEFINE R == OpToRel(<, Nat)
            T == Nat \ S
<1>1. SUFFICES ASSUME T # {} PROVE FALSE
  OBVIOUS
<1>2. IsWellFoundedOn(R, Nat)
  BY NatLessThanWellFounded
<1>3. R = {ss \in Nat \X Nat : ss[1] < ss[2]}
  BY DEF OpToRel
<1>. HIDE DEF R
<1>4. PICK x \in T : \A y \in T : ~(<<y, x>> \in R)
  BY <1>1, <1>2, WFMin
<1>5. x \in Nat /\ x # 0 /\ x - 1 \in Nat /\ (x - 1) + 1 = x
  BY <1>4
<1>6. <<x - 1, x>> \in R
  BY <1>3, <1>5
<1>7. x - 1 \in S
  BY <1>4, <1>5, <1>6
<1>. QED BY <1>4, <1>5, <1>7

(* A set of numbers that is not empty has a least one.                     *)
LEMMA Least ==
  ASSUME NEW S \in SUBSET Nat, S # {}
  PROVE  \E n \in S : \A m \in S : n <= m
<1>. DEFINE R == OpToRel(<, Nat)
<1>1. IsWellFoundedOn(R, Nat)
  BY NatLessThanWellFounded
<1>2. R = {ss \in Nat \X Nat : ss[1] < ss[2]}
  BY DEF OpToRel
<1>. HIDE DEF R
<1>3. PICK n \in S : \A m \in S : ~(<<m, n>> \in R)
  BY <1>1, WFMin
<1>4. ASSUME NEW m \in S PROVE n <= m
  <2>1. m \in Nat /\ n \in Nat
    OBVIOUS
  <2>2. ~(m < n)
    BY <1>2, <1>3, <2>1
  <2>. QED BY <2>1, <2>2
<1>. QED BY <1>4

-----------------------------------------------------------------------------
(* How often a table, or a field of the operations in progress, has v.     *)

Eq(x, v) == IF x = v THEN 1 ELSE 0

\* The places of function f that hold v.
Uses(f, v) == Cardinality({d \in DOMAIN f : f[d] = v})

\* The elements of sequence q that are in S.
Hits(q, S) == Cardinality({i \in DOMAIN q : q[i] \in S})

\* The references to o that operation e owns.
Weight(e, o) == Eq(e.self, o) + Eq(e.arg, o)

Selves(o) == {e \in Operations : e.self = o}
Args(o)   == {e \in Operations : e.arg = o}

LEMMA UsesType ==
  ASSUME NEW f, IsFiniteSet(DOMAIN f), NEW v
  PROVE  /\ IsFiniteSet({d \in DOMAIN f : f[d] = v}) /\ Uses(f, v) \in Nat
         /\ Uses(f, v) = 0 <=> \A d \in DOMAIN f : f[d] # v
<1>1. {d \in DOMAIN f : f[d] = v} \in SUBSET DOMAIN f
  OBVIOUS
<1>2. IsFiniteSet({d \in DOMAIN f : f[d] = v}) /\ Cardinality({d \in DOMAIN f : f[d] = v}) \in Nat
  BY <1>1, FS_Subset, FS_CardinalityType
<1>3. Cardinality({d \in DOMAIN f : f[d] = v}) = 0 <=> {d \in DOMAIN f : f[d] = v} = {}
  BY <1>2, FS_EmptySet
<1>4. {d \in DOMAIN f : f[d] = v} = {} <=> \A d \in DOMAIN f : f[d] # v
  OBVIOUS
<1>. QED BY <1>2, <1>3, <1>4 DEF Uses

\* g differs from f in place d only.
LEMMA UsesExcept ==
  ASSUME NEW f, NEW g, IsFiniteSet(DOMAIN f), DOMAIN g = DOMAIN f, NEW d \in DOMAIN f,
         \A e \in DOMAIN f : e # d => g[e] = f[e], NEW v
  PROVE  Uses(g, v) + Eq(f[d], v) = Uses(f, v) + Eq(g[d], v)
<1>. DEFINE A == {e \in DOMAIN f : f[e] = v}
            B == {e \in DOMAIN f : g[e] = v}
<1>1. IsFiniteSet(A) /\ Uses(f, v) = Cardinality(A) /\ Cardinality(A) \in Nat
  <2>1. Uses(f, v) = Cardinality(A)
    BY DEF Uses
  <2>. QED BY <2>1, UsesType
<1>2. IsFiniteSet(B) /\ Uses(g, v) = Cardinality(B) /\ Cardinality(B) \in Nat
  <2>1. Uses(g, v) = Cardinality(B) /\ B = {e \in DOMAIN g : g[e] = v}
    BY DEF Uses
  <2>. QED BY <2>1, UsesType
<1>3. A \ {d} = B \ {d}
  OBVIOUS
<1>4. (d \in A <=> f[d] = v) /\ (d \in B <=> g[d] = v)
  OBVIOUS
<1>. HIDE DEF A, B
<1>5. Cardinality(A \ {d}) = IF d \in A THEN Cardinality(A) - 1 ELSE Cardinality(A)
  BY ONLY <1>1, FS_RemoveElement
<1>6. Cardinality(B \ {d}) = IF d \in B THEN Cardinality(B) - 1 ELSE Cardinality(B)
  BY ONLY <1>2, FS_RemoveElement
<1>7. Eq(f[d], v) = (IF d \in A THEN 1 ELSE 0) /\ Eq(g[d], v) = (IF d \in B THEN 1 ELSE 0)
  BY ONLY <1>4 DEF Eq
<1>8. Cardinality(A \ {d}) = Uses(f, v) - Eq(f[d], v)
  BY ONLY <1>1, <1>5, <1>7
<1>9. Cardinality(A \ {d}) = Uses(g, v) - Eq(g[d], v)
  BY ONLY <1>2, <1>3, <1>6, <1>7
<1>10. /\ Uses(f, v) \in Nat /\ Uses(g, v) \in Nat
       /\ Eq(f[d], v) \in Nat /\ Eq(g[d], v) \in Nat
  BY <1>1, <1>2 DEF Eq
<1>. QED BY ONLY <1>8, <1>9, <1>10

\* g is f, except that it does not hold v in D.
Cleared(f, g, D, v) ==
  /\ IsFiniteSet(DOMAIN f) /\ DOMAIN g = DOMAIN f /\ D \subseteq DOMAIN f
  /\ \A e \in DOMAIN f \ D : g[e] = f[e]
  /\ \A e \in D : g[e] # v

LEMMA UsesCleared ==
  ASSUME NEW f, NEW g, NEW D, NEW v, Cleared(f, g, D, v)
  PROVE  Uses(f, v) = Uses(g, v) + Cardinality({e \in D : f[e] = v})
<1>. USE DEF Cleared
<1>. DEFINE A == {e \in DOMAIN f : f[e] = v}
            B == {e \in DOMAIN f : g[e] = v}
            C == {e \in D : f[e] = v}
<1>1. IsFiniteSet(A) /\ Uses(f, v) = Cardinality(A) /\ Cardinality(A) \in Nat
  BY UsesType DEF Uses
<1>2. IsFiniteSet(B) /\ Uses(g, v) = Cardinality(B) /\ Cardinality(B) \in Nat
  BY UsesType DEF Uses
<1>3. C \in SUBSET A /\ A = B \cup C /\ B \cap C = {}
  OBVIOUS
<1>. HIDE DEF A, B, C
<1>4. IsFiniteSet(C) /\ Cardinality(C) \in Nat
  BY <1>1, <1>3, FS_Subset, FS_CardinalityType
<1>5. Cardinality(B \cup C) = Cardinality(B) + Cardinality(C) - Cardinality(B \cap C)
  BY <1>2, <1>4, FS_Union
<1>6. Cardinality(B \cap C) = 0
  BY <1>3, FS_EmptySet
<1>7. Uses(f, v) = Uses(g, v) + Cardinality(C)
  BY <1>1, <1>2, <1>3, <1>4, <1>5, <1>6
<1>. QED BY <1>7 DEF C

LEMMA HitsType ==
  ASSUME NEW X, NEW q \in Seq(X), NEW S
  PROVE  /\ IsFiniteSet({i \in DOMAIN q : q[i] \in S}) /\ Hits(q, S) \in Nat
         /\ Hits(q, S) = 0 <=> \A i \in DOMAIN q : q[i] \notin S
<1>1. IsFiniteSet(1 .. Len(q)) /\ DOMAIN q = 1 .. Len(q)
  BY FS_Interval
<1>2. {i \in DOMAIN q : q[i] \in S} \in SUBSET DOMAIN q
  OBVIOUS
<1>3. IsFiniteSet({i \in DOMAIN q : q[i] \in S}) /\ Cardinality({i \in DOMAIN q : q[i] \in S}) \in Nat
  BY <1>1, <1>2, FS_Subset, FS_CardinalityType
<1>4. Cardinality({i \in DOMAIN q : q[i] \in S}) = 0 <=> {i \in DOMAIN q : q[i] \in S} = {}
  BY <1>3, FS_EmptySet
<1>5. {i \in DOMAIN q : q[i] \in S} = {} <=> \A i \in DOMAIN q : q[i] \notin S
  OBVIOUS
<1>. QED BY <1>3, <1>4, <1>5 DEF Hits

\* t is q and then r.
Joins(t, q, r) ==
  /\ Len(t) = Len(q) + Len(r)
  /\ \A i \in 1 .. Len(q) : t[i] = q[i]
  /\ \A i \in 1 .. Len(r) : t[i + Len(q)] = r[i]

LEMMA HitsConcat ==
  ASSUME NEW X, NEW q \in Seq(X), NEW r \in Seq(X), NEW t \in Seq(X), Joins(t, q, r), NEW S
  PROVE  Hits(t, S) = Hits(q, S) + Hits(r, S)
<1>. DEFINE A == {i \in DOMAIN q : q[i] \in S}
            B == {i \in DOMAIN r : r[i] \in S}
            C == {i \in DOMAIN t : t[i] \in S}
<1>1. PICK m, n : m = Len(q) /\ n = Len(r)
  OBVIOUS
<1>2. /\ m \in Nat /\ n \in Nat
      /\ DOMAIN q = 1 .. m /\ DOMAIN r = 1 .. n /\ DOMAIN t = 1 .. m + n
      /\ \A i \in 1 .. m : t[i] = q[i]
      /\ \A i \in 1 .. n : t[i + m] = r[i]
  BY <1>1 DEF Joins
<1>3. /\ IsFiniteSet(A) /\ IsFiniteSet(B) /\ Hits(q, S) = Cardinality(A)
      /\ Hits(r, S) = Cardinality(B) /\ Hits(t, S) = Cardinality(C)
  BY HitsType DEF Hits
<1>. DEFINE shift == [i \in B |-> i + m]
            D == {i \in C : i > m}
<1>4. shift \in Bijection(B, D)
  <2>1. \A i \in B : i \in Int /\ i + m \in D
    <3>1. TAKE i \in B
    <3>2. i \in 1 .. n /\ t[i + m] = r[i] /\ r[i] \in S
      BY <1>2
    <3>3. i \in Int /\ i + m \in 1 .. m + n /\ i + m > m
      BY <1>2, <3>2
    <3>. QED BY <1>2, <3>2, <3>3
  <2>2. shift \in [B -> D]
    BY <2>1
  <2>3. \A i, j \in B : shift[i] = shift[j] => i = j
    BY <1>2, <2>1
  <2>4. \A j \in D : \E i \in B : shift[i] = j
    <3>1. TAKE j \in D
    <3>2. j \in m + 1 .. m + n /\ t[j] \in S
      BY <1>2
    <3>3. j - m \in 1 .. n /\ (j - m) + m = j
      BY <1>2, <3>2
    <3>4. j - m \in B
      BY <1>2, <3>2, <3>3
    <3>. QED BY <3>3, <3>4
  <2>. HIDE DEF shift, B, D
  <2>. QED BY <2>2, <2>3, <2>4 DEF Bijection, Injection, Surjection, IsInjective
<1>5. C = A \cup D /\ A \cap D = {}
  BY <1>2
<1>. HIDE DEF shift, A, B, C, D
<1>6. IsFiniteSet(D) /\ Cardinality(D) = Cardinality(B)
  BY <1>3, <1>4, FS_Bijection DEF ExistsBijection
<1>7. Cardinality(A \cup D) = Cardinality(A) + Cardinality(D) - Cardinality(A \cap D)
  BY <1>3, <1>6, FS_Union
<1>8. Cardinality(A \cap D) = 0 /\ Cardinality(A) \in Nat /\ Cardinality(B) \in Nat
  BY <1>3, <1>5, FS_EmptySet, FS_CardinalityType
<1>. QED BY <1>3, <1>5, <1>6, <1>7, <1>8

-----------------------------------------------------------------------------
(* The operations in progress.                                             *)

\* The slots whose setters run below the first i of q.
Waiting(q, i) == {q[j].slot : j \in {k \in DOMAIN q : k > i /\ q[k].kind = "set"}}

\* A getter has no argument; a setter's slot is one of its object, and no other
\* setter runs for it; the objects of a patch had no setter running when it began.
Admits(e, S) ==
  /\ e.kind = "get" => e.arg = NULL
  /\ e.kind = "set" => e.slot[1] = e.self /\ e.slot \notin S
  /\ e.kind = "patch" => \A s \in S : s[1] \notin {e.self, e.arg}

Orderly(q) == \A i \in DOMAIN q : Admits(q[i], Waiting(q, i))

LEMMA PendingWaits ==
  /\ calls \in Seq(Operations) => Pending = Waiting(calls, 0)
  /\ calls' \in Seq(Operations) => Pending' = Waiting(calls', 0)
<1>1. \A q \in Seq(Operations) : \A i \in DOMAIN q : i > 0
  OBVIOUS
<1>2. \A q \in Seq(Operations) :
        {q[i].slot : i \in {j \in DOMAIN q : q[j].kind = "set"}} = Waiting(q, 0)
  BY <1>1 DEF Waiting
<1>. QED BY <1>2 DEF Pending

LEMMA RefsHits ==
  ASSUME NEW q \in Seq(Operations), NEW o
  PROVE  /\ Refs(q, o) = Hits(q, Selves(o)) + Hits(q, Args(o))
         /\ Refs(q, o) \in Nat
         /\ Refs(q, o) = 0 <=> \A i \in DOMAIN q : q[i].self # o /\ q[i].arg # o
<1>1. \A i \in DOMAIN q : q[i] \in Operations
  OBVIOUS
<1>2. {i \in DOMAIN q : q[i].self = o} = {i \in DOMAIN q : q[i] \in Selves(o)}
  BY <1>1 DEF Selves
<1>3. {i \in DOMAIN q : q[i].arg = o} = {i \in DOMAIN q : q[i] \in Args(o)}
  BY <1>1 DEF Args
<1>4. Hits(q, Selves(o)) \in Nat /\ Hits(q, Args(o)) \in Nat
  BY HitsType
<1>5. Refs(q, o) = Hits(q, Selves(o)) + Hits(q, Args(o))
  BY <1>2, <1>3 DEF Refs, Hits
<1>6. Hits(q, Selves(o)) = 0 <=> \A i \in DOMAIN q : q[i] \notin Selves(o)
  BY HitsType
<1>7. Hits(q, Args(o)) = 0 <=> \A i \in DOMAIN q : q[i] \notin Args(o)
  BY HitsType
<1>8. Refs(q, o) = 0 <=> Hits(q, Selves(o)) = 0 /\ Hits(q, Args(o)) = 0
  BY <1>4, <1>5
<1>9. \A i \in DOMAIN q : /\ q[i] \in Selves(o) <=> q[i].self = o
                          /\ q[i] \in Args(o) <=> q[i].arg = o
  BY <1>1 DEF Selves, Args
<1>. QED BY <1>4, <1>5, <1>6, <1>7, <1>8, <1>9

LEMMA RefsConcat ==
  ASSUME NEW q \in Seq(Operations), NEW r \in Seq(Operations), NEW t \in Seq(Operations),
         Joins(t, q, r), NEW o
  PROVE  Refs(t, o) = Refs(q, o) + Refs(r, o)
<1>1. Hits(t, Selves(o)) = Hits(q, Selves(o)) + Hits(r, Selves(o))
  BY HitsConcat
<1>2. Hits(t, Args(o)) = Hits(q, Args(o)) + Hits(r, Args(o))
  BY HitsConcat
<1>3. /\ Hits(q, Selves(o)) \in Nat /\ Hits(r, Selves(o)) \in Nat
      /\ Hits(q, Args(o)) \in Nat /\ Hits(r, Args(o)) \in Nat
  BY HitsType
<1>4. /\ Refs(t, o) = Hits(t, Selves(o)) + Hits(t, Args(o))
      /\ Refs(q, o) = Hits(q, Selves(o)) + Hits(q, Args(o))
      /\ Refs(r, o) = Hits(r, Selves(o)) + Hits(r, Args(o))
  BY RefsHits
<1>. QED BY ONLY <1>1, <1>2, <1>3, <1>4

LEMMA RefsOne ==
  ASSUME NEW e \in Operations, NEW o
  PROVE  Refs(<<e>>, o) = Eq(e.self, o) + Eq(e.arg, o)
<1>1. \A S : {i \in DOMAIN <<e>> : <<e>>[i] \in S} = IF e \in S THEN {1} ELSE {}
  OBVIOUS
<1>2. \A S : Hits(<<e>>, S) = IF e \in S THEN 1 ELSE 0
  BY <1>1, FS_EmptySet, FS_Singleton DEF Hits
<1>3. Refs(<<e>>, o) = Hits(<<e>>, Selves(o)) + Hits(<<e>>, Args(o))
  <2>1. <<e>> \in Seq(Operations)
    OBVIOUS
  <2>. QED BY <2>1, RefsHits
<1>4. Hits(<<e>>, Selves(o)) = Eq(e.self, o)
  BY <1>2 DEF Selves, Eq
<1>5. Hits(<<e>>, Args(o)) = Eq(e.arg, o)
  BY <1>2 DEF Args, Eq
<1>. QED BY <1>3, <1>4, <1>5

\* In t, operation e is on top of those in q.
Tops(t, e, q) ==
  /\ t \in Seq(Operations) /\ q \in Seq(Operations) /\ e \in Operations
  /\ t # <<>> /\ Head(t) = e /\ Tail(t) = q
  /\ \A o : Refs(t, o) = Refs(q, o) + Weight(e, o)
  /\ Waiting(t, 0) = Waiting(q, 0) \cup IF e.kind = "set" THEN {e.slot} ELSE {}
  /\ Orderly(t) <=> Orderly(q) /\ Admits(e, Waiting(q, 0))

\* An operation begins.
LEMMA PushCalls ==
  ASSUME NEW q \in Seq(Operations), NEW e \in Operations, NEW t, t = <<e>> \o q
  PROVE  Tops(t, e, q)
<1>1. PICK n : n = Len(q)
  OBVIOUS
<1>2. /\ n \in Nat /\ DOMAIN q = 1 .. n /\ DOMAIN t = 1 .. n + 1 /\ t \in Seq(Operations)
      /\ t[1] = e /\ \A i \in 1 .. n : t[i+1] = q[i]
      /\ Len(t) = n + 1
  BY <1>1
<1>3. Head(t) = e /\ Tail(t) = q /\ t # <<>>
  BY <1>1, <1>2
<1>4. ASSUME NEW o PROVE Refs(t, o) = Refs(q, o) + Weight(e, o)
  <2>1. PICK u : u = <<e>>
    OBVIOUS
  <2>2. u \in Seq(Operations) /\ Len(u) = 1 /\ u[1] = e
    BY <2>1
  <2>3. Refs(t, o) = Refs(u, o) + Refs(q, o)
    <3>1. Len(t) = Len(u) + Len(q) /\ \A i \in 1 .. Len(u) : t[i] = u[i]
      BY <1>1, <1>2, <2>2
    <3>2. \A i \in 1 .. Len(q) : t[i + Len(u)] = q[i]
      BY <1>1, <1>2, <2>2
    <3>3. Joins(t, u, q)
      BY <3>1, <3>2 DEF Joins
    <3>4. t \in Seq(Operations) /\ u \in Seq(Operations) /\ q \in Seq(Operations)
      BY <1>2, <2>2
    <3>. QED BY ONLY <3>3, <3>4, RefsConcat
  <2>4. Refs(u, o) = Eq(e.self, o) + Eq(e.arg, o)
    BY <2>1, RefsOne
  <2>5. Refs(q, o) \in Nat /\ Eq(e.self, o) \in Nat /\ Eq(e.arg, o) \in Nat
    BY RefsHits DEF Eq
  <2>. QED BY <2>3, <2>4, <2>5 DEF Weight
<1>5. ASSUME NEW i \in Nat PROVE Waiting(t, i + 1) = Waiting(q, i)
  <2>1. ASSUME NEW j \in DOMAIN q, j > i, q[j].kind = "set"
        PROVE  q[j].slot \in Waiting(t, i + 1)
    <3>1. j + 1 \in DOMAIN t /\ j + 1 > i + 1 /\ t[j+1] = q[j]
      BY <1>2, <2>1
    <3>. QED BY <2>1, <3>1 DEF Waiting
  <2>2. ASSUME NEW j \in DOMAIN t, j > i + 1, t[j].kind = "set"
        PROVE  t[j].slot \in Waiting(q, i)
    <3>1. j - 1 \in DOMAIN q /\ j - 1 > i /\ (j - 1) + 1 = j
      BY <1>2, <2>2
    <3>2. t[j] = q[j-1]
      BY <1>2, <3>1
    <3>. QED BY <2>2, <3>1, <3>2 DEF Waiting
  <2>. QED BY <2>1, <2>2 DEF Waiting
<1>6. Waiting(t, 1) = Waiting(q, 0)
  <2>1. 0 \in Nat /\ 0 + 1 = 1
    OBVIOUS
  <2>. QED BY <1>5, <2>1
<1>7. Waiting(t, 0) = Waiting(t, 1) \cup IF e.kind = "set" THEN {e.slot} ELSE {}
  <2>1. \A j \in DOMAIN t : j > 0 <=> j = 1 \/ j > 1
    BY <1>2
  <2>2. 1 \in DOMAIN t
    BY <1>2
  <2>. QED BY <1>2, <2>1, <2>2 DEF Waiting
<1>8. Orderly(t) <=> Orderly(q) /\ Admits(e, Waiting(q, 0))
  <2>1. ASSUME Orderly(t) PROVE Orderly(q) /\ Admits(e, Waiting(q, 0))
    <3>1. 1 \in DOMAIN t
      BY <1>2
    <3>2. Admits(e, Waiting(q, 0))
      BY <1>2, <1>6, <2>1, <3>1 DEF Orderly
    <3>3. ASSUME NEW i \in DOMAIN q PROVE Admits(q[i], Waiting(q, i))
      <4>1. i + 1 \in DOMAIN t /\ t[i+1] = q[i] /\ i \in Nat
        BY <1>2
      <4>2. Admits(t[i+1], Waiting(t, i + 1))
        BY <2>1, <4>1 DEF Orderly
      <4>. QED BY <1>5, <4>1, <4>2
    <3>. QED BY <3>2, <3>3 DEF Orderly
  <2>2. ASSUME Orderly(q), Admits(e, Waiting(q, 0)), NEW i \in DOMAIN t
        PROVE  Admits(t[i], Waiting(t, i))
    <3>1. CASE i = 1
      BY <1>2, <1>6, <2>2, <3>1
    <3>2. CASE i # 1
      <4>1. i - 1 \in DOMAIN q /\ i - 1 \in Nat /\ (i - 1) + 1 = i
        BY <1>2, <3>2
      <4>2. t[i] = q[i-1] /\ Waiting(t, i) = Waiting(q, i - 1)
        BY <1>2, <1>5, <4>1
      <4>. QED BY <2>2, <4>1, <4>2 DEF Orderly
    <3>. QED BY <3>1, <3>2
  <2>. QED BY <2>1, <2>2 DEF Orderly
<1>. QED BY <1>2, <1>3, <1>4, <1>6, <1>7, <1>8 DEF Tops

\* An operation ends.
LEMMA PopCalls ==
  ASSUME NEW t \in Seq(Operations), t # <<>>
  PROVE  Tops(t, Head(t), Tail(t))
<1>1. PICK e, q : e = Head(t) /\ q = Tail(t)
  OBVIOUS
<1>2. e \in Operations /\ q \in Seq(Operations) /\ t = <<e>> \o q
  BY <1>1
<1>3. Tops(t, e, q)
  BY <1>2, PushCalls
<1>. QED BY <1>1, <1>3

\* The first k operations of q, which are u, are abandoned, and r is left; no
\* setter is among them.
Drops(q, k, u, r) ==
  /\ q \in Seq(Operations) /\ k \in 1 .. Len(q)
  /\ u = SubSeq(q, 1, k) /\ r = SubSeq(q, k + 1, Len(q))
  /\ \A i \in 1 .. k : q[i].kind # "set"

LEMMA DropCalls ==
  ASSUME NEW q, NEW k, NEW u, NEW r, Drops(q, k, u, r)
  PROVE  /\ u \in Seq(Operations) /\ r \in Seq(Operations)
         /\ \A o : Refs(q, o) = Refs(u, o) + Refs(r, o)
         /\ Waiting(r, 0) = Waiting(q, 0)
         /\ Orderly(q) => Orderly(r)
<1>. USE DEF Drops
<1>1. PICK n : n = Len(q)
  OBVIOUS
<1>2. /\ n \in Nat /\ k \in Nat /\ k \in 1 .. n /\ DOMAIN q = 1 .. n
      /\ u \in Seq(Operations) /\ Len(u) = k /\ \A i \in 1 .. k : q[i] = u[i]
      /\ r \in Seq(Operations) /\ Len(r) = n - k /\ DOMAIN r = 1 .. n - k
      /\ \A i \in 1 .. n - k : q[i+k] = r[i]
  BY <1>1
<1>3. ASSUME NEW o PROVE Refs(q, o) = Refs(u, o) + Refs(r, o)
  <2>1. Len(q) = Len(u) + Len(r) /\ \A i \in 1 .. Len(u) : q[i] = u[i]
    BY <1>1, <1>2
  <2>2. \A i \in 1 .. Len(r) : q[i + Len(u)] = r[i]
    BY <1>1, <1>2
  <2>3. Joins(q, u, r)
    BY <2>1, <2>2 DEF Joins
  <2>4. q \in Seq(Operations) /\ u \in Seq(Operations) /\ r \in Seq(Operations)
    BY <1>2
  <2>. QED BY ONLY <2>3, <2>4, RefsConcat
<1>4. ASSUME NEW i \in Nat PROVE Waiting(q, i + k) = Waiting(r, i)
  <2>1. ASSUME NEW j \in DOMAIN r, j > i, r[j].kind = "set"
        PROVE  r[j].slot \in Waiting(q, i + k)
    <3>1. j + k \in DOMAIN q /\ j + k > i + k /\ q[j+k] = r[j]
      BY <1>2, <2>1
    <3>. QED BY <2>1, <3>1 DEF Waiting
  <2>2. ASSUME NEW j \in DOMAIN q, j > i + k, q[j].kind = "set"
        PROVE  q[j].slot \in Waiting(r, i)
    <3>1. j - k \in DOMAIN r /\ j - k > i /\ (j - k) + k = j
      BY <1>2, <2>2
    <3>2. q[j] = r[j-k]
      BY <1>2, <3>1
    <3>. QED BY <2>2, <3>1, <3>2 DEF Waiting
  <2>. QED BY <2>1, <2>2 DEF Waiting
<1>5. Waiting(q, 0) = Waiting(q, k)
  <2>1. \A j \in DOMAIN q : q[j].kind = "set" => (j > 0 <=> j > k)
    BY <1>2
  <2>. QED BY <2>1 DEF Waiting
<1>6. 0 + k = k
  BY <1>2
<1>7. Waiting(r, 0) = Waiting(q, 0)
  BY <1>4, <1>5, <1>6
<1>8. ASSUME Orderly(q), NEW i \in DOMAIN r PROVE Admits(r[i], Waiting(r, i))
  <2>1. i + k \in DOMAIN q /\ q[i+k] = r[i] /\ i \in Nat
    BY <1>2
  <2>2. Admits(q[i+k], Waiting(q, i + k))
    BY <1>8, <2>1 DEF Orderly
  <2>. QED BY <1>4, <2>1, <2>2
<1>9. Orderly(q) => Orderly(r)
  BY <1>8 DEF Orderly
<1>. QED BY <1>2, <1>3, <1>7, <1>9

\* The innermost operation changes, but not its object, argument, kind and slot.
LEMMA SwapCalls ==
  ASSUME NEW t \in Seq(Operations), t # <<>>, NEW e \in Operations,
         e.self = Head(t).self, e.arg = Head(t).arg, e.kind = Head(t).kind, e.slot = Head(t).slot,
         NEW r, r = <<e>> \o Tail(t)
  PROVE  /\ r \in Seq(Operations)
         /\ \A o : Refs(r, o) = Refs(t, o)
         /\ Waiting(r, 0) = Waiting(t, 0)
         /\ Orderly(t) => Orderly(r)
<1>1. PICK h, q : h = Head(t) /\ q = Tail(t)
  OBVIOUS
<1>2. Tops(t, h, q)
  BY <1>1, PopCalls
<1>3. e.self = h.self /\ e.arg = h.arg /\ e.kind = h.kind /\ e.slot = h.slot /\ r = <<e>> \o q
  BY <1>1
<1>4. Admits(e, Waiting(q, 0)) <=> Admits(h, Waiting(q, 0))
  BY <1>3 DEF Admits
<1>5. Tops(r, e, q)
  BY <1>2, <1>3, PushCalls DEF Tops
<1>6. \A o : Weight(e, o) = Weight(h, o)
  BY <1>3 DEF Weight
<1>. QED BY <1>2, <1>3, <1>4, <1>5, <1>6 DEF Tops

-----------------------------------------------------------------------------
(* What tables hold.                                                       *)

LEMMA SlotsFinite == IsFiniteSet(Slots)
<1>1. IsFiniteSet(Kinds)
  <2>1. Kinds = {"property"} \cup {"prototype"}
    BY DEF Kinds
  <2>. QED BY <2>1, FS_Singleton, FS_AddElement
<1>2. IsFiniteSet(Objs \X Kinds)
  BY <1>1, SlotsAssumption, FS_Product
<1>3. IsFiniteSet((Objs \X Kinds) \X Names)
  BY <1>2, SlotsAssumption, FS_Product
<1>. DEFINE flat == [p \in (Objs \X Kinds) \X Names |-> <<p[1][1], p[1][2], p[2]>>]
<1>4. flat \in Surjection((Objs \X Kinds) \X Names, Slots)
  <2>1. flat \in [(Objs \X Kinds) \X Names -> Slots]
    BY DEF Slots
  <2>2. ASSUME NEW s \in Slots PROVE \E p \in (Objs \X Kinds) \X Names : flat[p] = s
    <3>1. PICK o \in Objs, k \in Kinds, n \in Names : s = <<o, k, n>>
      BY DEF Slots
    <3>2. <<<<o, k>>, n>> \in (Objs \X Kinds) \X Names /\ flat[<<<<o, k>>, n>>] = s
      BY <3>1
    <3>. QED BY <3>2
  <2>. QED BY <2>1, <2>2 DEF Surjection
<1>. QED BY <1>3, <1>4, FS_Surjection

LEMMA SlotShape ==
  /\ \A s \in Slots : s[1] \in Objs /\ s[2] \in Kinds /\ s[3] \in Names /\ s = <<s[1], s[2], s[3]>>
  /\ \A o \in Objs, k \in Kinds, n \in Names : <<o, k, n>> \in Slots
BY DEF Slots

\* What is known of the entries: nothing while a setter runs.
Seen == [s \in Slots |-> IF s \in Pending THEN Uninit ELSE value[s]]

LEMMA StoredUses ==
  ASSUME parent \in [Objs -> Objs \cup {NULL}], get \in [Slots -> Funcs \cup {NULL}],
         set \in [Slots -> Funcs \cup {NULL}], NEW v \in Objects
  PROVE  /\ Stored(v) = Uses(Seen, v) + Uses(get, v) + Uses(set, v) + Uses(parent, v)
         /\ Uses(Seen, v) \in Nat /\ Uses(get, v) \in Nat /\ Uses(set, v) \in Nat /\ Uses(parent, v) \in Nat
         /\ \A s \in Slots : Uses(Seen, v) = 0 => Seen[s] # v
         /\ \A s \in Slots : Uses(get, v) = 0 => get[s] # v
         /\ \A s \in Slots : Uses(set, v) = 0 => set[s] # v
         /\ \A o \in Objs : Uses(parent, v) = 0 => parent[o] # v
<1>1. v # Uninit
  BY ValuesAssumption DEF Values
<1>2. {s \in Slots \ Pending : value[s] = v} = {s \in Slots : Seen[s] = v}
  BY <1>1 DEF Seen
<1>3. DOMAIN Seen = Slots /\ DOMAIN get = Slots /\ DOMAIN set = Slots /\ DOMAIN parent = Objs
  BY DEF Seen
<1>4. Stored(v) = Uses(Seen, v) + Uses(get, v) + Uses(set, v) + Uses(parent, v)
  BY <1>2, <1>3 DEF Stored, Uses
<1>5. /\ Uses(Seen, v) \in Nat /\ (Uses(Seen, v) = 0 <=> \A d \in DOMAIN Seen : Seen[d] # v)
      /\ Uses(get, v) \in Nat /\ (Uses(get, v) = 0 <=> \A d \in DOMAIN get : get[d] # v)
      /\ Uses(set, v) \in Nat /\ (Uses(set, v) = 0 <=> \A d \in DOMAIN set : set[d] # v)
      /\ Uses(parent, v) \in Nat /\ (Uses(parent, v) = 0 <=> \A d \in DOMAIN parent : parent[d] # v)
  BY <1>3, UsesType, SlotsFinite, SlotsAssumption
<1>. QED BY <1>3, <1>4, <1>5

LEMMA StoredUsesPrime ==
  ASSUME parent' \in [Objs -> Objs \cup {NULL}], get' \in [Slots -> Funcs \cup {NULL}],
         set' \in [Slots -> Funcs \cup {NULL}], NEW v \in Objects
  PROVE  Stored(v)' = Uses(Seen', v) + Uses(get', v) + Uses(set', v) + Uses(parent', v)
<1>1. v # Uninit
  BY ValuesAssumption DEF Values
<1>2. {s \in Slots \ Pending' : value'[s] = v} = {s \in Slots : Seen'[s] = v}
  BY <1>1 DEF Seen
<1>3. DOMAIN Seen' = Slots /\ DOMAIN get' = Slots /\ DOMAIN set' = Slots /\ DOMAIN parent' = Objs
  BY DEF Seen
<1>. QED BY <1>2, <1>3 DEF Stored, Uses

\* One entry of a table changes.
LEMMA SlotChange ==
  ASSUME NEW f, NEW g, DOMAIN f = Slots, DOMAIN g = Slots, NEW s \in Slots,
         \A t \in Slots : t # s => g[t] = f[t], NEW v
  PROVE  Uses(g, v) + Eq(f[s], v) = Uses(f, v) + Eq(g[s], v)
BY UsesExcept, SlotsFinite

\* One object gets a parent, or loses it.
LEMMA ParentChange ==
  ASSUME NEW f, NEW g, DOMAIN f = Objs, DOMAIN g = Objs, NEW o \in Objs,
         \A p \in Objs : p # o => g[p] = f[p], NEW v
  PROVE  Uses(g, v) + Eq(f[o], v) = Uses(f, v) + Eq(g[o], v)
BY UsesExcept, SlotsAssumption

-----------------------------------------------------------------------------
(* The inductive invariant.                                                *)

\* A slot whose setter runs has an entry, and only such a slot may be unwritten.
Written ==
  \A s \in Slots : /\ value[s] = Absent => s \notin Pending
                   /\ value[s] = Uninit => s \in Pending

\* Parents are older: they can be numbered so.
Aged ==
  \E age \in [Objs -> Nat] : \A o \in Objs : parent[o] # NULL => age[parent[o]] < age[o]

\* An address that is free, and will be used again, leads to no parent.
Unlinked == \A o \in Objs : count[o] = 0 => parent[o] = NULL

Inv == TypeOK /\ ObjectCount /\ Orderly(calls) /\ Written /\ Aged /\ Unlinked

LEMMA PlusType ==
  ASSUME NEW c \in [Objects -> Nat], NEW x
  PROVE  /\ Plus(c, x) \in [Objects -> Nat]
         /\ \A v \in Objects : Plus(c, x)[v] = c[v] + Eq(x, v)
BY DEF Plus, Eq

LEMMA MinusType ==
  ASSUME NEW c \in [Objects -> Nat], NEW x, x \in Objects => c[x] > 0
  PROVE  /\ Minus(c, x) \in [Objects -> Nat]
         /\ \A v \in Objects : Minus(c, x)[v] = c[v] - Eq(x, v)
BY DEF Minus, Eq

LEMMA Kinded ==
  /\ Objs \subseteq Objects /\ Funcs \subseteq Objects /\ Objects \subseteq Values /\ NULL \in Values
  /\ NULL \notin Objects /\ NULL \notin Slots /\ Absent \notin Values /\ Uninit \notin Values
  /\ Absent # Uninit /\ Absent # NULL /\ Uninit # NULL
  /\ \A v \in Objects : v # NULL /\ v # Absent /\ v # Uninit
BY ValuesAssumption DEF Objects, Values

\* What refers to v.
Referring(v) ==
  \/ held[v] > 0 \/ lost[v] > 0 \/ work[v] > 0
  \/ \E i \in DOMAIN calls : v \in {calls[i].self, calls[i].arg}
  \/ \E s \in Slots : v \in {Seen[s], get[s], set[s]}
  \/ \E o \in Objs : parent[o] = v

\* Whatever is referred to is alive, and the last references are those given back.
LEMMA Living ==
  ASSUME TypeOK, ObjectCount, NEW v \in Objects
  PROVE  /\ Referring(v) => count[v] > 0
         /\ count[v] = work[v] =>
              /\ held[v] = 0 /\ lost[v] = 0
              /\ \A i \in DOMAIN calls : calls[i].self # v /\ calls[i].arg # v
              /\ \A s \in Slots : Seen[s] # v /\ get[s] # v /\ set[s] # v
              /\ \A o \in Objs : parent[o] # v
<1>1. count[v] = held[v] + lost[v] + work[v] + Refs(calls, v) + Stored(v)
  BY DEF ObjectCount
<1>2. held[v] \in Nat /\ lost[v] \in Nat /\ work[v] \in Nat /\ count[v] \in Nat /\ calls \in Seq(Operations)
  BY DEF TypeOK
<1>3. Refs(calls, v) \in Nat /\
      (Refs(calls, v) = 0 <=> \A i \in DOMAIN calls : calls[i].self # v /\ calls[i].arg # v)
  BY <1>2, RefsHits
<1>4. parent \in [Objs -> Objs \cup {NULL}] /\ get \in [Slots -> Funcs \cup {NULL}]
      /\ set \in [Slots -> Funcs \cup {NULL}]
  BY DEF TypeOK
<1>5. /\ Stored(v) = Uses(Seen, v) + Uses(get, v) + Uses(set, v) + Uses(parent, v)
      /\ Uses(Seen, v) \in Nat /\ Uses(get, v) \in Nat /\ Uses(set, v) \in Nat /\ Uses(parent, v) \in Nat
      /\ \A s \in Slots : Uses(Seen, v) = 0 => Seen[s] # v
      /\ \A s \in Slots : Uses(get, v) = 0 => get[s] # v
      /\ \A s \in Slots : Uses(set, v) = 0 => set[s] # v
      /\ \A o \in Objs : Uses(parent, v) = 0 => parent[o] # v
  BY <1>4, StoredUses
<1>6. /\ count[v] = held[v] + lost[v] + work[v] + Refs(calls, v)
                      + (Uses(Seen, v) + Uses(get, v) + Uses(set, v) + Uses(parent, v))
      /\ Refs(calls, v) \in Nat
      /\ Uses(Seen, v) \in Nat /\ Uses(get, v) \in Nat /\ Uses(set, v) \in Nat /\ Uses(parent, v) \in Nat
  BY <1>1, <1>3, <1>5
<1>7. count[v] = work[v] \/ count[v] = 0 =>
        /\ held[v] = 0 /\ lost[v] = 0 /\ Refs(calls, v) = 0 /\ Uses(Seen, v) = 0
        /\ Uses(get, v) = 0 /\ Uses(set, v) = 0 /\ Uses(parent, v) = 0
        /\ count[v] = work[v]
  <2>1. PICK c, h, l, w, r : c = count[v] /\ h = held[v] /\ l = lost[v] /\ w = work[v] /\ r = Refs(calls, v)
    OBVIOUS
  <2>2. PICK s, g, t, p : s = Uses(Seen, v) /\ g = Uses(get, v) /\ t = Uses(set, v) /\ p = Uses(parent, v)
    OBVIOUS
  <2>3. /\ c \in Nat /\ h \in Nat /\ l \in Nat /\ w \in Nat /\ r \in Nat
        /\ s \in Nat /\ g \in Nat /\ t \in Nat /\ p \in Nat
        /\ c = h + l + w + r + (s + g + t + p)
    BY <1>2, <1>6, <2>1, <2>2
  <2>4. c = w \/ c = 0 => h = 0 /\ l = 0 /\ r = 0 /\ s = 0 /\ g = 0 /\ t = 0 /\ p = 0 /\ c = w
    BY ONLY <2>3
  <2>. QED BY <2>1, <2>2, <2>4
<1>8. count[v] # 0 => count[v] > 0
  BY <1>2
<1>9. count[v] = 0 => ~Referring(v)
  <2>1. SUFFICES ASSUME count[v] = 0 PROVE ~Referring(v)
    OBVIOUS
  <2>2. held[v] = 0 /\ lost[v] = 0 /\ work[v] = 0 /\ Refs(calls, v) = 0 /\ Uses(Seen, v) = 0
        /\ Uses(get, v) = 0 /\ Uses(set, v) = 0 /\ Uses(parent, v) = 0
    BY <1>7, <2>1
  <2>. QED BY <1>3, <1>5, <2>2 DEF Referring
<1>. QED BY <1>3, <1>5, <1>7, <1>8, <1>9

\* The terms of ObjectCount, before and after.
Terms(v) ==
  /\ count[v] \in Nat /\ held[v] \in Nat /\ lost[v] \in Nat /\ work[v] \in Nat
  /\ Refs(calls, v) \in Nat
  /\ Uses(Seen, v) \in Nat /\ Uses(get, v) \in Nat /\ Uses(set, v) \in Nat /\ Uses(parent, v) \in Nat
  /\ count'[v] \in Nat /\ held'[v] \in Nat /\ lost'[v] \in Nat /\ work'[v] \in Nat
  /\ Refs(calls', v) \in Nat
  /\ Uses(Seen', v) \in Nat /\ Uses(get', v) \in Nat /\ Uses(set', v) \in Nat /\ Uses(parent', v) \in Nat

LEMMA TermsType ==
  ASSUME Inv, TypeOK', NEW v \in Objects
  PROVE  Terms(v)
<1>1. /\ count[v] \in Nat /\ held[v] \in Nat /\ lost[v] \in Nat /\ work[v] \in Nat
      /\ count'[v] \in Nat /\ held'[v] \in Nat /\ lost'[v] \in Nat /\ work'[v] \in Nat
  BY DEF Inv, TypeOK
<1>2. Refs(calls, v) \in Nat /\ Refs(calls', v) \in Nat
  BY RefsHits DEF Inv, TypeOK
<1>3. /\ DOMAIN Seen = Slots /\ DOMAIN get = Slots /\ DOMAIN set = Slots /\ DOMAIN parent = Objs
      /\ DOMAIN Seen' = Slots /\ DOMAIN get' = Slots /\ DOMAIN set' = Slots /\ DOMAIN parent' = Objs
  BY DEF Seen, Inv, TypeOK
<1>. QED BY <1>1, <1>2, <1>3, UsesType, SlotsFinite, SlotsAssumption DEF Terms

\* The references to v change by these numbers, and the count by their sum.
Shifts(v, h, l, w, r, s, g, t, p) ==
  /\ {h, l, w, r, s, g, t, p} \subseteq Int
  /\ count'[v] = count[v] + (h + l + w + r + s + g + t + p)
  /\ held'[v] = held[v] + h /\ lost'[v] = lost[v] + l /\ work'[v] = work[v] + w
  /\ Refs(calls', v) = Refs(calls, v) + r
  /\ Uses(Seen', v) = Uses(Seen, v) + s /\ Uses(get', v) = Uses(get, v) + g
  /\ Uses(set', v) = Uses(set, v) + t /\ Uses(parent', v) = Uses(parent, v) + p

\* Then the count stays exact.
LEMMA Shift ==
  ASSUME Inv, TypeOK', NEW v \in Objects, NEW h, NEW l, NEW w, NEW r, NEW s, NEW g, NEW t, NEW p,
         Shifts(v, h, l, w, r, s, g, t, p)
  PROVE  (count[v] = held[v] + lost[v] + work[v] + Refs(calls, v) + Stored(v))'
<1>1. /\ parent \in [Objs -> Objs \cup {NULL}] /\ get \in [Slots -> Funcs \cup {NULL}]
      /\ set \in [Slots -> Funcs \cup {NULL}]
      /\ parent' \in [Objs -> Objs \cup {NULL}] /\ get' \in [Slots -> Funcs \cup {NULL}]
      /\ set' \in [Slots -> Funcs \cup {NULL}]
  BY DEF Inv, TypeOK
<1>2. Stored(v) = Uses(Seen, v) + Uses(get, v) + Uses(set, v) + Uses(parent, v)
  BY <1>1, StoredUses
<1>3. Stored(v)' = Uses(Seen', v) + Uses(get', v) + Uses(set', v) + Uses(parent', v)
  BY <1>1, StoredUsesPrime
<1>4. count[v] = held[v] + lost[v] + work[v] + Refs(calls, v) + Stored(v)
  BY DEF Inv, ObjectCount
<1>5. Terms(v)
  BY TermsType
<1>6. PICK c0, h0, l0, w0, r0 :
        c0 = count[v] /\ h0 = held[v] /\ l0 = lost[v] /\ w0 = work[v] /\ r0 = Refs(calls, v)
  OBVIOUS
<1>7. PICK s0, g0, t0, p0 :
        s0 = Uses(Seen, v) /\ g0 = Uses(get, v) /\ t0 = Uses(set, v) /\ p0 = Uses(parent, v)
  OBVIOUS
<1>8. PICK c1, h1, l1, w1, r1 :
        c1 = count'[v] /\ h1 = held'[v] /\ l1 = lost'[v] /\ w1 = work'[v] /\ r1 = Refs(calls', v)
  OBVIOUS
<1>9. PICK s1, g1, t1, p1 :
        s1 = Uses(Seen', v) /\ g1 = Uses(get', v) /\ t1 = Uses(set', v) /\ p1 = Uses(parent', v)
  OBVIOUS
<1>10. /\ c0 \in Nat /\ h0 \in Nat /\ l0 \in Nat /\ w0 \in Nat /\ r0 \in Nat
       /\ s0 \in Nat /\ g0 \in Nat /\ t0 \in Nat /\ p0 \in Nat
  BY <1>5, <1>6, <1>7 DEF Terms
<1>11. /\ h \in Int /\ l \in Int /\ w \in Int /\ r \in Int
       /\ s \in Int /\ g \in Int /\ t \in Int /\ p \in Int
       /\ c1 = c0 + (h + l + w + r + s + g + t + p)
       /\ h1 = h0 + h /\ l1 = l0 + l /\ w1 = w0 + w /\ r1 = r0 + r
       /\ s1 = s0 + s /\ g1 = g0 + g /\ t1 = t0 + t /\ p1 = p0 + p
  BY <1>6, <1>7, <1>8, <1>9 DEF Shifts
<1>12. c0 = h0 + l0 + w0 + r0 + (s0 + g0 + t0 + p0)
  BY <1>2, <1>4, <1>6, <1>7
<1>13. c1 = h1 + l1 + w1 + r1 + (s1 + g1 + t1 + p1)
  BY ONLY <1>10, <1>11, <1>12
<1>14. count'[v] = held'[v] + lost'[v] + work'[v] + Refs(calls', v) + Stored(v)'
  BY <1>3, <1>8, <1>9, <1>13
<1>. QED BY <1>14

\* The references to v outside of parents, getters and setters change by these
\* numbers, and the count by c.
Moves(v, c, h, l, w, r, s) ==
  /\ h \in Int /\ l \in Int /\ w \in Int /\ r \in Int /\ s \in Int
  /\ c = h + l + w + r + s
  /\ count'[v] = count[v] + c
  /\ held'[v] = held[v] + h /\ lost'[v] = lost[v] + l /\ work'[v] = work[v] + w
  /\ Refs(calls', v) = Refs(calls, v) + r /\ Uses(Seen', v) = Uses(Seen, v) + s

LEMMA Balance ==
  ASSUME Inv, TypeOK', NEW v \in Objects, UNCHANGED <<parent, get, set>>,
         NEW c, NEW h, NEW l, NEW w, NEW r, NEW s, Moves(v, c, h, l, w, r, s)
  PROVE  (count[v] = held[v] + lost[v] + work[v] + Refs(calls, v) + Stored(v))'
<1>1. Terms(v)
  BY TermsType
<1>2. Uses(get', v) = Uses(get, v) + 0 /\ Uses(set', v) = Uses(set, v) + 0
      /\ Uses(parent', v) = Uses(parent, v) + 0
  BY <1>1 DEF Terms
<1>3. h \in Int /\ l \in Int /\ w \in Int /\ r \in Int /\ s \in Int /\ c = h + l + w + r + s
  BY DEF Moves
<1>4. c = h + l + w + r + s + 0 + 0 + 0
  BY ONLY <1>3
<1>5. {h, l, w, r, s, 0, 0, 0} \subseteq Int
  BY ONLY <1>3
<1>6. Shifts(v, h, l, w, r, s, 0, 0, 0)
  BY <1>2, <1>4, <1>5 DEF Shifts, Moves
<1>. QED BY <1>6, Shift

\* Entries and operations in progress stay as they are.
LEMMA SameCalls ==
  ASSUME Inv, UNCHANGED <<value, calls>>
  PROVE  Seen' = Seen /\ Pending' = Pending /\ Orderly(calls)' /\ Written'
<1>1. Pending' = Pending
  BY DEF Pending
<1>. QED BY <1>1 DEF Inv, Seen, Orderly, Written

LEMMA SameParents ==
  ASSUME Inv, UNCHANGED parent
  PROVE  Aged'
BY DEF Inv, Aged

-----------------------------------------------------------------------------
(* Every action of a careful program, and of the library, keeps the        *)
(* invariant.                                                              *)

LEMMA InitInv == Init => Inv
<1>. SUFFICES ASSUME Init PROVE Inv
  OBVIOUS
<1>1. TypeOK
  BY DEF Init, TypeOK, Values
<1>2. Pending = {} /\ DOMAIN calls = {}
  BY DEF Init, Pending
<1>3. ObjectCount
  <2>1. ASSUME NEW v \in Objects PROVE Stored(v) = 0 /\ Refs(calls, v) = 0
    <3>1. /\ {s \in Slots \ Pending : value[s] = v} = {} /\ {s \in Slots : get[s] = v} = {}
          /\ {s \in Slots : set[s] = v} = {} /\ {o \in Objs : parent[o] = v} = {}
      BY Kinded DEF Init
    <3>2. /\ {i \in DOMAIN calls : calls[i].self = v} = {}
          /\ {i \in DOMAIN calls : calls[i].arg = v} = {}
      BY <1>2
    <3>3. Stored(v) = 0 + 0 + 0 + 0
      BY <3>1, FS_EmptySet DEF Stored
    <3>4. Refs(calls, v) = 0 + 0
      BY <3>2, FS_EmptySet DEF Refs
    <3>. QED BY <3>3, <3>4
  <2>. QED BY <2>1 DEF Init, ObjectCount
<1>4. Orderly(calls) /\ Written
  BY <1>2, Kinded DEF Init, Orderly, Written
<1>5. Aged /\ Unlinked
  <2>1. [o \in Objs |-> 0] \in [Objs -> Nat]
    OBVIOUS
  <2>. QED BY <2>1 DEF Init, Aged, Unlinked
<1>. QED BY <1>1, <1>3, <1>4, <1>5 DEF Inv

LEMMA UsableLives ==
  ASSUME Inv, NEW o \in Objects, Usable(o)
  PROVE  Referring(o) /\ count[o] > 0
<1>1. Referring(o)
  BY DEF Usable, Referring
<1>. QED BY <1>1, Living DEF Inv

LEMMA CloneKeeps ==
  ASSUME Inv, NEW o \in Objects, NEW p \in Objs \cup {NULL}, ObjClone(o, p)
  PROVE  Inv' /\ Seen' = Seen
<1>1. /\ count[o] = 0 /\ (p # NULL => o \in Objs /\ Usable(p))
      /\ count' = Plus([count EXCEPT ![o] = 1], p)
      /\ held' = [held EXCEPT ![o] = @ + 1]
      /\ parent' = IF o \in Objs THEN [parent EXCEPT ![o] = p] ELSE parent
      /\ UNCHANGED <<value, get, set, lost, work, calls, fault>>
  BY DEF ObjClone
<1>2. Seen' = Seen /\ Orderly(calls)' /\ Written'
  BY <1>1, SameCalls
<1>. DEFINE c == [count EXCEPT ![o] = 1]
<1>3. TypeOK /\ count \in [Objects -> Nat] /\ held \in [Objects -> Nat]
      /\ parent \in [Objs -> Objs \cup {NULL}]
  BY DEF Inv, TypeOK
<1>4. c \in [Objects -> Nat] /\ \A v \in Objects : c[v] = count[v] + Eq(o, v)
  BY <1>1, <1>3 DEF Eq
<1>5. count' \in [Objects -> Nat] /\ \A v \in Objects : count'[v] = count[v] + Eq(o, v) + Eq(p, v)
  <2>1. Plus(c, p) \in [Objects -> Nat] /\ \A v \in Objects : Plus(c, p)[v] = c[v] + Eq(p, v)
    BY <1>4, PlusType
  <2>. QED BY <1>1, <1>4, <2>1
<1>6. held' \in [Objects -> Nat] /\ \A v \in Objects : held'[v] = held[v] + Eq(o, v)
  BY <1>1, <1>3 DEF Eq
<1>7. parent' \in [Objs -> Objs \cup {NULL}]
  BY <1>1, <1>3
<1>8. TypeOK'
  BY <1>1, <1>3, <1>5, <1>6, <1>7 DEF TypeOK
<1>9. ASSUME NEW v \in Objects PROVE Uses(parent', v) = Uses(parent, v) + Eq(p, v)
  <2>1. Uses(parent, v) \in Nat /\ Uses(parent', v) \in Nat
    BY <1>3, <1>7, UsesType, SlotsAssumption
  <2>2. CASE o \in Objs
    <3>1. parent[o] = NULL /\ parent'[o] = p
      BY <1>1, <1>3, <2>2 DEF Inv, Unlinked
    <3>2. Uses(parent', v) + Eq(parent[o], v) = Uses(parent, v) + Eq(parent'[o], v)
      <4>1. \A q \in Objs : q # o => parent'[q] = parent[q]
        BY <1>1, <1>3, <2>2
      <4>2. DOMAIN parent = Objs /\ DOMAIN parent' = Objs
        BY <1>3, <1>7
      <4>. QED BY <2>2, <4>1, <4>2, ParentChange
    <3>3. Eq(NULL, v) = 0 /\ Eq(p, v) \in Nat
      BY Kinded DEF Eq
    <3>. QED BY <2>1, <3>1, <3>2, <3>3
  <2>3. CASE o \notin Objs
    <3>1. Eq(p, v) = 0 /\ parent' = parent
      BY <1>1, <2>3, Kinded DEF Eq
    <3>. QED BY <2>1, <3>1
  <2>. QED BY <2>2, <2>3
<1>10. ObjectCount'
  <2>1. ASSUME NEW v \in Objects
        PROVE  (count[v] = held[v] + lost[v] + work[v] + Refs(calls, v) + Stored(v))'
    <3>1. PICK a, b : a = Eq(o, v) /\ b = Eq(p, v)
      OBVIOUS
    <3>2. a \in Nat /\ b \in Nat
      BY <3>1 DEF Eq
    <3>3. count'[v] = count[v] + a + b /\ held'[v] = held[v] + a /\ Uses(parent', v) = Uses(parent, v) + b
      BY <1>5, <1>6, <1>9, <3>1
    <3>4. Terms(v)
      BY <1>8, TermsType
    <3>5. Shifts(v, a, 0, 0, 0, 0, 0, 0, b)
      BY <1>1, <1>2, <3>2, <3>3, <3>4 DEF Shifts, Terms
    <3>. QED BY <1>8, <3>5, Shift
  <2>. QED BY <2>1 DEF ObjectCount
<1>11. Aged'
  <2>1. PICK age \in [Objs -> Nat] : \A q \in Objs : parent[q] # NULL => age[parent[q]] < age[q]
    BY DEF Inv, Aged
  <2>. DEFINE young == IF p = NULL THEN 0 ELSE age[p] + 1
              new == [age EXCEPT ![o] = young]
  <2>2. CASE o \in Objs
    <3>1. young \in Nat /\ new \in [Objs -> Nat]
      <4>1. p # NULL => age[p] \in Nat
        BY <2>1
      <4>2. young \in Nat
        BY <4>1
      <4>. HIDE DEF young
      <4>. QED BY <2>1, <4>2
    <3>2. p # NULL => p # o /\ p \in Objs
      BY <1>1, UsableLives, Kinded
    <3>3. ASSUME NEW q \in Objs, parent'[q] # NULL PROVE new[parent'[q]] < new[q]
      <4>1. CASE q = o
        <5>1. parent'[q] = p /\ p # NULL /\ new[p] = age[p] /\ new[q] = age[p] + 1
          BY <1>1, <1>3, <2>1, <2>2, <3>2, <3>3, <4>1
        <5>. QED BY <2>1, <3>2, <5>1
      <4>2. CASE q # o
        <5>1. parent'[q] = parent[q] /\ new[q] = age[q]
          BY <1>1, <1>3, <2>1, <2>2, <4>2
        <5>2. parent[q] # o
          BY <1>1, <1>3, Living DEF Inv, Referring
        <5>3. parent[q] \in Objs /\ new[parent[q]] = age[parent[q]]
          BY <1>3, <2>1, <3>3, <5>1, <5>2
        <5>. QED BY <2>1, <3>3, <5>1, <5>3
      <4>. QED BY <4>1, <4>2
    <3>. HIDE DEF new
    <3>. QED BY <3>1, <3>3 DEF Aged
  <2>3. CASE o \notin Objs
    BY <1>1, <2>3, SameParents
  <2>. QED BY <2>2, <2>3
<1>12. Unlinked'
  <2>1. ASSUME NEW q \in Objs, count'[q] = 0 PROVE parent'[q] = NULL
    <3>1. q \in Objects /\ count'[q] = count[q] + Eq(o, q) + Eq(p, q)
      BY <1>5, Kinded
    <3>2. Eq(o, q) = 0 /\ count[q] = 0
      BY <1>3, <2>1, <3>1 DEF Eq
    <3>3. q # o
      BY <3>2 DEF Eq
    <3>4. parent'[q] = parent[q]
      BY <1>1, <1>3, <3>3
    <3>. QED BY <3>2, <3>4 DEF Inv, Unlinked
  <2>. QED BY <2>1 DEF Unlinked
<1>. QED BY <1>2, <1>8, <1>10, <1>11, <1>12 DEF Inv

LEMMA ReleaseKeeps ==
  ASSUME Inv, NEW o \in Objects, ObjRelease(o)
  PROVE  Inv' /\ Seen' = Seen
<1>1. /\ held[o] > 0
      /\ held' = [held EXCEPT ![o] = @ - 1] /\ work' = [work EXCEPT ![o] = @ + 1]
      /\ UNCHANGED <<parent, value, get, set, count, lost, calls, fault>>
  BY DEF ObjRelease, tables
<1>2. Seen' = Seen /\ Orderly(calls)' /\ Written' /\ Aged' /\ Unlinked'
  BY <1>1, SameCalls, SameParents DEF Inv, Unlinked
<1>3. TypeOK /\ held \in [Objects -> Nat] /\ work \in [Objects -> Nat]
  BY DEF Inv, TypeOK
<1>4. held' \in [Objects -> Nat] /\ \A v \in Objects : held'[v] = held[v] - Eq(o, v)
  BY <1>1, <1>3 DEF Eq
<1>5. work' \in [Objects -> Nat] /\ \A v \in Objects : work'[v] = work[v] + Eq(o, v)
  BY <1>1, <1>3 DEF Eq
<1>6. TypeOK'
  BY <1>1, <1>3, <1>4, <1>5 DEF TypeOK
<1>7. ASSUME NEW v \in Objects
      PROVE  (count[v] = held[v] + lost[v] + work[v] + Refs(calls, v) + Stored(v))'
  <2>1. PICK a : a = Eq(o, v)
    OBVIOUS
  <2>2. a \in Nat
    BY <2>1 DEF Eq
  <2>3. Terms(v)
    BY <1>6, TermsType
  <2>4. Shifts(v, 0 - a, 0, a, 0, 0, 0, 0, 0)
    BY <1>1, <1>2, <1>4, <1>5, <2>1, <2>2, <2>3 DEF Shifts, Terms
  <2>. QED BY <1>6, <2>4, Shift
<1>. QED BY <1>2, <1>6, <1>7 DEF Inv, ObjectCount

LEMMA TakeKeeps ==
  ASSUME Inv, NEW u, Take(u)
  PROVE  Inv' /\ Seen' = Seen
<1>1. /\ u \in Objects
      /\ count' = [count EXCEPT ![u] = @ + 1] /\ held' = [held EXCEPT ![u] = @ + 1]
      /\ UNCHANGED <<parent, value, get, set, lost, work, calls, fault>>
  BY DEF Take, tables
<1>2. Seen' = Seen /\ Orderly(calls)' /\ Written' /\ Aged'
  BY <1>1, SameCalls, SameParents
<1>3. TypeOK /\ held \in [Objects -> Nat] /\ count \in [Objects -> Nat]
  BY DEF Inv, TypeOK
<1>4. held' \in [Objects -> Nat] /\ \A v \in Objects : held'[v] = held[v] + Eq(u, v)
  BY <1>1, <1>3 DEF Eq
<1>5. count' \in [Objects -> Nat] /\ \A v \in Objects : count'[v] = count[v] + Eq(u, v)
  BY <1>1, <1>3 DEF Eq
<1>6. TypeOK'
  BY <1>1, <1>3, <1>4, <1>5 DEF TypeOK
<1>7. ASSUME NEW v \in Objects
      PROVE  (count[v] = held[v] + lost[v] + work[v] + Refs(calls, v) + Stored(v))'
  <2>1. PICK a : a = Eq(u, v)
    OBVIOUS
  <2>2. a \in Nat
    BY <2>1 DEF Eq
  <2>3. Terms(v)
    BY <1>6, TermsType
  <2>4. Shifts(v, a, 0, 0, 0, 0, 0, 0, 0)
    BY <1>1, <1>2, <1>4, <1>5, <2>1, <2>2, <2>3 DEF Shifts, Terms
  <2>. QED BY <1>6, <2>4, Shift
<1>8. Unlinked'
  BY <1>1, <1>3, <1>5, Kinded DEF Inv, Unlinked, Eq
<1>. QED BY <1>2, <1>6, <1>7, <1>8 DEF Inv, ObjectCount

\* Counts that do not fall leave no new free address.
LEMMA NoneFreed ==
  ASSUME Inv, UNCHANGED parent, \A v \in Objects : count'[v] \in Nat /\ count'[v] >= count[v]
  PROVE  Unlinked'
<1>1. \A v \in Objects : count[v] \in Nat
  BY DEF Inv, TypeOK
<1>. QED BY <1>1, Kinded DEF Inv, Unlinked

\* Operations begin or end, and the setters that run stay the same.
LEMMA SameSetters ==
  ASSUME Inv, calls' \in Seq(Operations), Waiting(calls', 0) = Waiting(calls, 0), UNCHANGED value
  PROVE  Seen' = Seen /\ Pending' = Pending /\ Written'
<1>1. Pending' = Pending
  BY PendingWaits DEF Inv, TypeOK
<1>. QED BY <1>1 DEF Inv, Seen, Written

LEMMA GetCallsKeeps ==
  ASSUME Inv, NEW o \in Objs, NEW s \in Slots, GetCalls(o, s)
  PROVE  Inv' /\ Seen' = Seen
<1>. DEFINE e == Call("get", o, NULL, s)
<1>1. /\ count' = [count EXCEPT ![o] = @ + 1] /\ calls' = <<e>> \o calls
      /\ UNCHANGED <<parent, value, get, set, held, lost, work, fault>>
  BY DEF GetCalls, tables
<1>2. TypeOK /\ count \in [Objects -> Nat] /\ calls \in Seq(Operations)
  BY DEF Inv, TypeOK
<1>3. e \in Operations /\ e.kind = "get" /\ e.self = o /\ e.arg = NULL
  BY Kinded DEF Call, Operations
<1>. HIDE DEF e
<1>4. Tops(calls', e, calls)
  BY <1>1, <1>2, <1>3, PushCalls
<1>5. calls' \in Seq(Operations) /\ Waiting(calls', 0) = Waiting(calls, 0) /\ Orderly(calls')
  BY <1>3, <1>4 DEF Tops, Admits, Inv
<1>6. Seen' = Seen /\ Written' /\ Aged'
  BY <1>1, <1>5, SameSetters, SameParents
<1>7. count' \in [Objects -> Nat] /\ \A v \in Objects : count'[v] = count[v] + Eq(o, v)
  BY <1>1, <1>2, Kinded DEF Eq
<1>8. TypeOK'
  BY <1>1, <1>2, <1>5, <1>7 DEF TypeOK
<1>9. ASSUME NEW v \in Objects
      PROVE  (count[v] = held[v] + lost[v] + work[v] + Refs(calls, v) + Stored(v))'
  <2>1. PICK a : a = Eq(o, v)
    OBVIOUS
  <2>2. a \in Nat /\ Weight(e, v) = a
    BY <1>3, <2>1, Kinded DEF Eq, Weight
  <2>3. Terms(v) /\ Refs(calls', v) = Refs(calls, v) + a
    BY <1>4, <1>8, <2>2, TermsType DEF Tops
  <2>4. count'[v] = count[v] + a
    BY <1>7, <2>1
  <2>5. /\ held'[v] = held[v] + 0 /\ lost'[v] = lost[v] + 0 /\ work'[v] = work[v] + 0
        /\ Uses(Seen', v) = Uses(Seen, v) + 0
    BY ONLY <1>1, <1>6, <2>3 DEF Terms
  <2>6. a = 0 + 0 + 0 + a + 0
    BY ONLY <2>2
  <2>7. Moves(v, a, 0, 0, 0, a, 0)
    BY ONLY <2>2, <2>3, <2>4, <2>5, <2>6 DEF Moves
  <2>. QED BY <1>1, <1>8, <2>7, Balance
<1>10. Unlinked'
  BY <1>1, <1>2, <1>7, NoneFreed DEF Eq
<1>. QED BY <1>5, <1>6, <1>8, <1>9, <1>10 DEF Inv, ObjectCount

LEMMA SetMetadataKeeps ==
  ASSUME Inv, NEW s \in Present, NEW table, NEW f \in Funcs, SetMetadata(s, table, f)
  PROVE  Inv' /\ Seen' = Seen
<1>1. /\ s \in Slots /\ value[s] # Absent
      /\ count' = [count EXCEPT ![f] = @ + 1]
      /\ UNCHANGED <<parent, value, held, work, calls, fault>>
      /\ \/ get' = [get EXCEPT ![s] = f] /\ lost' = Plus(lost, get[s]) /\ set' = set
         \/ set' = [set EXCEPT ![s] = f] /\ lost' = Plus(lost, set[s]) /\ get' = get
  BY DEF SetMetadata, Present
<1>2. Seen' = Seen /\ Orderly(calls)' /\ Written' /\ Aged'
  BY <1>1, SameCalls, SameParents
<1>3. /\ TypeOK /\ count \in [Objects -> Nat] /\ lost \in [Objects -> Nat]
      /\ get \in [Slots -> Funcs \cup {NULL}] /\ set \in [Slots -> Funcs \cup {NULL}]
  BY DEF Inv, TypeOK
<1>4. count' \in [Objects -> Nat] /\ \A v \in Objects : count'[v] = count[v] + Eq(f, v)
  BY <1>1, <1>3, Kinded DEF Eq
<1>5. lost' \in [Objects -> Nat]
  BY <1>1, <1>3, PlusType
<1>6. TypeOK'
  <2>1. get' \in [Slots -> Funcs \cup {NULL}] /\ set' \in [Slots -> Funcs \cup {NULL}]
    BY <1>1, <1>3
  <2>. QED BY <1>1, <1>3, <1>4, <1>5, <2>1 DEF TypeOK
<1>7. ASSUME NEW v \in Objects
      PROVE  (count[v] = held[v] + lost[v] + work[v] + Refs(calls, v) + Stored(v))'
  <2>1. Terms(v)
    BY <1>6, TermsType
  <2>2. PICK a, b, c : a = Eq(f, v) /\ b = Eq(get[s], v) /\ c = Eq(set[s], v)
    OBVIOUS
  <2>3. a \in Nat /\ b \in Nat /\ c \in Nat
    BY <2>2 DEF Eq
  <2>4. count'[v] = count[v] + a
    BY <1>4, <2>2
  <2>5. CASE get' = [get EXCEPT ![s] = f] /\ lost' = Plus(lost, get[s]) /\ set' = set
    <3>1. lost'[v] = lost[v] + b
      BY <1>3, <2>2, <2>5, PlusType
    <3>2. DOMAIN get = Slots /\ DOMAIN get' = Slots /\ get'[s] = f
          /\ \A t \in Slots : t # s => get'[t] = get[t]
      BY <1>1, <1>3, <2>5
    <3>3. Uses(get', v) + b = Uses(get, v) + a
      BY <1>1, <2>2, <3>2, SlotChange
    <3>4. Uses(get', v) = Uses(get, v) + (a - b)
      BY ONLY <2>1, <2>3, <3>3 DEF Terms
    <3>5. Shifts(v, 0, b, 0, 0, 0, a - b, 0, 0)
      BY ONLY <1>1, <1>2, <2>1, <2>3, <2>4, <2>5, <3>1, <3>4 DEF Shifts, Terms
    <3>. QED BY <1>6, <3>5, Shift
  <2>6. CASE set' = [set EXCEPT ![s] = f] /\ lost' = Plus(lost, set[s]) /\ get' = get
    <3>1. lost'[v] = lost[v] + c
      BY <1>3, <2>2, <2>6, PlusType
    <3>2. DOMAIN set = Slots /\ DOMAIN set' = Slots /\ set'[s] = f
          /\ \A t \in Slots : t # s => set'[t] = set[t]
      BY <1>1, <1>3, <2>6
    <3>3. Uses(set', v) + c = Uses(set, v) + a
      BY <1>1, <2>2, <3>2, SlotChange
    <3>4. Uses(set', v) = Uses(set, v) + (a - c)
      BY ONLY <2>1, <2>3, <3>3 DEF Terms
    <3>5. Shifts(v, 0, c, 0, 0, 0, 0, a - c, 0)
      BY ONLY <1>1, <1>2, <2>1, <2>3, <2>4, <2>6, <3>1, <3>4 DEF Shifts, Terms
    <3>. QED BY <1>6, <3>5, Shift
  <2>. QED BY <1>1, <2>5, <2>6
<1>8. Unlinked'
  BY <1>1, <1>3, <1>4, NoneFreed DEF Eq
<1>. QED BY <1>2, <1>6, <1>7, <1>8 DEF Inv, ObjectCount

\* What is seen in slot s changes.
LEMMA SeenChange ==
  ASSUME NEW s \in Slots, \A t \in Slots : t # s => Seen'[t] = Seen[t], NEW x,
         NEW a, a = Eq(Seen[s], x), NEW b, b = Eq(Seen'[s], x)
  PROVE  Uses(Seen', x) = Uses(Seen, x) + (b - a)
<1>1. DOMAIN Seen = Slots /\ DOMAIN Seen' = Slots
  BY DEF Seen
<1>2. Uses(Seen', x) + Eq(Seen[s], x) = Uses(Seen, x) + Eq(Seen'[s], x)
  BY <1>1, SlotChange
<1>3. Uses(Seen', x) \in Nat /\ Uses(Seen, x) \in Nat
  BY <1>1, UsesType, SlotsFinite
<1>4. PICK u, w : u = Uses(Seen, x) /\ w = Uses(Seen', x)
  OBVIOUS
<1>5. u \in Nat /\ w \in Nat /\ a \in Nat /\ b \in Nat /\ w + a = u + b
  BY <1>2, <1>3, <1>4 DEF Eq
<1>6. w = u + (b - a)
  BY ONLY <1>5
<1>. QED BY <1>4, <1>6

\* An assignment, where stack stands for the operations in progress.
LEMMA AssignKeeps ==
  ASSUME Inv, NEW s \in Slots, s \notin Pending, NEW v \in Values,
         NEW stack \in Seq(Operations), \A o : Refs(stack, o) = Refs(calls, o),
         Waiting(stack, 0) = Waiting(calls, 0), Orderly(stack), Assign(s, v, stack)
  PROVE  /\ Inv'
         /\ \/ Seen' = [Seen EXCEPT ![s] = v] /\ calls' = stack
            \/ Seen' = [Seen EXCEPT ![s] = Uninit] /\ calls' = <<Call("set", s[1], v, s)>> \o stack
<1>1. /\ TypeOK /\ count \in [Objects -> Nat] /\ work \in [Objects -> Nat]
      /\ value \in [Slots -> Values \cup {Absent, Uninit}]
  BY DEF Inv, TypeOK
<1>2. work' = Plus(work, Read(s)) /\ UNCHANGED <<parent, get, set, held, lost, fault>>
  BY DEF Assign, Replaced
<1>3. value[s] # Uninit /\ Read(s) = value[s] /\ Seen[s] = value[s]
  BY DEF Inv, Written, Read, Seen
<1>4. work' \in [Objects -> Nat] /\ \A x \in Objects : work'[x] = work[x] + Eq(Seen[s], x)
  BY <1>1, <1>2, <1>3, PlusType
<1>5. DOMAIN Seen = Slots /\ DOMAIN Seen' = Slots
  BY DEF Seen
<1>6. s[1] \in Objs /\ s[1] \in Objects
  BY SlotShape, Kinded
<1>7. Pending = Waiting(calls, 0)
  BY PendingWaits DEF Inv, TypeOK
<1>8. Aged'
  BY <1>2, SameParents
<1>9. ASSUME Setter(s) = NULL, value' = [value EXCEPT ![s] = v], count' = Plus(count, v), calls' = stack
      PROVE  Inv' /\ Seen' = [Seen EXCEPT ![s] = v]
  <2>1. count' \in [Objects -> Nat] /\ \A x \in Objects : count'[x] = count[x] + Eq(v, x)
    BY <1>1, <1>9, PlusType
  <2>2. TypeOK'
    BY <1>1, <1>2, <1>4, <1>9, <2>1 DEF TypeOK
  <2>3. Pending' = Pending
    BY <1>7, <1>9, PendingWaits
  <2>4. Seen' = [Seen EXCEPT ![s] = v] /\ Seen'[s] = v /\ \A t \in Slots : t # s => Seen'[t] = Seen[t]
    BY <1>1, <1>9, <2>3 DEF Seen
  <2>5. Written'
    BY <1>1, <1>9, <2>3, Kinded DEF Inv, Written
  <2>6. ASSUME NEW x \in Objects
        PROVE  (count[x] = held[x] + lost[x] + work[x] + Refs(calls, x) + Stored(x))'
    <3>1. Terms(x)
      BY <2>2, TermsType
    <3>2. PICK a, b : a = Eq(Seen[s], x) /\ b = Eq(v, x)
      OBVIOUS
    <3>3. a \in Nat /\ b \in Nat
      BY <3>2 DEF Eq
    <3>4. (\A t \in Slots : t # s => Seen'[t] = Seen[t]) /\ b = Eq(Seen'[s], x)
      BY <2>4, <3>2
    <3>5. PICK d : d = b - a /\ Uses(Seen', x) = Uses(Seen, x) + d
      BY <3>2, <3>4, SeenChange
    <3>6. count'[x] = count[x] + b /\ work'[x] = work[x] + a /\ Refs(calls', x) = Refs(calls, x)
      BY <1>4, <1>9, <2>1, <3>2
    <3>7. d \in Int /\ b = 0 + 0 + a + 0 + d + 0 + 0 + 0
      BY ONLY <3>3, <3>5
    <3>8. count'[x] = count[x] + (0 + 0 + a + 0 + d + 0 + 0 + 0)
      BY ONLY <3>6, <3>7
    <3>9. /\ held'[x] = held[x] + 0 /\ lost'[x] = lost[x] + 0 /\ Refs(calls', x) = Refs(calls, x) + 0
          /\ Uses(get', x) = Uses(get, x) + 0 /\ Uses(set', x) = Uses(set, x) + 0
          /\ Uses(parent', x) = Uses(parent, x) + 0
      BY ONLY <1>2, <3>1, <3>6 DEF Terms
    <3>10. {0, 0, a, 0, d, 0, 0, 0} \subseteq Int
      BY ONLY <3>3, <3>7
    <3>11. Shifts(x, 0, 0, a, 0, d, 0, 0, 0)
      BY ONLY <3>5, <3>6, <3>8, <3>9, <3>10 DEF Shifts
    <3>. QED BY <2>2, <3>11, Shift
  <2>7. Unlinked'
    <3>1. ASSUME NEW x \in Objects PROVE count'[x] \in Nat /\ count'[x] >= count[x]
      <4>1. Eq(v, x) \in Nat /\ count[x] \in Nat /\ count'[x] = count[x] + Eq(v, x)
        BY <1>1, <2>1 DEF Eq
      <4>. QED BY <4>1
    <3>. QED BY <1>2, <3>1, NoneFreed
  <2>. QED BY <1>8, <1>9, <2>2, <2>4, <2>5, <2>6, <2>7 DEF Inv, ObjectCount
<1>10. ASSUME value' = (IF value[s] = Absent THEN [value EXCEPT ![s] = Uninit] ELSE value),
              count' = Plus(Plus(count, v), s[1]), calls' = <<Call("set", s[1], v, s)>> \o stack
       PROVE  Inv' /\ Seen' = [Seen EXCEPT ![s] = Uninit]
  <2>. DEFINE e == Call("set", s[1], v, s)
  <2>1. e \in Operations /\ e.kind = "set" /\ e.self = s[1] /\ e.arg = v /\ e.slot = s
    BY <1>6 DEF Call, Operations
  <2>2. calls' = <<e>> \o stack
    BY <1>10
  <2>. HIDE DEF e
  <2>3. Tops(calls', e, stack)
    BY <2>1, <2>2, PushCalls
  <2>4. /\ calls' \in Seq(Operations) /\ Waiting(calls', 0) = Waiting(calls, 0) \cup {s}
        /\ Orderly(calls')
    BY <1>7, <2>1, <2>3 DEF Tops, Admits
  <2>5. Pending' = Pending \cup {s}
    BY <1>7, <2>4, PendingWaits
  <2>6. Plus(count, v) \in [Objects -> Nat] /\ \A x \in Objects : Plus(count, v)[x] = count[x] + Eq(v, x)
    BY <1>1, PlusType
  <2>7. count' \in [Objects -> Nat] /\ \A x \in Objects : count'[x] = Plus(count, v)[x] + Eq(s[1], x)
    BY <1>10, <2>6, PlusType
  <2>8. TypeOK'
    BY <1>1, <1>2, <1>4, <1>10, <2>4, <2>7 DEF TypeOK
  <2>9. /\ Seen' = [Seen EXCEPT ![s] = Uninit] /\ Seen'[s] = Uninit
        /\ \A t \in Slots : t # s => Seen'[t] = Seen[t]
    BY <1>1, <1>10, <2>5 DEF Seen
  <2>10. Written'
    BY <1>1, <1>10, <2>5, Kinded DEF Inv, Written
  <2>11. ASSUME NEW x \in Objects
         PROVE  (count[x] = held[x] + lost[x] + work[x] + Refs(calls, x) + Stored(x))'
    <3>1. Terms(x)
      BY <2>8, TermsType
    <3>2. PICK a, b, c : a = Eq(Seen[s], x) /\ b = Eq(v, x) /\ c = Eq(s[1], x)
      OBVIOUS
    <3>3. a \in Nat /\ b \in Nat /\ c \in Nat
      BY <3>2 DEF Eq
    <3>4. \A t \in Slots : t # s => Seen'[t] = Seen[t]
      BY <2>9
    <3>5. 0 = Eq(Seen'[s], x)
      BY <2>9, Kinded DEF Eq
    <3>6. PICK d : d = 0 - a /\ Uses(Seen', x) = Uses(Seen, x) + d
      BY <3>2, <3>4, <3>5, SeenChange
    <3>7. count'[x] = count[x] + (b + c)
      <4>1. count'[x] = (count[x] + b) + c /\ count[x] \in Nat
        BY <1>1, <2>6, <2>7, <3>2
      <4>. QED BY <3>3, <4>1
    <3>8. work'[x] = work[x] + a
      BY <1>4, <3>2
    <3>9. Refs(calls', x) = Refs(calls, x) + (b + c)
      <4>1. Weight(e, x) = b + c
        BY <2>1, <3>2, <3>3 DEF Weight
      <4>. QED BY <2>3, <4>1 DEF Tops
    <3>10. PICK e1 : e1 = b + c
      OBVIOUS
    <3>11. d \in Int /\ e1 \in Int /\ e1 = 0 + 0 + a + e1 + d + 0 + 0 + 0
      BY ONLY <3>3, <3>6, <3>10
    <3>12. count'[x] = count[x] + (0 + 0 + a + e1 + d + 0 + 0 + 0)
      BY ONLY <3>7, <3>10, <3>11
    <3>13. /\ held'[x] = held[x] + 0 /\ lost'[x] = lost[x] + 0
           /\ Uses(get', x) = Uses(get, x) + 0 /\ Uses(set', x) = Uses(set, x) + 0
           /\ Uses(parent', x) = Uses(parent, x) + 0
      BY ONLY <1>2, <3>1 DEF Terms
    <3>14. {0, 0, a, e1, d, 0, 0, 0} \subseteq Int
      BY ONLY <3>3, <3>11
    <3>15. Shifts(x, 0, 0, a, e1, d, 0, 0, 0)
      BY ONLY <3>6, <3>8, <3>9, <3>10, <3>12, <3>13, <3>14 DEF Shifts
    <3>. QED BY <2>8, <3>15, Shift
  <2>12. Unlinked'
    <3>1. ASSUME NEW x \in Objects PROVE count'[x] \in Nat /\ count'[x] >= count[x]
      <4>1. /\ Eq(v, x) \in Nat /\ Eq(s[1], x) \in Nat /\ count[x] \in Nat
            /\ count'[x] = (count[x] + Eq(v, x)) + Eq(s[1], x)
        BY <1>1, <2>6, <2>7 DEF Eq
      <4>. QED BY <4>1
    <3>. QED BY <1>2, <3>1, NoneFreed
  <2>. QED BY <1>8, <2>4, <2>8, <2>9, <2>10, <2>11, <2>12 DEF Inv, ObjectCount
<1>. QED BY <1>9, <1>10 DEF Assign

LEMMA PlusTwo ==
  ASSUME NEW f \in [Objects -> Nat], NEW x, NEW y
  PROVE  /\ Plus(Plus(f, x), y) \in [Objects -> Nat]
         /\ \A v \in Objects : Plus(Plus(f, x), y)[v] = f[v] + (Eq(x, v) + Eq(y, v))
<1>1. Plus(f, x) \in [Objects -> Nat] /\ \A v \in Objects : Plus(f, x)[v] = f[v] + Eq(x, v)
  BY PlusType
<1>2. /\ Plus(Plus(f, x), y) \in [Objects -> Nat]
      /\ \A v \in Objects : Plus(Plus(f, x), y)[v] = Plus(f, x)[v] + Eq(y, v)
  BY <1>1, PlusType
<1>3. ASSUME NEW v \in Objects PROVE Plus(Plus(f, x), y)[v] = f[v] + (Eq(x, v) + Eq(y, v))
  <2>1. PICK n, a, b : n = f[v] /\ a = Eq(x, v) /\ b = Eq(y, v)
    OBVIOUS
  <2>2. n \in Nat /\ a \in Nat /\ b \in Nat
    BY <2>1 DEF Eq
  <2>3. Plus(Plus(f, x), y)[v] = (n + a) + b
    BY <1>1, <1>2, <2>1
  <2>4. (n + a) + b = n + (a + b)
    BY ONLY <2>2
  <2>. QED BY <2>1, <2>3, <2>4
<1>. QED BY <1>2, <1>3

\* What the operations in progress are.
LEMMA CallsShape ==
  ASSUME TypeOK
  PROVE  /\ Pending \subseteq Slots
         /\ \A i \in DOMAIN calls :
              /\ calls[i] \in Operations /\ calls[i].self \in Objs /\ calls[i].arg \in Values
              /\ calls[i].kind \in {"get", "set", "patch"}
              /\ calls[i].kind # "patch" => calls[i].slot \in Slots
              /\ calls[i].kind = "patch" => calls[i].slot = NULL /\ calls[i].arg \in Objs
         /\ calls # <<>> => /\ 1 \in DOMAIN calls /\ Head(calls) = calls[1]
                            /\ Tops(calls, Caller, Tail(calls))
<1>1. calls \in Seq(Operations)
  BY DEF TypeOK
<1>2. \A e \in Operations :
        /\ e.self \in Objs /\ e.arg \in Values /\ e.kind \in {"get", "set", "patch"}
        /\ e.kind # "patch" => e.slot \in Slots
        /\ e.kind = "patch" => e.slot = NULL /\ e.arg \in Objs
  BY Kinded DEF Operations
<1>3. \A i \in DOMAIN calls : calls[i] \in Operations
  BY <1>1
<1>4. Pending \subseteq Slots
  BY <1>2, <1>3 DEF Pending
<1>5. calls # <<>> => 1 \in DOMAIN calls /\ Head(calls) = calls[1]
  BY <1>1
<1>6. calls # <<>> => Tops(calls, Caller, Tail(calls))
  BY <1>1, PopCalls DEF Caller
<1>. QED BY <1>2, <1>3, <1>4, <1>5, <1>6

LEMMA GetterReturnsKeeps ==
  ASSUME Inv, GetterReturns
  PROVE  Inv' /\ Seen' = Seen
<1>1. /\ calls # <<>> /\ Caller.kind = "get" /\ calls' = Tail(calls)
      /\ work' = Plus(work, Caller.self)
      /\ UNCHANGED <<parent, value, get, set, count, held, lost, fault>>
  BY DEF GetterReturns, tables
<1>2. TypeOK /\ calls \in Seq(Operations) /\ work \in [Objects -> Nat] /\ Orderly(calls)
  BY DEF Inv, TypeOK
<1>3. Tops(calls, Caller, calls')
  BY <1>1, <1>2, CallsShape
<1>4. /\ calls' \in Seq(Operations) /\ Waiting(calls', 0) = Waiting(calls, 0) /\ Orderly(calls')
      /\ Caller.arg = NULL
  BY <1>1, <1>2, <1>3 DEF Tops, Admits
<1>5. Seen' = Seen /\ Written' /\ Aged' /\ Unlinked'
  BY <1>1, <1>4, SameSetters, SameParents DEF Inv, Unlinked
<1>6. work' \in [Objects -> Nat] /\ \A v \in Objects : work'[v] = work[v] + Eq(Caller.self, v)
  BY <1>1, <1>2, PlusType
<1>7. TypeOK'
  BY <1>1, <1>2, <1>4, <1>6 DEF TypeOK
<1>8. ASSUME NEW v \in Objects
      PROVE  (count[v] = held[v] + lost[v] + work[v] + Refs(calls, v) + Stored(v))'
  <2>1. PICK a : a = Eq(Caller.self, v)
    OBVIOUS
  <2>2. a \in Nat /\ Weight(Caller, v) = a
    BY <1>4, <2>1, Kinded DEF Eq, Weight
  <2>3. Terms(v)
    BY <1>7, TermsType
  <2>4. Refs(calls, v) = Refs(calls', v) + a
    BY <1>3, <2>2 DEF Tops
  <2>5. Refs(calls', v) = Refs(calls, v) + (0 - a)
    BY ONLY <2>2, <2>3, <2>4 DEF Terms
  <2>6. 0 = 0 + 0 + a + (0 - a) + 0 /\ 0 - a \in Int
    BY ONLY <2>2
  <2>7. /\ count'[v] = count[v] + 0 /\ held'[v] = held[v] + 0 /\ lost'[v] = lost[v] + 0
        /\ Uses(Seen', v) = Uses(Seen, v) + 0
    BY <1>1, <1>5, <2>3 DEF Terms
  <2>8. work'[v] = work[v] + a
    BY <1>6, <2>1
  <2>9. Moves(v, 0, 0, 0, a, 0 - a, 0)
    BY ONLY <2>2, <2>5, <2>6, <2>7, <2>8 DEF Moves
  <2>. QED BY <1>1, <1>7, <2>9, Balance
<1>. QED BY <1>4, <1>5, <1>7, <1>8 DEF Inv, ObjectCount

\* The operation on top ends and gives back the references it owns.
LEMMA Returned ==
  ASSUME Inv, TypeOK', calls # <<>>, calls' = Tail(calls), NEW v \in Objects,
         NEW b, b = Weight(Caller, v)
  PROVE  b \in Nat /\ Refs(calls', v) = Refs(calls, v) + (0 - b)
<1>1. Tops(calls, Caller, calls')
  BY CallsShape DEF Inv
<1>2. Terms(v)
  BY TermsType
<1>3. b \in Nat
  BY DEF Weight, Eq
<1>4. Refs(calls, v) = Refs(calls', v) + b
  BY <1>1 DEF Tops
<1>5. Refs(calls', v) = Refs(calls, v) + (0 - b)
  BY ONLY <1>2, <1>3, <1>4 DEF Terms
<1>. QED BY <1>3, <1>5

LEMMA PatchDoneKeeps ==
  ASSUME Inv, PatchDone
  PROVE  Inv' /\ Seen' = Seen
<1>1. /\ calls # <<>> /\ Caller.kind = "patch" /\ calls' = Tail(calls)
      /\ work' = Plus(Plus(work, Caller.self), Caller.arg)
      /\ UNCHANGED <<parent, value, get, set, count, held, lost, fault>>
  BY DEF PatchDone, Patching, Caller, tables
<1>2. TypeOK /\ calls \in Seq(Operations) /\ work \in [Objects -> Nat] /\ Orderly(calls)
  BY DEF Inv, TypeOK
<1>3. Tops(calls, Caller, calls')
  BY <1>1, <1>2, CallsShape
<1>4. calls' \in Seq(Operations) /\ Waiting(calls', 0) = Waiting(calls, 0) /\ Orderly(calls')
  BY <1>1, <1>2, <1>3 DEF Tops
<1>5. Seen' = Seen /\ Written' /\ Aged' /\ Unlinked'
  BY <1>1, <1>4, SameSetters, SameParents DEF Inv, Unlinked
<1>6. work' \in [Objects -> Nat] /\ \A v \in Objects : work'[v] = work[v] + Weight(Caller, v)
  BY <1>1, <1>2, PlusTwo DEF Weight
<1>7. TypeOK'
  BY <1>1, <1>2, <1>4, <1>6 DEF TypeOK
<1>8. ASSUME NEW v \in Objects
      PROVE  (count[v] = held[v] + lost[v] + work[v] + Refs(calls, v) + Stored(v))'
  <2>1. PICK b : b = Weight(Caller, v)
    OBVIOUS
  <2>2. b \in Nat /\ Refs(calls', v) = Refs(calls, v) + (0 - b)
    BY <1>1, <1>7, <2>1, Returned
  <2>3. Terms(v)
    BY <1>7, TermsType
  <2>4. 0 = 0 + 0 + b + (0 - b) + 0 /\ 0 - b \in Int
    BY ONLY <2>2
  <2>5. /\ count'[v] = count[v] + 0 /\ held'[v] = held[v] + 0 /\ lost'[v] = lost[v] + 0
        /\ Uses(Seen', v) = Uses(Seen, v) + 0
    BY <1>1, <1>5, <2>3 DEF Terms
  <2>6. work'[v] = work[v] + b
    BY <1>6, <2>1
  <2>7. Moves(v, 0, 0, 0, b, 0 - b, 0)
    BY ONLY <2>2, <2>4, <2>5, <2>6 DEF Moves
  <2>. QED BY <1>1, <1>7, <2>7, Balance
<1>. QED BY <1>4, <1>5, <1>7, <1>8 DEF Inv, ObjectCount

LEMMA SetterReturnsKeeps ==
  ASSUME Inv, NEW r \in Values, SetterReturns(r)
  PROVE  /\ Inv' /\ Caller.slot \in Pending /\ Caller.slot \in Slots
         /\ Pending' = Pending \ {Caller.slot} /\ Seen' = [Seen EXCEPT ![Caller.slot] = r]
<1>. DEFINE s == Caller.slot
<1>1. /\ calls # <<>> /\ Caller.kind = "set" /\ calls' = Tail(calls)
      /\ r \in Objects => held[r] > 0
      /\ held' = Minus(held, r) /\ value' = [value EXCEPT ![s] = r]
      /\ work' = Plus(Plus(work, Caller.self), Caller.arg)
      /\ UNCHANGED <<parent, get, set, count, lost, fault>>
  BY DEF SetterReturns
<1>2. /\ TypeOK /\ calls \in Seq(Operations) /\ work \in [Objects -> Nat] /\ Orderly(calls)
      /\ held \in [Objects -> Nat] /\ value \in [Slots -> Values \cup {Absent, Uninit}]
  BY DEF Inv, TypeOK
<1>3. Tops(calls, Caller, calls')
  BY <1>1, <1>2, CallsShape
<1>4. /\ calls' \in Seq(Operations) /\ Waiting(calls, 0) = Waiting(calls', 0) \cup {s}
      /\ Orderly(calls') /\ s \notin Waiting(calls', 0)
  BY <1>1, <1>2, <1>3 DEF Tops, Admits
<1>5. Pending = Waiting(calls, 0) /\ Pending' = Waiting(calls', 0)
  BY <1>2, <1>4, PendingWaits
<1>6. s \in Pending /\ s \in Slots /\ Pending' = Pending \ {s}
  BY <1>2, <1>4, <1>5, CallsShape
<1>. HIDE DEF s
<1>7. /\ Seen' = [Seen EXCEPT ![s] = r] /\ Seen'[s] = r /\ Seen[s] = Uninit
      /\ \A t \in Slots : t # s => Seen'[t] = Seen[t]
  BY <1>1, <1>2, <1>6 DEF Seen
<1>8. Written'
  BY <1>1, <1>2, <1>6, Kinded DEF Inv, Written
<1>9. Aged' /\ Unlinked'
  BY <1>1, SameParents DEF Inv, Unlinked
<1>10. work' \in [Objects -> Nat] /\ \A v \in Objects : work'[v] = work[v] + Weight(Caller, v)
  <2>1. PICK a, b : a = Caller.self /\ b = Caller.arg
    OBVIOUS
  <2>2. work' = Plus(Plus(work, a), b) /\ work \in [Objects -> Nat]
    BY <1>1, <1>2, <2>1
  <2>3. work' \in [Objects -> Nat] /\ \A v \in Objects : work'[v] = work[v] + (Eq(a, v) + Eq(b, v))
    BY ONLY <2>2, PlusTwo
  <2>. QED BY <2>1, <2>3 DEF Weight
<1>11. held' \in [Objects -> Nat] /\ \A v \in Objects : held'[v] = held[v] - Eq(r, v)
  BY <1>1, <1>2, MinusType
<1>12. value' \in [Slots -> Values \cup {Absent, Uninit}]
  BY <1>1, <1>2, <1>6
<1>13. TypeOK'
  BY <1>1, <1>2, <1>4, <1>10, <1>11, <1>12 DEF TypeOK
<1>14. ASSUME NEW v \in Objects
       PROVE  (count[v] = held[v] + lost[v] + work[v] + Refs(calls, v) + Stored(v))'
  <2>1. PICK a, b : a = Eq(r, v) /\ b = Weight(Caller, v)
    OBVIOUS
  <2>2. b \in Nat /\ Refs(calls', v) = Refs(calls, v) + (0 - b)
    BY <1>1, <1>13, <2>1, Returned
  <2>3. Terms(v) /\ a \in Nat
    BY <1>13, <2>1, TermsType DEF Eq
  <2>4. 0 = (0 - a) + 0 + b + (0 - b) + a /\ 0 - b \in Int /\ 0 - a \in Int
    BY ONLY <2>2, <2>3
  <2>5. Uses(Seen', v) = Uses(Seen, v) + a
    <3>1. PICK z : z = 0 /\ z = Eq(Seen[s], v) /\ a = Eq(Seen'[s], v)
      BY <1>7, <2>1, Kinded DEF Eq
    <3>2. \A t \in Slots : t # s => Seen'[t] = Seen[t]
      BY <1>7
    <3>3. Uses(Seen', v) = Uses(Seen, v) + (a - z)
      BY <1>6, <3>1, <3>2, SeenChange
    <3>. QED BY <2>3, <3>1, <3>3
  <2>6. held'[v] = held[v] + (0 - a)
    BY <1>11, <2>1, <2>3 DEF Terms
  <2>7. count'[v] = count[v] + 0 /\ lost'[v] = lost[v] + 0
    BY <1>1, <2>3 DEF Terms
  <2>8. work'[v] = work[v] + b
    BY <1>10, <2>1
  <2>9. Moves(v, 0, 0 - a, 0, b, 0 - b, a)
    BY ONLY <2>2, <2>3, <2>4, <2>5, <2>6, <2>7, <2>8 DEF Moves
  <2>. QED BY <1>1, <1>13, <2>9, Balance
<1>. QED BY <1>4, <1>6, <1>7, <1>8, <1>9, <1>13, <1>14 DEF Inv, ObjectCount, s

LEMMA AccessorThrowsKeeps ==
  ASSUME Inv, Caller.slot \in Slots \ Pending, AccessorThrows
  PROVE  /\ Inv' /\ Seen' = Seen
         /\ \A v \in Objects : Refs(calls, v) = 0 => Refs(calls', v) = 0 /\ lost'[v] = lost[v]
<1>1. PICK k \in 1 .. Len(calls) :
        /\ \A i \in 2 .. k : calls[i].kind = "patch"
        /\ lost' = [o \in Objects |-> lost[o] + Refs(SubSeq(calls, 1, k), o)]
        /\ calls' = SubSeq(calls, k + 1, Len(calls))
  BY DEF AccessorThrows
<1>2. calls # <<>> /\ UNCHANGED <<parent, value, get, set, count, held, work, fault>>
  BY DEF AccessorThrows, tables
<1>3. TypeOK /\ calls \in Seq(Operations) /\ lost \in [Objects -> Nat] /\ Orderly(calls)
  BY DEF Inv, TypeOK
<1>4. ASSUME NEW i \in 1 .. k PROVE calls[i].kind # "set"
  <2>1. CASE i = 1
    <3>1. 1 \in DOMAIN calls /\ Caller = calls[1]
      BY <1>2, <1>3, CallsShape DEF Caller
    <3>2. calls[1].kind = "set" => Caller.slot \in Pending
      BY <3>1 DEF Pending
    <3>. QED BY <2>1, <3>2
  <2>2. CASE i # 1
    <3>1. i \in 2 .. k
      BY <2>2
    <3>. QED BY <1>1, <3>1
  <2>. QED BY <2>1, <2>2
<1>5. PICK u : u = SubSeq(calls, 1, k)
  OBVIOUS
<1>6. /\ u \in Seq(Operations) /\ calls' \in Seq(Operations)
      /\ \A o : Refs(calls, o) = Refs(u, o) + Refs(calls', o)
      /\ Waiting(calls', 0) = Waiting(calls, 0) /\ Orderly(calls')
  <2>1. PICK q, r : q = calls /\ r = calls'
    OBVIOUS
  <2>2. Drops(q, k, u, r) /\ Orderly(q)
    BY <1>1, <1>3, <1>4, <1>5, <2>1 DEF Drops
  <2>3. /\ u \in Seq(Operations) /\ r \in Seq(Operations)
        /\ \A o : Refs(q, o) = Refs(u, o) + Refs(r, o)
        /\ Waiting(r, 0) = Waiting(q, 0) /\ Orderly(r)
    BY ONLY <2>2, DropCalls
  <2>. QED BY <2>1, <2>3
<1>7. Seen' = Seen /\ Written' /\ Aged' /\ Unlinked'
  BY <1>2, <1>6, SameSetters, SameParents DEF Inv, Unlinked
<1>8. \A o : Refs(u, o) \in Nat
  BY <1>6, RefsHits
<1>9. lost' \in [Objects -> Nat] /\ \A v \in Objects : lost'[v] = lost[v] + Refs(u, v)
  BY <1>1, <1>3, <1>5, <1>8
<1>10. TypeOK'
  BY <1>2, <1>3, <1>6, <1>9 DEF TypeOK
<1>11. ASSUME NEW v \in Objects
       PROVE  (count[v] = held[v] + lost[v] + work[v] + Refs(calls, v) + Stored(v))'
  <2>1. PICK m : m = Refs(u, v)
    OBVIOUS
  <2>2. Terms(v)
    BY <1>10, TermsType
  <2>3. m \in Nat /\ Refs(calls, v) = m + Refs(calls', v) /\ lost'[v] = lost[v] + m
    BY <1>6, <1>8, <1>9, <2>1
  <2>4. Refs(calls', v) = Refs(calls, v) + (0 - m)
    BY ONLY <2>2, <2>3 DEF Terms
  <2>5. 0 = 0 + m + 0 + (0 - m) + 0 /\ 0 - m \in Int
    BY ONLY <2>3
  <2>6. /\ count'[v] = count[v] + 0 /\ held'[v] = held[v] + 0 /\ work'[v] = work[v] + 0
        /\ Uses(Seen', v) = Uses(Seen, v) + 0
    BY <1>2, <1>7, <2>2 DEF Terms
  <2>7. Moves(v, 0, 0, m, 0, 0 - m, 0)
    BY ONLY <2>3, <2>4, <2>5, <2>6 DEF Moves
  <2>. QED BY <1>2, <1>10, <2>7, Balance
<1>12. ASSUME NEW v \in Objects, Refs(calls, v) = 0 PROVE Refs(calls', v) = 0 /\ lost'[v] = lost[v]
  <2>1. Refs(calls', v) \in Nat /\ lost[v] \in Nat
    BY <1>3, <1>6, RefsHits
  <2>2. Refs(u, v) \in Nat /\ 0 = Refs(u, v) + Refs(calls', v) /\ lost'[v] = lost[v] + Refs(u, v)
    BY <1>6, <1>8, <1>9, <1>12
  <2>. QED BY ONLY <2>1, <2>2
<1>. QED BY <1>6, <1>7, <1>10, <1>11, <1>12 DEF Inv, ObjectCount

\* A patch that goes on to the prototype table owns what it owned before.
LEMMA PatchPrototypesKeeps ==
  ASSUME Inv, PatchPrototypes
  PROVE  Inv' /\ Seen' = Seen /\ \A o : Refs(calls', o) = Refs(calls, o)
<1>. DEFINE e == [Caller EXCEPT
                    !.todo = {s \in Present : s[1] = Caller.arg /\ s[2] \in Caller.later},
                    !.done = {}, !.later = {}]
<1>1. /\ calls # <<>> /\ Caller.kind = "patch" /\ calls' = <<e>> \o Tail(calls)
      /\ UNCHANGED <<parent, value, get, set, count, held, lost, work, fault>>
  BY DEF PatchPrototypes, Patching, Caller, tables
<1>2. TypeOK /\ calls \in Seq(Operations) /\ Orderly(calls)
  BY DEF Inv, TypeOK
<1>3. Caller \in Operations
  BY <1>1, <1>2, CallsShape DEF Tops
<1>4. /\ e \in Operations /\ e.self = Caller.self /\ e.arg = Caller.arg
      /\ e.kind = Caller.kind /\ e.slot = Caller.slot
  BY <1>1, <1>3 DEF Operations, Present
<1>. HIDE DEF e
<1>5. /\ calls' \in Seq(Operations) /\ \A o : Refs(calls', o) = Refs(calls, o)
      /\ Waiting(calls', 0) = Waiting(calls, 0) /\ Orderly(calls')
  <2>1. PICK t, r : t = calls /\ r = calls'
    OBVIOUS
  <2>2. /\ t \in Seq(Operations) /\ t # <<>> /\ e \in Operations /\ r = <<e>> \o Tail(t) /\ Orderly(t)
        /\ e.self = Head(t).self /\ e.arg = Head(t).arg
        /\ e.kind = Head(t).kind /\ e.slot = Head(t).slot
    BY <1>1, <1>2, <1>4, <2>1 DEF Caller
  <2>3. /\ r \in Seq(Operations) /\ \A o : Refs(r, o) = Refs(t, o)
        /\ Waiting(r, 0) = Waiting(t, 0) /\ Orderly(r)
    BY ONLY <2>2, SwapCalls
  <2>. QED BY <2>1, <2>3
<1>6. Seen' = Seen /\ Pending' = Pending /\ Written' /\ Aged' /\ Unlinked'
  BY <1>1, <1>5, SameSetters, SameParents DEF Inv, Unlinked
<1>7. TypeOK'
  BY <1>1, <1>2, <1>5 DEF TypeOK
<1>8. ObjectCount'
  BY <1>1, <1>5, <1>6 DEF Inv, ObjectCount, Stored
<1>. QED BY <1>5, <1>6, <1>7, <1>8 DEF Inv

LEMMA ObjPatchKeeps ==
  ASSUME Inv, NEW self \in Objs, NEW from \in Objs, NEW kinds,
         Of(self) \cup Of(from) \subseteq Slots \ Pending, ObjPatch(self, from, kinds)
  PROVE  Inv' /\ Seen' = Seen
<1>. DEFINE e == [Call("patch", self, from, NULL) EXCEPT
                    !.todo = {s \in Present : s[1] = from /\ s[2] = "property"},
                    !.later = kinds \cap {"prototype"}]
<1>1. /\ count' = Plus(Plus(count, self), from) /\ calls' = <<e>> \o calls
      /\ UNCHANGED <<parent, value, get, set, held, lost, work, fault>>
  BY DEF ObjPatch, tables
<1>2. TypeOK /\ count \in [Objects -> Nat] /\ calls \in Seq(Operations)
  BY DEF Inv, TypeOK
<1>3. e \in Operations /\ e.kind = "patch" /\ e.self = self /\ e.arg = from
  BY DEF Call, Operations, Present, Kinds
<1>. HIDE DEF e
<1>4. Tops(calls', e, calls)
  BY <1>1, <1>2, <1>3, PushCalls
<1>5. ASSUME NEW s \in Waiting(calls, 0) PROVE s[1] \notin {e.self, e.arg}
  <2>1. s \in Pending /\ s \in Slots
    BY <1>2, CallsShape, PendingWaits
  <2>. QED BY <1>3, <2>1 DEF Of
<1>6. calls' \in Seq(Operations) /\ Waiting(calls', 0) = Waiting(calls, 0) /\ Orderly(calls')
  BY <1>3, <1>4, <1>5 DEF Tops, Admits, Inv
<1>7. Seen' = Seen /\ Written' /\ Aged'
  BY <1>1, <1>6, SameSetters, SameParents
<1>8. /\ count' \in [Objects -> Nat]
      /\ \A v \in Objects : count'[v] = count[v] + (Eq(self, v) + Eq(from, v))
  BY <1>1, <1>2, PlusTwo
<1>9. TypeOK'
  BY <1>1, <1>2, <1>6, <1>8 DEF TypeOK
<1>10. ASSUME NEW v \in Objects
       PROVE  (count[v] = held[v] + lost[v] + work[v] + Refs(calls, v) + Stored(v))'
  <2>1. PICK a : a = Weight(e, v)
    OBVIOUS
  <2>2. a \in Nat /\ a = Eq(self, v) + Eq(from, v)
    BY <1>3, <2>1 DEF Eq, Weight
  <2>3. Terms(v)
    BY <1>9, TermsType
  <2>4. Refs(calls', v) = Refs(calls, v) + a
    BY <1>4, <2>1 DEF Tops
  <2>5. a = 0 + 0 + 0 + a + 0
    BY ONLY <2>2
  <2>6. count'[v] = count[v] + a
    BY <1>8, <2>2
  <2>7. /\ held'[v] = held[v] + 0 /\ lost'[v] = lost[v] + 0 /\ work'[v] = work[v] + 0
        /\ Uses(Seen', v) = Uses(Seen, v) + 0
    BY <1>1, <1>7, <2>3 DEF Terms
  <2>8. Moves(v, a, 0, 0, 0, a, 0)
    BY ONLY <2>2, <2>4, <2>5, <2>6, <2>7 DEF Moves
  <2>. QED BY <1>1, <1>9, <2>8, Balance
<1>11. Unlinked'
  <2>1. ASSUME NEW x \in Objects PROVE count'[x] \in Nat /\ count'[x] >= count[x]
    <3>1. Eq(self, x) \in Nat /\ Eq(from, x) \in Nat /\ count[x] \in Nat
          /\ count'[x] = count[x] + (Eq(self, x) + Eq(from, x))
      BY <1>2, <1>8 DEF Eq
    <3>. QED BY <3>1
  <2>. QED BY <1>1, <2>1, NoneFreed
<1>. QED BY <1>6, <1>7, <1>9, <1>10, <1>11 DEF Inv, ObjectCount

\* What a patch assigns to has no setter running.
LEMMA PatchTargetFree ==
  ASSUME Inv, NEW s \in Slots, PatchNext(s)
  PROVE  /\ PatchTarget(s) \in Slots /\ PatchTarget(s) \notin Pending /\ s \notin Pending
         /\ Read(s) \in Values /\ calls # <<>> /\ Caller.kind = "patch"
         /\ Waiting(calls, 0) = Pending
<1>1. /\ calls # <<>> /\ Caller.kind = "patch" /\ s \in Present /\ s[1] = Caller.arg
  BY DEF PatchNext, Patching, Caller
<1>2. TypeOK /\ calls \in Seq(Operations) /\ Orderly(calls) /\ value \in [Slots -> Values \cup {Absent, Uninit}]
  BY DEF Inv, TypeOK
<1>3. Tops(calls, Caller, Tail(calls))
  BY <1>1, <1>2, CallsShape
<1>4. /\ Waiting(calls, 0) = Waiting(Tail(calls), 0) /\ Admits(Caller, Waiting(Tail(calls), 0))
      /\ Caller \in Operations
  BY <1>1, <1>2, <1>3 DEF Tops
<1>5. Pending = Waiting(calls, 0)
  BY <1>2, PendingWaits
<1>6. \A t \in Pending : t[1] # Caller.self /\ t[1] # Caller.arg
  BY <1>1, <1>4, <1>5 DEF Admits
<1>7. PatchTarget(s) \in Slots /\ PatchTarget(s)[1] = Caller.self
  <2>1. Caller.self \in Objs /\ s[2] \in Kinds /\ s[3] \in Names
    BY <1>4, SlotShape DEF Operations
  <2>. QED BY <2>1 DEF PatchTarget, Slots
<1>8. Read(s) \in Values
  BY <1>1, <1>2, Kinded DEF Read, Present
<1>. QED BY <1>1, <1>5, <1>6, <1>7, <1>8

LEMMA PatchStepKeeps ==
  ASSUME Inv, NEW s \in Slots, PatchStep(s)
  PROVE  /\ Inv'
         /\ \/ Seen' = [Seen EXCEPT ![PatchTarget(s)] = Read(s)]
            \/ Seen' = [Seen EXCEPT ![PatchTarget(s)] = Uninit]
<1>. DEFINE e == [Caller EXCEPT !.done = @ \cup {s}]
            stack == <<e>> \o Tail(calls)
<1>1. PatchNext(s) /\ Assign(PatchTarget(s), Read(s), stack)
  BY DEF PatchStep
<1>2. /\ PatchTarget(s) \in Slots /\ PatchTarget(s) \notin Pending /\ Read(s) \in Values
      /\ calls # <<>> /\ Caller.kind = "patch"
  BY <1>1, PatchTargetFree
<1>3. calls \in Seq(Operations) /\ Orderly(calls) /\ Caller \in Operations
  BY <1>2, CallsShape DEF Inv, TypeOK, Tops
<1>4. /\ e \in Operations /\ e.self = Caller.self /\ e.arg = Caller.arg
      /\ e.kind = Caller.kind /\ e.slot = Caller.slot
  BY <1>2, <1>3 DEF Operations
<1>. HIDE DEF e
<1>5. /\ stack \in Seq(Operations) /\ \A o : Refs(stack, o) = Refs(calls, o)
      /\ Waiting(stack, 0) = Waiting(calls, 0) /\ Orderly(stack)
  <2>1. PICK t, r : t = calls /\ r = stack
    OBVIOUS
  <2>2. /\ t \in Seq(Operations) /\ t # <<>> /\ e \in Operations /\ r = <<e>> \o Tail(t) /\ Orderly(t)
        /\ e.self = Head(t).self /\ e.arg = Head(t).arg
        /\ e.kind = Head(t).kind /\ e.slot = Head(t).slot
    BY <1>2, <1>3, <1>4, <2>1 DEF Caller
  <2>3. /\ r \in Seq(Operations) /\ \A o : Refs(r, o) = Refs(t, o)
        /\ Waiting(r, 0) = Waiting(t, 0) /\ Orderly(r)
    BY ONLY <2>2, SwapCalls
  <2>. QED BY <2>1, <2>3
<1>. HIDE DEF stack
<1>6. PICK t, v : t = PatchTarget(s) /\ v = Read(s)
  OBVIOUS
<1>7. t \in Slots /\ t \notin Pending /\ v \in Values /\ Assign(t, v, stack)
  BY <1>1, <1>2, <1>6
<1>8. Inv' /\ (Seen' = [Seen EXCEPT ![t] = v] \/ Seen' = [Seen EXCEPT ![t] = Uninit])
  BY <1>5, <1>7, AssignKeeps
<1>. QED BY <1>6, <1>8

LEMMA ObjSetKeeps ==
  ASSUME Inv, NEW s \in Slots \ Pending, NEW v \in Values, ObjSet(s, v)
  PROVE  /\ Inv'
         /\ \/ Seen' = [Seen EXCEPT ![s] = v] \/ Seen' = [Seen EXCEPT ![s] = Uninit]
<1>1. Assign(s, v, calls)
  BY DEF ObjSet
<1>2. calls \in Seq(Operations) /\ Orderly(calls)
  BY DEF Inv, TypeOK
<1>. QED BY <1>1, <1>2, AssignKeeps

LEMMA DecreaseKeeps ==
  ASSUME Inv, NEW o \in Objects, Decrease(o)
  PROVE  Inv' /\ Seen' = Seen /\ \A x \in Objects : count[x] > 0 <=> count'[x] > 0
<1>1. /\ work[o] > 0 /\ count[o] > work[o]
      /\ count' = [count EXCEPT ![o] = @ - work[o]] /\ work' = [work EXCEPT ![o] = 0]
      /\ UNCHANGED <<parent, value, get, set, held, lost, calls, fault>>
  BY DEF Decrease, tables
<1>2. Seen' = Seen /\ Orderly(calls)' /\ Written' /\ Aged'
  BY <1>1, SameCalls, SameParents
<1>3. TypeOK /\ count \in [Objects -> Nat] /\ work \in [Objects -> Nat]
  BY DEF Inv, TypeOK
<1>4. count[o] - work[o] \in Nat /\ count[o] - work[o] > 0
  BY <1>1, <1>3
<1>5. count' \in [Objects -> Nat] /\ work' \in [Objects -> Nat]
  BY <1>1, <1>3, <1>4
<1>6. TypeOK'
  BY <1>1, <1>3, <1>5 DEF TypeOK
<1>7. ASSUME NEW x \in Objects PROVE count[x] > 0 <=> count'[x] > 0
  <2>1. CASE x = o
    BY <1>1, <1>3, <1>4, <2>1
  <2>2. CASE x # o
    BY <1>1, <1>3, <2>2
  <2>. QED BY <2>1, <2>2
<1>8. Unlinked'
  BY <1>1, <1>3, <1>5, <1>7, Kinded DEF Inv, Unlinked
<1>9. ASSUME NEW v \in Objects
      PROVE  (count[v] = held[v] + lost[v] + work[v] + Refs(calls, v) + Stored(v))'
  <2>1. Terms(v)
    BY <1>6, TermsType
  <2>2. PICK w : w = IF v = o THEN work[v] ELSE 0
    OBVIOUS
  <2>3. w \in Nat /\ 0 - w \in Int /\ 0 - w = 0 + 0 + (0 - w) + 0 + 0
    <3>1. w \in Nat
      BY <2>1, <2>2 DEF Terms
    <3>. QED BY ONLY <3>1
  <2>4. count'[v] = count[v] + (0 - w) /\ work'[v] = work[v] + (0 - w)
    <3>1. CASE v = o
      BY <1>1, <1>3, <2>1, <2>2, <3>1 DEF Terms
    <3>2. CASE v # o
      BY <1>1, <1>3, <2>1, <2>2, <3>2 DEF Terms
    <3>. QED BY <3>1, <3>2
  <2>5. /\ held'[v] = held[v] + 0 /\ lost'[v] = lost[v] + 0 /\ Refs(calls', v) = Refs(calls, v) + 0
        /\ Uses(Seen', v) = Uses(Seen, v) + 0
    BY <1>1, <1>2, <2>1 DEF Terms
  <2>6. Moves(v, 0 - w, 0, 0, 0 - w, 0, 0)
    BY ONLY <2>3, <2>4, <2>5 DEF Moves
  <2>. QED BY <1>1, <1>6, <2>6, Balance
<1>. QED BY <1>2, <1>6, <1>7, <1>8, <1>9 DEF Inv, ObjectCount

\* An object whose setters run is alive: the operations in progress refer to it.
LEMMA PendingOwners ==
  ASSUME Inv, NEW s \in Pending
  PROVE  s \in Slots /\ \E i \in DOMAIN calls : calls[i].self = s[1]
<1>1. PICK i \in DOMAIN calls : calls[i].kind = "set" /\ calls[i].slot = s
  BY DEF Pending
<1>2. calls[i].slot[1] = calls[i].self
  BY <1>1 DEF Inv, Orderly, Admits
<1>. QED BY <1>1, <1>2, CallsShape DEF Inv

LEMMA DestroyKeeps ==
  ASSUME Inv, NEW o \in Objects, Destroy(o)
  PROVE  /\ Inv' /\ Of(o) \cap Pending = {} /\ Pending' = Pending
         /\ Seen' = [s \in Slots |-> IF s \in Of(o) THEN Absent ELSE Seen[s]]
         /\ \A x \in Objects : count'[x] > 0 <=> count[x] > 0 /\ x # o
<1>1. /\ count[o] = work[o]
      /\ count' = [count EXCEPT ![o] = 0]
      /\ work' = [v \in Objects |-> (IF v = o THEN 0 ELSE work[v]) + Owned(o, v)]
      /\ lost' = [v \in Objects |-> lost[v] + Unowned(o, v)]
      /\ value' = [s \in Slots |-> IF s \in Of(o) THEN Absent ELSE value[s]]
      /\ get' = [s \in Slots |-> IF s \in Of(o) THEN NULL ELSE get[s]]
      /\ set' = [s \in Slots |-> IF s \in Of(o) THEN NULL ELSE set[s]]
      /\ parent' = [p \in Objs |-> IF p = o THEN NULL ELSE parent[p]]
      /\ UNCHANGED <<held, calls, fault>>
  BY DEF Destroy
<1>2. /\ TypeOK /\ count \in [Objects -> Nat] /\ work \in [Objects -> Nat] /\ lost \in [Objects -> Nat]
      /\ value \in [Slots -> Values \cup {Absent, Uninit}] /\ parent \in [Objs -> Objs \cup {NULL}]
      /\ get \in [Slots -> Funcs \cup {NULL}] /\ set \in [Slots -> Funcs \cup {NULL}]
  BY DEF Inv, TypeOK
<1>3. Pending' = Pending /\ Orderly(calls)'
  BY <1>1 DEF Pending, Inv, Orderly
<1>4. Of(o) \cap Pending = {} /\ Of(o) \subseteq Slots
  <2>1. \A i \in DOMAIN calls : calls[i].self # o
    BY <1>1, Living DEF Inv
  <2>2. \A s \in Pending : s[1] # o
    BY <2>1, PendingOwners
  <2>. QED BY <2>2 DEF Of
<1>5. Seen' = [s \in Slots |-> IF s \in Of(o) THEN Absent ELSE Seen[s]]
  BY <1>1, <1>3, <1>4 DEF Seen
<1>6. \A s \in Of(o) : Read(s) = Seen[s]
  BY <1>4 DEF Read, Seen, Inv, Written
<1>7. Written'
  BY <1>1, <1>3, <1>4, Kinded DEF Inv, Written
<1>8. Aged'
  <2>1. PICK age \in [Objs -> Nat] : \A q \in Objs : parent[q] # NULL => age[parent[q]] < age[q]
    BY DEF Inv, Aged
  <2>. QED BY <1>1, <2>1 DEF Aged
<1>9. \A x \in Objects : count'[x] > 0 <=> count[x] > 0 /\ x # o
  BY <1>1, <1>2
<1>10. Unlinked'
  <2>1. ASSUME NEW q \in Objs, count'[q] = 0 PROVE parent'[q] = NULL
    <3>1. q = o \/ count[q] = 0
      BY <1>1, <1>2, <2>1, Kinded
    <3>. QED BY <1>1, <3>1 DEF Inv, Unlinked
  <2>. QED BY <2>1 DEF Unlinked
<1>. DEFINE S(v) == Cardinality({s \in Of(o) : Seen[s] = v})
            P(v) == Cardinality({p \in {o} \cap Objs : parent[p] = v})
            G(v) == Cardinality({s \in Of(o) : get[s] = v})
            T(v) == Cardinality({s \in Of(o) : set[s] = v})
<1>11. ASSUME NEW v PROVE Owned(o, v) = S(v) + P(v) /\ Unowned(o, v) = G(v) + T(v)
  <2>1. {s \in Of(o) : Read(s) = v} = {s \in Of(o) : Seen[s] = v}
    BY <1>6
  <2>. QED BY <2>1 DEF Owned, Unowned
<1>12. ASSUME NEW v PROVE S(v) \in Nat /\ P(v) \in Nat /\ G(v) \in Nat /\ T(v) \in Nat
  <2>1. /\ {s \in Of(o) : Seen[s] = v} \in SUBSET Slots /\ {s \in Of(o) : get[s] = v} \in SUBSET Slots
        /\ {s \in Of(o) : set[s] = v} \in SUBSET Slots
        /\ {p \in {o} \cap Objs : parent[p] = v} \in SUBSET Objs
    BY <1>4
  <2>. QED BY <2>1, SlotsFinite, SlotsAssumption, FS_Subset, FS_CardinalityType
<1>13. ASSUME NEW v \in Objects
       PROVE  /\ Uses(Seen, v) = Uses(Seen', v) + S(v) /\ Uses(get, v) = Uses(get', v) + G(v)
              /\ Uses(set, v) = Uses(set', v) + T(v) /\ Uses(parent, v) = Uses(parent', v) + P(v)
  <2>1. /\ DOMAIN Seen = Slots /\ DOMAIN Seen' = Slots /\ DOMAIN get = Slots /\ DOMAIN get' = Slots
        /\ DOMAIN set = Slots /\ DOMAIN set' = Slots /\ DOMAIN parent = Objs /\ DOMAIN parent' = Objs
    BY <1>1, <1>2 DEF Seen
  <2>2. /\ \A s \in Slots \ Of(o) : Seen'[s] = Seen[s] /\ get'[s] = get[s] /\ set'[s] = set[s]
        /\ \A s \in Of(o) : Seen'[s] # v /\ get'[s] # v /\ set'[s] # v
    BY <1>1, <1>4, <1>5, Kinded
  <2>3. Uses(Seen, v) = Uses(Seen', v) + S(v)
    <3>1. Cleared(Seen, Seen', Of(o), v)
      BY <1>4, <2>1, <2>2, SlotsFinite DEF Cleared
    <3>. QED BY <3>1, UsesCleared
  <2>4. Uses(get, v) = Uses(get', v) + G(v)
    <3>1. Cleared(get, get', Of(o), v)
      BY <1>4, <2>1, <2>2, SlotsFinite DEF Cleared
    <3>. QED BY <3>1, UsesCleared
  <2>5. Uses(set, v) = Uses(set', v) + T(v)
    <3>1. Cleared(set, set', Of(o), v)
      BY <1>4, <2>1, <2>2, SlotsFinite DEF Cleared
    <3>. QED BY <3>1, UsesCleared
  <2>6. /\ \A p \in Objs \ ({o} \cap Objs) : parent'[p] = parent[p]
        /\ \A p \in {o} \cap Objs : parent'[p] # v
    BY <1>1, Kinded
  <2>7. Uses(parent, v) = Uses(parent', v) + P(v)
    <3>1. PICK D : D = {o} \cap Objs
      OBVIOUS
    <3>2. Cleared(parent, parent', D, v)
      BY <2>1, <2>6, <3>1, SlotsAssumption DEF Cleared
    <3>3. Uses(parent, v) = Uses(parent', v) + Cardinality({p \in D : parent[p] = v})
      BY <3>2, UsesCleared
    <3>. QED BY <3>1, <3>3
  <2>. QED BY <2>3, <2>4, <2>5, <2>7
<1>. HIDE DEF S, P, G, T
<1>14. work' \in [Objects -> Nat] /\ \A v \in Objects : work'[v] = (IF v = o THEN 0 ELSE work[v]) + (S(v) + P(v))
  BY <1>1, <1>2, <1>11, <1>12
<1>15. lost' \in [Objects -> Nat] /\ \A v \in Objects : lost'[v] = lost[v] + (G(v) + T(v))
  BY <1>1, <1>2, <1>11, <1>12
<1>16. TypeOK'
  <2>1. count' \in [Objects -> Nat]
    BY <1>1, <1>2
  <2>2. parent' \in [Objs -> Objs \cup {NULL}] /\ value' \in [Slots -> Values \cup {Absent, Uninit}]
    BY <1>1, <1>2
  <2>3. get' \in [Slots -> Funcs \cup {NULL}] /\ set' \in [Slots -> Funcs \cup {NULL}]
    BY <1>1, <1>2
  <2>. QED BY <1>1, <1>2, <1>14, <1>15, <2>1, <2>2, <2>3 DEF TypeOK
<1>17. ASSUME NEW v \in Objects
       PROVE  (count[v] = held[v] + lost[v] + work[v] + Refs(calls, v) + Stored(v))'
  <2>1. Terms(v)
    BY <1>16, TermsType
  <2>2. PICK a, b, c, d, w : /\ a = S(v) /\ b = P(v) /\ c = G(v) /\ d = T(v)
                             /\ w = IF v = o THEN work[v] ELSE 0
    OBVIOUS
  <2>3. a \in Nat /\ b \in Nat /\ c \in Nat /\ d \in Nat /\ w \in Nat
    BY <1>12, <2>1, <2>2 DEF Terms
  <2>4. PICK l, m, n1, n2, n3, n4 :
          l = c + d /\ m = (a + b) - w /\ n1 = 0 - a /\ n2 = 0 - b /\ n3 = 0 - c /\ n4 = 0 - d
    OBVIOUS
  <2>5. /\ {0, l, m, 0, n1, n3, n4, n2} \subseteq Int
        /\ 0 - w = 0 + l + m + 0 + n1 + n3 + n4 + n2
    BY ONLY <2>3, <2>4
  <2>6. count'[v] = count[v] + (0 - w)
    <3>1. CASE v = o
      <4>1. count'[v] = 0 /\ count[v] = w
        BY <1>1, <1>2, <2>2, <3>1
      <4>. QED BY <2>3, <4>1
    <3>2. CASE v # o
      <4>1. count'[v] = count[v] /\ w = 0 /\ count[v] \in Nat
        BY <1>1, <1>2, <2>2, <3>2
      <4>. QED BY <4>1
    <3>. QED BY <3>1, <3>2
  <2>7. work'[v] = work[v] + m
    <3>1. work'[v] = (IF v = o THEN 0 ELSE work[v]) + (a + b) /\ work[v] \in Nat
      BY <1>2, <1>14, <2>2
    <3>2. PICK y, z : y = work[v] /\ z = IF v = o THEN 0 ELSE work[v]
      OBVIOUS
    <3>3. z = y - w /\ y \in Nat /\ work'[v] = z + (a + b)
      BY <2>2, <3>1, <3>2
    <3>4. z + (a + b) = y + m
      BY ONLY <2>3, <2>4, <3>3
    <3>. QED BY <3>2, <3>3, <3>4
  <2>8. lost'[v] = lost[v] + l
    BY <1>15, <2>2, <2>4
  <2>9. held'[v] = held[v] + 0 /\ Refs(calls', v) = Refs(calls, v) + 0
    BY <1>1, <2>1 DEF Terms
  <2>10. Uses(Seen', v) = Uses(Seen, v) + n1
    <3>1. Uses(Seen, v) = Uses(Seen', v) + a
      BY <1>13, <2>2
    <3>. QED BY ONLY <2>1, <2>3, <2>4, <3>1 DEF Terms
  <2>11. Uses(get', v) = Uses(get, v) + n3
    <3>1. Uses(get, v) = Uses(get', v) + c
      BY <1>13, <2>2
    <3>. QED BY ONLY <2>1, <2>3, <2>4, <3>1 DEF Terms
  <2>12. Uses(set', v) = Uses(set, v) + n4
    <3>1. Uses(set, v) = Uses(set', v) + d
      BY <1>13, <2>2
    <3>. QED BY ONLY <2>1, <2>3, <2>4, <3>1 DEF Terms
  <2>13. Uses(parent', v) = Uses(parent, v) + n2
    <3>1. Uses(parent, v) = Uses(parent', v) + b
      BY <1>13, <2>2
    <3>. QED BY ONLY <2>1, <2>3, <2>4, <3>1 DEF Terms
  <2>14. count'[v] = count[v] + (0 + l + m + 0 + n1 + n3 + n4 + n2)
    BY ONLY <2>5, <2>6
  <2>15. Shifts(v, 0, l, m, 0, n1, n3, n4, n2)
    BY ONLY <2>5, <2>7, <2>8, <2>9, <2>10, <2>11, <2>12, <2>13, <2>14 DEF Shifts
  <2>. QED BY <1>16, <2>15, Shift
<1>. QED BY <1>3, <1>4, <1>5, <1>7, <1>8, <1>9, <1>10, <1>16, <1>17 DEF Inv, ObjectCount

LEMMA InvStep == Inv /\ [CarefulNext]_vars => Inv'
<1>. SUFFICES ASSUME Inv, [CarefulNext]_vars PROVE Inv'
  OBVIOUS
<1>1. CASE UNCHANGED vars
  <2>1. UNCHANGED <<parent, value, get, set, count, held, lost, work, calls, fault>>
    BY <1>1 DEF vars
  <2>2. Seen' = Seen /\ Orderly(calls)' /\ Written' /\ Aged'
    BY <2>1, SameCalls, SameParents
  <2>3. TypeOK' /\ Unlinked'
    BY <2>1 DEF Inv, TypeOK, Unlinked
  <2>4. ObjectCount'
    BY <2>1 DEF Inv, ObjectCount, Stored, Pending
  <2>. QED BY <2>2, <2>3, <2>4 DEF Inv
<1>2. ASSUME NEW o \in Objects, NEW p \in Objs \cup {NULL}, ObjClone(o, p) PROVE Inv'
  BY <1>2, CloneKeeps
<1>3. ASSUME NEW o \in Objects, ObjRelease(o) PROVE Inv'
  BY <1>3, ReleaseKeeps
<1>4. ASSUME NEW o \in Objs, NEW s \in Slots \ Pending, GetStored(s) \/ GetCalls(o, s) \/ GetMetadata(s)
      PROVE  Inv'
  BY <1>4, TakeKeeps, GetCallsKeeps DEF GetStored, GetMetadata
<1>5. ASSUME NEW s \in Present \ Pending, NEW f \in Funcs, NEW table, SetMetadata(s, table, f)
      PROVE  Inv'
  BY <1>5, SetMetadataKeeps
<1>6. ASSUME NEW s \in Slots \ Pending, NEW v \in Values, ObjSet(s, v) PROVE Inv'
  BY <1>6, ObjSetKeeps
<1>7. ASSUME GetterReturns PROVE Inv'
  BY <1>7, GetterReturnsKeeps
<1>8. ASSUME NEW r \in Values, SetterReturns(r) PROVE Inv'
  BY <1>8, SetterReturnsKeeps
<1>9. ASSUME Caller.slot \in Slots \ Pending, AccessorThrows PROVE Inv'
  BY <1>9, AccessorThrowsKeeps
<1>10. ASSUME NEW self \in Objs, NEW from \in Objs, NEW kinds,
              Of(self) \cup Of(from) \subseteq Slots \ Pending, ObjPatch(self, from, kinds)
       PROVE  Inv'
  BY <1>10, ObjPatchKeeps
<1>11. ASSUME NEW o \in Objects, Decrease(o) \/ Destroy(o) PROVE Inv'
  BY <1>11, DecreaseKeeps, DestroyKeeps
<1>12. ASSUME NEW s \in Slots, PatchStep(s) PROVE Inv'
  BY <1>12, PatchStepKeeps
<1>13. ASSUME PatchDone PROVE Inv'
  BY <1>13, PatchDoneKeeps
<1>14. ASSUME PatchPrototypes PROVE Inv'
  BY <1>14, PatchPrototypesKeeps
<1>15. CASE Program(Slots \ Pending, Present \ Pending)
  BY <1>2, <1>3, <1>4, <1>5, <1>6, <1>7, <1>8, <1>9, <1>10, <1>15 DEF Program
<1>16. CASE Continue
  BY <1>11, <1>12, <1>13, <1>14, <1>16 DEF Continue
<1>. QED BY <1>1, <1>15, <1>16 DEF CarefulNext

THEOREM Invariance == CarefulSpec => []Inv
<1>1. Init => Inv
  BY InitInv
<1>2. Inv /\ [CarefulNext]_vars => Inv'
  BY InvStep
<1>. QED BY <1>1, <1>2, PTL DEF CarefulSpec

(* Every table and every operation in progress has its type: an entry never  *)
(* holds anything but an object, "undefined", or memory not yet written.     *)
THEOREM TypeCorrect == CarefulSpec => []TypeOK
<1>1. Inv => TypeOK
  BY DEF Inv
<1>. QED BY <1>1, Invariance, PTL

(* The retain_count of every object is the number of references to it, over  *)
(* any interleaving of getters, setters, patches, errors and releases        *)
(* (sol.c:46-139, 299-513).                                                  *)
THEOREM ReferencesCounted == CarefulSpec => []ObjectCount
<1>1. Inv => ObjectCount
  BY DEF Inv
<1>. QED BY <1>1, Invariance, PTL

(* No operation of a careful program meets an entry that was freed or never  *)
(* written, and no object is released more often than it was retained.       *)
Whole ==
  /\ \A s \in Slots \ Pending : ~Dangling(s)
  /\ \A o \in Objects : work[o] <= count[o]

THEOREM NothingDangles == CarefulSpec => []Whole
<1>1. Inv => Whole
  <2>1. SUFFICES ASSUME Inv PROVE Whole
    OBVIOUS
  <2>2. ASSUME NEW s \in Slots \ Pending PROVE ~Dangling(s)
    <3>1. value[s] # Uninit /\ Seen[s] = value[s]
      BY <2>1, <2>2 DEF Inv, Written, Seen
    <3>2. ASSUME value[s] \in Objects PROVE count[value[s]] # 0
      <4>1. Referring(value[s])
        BY <3>1 DEF Referring
      <4>2. count[value[s]] > 0
        BY <2>1, <3>2, <4>1, Living DEF Inv
      <4>. QED BY <4>2
    <3>. QED BY <3>1, <3>2 DEF Dangling
  <2>3. ASSUME NEW o \in Objects PROVE work[o] <= count[o]
    <3>1. /\ count[o] = held[o] + lost[o] + work[o] + Refs(calls, o) + Stored(o)
          /\ count[o] \in Nat /\ held[o] \in Nat /\ lost[o] \in Nat /\ work[o] \in Nat
          /\ calls \in Seq(Operations)
      BY <2>1 DEF Inv, ObjectCount, TypeOK
    <3>2. Refs(calls, o) \in Nat /\ Stored(o) \in Nat
      <4>1. parent \in [Objs -> Objs \cup {NULL}] /\ get \in [Slots -> Funcs \cup {NULL}]
            /\ set \in [Slots -> Funcs \cup {NULL}]
        BY <2>1 DEF Inv, TypeOK
      <4>2. Stored(o) \in Nat
        BY <4>1, StoredUses
      <4>. QED BY <3>1, <4>2, RefsHits
    <3>. QED BY ONLY <3>1, <3>2
  <2>. QED BY <2>2, <2>3 DEF Whole
<1>. QED BY <1>1, Invariance, PTL

-----------------------------------------------------------------------------
(* Lookups: GetSlot finds the slot whose value SolStore's Lookup gives.    *)

\* w is o and then parent after parent, in pr, then NULL.
Climbs(w, o, pr) ==
  /\ w = [k \in Nat |-> w[k]]
  /\ \A k \in Nat : w[k] = IF k = 0 THEN o ELSE IF w[k-1] = NULL THEN NULL ELSE pr[w[k-1]]

LEMMA ClimbsExists == \A o, pr : \E w : Climbs(w, o, pr)
<1>. SUFFICES ASSUME NEW o, NEW pr PROVE \E w : Climbs(w, o, pr)
  OBVIOUS
<1>. DEFINE Step(g, k) == IF k = 0 THEN o ELSE IF g[k-1] = NULL THEN NULL ELSE pr[g[k-1]]
            Starts(g, k) == \A i \in 0 .. k : g[i] = Step(g, i)
            Some == {k \in Nat : \E g : Starts(g, k)}
            One == {k \in Nat : \A g, h : Starts(g, k) /\ Starts(h, k) => g[k] = h[k]}
<1>1. Nat \subseteq Some
  <2>1. 0 \in Some
    <3>1. Starts([i \in {0} |-> o], 0)
      OBVIOUS
    <3>. QED BY <3>1
  <2>2. ASSUME NEW k \in Nat, k \in Some PROVE k + 1 \in Some
    <3>1. PICK g : Starts(g, k)
      BY <2>2
    <3>2. PICK z : z = IF g[k] = NULL THEN NULL ELSE pr[g[k]]
      OBVIOUS
    <3>3. PICK h : h = [i \in 0 .. k + 1 |-> IF i <= k THEN g[i] ELSE z]
      OBVIOUS
    <3>4. ASSUME NEW i \in 0 .. k + 1 PROVE h[i] = Step(h, i)
      <4>1. CASE i = k + 1
        <5>1. h[i] = z /\ h[k] = g[k] /\ i # 0 /\ i - 1 = k
          BY <3>3, <4>1
        <5>. QED BY <5>1, <3>2
      <4>2. CASE i # k + 1 /\ i # 0
        <5>1. i \in 0 .. k /\ h[i] = g[i] /\ h[i-1] = g[i-1]
          BY <3>3, <4>2
        <5>2. g[i] = Step(g, i)
          BY <3>1, <5>1
        <5>. QED BY <5>1, <5>2, <4>2
      <4>3. CASE i # k + 1 /\ i = 0
        <5>1. i \in 0 .. k /\ h[i] = g[i]
          BY <3>3, <4>3
        <5>2. g[i] = Step(g, i)
          BY <3>1, <5>1
        <5>. QED BY <5>1, <5>2, <4>3
      <4>. QED BY <4>1, <4>2, <4>3
    <3>5. Starts(h, k + 1)
      BY <3>4
    <3>. HIDE DEF Starts
    <3>. QED BY <3>5
  <2>. HIDE DEF Some
  <2>. QED BY <2>1, <2>2, SetInduction
<1>2. Nat \subseteq One
  <2>1. 0 \in One
    OBVIOUS
  <2>2. ASSUME NEW k \in Nat, k \in One PROVE k + 1 \in One
    <3>1. SUFFICES ASSUME NEW g, NEW h, Starts(g, k + 1), Starts(h, k + 1)
                   PROVE  g[k+1] = h[k+1]
      OBVIOUS
    <3>2. Starts(g, k) /\ Starts(h, k)
      BY <3>1
    <3>3. g[k] = h[k]
      BY <2>2, <3>2
    <3>4. k + 1 \in 0 .. k + 1 /\ k + 1 # 0 /\ (k + 1) - 1 = k
      OBVIOUS
    <3>. QED BY <3>1, <3>3, <3>4
  <2>. HIDE DEF One
  <2>. QED BY <2>1, <2>2, SetInduction
<1>. DEFINE G(k) == CHOOSE g : Starts(g, k)
            w == [k \in Nat |-> G(k)[k]]
<1>3. ASSUME NEW k \in Nat PROVE Starts(G(k), k)
  <2>1. \E g : Starts(g, k)
    BY <1>1
  <2>. HIDE DEF Starts
  <2>. QED BY <2>1
<1>4. ASSUME NEW k \in Nat PROVE w[k] = Step(w, k)
  <2>1. G(k)[k] = Step(G(k), k)
    BY <1>3
  <2>. HIDE DEF G
  <2>2. CASE k = 0
    BY <2>1, <2>2
  <2>3. CASE k # 0
    <3>1. k - 1 \in Nat
      BY <2>3
    <3>2. Starts(G(k), k - 1) /\ Starts(G(k-1), k - 1)
      BY <1>3, <3>1
    <3>3. G(k)[k-1] = G(k-1)[k-1]
      BY <1>2, <3>1, <3>2
    <3>. QED BY <2>1, <2>3, <3>1, <3>3
  <2>. QED BY <2>2, <2>3
<1>5. w = [k \in Nat |-> w[k]]
  OBVIOUS
<1>. HIDE DEF w
<1>. QED BY <1>4, <1>5 DEF Climbs

LEMMA StoreLineage ==
  ASSUME NEW o
  PROVE  Climbs(Store!Lineage(o), o, parent)
<1>. DEFINE w == CHOOSE u : u = [k \in Nat |-> IF k = 0 THEN o ELSE IF u[k-1] = NULL THEN NULL ELSE parent[u[k-1]]]
<1>1. Store!Lineage(o) = w
  BY Zenon DEF Store!Lineage
<1>2. \E u : u = [k \in Nat |-> IF k = 0 THEN o ELSE IF u[k-1] = NULL THEN NULL ELSE parent[u[k-1]]]
  <2>1. PICK u : Climbs(u, o, parent)
    BY ClimbsExists
  <2>2. u = [k \in Nat |-> IF k = 0 THEN o ELSE IF u[k-1] = NULL THEN NULL ELSE parent[u[k-1]]]
    BY <2>1 DEF Climbs
  <2>. QED BY <2>2, Zenon
<1>3. w = [k \in Nat |-> IF k = 0 THEN o ELSE IF w[k-1] = NULL THEN NULL ELSE parent[w[k-1]]]
  BY <1>2, Zenon
<1>. HIDE DEF w
<1>4. Climbs(w, o, parent)
  BY <1>3 DEF Climbs
<1>. QED BY <1>1, <1>4

\* Both modules climb from parent to parent, as far as SolObj does.
LEMMA SameLineage ==
  ASSUME NEW o
  PROVE  \A k \in 0 .. Cardinality(Objs) : Lineage(o)[k] = Store!Lineage(o)[k]
<1>. DEFINE w == CHOOSE u : u = [k \in 0 .. Cardinality(Objs) |->
                    IF k = 0 THEN o ELSE IF u[k-1] = NULL THEN NULL ELSE parent[u[k-1]]]
<1>1. Lineage(o) = w
  BY Zenon DEF Lineage
<1>2. PICK c : c = Cardinality(Objs)
  OBVIOUS
<1>3. c \in Nat
  BY <1>2, SlotsAssumption, FS_CardinalityType
<1>4. PICK v : Climbs(v, o, parent) /\ v = Store!Lineage(o)
  BY StoreLineage
<1>5. \E u : u = [k \in 0 .. c |-> IF k = 0 THEN o ELSE IF u[k-1] = NULL THEN NULL ELSE parent[u[k-1]]]
  <2>1. PICK u : u = [k \in 0 .. c |-> v[k]]
    OBVIOUS
  <2>2. ASSUME NEW k \in 0 .. c
        PROVE  u[k] = IF k = 0 THEN o ELSE IF u[k-1] = NULL THEN NULL ELSE parent[u[k-1]]
    <3>1. CASE k = 0
      BY <1>3, <1>4, <2>1, <3>1 DEF Climbs
    <3>2. CASE k # 0
      <4>1. k \in Nat /\ k - 1 \in 0 .. c
        BY <1>3, <3>2
      <4>2. u[k] = v[k] /\ u[k-1] = v[k-1]
        BY <2>1, <4>1
      <4>. QED BY <1>4, <3>2, <4>1, <4>2 DEF Climbs
    <3>. QED BY <3>1, <3>2
  <2>3. u = [k \in 0 .. c |-> IF k = 0 THEN o ELSE IF u[k-1] = NULL THEN NULL ELSE parent[u[k-1]]]
    BY <2>1, <2>2
  <2>. QED BY <2>3, Zenon
<1>6. w = [k \in 0 .. c |-> IF k = 0 THEN o ELSE IF w[k-1] = NULL THEN NULL ELSE parent[w[k-1]]]
  BY <1>2, <1>5, Zenon
<1>. HIDE DEF w
<1>. DEFINE S == {k \in Nat : k \in 0 .. c => w[k] = v[k]}
<1>7. 0 \in S
  BY <1>3, <1>4, <1>6 DEF Climbs
<1>8. ASSUME NEW k \in Nat, k \in S PROVE k + 1 \in S
  <2>1. SUFFICES ASSUME k + 1 \in 0 .. c PROVE w[k+1] = v[k+1]
    OBVIOUS
  <2>2. k \in 0 .. c /\ k + 1 \in Nat /\ k + 1 # 0 /\ (k + 1) - 1 = k
    BY <1>3, <2>1
  <2>3. w[k] = v[k]
    BY <1>8, <2>2
  <2>4. v[k+1] = IF v[k] = NULL THEN NULL ELSE parent[v[k]]
    <3>1. v[k+1] = IF k + 1 = 0 THEN o ELSE IF v[(k+1)-1] = NULL THEN NULL ELSE parent[v[(k+1)-1]]
      BY <1>4, <2>2 DEF Climbs
    <3>. QED BY <2>2, <3>1
  <2>5. w[k+1] = IF w[k] = NULL THEN NULL ELSE parent[w[k]]
    <3>1. w[k+1] = IF k + 1 = 0 THEN o ELSE IF w[(k+1)-1] = NULL THEN NULL ELSE parent[w[(k+1)-1]]
      BY <1>6, <2>1
    <3>. QED BY <2>2, <3>1
  <2>. QED BY <2>3, <2>4, <2>5
<1>. HIDE DEF S
<1>9. Nat \subseteq S
  BY <1>7, <1>8, SetInduction
<1>. QED BY <1>1, <1>2, <1>3, <1>4, <1>9 DEF S

\* A search that goes up from 0, and stops at the first number in stops.
Searches(f, stops, found) ==
  /\ f = [k \in Nat |-> f[k]]
  /\ \A k \in Nat : f[k] = IF k \in stops THEN found[k] ELSE f[k+1]

LEMMA SearchExists == \A stops, found : \E f : Searches(f, stops, found)
<1>. SUFFICES ASSUME NEW stops, NEW found PROVE \E f : Searches(f, stops, found)
  OBVIOUS
<1>. DEFINE E(k) == {j \in Nat : j >= k /\ j \in stops}
            First(S) == CHOOSE j \in S : \A i \in S : j <= i
<1>1. PICK f : f = [k \in Nat |-> found[First(E(k))]]
  OBVIOUS
<1>2. ASSUME NEW k \in Nat PROVE f[k] = IF k \in stops THEN found[k] ELSE f[k+1]
  <2>1. CASE k \in stops
    <3>1. k \in E(k) /\ \A i \in E(k) : k <= i
      BY <2>1
    <3>2. \A j \in E(k) : (\A i \in E(k) : j <= i) => j = k
      <4>1. TAKE j \in E(k)
      <4>2. j \in Nat /\ j >= k
        OBVIOUS
      <4>3. HAVE \A i \in E(k) : j <= i
      <4>4. j <= k
        BY <3>1, <4>3
      <4>. QED BY ONLY <4>2, <4>4, k \in Nat
    <3>. HIDE DEF E
    <3>3. First(E(k)) \in E(k) /\ \A i \in E(k) : First(E(k)) <= i
      BY <3>1
    <3>4. First(E(k)) = k
      BY <3>2, <3>3
    <3>. HIDE DEF First
    <3>. QED BY <1>1, <2>1, <3>4
  <2>2. CASE k \notin stops
    <3>1. E(k) = E(k + 1)
      <4>1. \A j \in Nat : j \in stops => (j >= k <=> j >= k + 1)
        <5>1. \A j \in Nat : j # k => (j >= k <=> j >= k + 1)
          OBVIOUS
        <5>. QED BY <2>2, <5>1
      <4>. QED BY <4>1
    <3>. HIDE DEF E, First
    <3>2. k + 1 \in Nat /\ f[k] = found[First(E(k))] /\ f[k+1] = found[First(E(k + 1))]
      BY <1>1
    <3>. QED BY <2>2, <3>1, <3>2
  <2>. QED BY <2>1, <2>2
<1>3. f = [k \in Nat |-> f[k]]
  BY <1>1
<1>. QED BY <1>2, <1>3 DEF Searches

LEMMA SearchFinds ==
  ASSUME NEW f, NEW stops, NEW found, Searches(f, stops, found), NEW i \in Nat, i \in stops,
         \A j \in Nat : j < i => j \notin stops
  PROVE  f[0] = found[i]
<1>. DEFINE S == {k \in Nat : k <= i => f[k] = f[0]}
<1>1. 0 \in S
  OBVIOUS
<1>2. ASSUME NEW k \in Nat, k \in S PROVE k + 1 \in S
  <2>1. SUFFICES ASSUME k + 1 <= i PROVE f[k+1] = f[0]
    OBVIOUS
  <2>2. k <= i /\ k < i
    BY <2>1
  <2>3. f[k] = f[k+1]
    BY <2>2 DEF Searches
  <2>4. f[k] = f[0]
    BY <1>2, <2>2
  <2>. QED BY <2>3, <2>4
<1>. HIDE DEF S
<1>3. Nat \subseteq S
  BY <1>1, <1>2, SetInduction
<1>4. f[i] = f[0]
  BY <1>3 DEF S
<1>. QED BY <1>4 DEF Searches

\* A slot has an entry exactly if something is known of it.
LEMMA PresentSeen ==
  ASSUME Inv, NEW s \in Slots
  PROVE  /\ s \in Present <=> Seen[s] # Absent
         /\ Seen[s] = Uninit <=> s \in Pending
         /\ Seen[s] # Uninit => Seen[s] = value[s]
BY Kinded DEF Inv, Written, Present, Seen

\* The objects on the way to an ancestor.
LEMMA AncestorsExist ==
  ASSUME TypeOK, NEW o \in Objs, NEW w, Climbs(w, o, parent), NEW i \in Nat, w[i] # NULL
  PROVE  \A j \in 0 .. i : w[j] \in Objs
<1>. DEFINE S == {k \in Nat : w[k] # NULL => \A j \in 0 .. k : w[j] \in Objs}
<1>1. 0 \in S
  BY DEF Climbs
<1>2. ASSUME NEW k \in Nat, k \in S PROVE k + 1 \in S
  <2>1. SUFFICES ASSUME w[k+1] # NULL PROVE \A j \in 0 .. k + 1 : w[j] \in Objs
    OBVIOUS
  <2>2. k + 1 \in Nat /\ k + 1 # 0 /\ (k + 1) - 1 = k
    OBVIOUS
  <2>3. w[k+1] = IF w[k] = NULL THEN NULL ELSE parent[w[k]]
    <3>1. w[k+1] = IF k + 1 = 0 THEN o ELSE IF w[(k+1)-1] = NULL THEN NULL ELSE parent[w[(k+1)-1]]
      BY <2>2 DEF Climbs
    <3>. QED BY <2>2, <3>1
  <2>4. w[k] # NULL /\ w[k+1] = parent[w[k]]
    BY <2>1, <2>3
  <2>5. \A j \in 0 .. k : w[j] \in Objs
    BY <1>2, <2>4
  <2>6. w[k+1] \in Objs
    <3>1. k \in 0 .. k
      OBVIOUS
    <3>. QED BY <2>1, <2>4, <2>5, <3>1 DEF TypeOK
  <2>7. \A j \in 0 .. k + 1 : j \in 0 .. k \/ j = k + 1
    OBVIOUS
  <2>. QED BY <2>5, <2>6, <2>7
<1>. HIDE DEF S
<1>3. Nat \subseteq S
  BY <1>1, <1>2, SetInduction
<1>. QED BY <1>3 DEF S

\* Where no entry of o itself has n, Lookup goes up the lineage to the first
\* object with an entry for its descendants.
LEMMA LookupSearches ==
  ASSUME NEW o \in Objs, NEW n \in Names, Seen[<<o, "property", n>>] = Absent, NEW w, w = Store!Lineage(o)
  PROVE  \E f : /\ Store!Lookup(o, n) = f[0]
                /\ Searches(f, {k \in Nat : w[k] = NULL \/ Seen[<<w[k], "prototype", n>>] # Absent},
                               [k \in Nat |-> IF w[k] = NULL THEN Absent ELSE Seen[<<w[k], "prototype", n>>]])
<1>. DEFINE own == <<o, "property", n>>
            F == CHOOSE f : f = [k \in Nat |->
                   IF Store!Lineage(o)[k] = NULL THEN Absent
                   ELSE IF Store!Lineage(o)[k] # NULL /\ Seen[<<Store!Lineage(o)[k], "prototype", n>>] # Absent
                        THEN Seen[<<Store!Lineage(o)[k], "prototype", n>>]
                   ELSE f[k+1]]
<1>1. Store!Lookup(o, n) = IF Seen[own] # Absent THEN Seen[own] ELSE F[0]
  BY Zenon DEF Store!Lookup, Seen
<1>2. PICK stops : stops = {k \in Nat : w[k] = NULL \/ Seen[<<w[k], "prototype", n>>] # Absent}
  OBVIOUS
<1>3. PICK found : found = [k \in Nat |-> IF w[k] = NULL THEN Absent ELSE Seen[<<w[k], "prototype", n>>]]
  OBVIOUS
<1>4. PICK f : Searches(f, stops, found)
  BY SearchExists
<1>5. f = [k \in Nat |-> IF w[k] = NULL THEN Absent
                         ELSE IF w[k] # NULL /\ Seen[<<w[k], "prototype", n>>] # Absent
                              THEN Seen[<<w[k], "prototype", n>>]
                         ELSE f[k+1]]
  BY <1>2, <1>3, <1>4 DEF Searches
<1>6. F = [k \in Nat |-> IF w[k] = NULL THEN Absent
                         ELSE IF w[k] # NULL /\ Seen[<<w[k], "prototype", n>>] # Absent
                              THEN Seen[<<w[k], "prototype", n>>]
                         ELSE F[k+1]]
  BY <1>5, Zenon
<1>. HIDE DEF F
<1>7. Searches(F, stops, found)
  <2>1. F = [k \in Nat |-> F[k]]
    BY <1>6
  <2>2. \A k \in Nat : F[k] = IF k \in stops THEN found[k] ELSE F[k+1]
    BY <1>2, <1>3, <1>6
  <2>. QED BY <2>1, <2>2 DEF Searches
<1>. QED BY <1>1, <1>2, <1>3, <1>7

\* Where GetSlot looks if no entry of o itself has n.
LEMMA InheritedSlot ==
  ASSUME NEW o \in Objs, NEW n \in Names, <<o, "property", n>> \notin Present,
         NEW w, w = Store!Lineage(o), NEW c, c = Cardinality(Objs)
  PROVE  \/ GetSlot(o, n) = NULL /\ \A k \in 0 .. c : <<w[k], "prototype", n>> \notin Present
         \/ \E i \in 0 .. c : /\ <<w[i], "prototype", n>> \in Present
                              /\ GetSlot(o, n) = <<w[i], "prototype", n>>
                              /\ \A j \in 0 .. c : j < i => <<w[j], "prototype", n>> \notin Present
<1>. DEFINE ProtoSlot(k) == <<Lineage(o)[k], "prototype", n>>
            Levels == {k \in 0 .. Cardinality(Objs) : ProtoSlot(k) \in Present}
            i == CHOOSE k \in Levels : \A j \in Levels : k <= j
<1>1. GetSlot(o, n) = IF Levels = {} THEN NULL ELSE ProtoSlot(i)
  <2>1. GetSlot(o, n) = Inherited(o, n, 0, Present)
    BY Zenon DEF GetSlot
  <2>2. Inherited(o, n, 0, Present) = IF Levels = {} THEN NULL ELSE ProtoSlot(i)
    BY Zenon DEF Inherited
  <2>. QED BY <2>1, <2>2, Zenon
<1>2. c \in Nat /\ \A k \in 0 .. c : Lineage(o)[k] = w[k]
  BY SlotsAssumption, FS_CardinalityType, SameLineage
<1>3. CASE Levels = {}
  BY <1>1, <1>2, <1>3
<1>4. CASE Levels # {}
  <2>1. Levels \in SUBSET Nat
    BY <1>2
  <2>2. i \in Levels /\ \A j \in Levels : i <= j
    <3>. HIDE DEF Levels
    <3>1. \E m \in Levels : \A j \in Levels : m <= j
      BY <1>4, <2>1, Least
    <3>. QED BY <3>1
  <2>3. GetSlot(o, n) = ProtoSlot(i)
    BY <1>1, <1>4
  <2>. HIDE DEF i
  <2>4. i \in 0 .. c /\ ProtoSlot(i) \in Present /\ ProtoSlot(i) = <<w[i], "prototype", n>>
    BY <1>2, <2>2
  <2>5. ASSUME NEW j \in 0 .. c, j < i PROVE <<w[j], "prototype", n>> \notin Present
    <3>1. ~(i <= j)
      BY <1>2, <2>4, <2>5
    <3>2. j \notin Levels
      <4>. HIDE DEF Levels
      <4>. QED BY <2>2, <3>1
    <3>. QED BY <1>2, <3>2
  <2>. QED BY <2>3, <2>4, <2>5
<1>. QED BY <1>3, <1>4

LEMMA LookupFinds ==
  ASSUME Inv, NEW o \in Objs, NEW n \in Names, GetSlot(o, n) \in Present
  PROVE  Store!Lookup(o, n) = Seen[GetSlot(o, n)]
<1>. DEFINE own == <<o, "property", n>>
<1>1. own \in Slots
  BY DEF Slots, Kinds
<1>2. CASE own \in Present
  <2>1. Seen[own] # Absent /\ GetSlot(o, n) = own
    BY <1>1, <1>2, PresentSeen DEF GetSlot
  <2>2. Store!Lookup(o, n) = Seen[own]
    BY <2>1, Zenon DEF Store!Lookup, Seen
  <2>. QED BY <2>1, <2>2
<1>3. CASE own \notin Present
  <2>1. PICK w, c : w = Store!Lineage(o) /\ c = Cardinality(Objs)
    OBVIOUS
  <2>2. c \in Nat /\ Climbs(w, o, parent)
    BY <2>1, SlotsAssumption, FS_CardinalityType, StoreLineage
  <2>3. NULL \notin Present
    BY Kinded DEF Present
  <2>4. PICK i \in 0 .. c : /\ <<w[i], "prototype", n>> \in Present
                            /\ GetSlot(o, n) = <<w[i], "prototype", n>>
                            /\ \A j \in 0 .. c : j < i => <<w[j], "prototype", n>> \notin Present
    BY <1>3, <2>1, <2>3, InheritedSlot
  <2>5. PICK stops : stops = {k \in Nat : w[k] = NULL \/ Seen[<<w[k], "prototype", n>>] # Absent}
    OBVIOUS
  <2>6. PICK found : found = [k \in Nat |-> IF w[k] = NULL THEN Absent ELSE Seen[<<w[k], "prototype", n>>]]
    OBVIOUS
  <2>7. Seen[own] = Absent
    BY <1>1, <1>3, PresentSeen
  <2>8. PICK f : Store!Lookup(o, n) = f[0] /\ Searches(f, stops, found)
    BY <2>1, <2>5, <2>6, <2>7, LookupSearches
  <2>9. i \in Nat /\ w[i] \in Objs /\ w[i] # NULL
    BY <2>2, <2>4, Kinded DEF Present, Slots
  <2>10. \A j \in 0 .. i : w[j] \in Objs /\ w[j] # NULL
    BY <2>2, <2>9, AncestorsExist, Kinded DEF Inv
  <2>11. ASSUME NEW j \in Nat, j < i PROVE j \notin stops
    <3>1. j \in 0 .. c /\ j \in 0 .. i
      BY <2>2, <2>4, <2>9, <2>11
    <3>2. <<w[j], "prototype", n>> \notin Present
      BY <2>4, <2>11, <3>1
    <3>3. <<w[j], "prototype", n>> \in Slots
      BY <2>10, <3>1, SlotShape DEF Kinds
    <3>4. Seen[<<w[j], "prototype", n>>] = Absent
      BY <3>2, <3>3, PresentSeen
    <3>. QED BY <2>5, <2>10, <3>1, <3>4
  <2>12. i \in stops /\ found[i] = Seen[GetSlot(o, n)]
    <3>1. Seen[<<w[i], "prototype", n>>] # Absent
      BY <2>4, PresentSeen DEF Present
    <3>. QED BY <2>4, <2>5, <2>6, <2>9, <3>1
  <2>13. f[0] = found[i]
    BY <2>8, <2>9, <2>11, <2>12, SearchFinds
  <2>. QED BY <2>8, <2>12, <2>13
<1>. QED BY <1>2, <1>3

\* Parents are older, so no lineage is longer than there are objects.
LEMMA LineageEnds ==
  ASSUME Inv, NEW o \in Objs, NEW w, Climbs(w, o, parent), NEW c, c = Cardinality(Objs)
  PROVE  c \in Nat /\ w[c] = NULL
<1>1. c \in Nat /\ IsFiniteSet(Objs)
  BY SlotsAssumption, FS_CardinalityType
<1>2. SUFFICES ASSUME w[c] # NULL PROVE FALSE
  BY <1>1
<1>3. \A j \in 0 .. c : w[j] \in Objs /\ w[j] # NULL
  BY <1>1, <1>2, AncestorsExist, Kinded DEF Inv
<1>4. PICK age \in [Objs -> Nat] : \A q \in Objs : parent[q] # NULL => age[parent[q]] < age[q]
  BY DEF Inv, Aged
<1>5. ASSUME NEW k \in 0 .. c, k # 0 PROVE k - 1 \in 0 .. c /\ age[w[k]] < age[w[k-1]]
  <2>1. k \in Nat /\ k - 1 \in 0 .. c
    BY <1>1, <1>5
  <2>2. w[k] = parent[w[k-1]]
    BY <1>3, <1>5, <2>1 DEF Climbs
  <2>3. w[k-1] \in Objs /\ parent[w[k-1]] # NULL
    BY <1>3, <2>1, <2>2
  <2>. QED BY <1>4, <2>1, <2>2, <2>3
<1>. DEFINE S == {k \in Nat : k \in 0 .. c => \A j \in 0 .. k - 1 : age[w[k]] < age[w[j]]}
<1>6. 0 \in S
  OBVIOUS
<1>7. ASSUME NEW k \in Nat, k \in S PROVE k + 1 \in S
  <2>1. SUFFICES ASSUME k + 1 \in 0 .. c, NEW j \in 0 .. (k + 1) - 1 PROVE age[w[k+1]] < age[w[j]]
    OBVIOUS
  <2>2. k \in 0 .. c /\ j \in 0 .. c /\ k + 1 # 0 /\ (k + 1) - 1 = k
    BY <1>1, <2>1
  <2>3. age[w[k+1]] < age[w[k]]
    BY <1>5, <2>1, <2>2
  <2>4. age[w[k+1]] \in Nat /\ age[w[k]] \in Nat /\ age[w[j]] \in Nat
    BY <1>3, <1>4, <2>1, <2>2
  <2>5. CASE j = k
    BY <2>3, <2>5
  <2>6. CASE j # k
    <3>1. j \in 0 .. k - 1
      BY <2>1, <2>6
    <3>2. age[w[k]] < age[w[j]]
      BY <1>7, <2>2, <3>1
    <3>. QED BY ONLY <2>3, <2>4, <3>2
  <2>. QED BY <2>5, <2>6
<1>. HIDE DEF S
<1>8. Nat \subseteq S
  BY <1>6, <1>7, SetInduction
<1>9. ASSUME NEW j \in 0 .. c, NEW k \in 0 .. c, j < k PROVE w[j] # w[k]
  <2>1. k \in Nat /\ j \in 0 .. k - 1
    BY <1>1, <1>9
  <2>2. age[w[k]] < age[w[j]]
    BY <1>8, <1>9, <2>1 DEF S
  <2>3. age[w[k]] \in Nat
    BY <1>3, <1>4
  <2>. QED BY <2>2, <2>3
<1>10. PICK u : u = [k \in 0 .. c |-> w[k]]
  OBVIOUS
<1>11. u \in Injection(0 .. c, Objs)
  <2>1. u \in [0 .. c -> Objs]
    BY <1>3, <1>10
  <2>2. ASSUME NEW j \in 0 .. c, NEW k \in 0 .. c, u[j] = u[k] PROVE j = k
    <3>1. w[j] = w[k] /\ j \in Int /\ k \in Int
      BY <1>10, <2>2
    <3>2. ~(j < k) /\ ~(k < j)
      BY <1>9, <3>1
    <3>. QED BY <3>1, <3>2
  <2>. QED BY <2>1, <2>2 DEF Injection, IsInjective
<1>12. Cardinality(0 .. c) <= Cardinality(Objs)
  BY <1>1, <1>11, FS_Injection DEF ExistsInjection
<1>13. Cardinality(0 .. c) = c + 1
  <2>1. 0 \in Int /\ c \in Int
    BY <1>1
  <2>2. Cardinality(0 .. c) = IF 0 > c THEN 0 ELSE c - 0 + 1
    BY <2>1, FS_Interval
  <2>. QED BY <1>1, <2>2
<1>. QED BY <1>1, <1>12, <1>13

\* What GetSlot does not find is not there.
LEMMA LookupFails ==
  ASSUME Inv, NEW o \in Objs, NEW n \in Names, GetSlot(o, n) \notin Present
  PROVE  GetSlot(o, n) = NULL /\ Store!Lookup(o, n) = Absent
<1>. DEFINE own == <<o, "property", n>>
<1>1. own \in Slots
  BY DEF Slots, Kinds
<1>2. own \notin Present
  BY DEF GetSlot
<1>3. PICK w, c : w = Store!Lineage(o) /\ c = Cardinality(Objs)
  OBVIOUS
<1>4. c \in Nat /\ Climbs(w, o, parent) /\ w[c] = NULL
  BY <1>3, StoreLineage, LineageEnds
<1>5. GetSlot(o, n) = NULL /\ \A k \in 0 .. c : <<w[k], "prototype", n>> \notin Present
  BY <1>2, <1>3, InheritedSlot
<1>6. PICK stops : stops = {k \in Nat : w[k] = NULL \/ Seen[<<w[k], "prototype", n>>] # Absent}
  OBVIOUS
<1>7. PICK found : found = [k \in Nat |-> IF w[k] = NULL THEN Absent ELSE Seen[<<w[k], "prototype", n>>]]
  OBVIOUS
<1>8. Seen[own] = Absent
  BY <1>1, <1>2, PresentSeen
<1>9. PICK f : Store!Lookup(o, n) = f[0] /\ Searches(f, stops, found)
  BY <1>3, <1>6, <1>7, <1>8, LookupSearches
<1>10. PICK Nulls : Nulls = {k \in Nat : w[k] = NULL}
  OBVIOUS
<1>11. PICK i \in Nulls : \A m \in Nulls : i <= m
  <2>1. Nulls \in SUBSET Nat /\ c \in Nulls
    BY <1>4, <1>10
  <2>. QED BY <2>1, Least
<1>12. i \in Nat /\ w[i] = NULL /\ i <= c
  BY <1>4, <1>10, <1>11
<1>13. ASSUME NEW j \in Nat, j < i PROVE j \notin stops
  <2>1. j \in 0 .. c /\ w[j] # NULL
    BY <1>4, <1>10, <1>11, <1>12, <1>13
  <2>2. w[j] \in Objs
    <3>1. j \in 0 .. j
      OBVIOUS
    <3>. QED BY <1>4, <2>1, <3>1, AncestorsExist DEF Inv
  <2>3. <<w[j], "prototype", n>> \in Slots /\ <<w[j], "prototype", n>> \notin Present
    BY <1>5, <2>1, <2>2, SlotShape DEF Kinds
  <2>4. Seen[<<w[j], "prototype", n>>] = Absent
    BY <2>3, PresentSeen
  <2>. QED BY <1>6, <2>1, <2>4
<1>14. i \in stops /\ found[i] = Absent
  BY <1>6, <1>7, <1>12
<1>15. f[0] = found[i]
  BY <1>9, <1>12, <1>13, <1>14, SearchFinds
<1>. QED BY <1>5, <1>9, <1>14, <1>15

(* sol_obj_get_prop finds a property of o exactly if o or one of its parents *)
(* defines it, and then the nearest definition: the chain of parents never   *)
(* loops, so that the lookup ends (sol.c:299-327).                           *)
LookupsExact ==
  \A o \in Objs, n \in Names :
    Store!Lookup(o, n) = IF GetSlot(o, n) = NULL THEN Absent ELSE Seen[GetSlot(o, n)]

THEOREM LookupsFind == CarefulSpec => []LookupsExact
<1>1. Inv => LookupsExact
  <2>1. SUFFICES ASSUME Inv, NEW o \in Objs, NEW n \in Names
                 PROVE  Store!Lookup(o, n) = IF GetSlot(o, n) = NULL THEN Absent ELSE Seen[GetSlot(o, n)]
    BY DEF LookupsExact
  <2>2. CASE GetSlot(o, n) \in Present
    <3>1. GetSlot(o, n) # NULL
      BY <2>2, Kinded DEF Present
    <3>. QED BY <2>1, <2>2, <3>1, LookupFinds
  <2>3. CASE GetSlot(o, n) \notin Present
    BY <2>1, <2>3, LookupFails
  <2>. QED BY <2>2, <2>3
<1>. QED BY <1>1, Invariance, PTL

-----------------------------------------------------------------------------
(* Counting implements SolStore: each step is one of its steps.            *)

Alive == {o \in Objects : count[o] > 0}
Roots == {o \in Objects : Rooted(o)}

\* What is referred to from outside of the tables of objects.
LEMMA RootedRefs ==
  ASSUME NEW v
  PROVE  /\ TypeOK => (Rooted(v) <=> \/ held[v] > 0 \/ lost[v] > 0 \/ work[v] > 0 \/ Refs(calls, v) # 0
                                     \/ \E s \in Slots : v \in {get[s], set[s]})
         /\ TypeOK' => (Rooted(v)' <=> \/ held'[v] > 0 \/ lost'[v] > 0 \/ work'[v] > 0 \/ Refs(calls', v) # 0
                                       \/ \E s \in Slots : v \in {get'[s], set'[s]})
<1>1. TypeOK => (Refs(calls, v) = 0 <=> \A i \in DOMAIN calls : calls[i].self # v /\ calls[i].arg # v)
  BY RefsHits DEF TypeOK
<1>2. TypeOK' => (Refs(calls', v) = 0 <=> \A i \in DOMAIN calls' : calls'[i].self # v /\ calls'[i].arg # v)
  BY RefsHits DEF TypeOK
<1>. QED BY <1>1, <1>2 DEF Rooted

\* No new reference to v, from outside of the tables of objects.
LEMMA RootsKept ==
  ASSUME Inv, Inv', NEW v, Rooted(v)',
         held'[v] > 0 => held[v] > 0, lost'[v] > 0 => lost[v] > 0, work'[v] > 0 => work[v] > 0,
         Refs(calls', v) # 0 => Refs(calls, v) # 0,
         \A s \in Slots : v \in {get'[s], set'[s]} => v \in {get[s], set[s]}
  PROVE  Rooted(v)
<1>1. TypeOK /\ TypeOK'
  BY DEF Inv
<1>2. \/ held'[v] > 0 \/ lost'[v] > 0 \/ work'[v] > 0 \/ Refs(calls', v) # 0
      \/ \E s \in Slots : v \in {get'[s], set'[s]}
  BY <1>1, RootedRefs
<1>3. \/ held[v] > 0 \/ lost[v] > 0 \/ work[v] > 0 \/ Refs(calls, v) # 0
      \/ \E s \in Slots : v \in {get[s], set[s]}
  BY <1>2
<1>. QED BY <1>1, <1>3, RootedRefs

\* The operation on top refers to its object and its argument.
LEMMA CallerRoots ==
  ASSUME TypeOK, calls # <<>>
  PROVE  Rooted(Caller.self) /\ Rooted(Caller.arg)
<1>1. 1 \in DOMAIN calls /\ Caller = calls[1]
  BY CallsShape DEF Caller
<1>. QED BY <1>1 DEF Rooted

LEMMA UsableRoots ==
  ASSUME NEW o, Usable(o)
  PROVE  Rooted(o)
BY DEF Usable, Rooted

\* A root is alive, and so is what is seen in an entry, and a parent.
LEMMA RootsLive ==
  ASSUME Inv, NEW v \in Objects
  PROVE  /\ Rooted(v) => count[v] > 0
         /\ \A s \in Slots : Seen[s] = v => count[v] > 0
<1>1. Rooted(v) => Referring(v)
  BY DEF Rooted, Referring
<1>2. \A s \in Slots : Seen[s] = v => Referring(v)
  BY DEF Referring
<1>. QED BY <1>1, <1>2, Living DEF Inv

LEMMA ForgetStep ==
  ASSUME Seen' = Seen, parent' = parent, \A v \in Objects : count[v] > 0 <=> count'[v] > 0,
         \A v \in Objects : Rooted(v)' => Rooted(v)
  PROVE  Store!Next
<1>1. Alive' = Alive /\ Roots' \subseteq Roots
  BY DEF Alive, Roots
<1>2. Store!Forget
  BY <1>1 DEF Store!Forget, Store!Learn, Seen, Alive, Roots
<1>. QED BY <1>2 DEF Store!Next

LEMMA ReleaseForgets ==
  ASSUME Inv, NEW o \in Objects, ObjRelease(o)
  PROVE  Store!Next
<1>1. /\ held[o] > 0
      /\ held' = [held EXCEPT ![o] = @ - 1] /\ work' = [work EXCEPT ![o] = @ + 1]
      /\ UNCHANGED <<parent, value, get, set, count, lost, calls, fault>>
  BY DEF ObjRelease, tables
<1>2. Inv' /\ Seen' = Seen
  BY ReleaseKeeps
<1>3. ASSUME NEW v \in Objects, Rooted(v)' PROVE Rooted(v)
  <2>1. held \in [Objects -> Nat] /\ work \in [Objects -> Nat]
    BY DEF Inv, TypeOK
  <2>2. CASE v = o
    BY <1>1, <2>2 DEF Rooted
  <2>3. CASE v # o
    BY <1>1, <1>3, <2>1, <2>3 DEF Rooted
  <2>. QED BY <2>2, <2>3
<1>. QED BY <1>1, <1>2, <1>3, ForgetStep

\* A reference is taken to u; a root, unless it was looked up.
LEMMA TakeLearns ==
  ASSUME Inv, NEW u, Take(u)
  PROVE  /\ u \in Objects /\ Seen' = Seen /\ parent' = parent
         /\ \A v \in Objects : count[v] > 0 <=> count'[v] > 0
         /\ \A v \in Objects : Rooted(v)' => Rooted(v) \/ v = u
<1>1. /\ u \in Objects /\ count[u] > 0
      /\ count' = [count EXCEPT ![u] = @ + 1] /\ held' = [held EXCEPT ![u] = @ + 1]
      /\ UNCHANGED <<parent, value, get, set, lost, work, calls, fault>>
  BY DEF Take, tables
<1>2. Seen' = Seen
  BY TakeKeeps
<1>3. held \in [Objects -> Nat] /\ count \in [Objects -> Nat]
  BY DEF Inv, TypeOK
<1>4. ASSUME NEW v \in Objects, Rooted(v)', v # u PROVE Rooted(v)
  BY <1>1, <1>3, <1>4 DEF Rooted
<1>5. ASSUME NEW v \in Objects PROVE count[v] > 0 <=> count'[v] > 0
  BY <1>1, <1>3
<1>. QED BY <1>1, <1>2, <1>4, <1>5

LEMMA GetMetadataForgets ==
  ASSUME Inv, NEW s \in Slots, GetMetadata(s)
  PROVE  Store!Next
<1>1. PICK u : Take(u) /\ u \in {get[s], set[s]}
  BY DEF GetMetadata
<1>2. Rooted(u)
  BY <1>1 DEF Rooted
<1>. QED BY <1>1, <1>2, TakeLearns, ForgetStep

LEMMA GetStoredReads ==
  ASSUME Inv, NEW o \in Objs, NEW s \in Slots \ Pending, Usable(o), s \in Sought(o), GetStored(s)
  PROVE  Store!Next
<1>1. Take(value[s]) /\ s \in Present
  BY DEF GetStored, Sought
<1>2. Seen[s] = value[s] /\ Seen[s] # Uninit
  BY PresentSeen
<1>3. /\ Seen[s] \in Objects /\ Seen' = Seen /\ parent' = parent
      /\ \A v \in Objects : count[v] > 0 <=> count'[v] > 0
      /\ \A v \in Objects : Rooted(v)' => Rooted(v) \/ v = Seen[s]
  BY <1>1, <1>2, TakeLearns
<1>4. Alive' = Alive /\ Roots' \subseteq Roots \cup ({Seen[s]} \cap Objects)
  BY <1>3 DEF Alive, Roots
<1>5. Store!Read(Seen[s])
  BY <1>2, <1>3, <1>4 DEF Store!Read, Store!Learn, Seen, Alive, Roots
<1>6. PICK n \in Names : s = GetSlot(o, n) \/ s = <<o, "prototype", n>>
  BY DEF Sought
<1>7. o \in Roots \cap Objs
  BY UsableRoots, Kinded DEF Roots
<1>8. Store!Read(Store!Lookup(o, n)) \/ Store!Read(Seen[<<o, "prototype", n>>])
  <2>1. CASE s = GetSlot(o, n)
    BY <1>1, <1>5, <2>1, LookupFinds
  <2>2. CASE s = <<o, "prototype", n>>
    BY <1>5, <2>2
  <2>. QED BY <1>6, <2>1, <2>2
<1>9. \E p \in Roots \cap Objs, m \in Names :
        Store!Read(Store!Lookup(p, m)) \/ Store!Read(Seen[<<p, "prototype", m>>])
  BY <1>7, <1>8
<1>. QED BY <1>9, Zenon DEF Store!Next, Roots, Seen

LEMMA GetCallsForgets ==
  ASSUME Inv, NEW o \in Objs, NEW s \in Slots, Usable(o), GetCalls(o, s)
  PROVE  Store!Next
<1>. DEFINE e == Call("get", o, NULL, s)
<1>1. /\ count' = [count EXCEPT ![o] = @ + 1] /\ calls' = <<e>> \o calls
      /\ UNCHANGED <<parent, value, get, set, held, lost, work, fault>>
  BY DEF GetCalls, tables
<1>2. TypeOK /\ count \in [Objects -> Nat] /\ calls \in Seq(Operations)
  BY DEF Inv, TypeOK
<1>3. e \in Operations /\ e.self = o /\ e.arg = NULL
  BY Kinded DEF Call, Operations
<1>. HIDE DEF e
<1>4. Tops(calls', e, calls)
  BY <1>1, <1>2, <1>3, PushCalls
<1>5. Inv' /\ Seen' = Seen
  BY GetCallsKeeps
<1>6. Rooted(o) /\ count[o] > 0
  BY UsableRoots, RootsLive, Kinded
<1>7. ASSUME NEW v \in Objects, Rooted(v)' PROVE Rooted(v)
  <2>1. CASE v = o
    BY <1>6, <2>1
  <2>2. CASE v # o
    <3>1. Weight(e, v) = 0
      BY <1>3, <2>2, Kinded DEF Weight, Eq
    <3>2. Refs(calls', v) = Refs(calls, v)
      <4>1. Refs(calls', v) = Refs(calls, v) + 0 /\ Refs(calls, v) \in Nat
        BY <1>2, <1>4, <3>1, RefsHits DEF Tops
      <4>. QED BY <4>1
    <3>. QED BY <1>1, <1>5, <1>7, <3>2, RootsKept
  <2>. QED BY <2>1, <2>2
<1>8. ASSUME NEW v \in Objects PROVE count[v] > 0 <=> count'[v] > 0
  BY <1>1, <1>2, <1>6
<1>. QED BY <1>1, <1>5, <1>7, <1>8, ForgetStep

LEMMA SetMetadataForgets ==
  ASSUME Inv, NEW s \in Present, NEW table, NEW f \in Funcs, SetMetadata(s, table, f)
  PROVE  Store!Next
<1>1. /\ s \in Slots /\ Usable(f)
      /\ count' = [count EXCEPT ![f] = @ + 1]
      /\ UNCHANGED <<parent, value, held, work, calls, fault>>
      /\ \/ get' = [get EXCEPT ![s] = f] /\ lost' = Plus(lost, get[s]) /\ set' = set
         \/ set' = [set EXCEPT ![s] = f] /\ lost' = Plus(lost, set[s]) /\ get' = get
  BY DEF SetMetadata, Present
<1>2. Inv' /\ Seen' = Seen
  BY SetMetadataKeeps
<1>3. /\ TypeOK /\ count \in [Objects -> Nat] /\ lost \in [Objects -> Nat]
      /\ get \in [Slots -> Funcs \cup {NULL}] /\ set \in [Slots -> Funcs \cup {NULL}]
  BY DEF Inv, TypeOK
<1>4. f \in Objects /\ Rooted(f) /\ count[f] > 0
  BY <1>1, UsableRoots, RootsLive, Kinded
<1>5. ASSUME NEW v \in Objects, Rooted(v)' PROVE Rooted(v)
  <2>1. CASE v = f \/ v = get[s] \/ v = set[s]
    BY <1>1, <1>4, <2>1 DEF Rooted
  <2>2. CASE v # f /\ v # get[s] /\ v # set[s]
    <3>1. lost'[v] = lost[v] + 0 /\ lost[v] \in Nat
      BY <1>1, <1>3, <2>2, PlusType DEF Eq
    <3>2. \A t \in Slots : v \in {get'[t], set'[t]} => v \in {get[t], set[t]}
      BY <1>1, <1>3, <2>2
    <3>. QED BY <1>1, <1>5, <3>1, <3>2 DEF Rooted
  <2>. QED BY <2>1, <2>2
<1>6. ASSUME NEW v \in Objects PROVE count[v] > 0 <=> count'[v] > 0
  BY <1>1, <1>3, <1>4
<1>. QED BY <1>1, <1>2, <1>5, <1>6, ForgetStep

LEMMA GetterReturnsForgets ==
  ASSUME Inv, GetterReturns
  PROVE  Store!Next
<1>1. /\ calls # <<>> /\ Caller.kind = "get" /\ calls' = Tail(calls)
      /\ work' = Plus(work, Caller.self)
      /\ UNCHANGED <<parent, value, get, set, count, held, lost, fault>>
  BY DEF GetterReturns, tables
<1>2. Inv' /\ Seen' = Seen
  BY GetterReturnsKeeps
<1>3. ASSUME NEW v \in Objects, Rooted(v)' PROVE Rooted(v)
  <2>1. CASE v = Caller.self \/ v = Caller.arg
    BY <1>1, <2>1, CallerRoots DEF Inv
  <2>2. CASE v # Caller.self /\ v # Caller.arg
    <3>1. work'[v] = work[v]
      <4>1. work \in [Objects -> Nat] /\ Eq(Caller.self, v) = 0
        BY <2>2 DEF Eq, Inv, TypeOK
      <4>2. work'[v] = work[v] + 0 /\ work[v] \in Nat
        BY <1>1, <4>1, PlusType
      <4>. QED BY <4>2
    <3>2. Refs(calls', v) = Refs(calls, v)
      <4>1. Weight(Caller, v) = 0 /\ Tops(calls, Caller, calls')
        BY <1>1, <2>2, CallsShape DEF Weight, Eq, Inv
      <4>2. Refs(calls, v) = Refs(calls', v) + 0 /\ Refs(calls', v) \in Nat
        BY <4>1, RefsHits DEF Tops
      <4>. QED BY <4>2
    <3>. QED BY <1>1, <1>2, <1>3, <3>1, <3>2, RootsKept
  <2>. QED BY <2>1, <2>2
<1>. QED BY <1>1, <1>2, <1>3, ForgetStep

LEMMA PatchDoneForgets ==
  ASSUME Inv, PatchDone
  PROVE  Store!Next
<1>1. /\ calls # <<>> /\ calls' = Tail(calls)
      /\ work' = Plus(Plus(work, Caller.self), Caller.arg)
      /\ UNCHANGED <<parent, value, get, set, count, held, lost, fault>>
  BY DEF PatchDone, Patching, Caller, tables
<1>2. Inv' /\ Seen' = Seen
  BY PatchDoneKeeps
<1>3. ASSUME NEW v \in Objects, Rooted(v)' PROVE Rooted(v)
  <2>1. CASE v = Caller.self \/ v = Caller.arg
    BY <1>1, <2>1, CallerRoots DEF Inv
  <2>2. CASE v # Caller.self /\ v # Caller.arg
    <3>1. work'[v] = work[v]
      <4>1. work \in [Objects -> Nat]
        BY DEF Inv, TypeOK
      <4>2. Eq(Caller.self, v) = 0 /\ Eq(Caller.arg, v) = 0
        BY <2>2 DEF Eq
      <4>3. work'[v] = work[v] + (0 + 0) /\ work[v] \in Nat
        BY <1>1, <4>1, <4>2, PlusTwo
      <4>. QED BY <4>3
    <3>2. Refs(calls', v) = Refs(calls, v)
      <4>1. Weight(Caller, v) = 0 /\ Tops(calls, Caller, calls')
        BY <1>1, <2>2, CallsShape DEF Weight, Eq, Inv
      <4>2. Refs(calls, v) = Refs(calls', v) + 0 /\ Refs(calls', v) \in Nat
        BY <4>1, RefsHits DEF Tops
      <4>. QED BY <4>2
    <3>. QED BY <1>1, <1>2, <1>3, <3>1, <3>2, RootsKept
  <2>. QED BY <2>1, <2>2
<1>. QED BY <1>1, <1>2, <1>3, ForgetStep

LEMMA PatchPrototypesForgets ==
  ASSUME Inv, PatchPrototypes
  PROVE  Store!Next
<1>1. UNCHANGED <<parent, value, get, set, count, held, lost, work, fault>>
  BY DEF PatchPrototypes, tables
<1>2. Inv' /\ Seen' = Seen /\ \A o : Refs(calls', o) = Refs(calls, o)
  BY PatchPrototypesKeeps
<1>3. ASSUME NEW v \in Objects, Rooted(v)' PROVE Rooted(v)
  BY <1>1, <1>2, <1>3, RootsKept
<1>. QED BY <1>1, <1>2, <1>3, ForgetStep

LEMMA AccessorThrowsForgets ==
  ASSUME Inv, Caller.slot \in Slots \ Pending, AccessorThrows
  PROVE  Store!Next
<1>1. UNCHANGED <<parent, value, get, set, count, held, work, fault>>
  BY DEF AccessorThrows, tables
<1>2. /\ Inv' /\ Seen' = Seen
      /\ \A v \in Objects : Refs(calls, v) = 0 => Refs(calls', v) = 0 /\ lost'[v] = lost[v]
  BY AccessorThrowsKeeps
<1>3. ASSUME NEW v \in Objects, Rooted(v)' PROVE Rooted(v)
  <2>1. CASE Refs(calls, v) # 0
    <3>1. TypeOK
      BY DEF Inv
    <3>. QED BY <2>1, <3>1, RootedRefs
  <2>2. CASE Refs(calls, v) = 0
    <3>1. Refs(calls', v) = 0 /\ lost'[v] = lost[v]
      BY <1>2, <2>2
    <3>. QED BY <1>1, <1>2, <1>3, <3>1, RootsKept
  <2>. QED BY <2>1, <2>2
<1>. QED BY <1>1, <1>2, <1>3, ForgetStep

LEMMA ObjPatchForgets ==
  ASSUME Inv, NEW self \in Objs, NEW from \in Objs, NEW kinds,
         Of(self) \cup Of(from) \subseteq Slots \ Pending, ObjPatch(self, from, kinds)
  PROVE  Store!Next
<1>. DEFINE e == [Call("patch", self, from, NULL) EXCEPT
                    !.todo = {s \in Present : s[1] = from /\ s[2] = "property"},
                    !.later = kinds \cap {"prototype"}]
<1>1. /\ Usable(self) /\ Usable(from)
      /\ count' = Plus(Plus(count, self), from) /\ calls' = <<e>> \o calls
      /\ UNCHANGED <<parent, value, get, set, held, lost, work, fault>>
  BY DEF ObjPatch, tables
<1>2. TypeOK /\ count \in [Objects -> Nat] /\ calls \in Seq(Operations)
  BY DEF Inv, TypeOK
<1>3. e \in Operations /\ e.self = self /\ e.arg = from
  BY DEF Call, Operations, Present, Kinds
<1>. HIDE DEF e
<1>4. Tops(calls', e, calls)
  BY <1>1, <1>2, <1>3, PushCalls
<1>5. Inv' /\ Seen' = Seen
  BY ObjPatchKeeps
<1>6. Rooted(self) /\ count[self] > 0 /\ Rooted(from) /\ count[from] > 0
  BY <1>1, UsableRoots, RootsLive, Kinded
<1>7. ASSUME NEW v \in Objects, v # self, v # from
      PROVE  Refs(calls', v) = Refs(calls, v) /\ count'[v] = count[v]
  <2>1. Weight(e, v) = 0 /\ count'[v] = count[v] + (0 + 0) /\ count[v] \in Nat
    BY <1>1, <1>2, <1>3, <1>7, PlusTwo DEF Weight, Eq
  <2>2. Refs(calls', v) = Refs(calls, v) + 0 /\ Refs(calls, v) \in Nat
    BY <1>2, <1>4, <2>1, RefsHits DEF Tops
  <2>. QED BY <2>1, <2>2
<1>8. ASSUME NEW v \in Objects, Rooted(v)' PROVE Rooted(v)
  <2>1. CASE v = self \/ v = from
    BY <1>6, <2>1
  <2>2. CASE v # self /\ v # from
    BY <1>1, <1>5, <1>7, <1>8, <2>2, RootsKept
  <2>. QED BY <2>1, <2>2
<1>9. ASSUME NEW v \in Objects PROVE count[v] > 0 <=> count'[v] > 0
  <2>1. CASE v = self \/ v = from
    <3>1. Eq(self, v) \in Nat /\ Eq(from, v) \in Nat /\ count[v] \in Nat
          /\ count'[v] = count[v] + (Eq(self, v) + Eq(from, v))
      BY <1>1, <1>2, PlusTwo DEF Eq
    <3>2. count[v] > 0
      BY <1>6, <2>1
    <3>. QED BY ONLY <3>1, <3>2
  <2>2. CASE v # self /\ v # from
    BY <1>7, <2>2
  <2>. QED BY <2>1, <2>2
<1>. QED BY <1>1, <1>5, <1>8, <1>9, ForgetStep

LEMMA DecreaseForgets ==
  ASSUME Inv, NEW o \in Objects, Decrease(o)
  PROVE  Store!Next
<1>1. /\ work[o] > 0 /\ work' = [work EXCEPT ![o] = 0]
      /\ UNCHANGED <<parent, value, get, set, held, lost, calls, fault>>
  BY DEF Decrease, tables
<1>2. Inv' /\ Seen' = Seen /\ \A x \in Objects : count[x] > 0 <=> count'[x] > 0
  BY DecreaseKeeps
<1>3. ASSUME NEW v \in Objects, Rooted(v)' PROVE Rooted(v)
  <2>1. work'[v] > 0 => work[v] > 0
    BY <1>1 DEF Inv, TypeOK
  <2>. QED BY <1>1, <1>2, <1>3, <2>1, RootsKept
<1>. QED BY <1>1, <1>2, <1>3, ForgetStep

LEMMA CloneCreates ==
  ASSUME Inv, NEW o \in Objects, NEW p \in Objs \cup {NULL}, ObjClone(o, p)
  PROVE  Store!Next
<1>1. /\ count[o] = 0 /\ (p # NULL => o \in Objs /\ Usable(p))
      /\ count' = Plus([count EXCEPT ![o] = 1], p)
      /\ held' = [held EXCEPT ![o] = @ + 1]
      /\ parent' = IF o \in Objs THEN [parent EXCEPT ![o] = p] ELSE parent
      /\ UNCHANGED <<value, get, set, lost, work, calls, fault>>
  BY DEF ObjClone
<1>2. Inv' /\ Seen' = Seen
  BY CloneKeeps
<1>3. count \in [Objects -> Nat] /\ held \in [Objects -> Nat]
  BY DEF Inv, TypeOK
<1>4. p # NULL => p \in Objects /\ Rooted(p) /\ count[p] > 0
  BY <1>1, UsableRoots, RootsLive, Kinded
<1>5. Alive' = Alive \cup {o}
  <2>1. ASSUME NEW v \in Objects PROVE count'[v] > 0 <=> count[v] > 0 \/ v = o
    <3>. DEFINE c == [count EXCEPT ![o] = 1]
    <3>1. c \in [Objects -> Nat] /\ c[o] = 1 /\ (v # o => c[v] = count[v])
      BY <1>3
    <3>. HIDE DEF c
    <3>2. count'[v] = c[v] + Eq(p, v) /\ c[v] \in Nat /\ Eq(p, v) \in Nat
      <4>1. count' = Plus(c, p)
        BY <1>1 DEF c
      <4>2. count'[v] = c[v] + Eq(p, v)
        BY ONLY <3>1, <4>1, PlusType, v \in Objects
      <4>. QED BY <3>1, <4>2 DEF Eq
    <3>3. Eq(p, v) # 0 => count[v] > 0
      BY <1>4, Kinded DEF Eq
    <3>4. v = o => count'[v] > 0
      BY ONLY <3>1, <3>2
    <3>5. v # o => (count'[v] > 0 <=> count[v] > 0)
      <4>1. CASE Eq(p, v) = 0
        BY ONLY <3>1, <3>2, <4>1
      <4>2. CASE Eq(p, v) # 0
        BY ONLY <3>1, <3>2, <3>3, <4>2
      <4>. QED BY <4>1, <4>2
    <3>. QED BY <3>4, <3>5
  <2>. QED BY <2>1 DEF Alive
<1>6. o \notin Alive
  BY <1>1 DEF Alive
<1>7. Roots' \subseteq Roots \cup ({o} \cap Objects)
  <2>1. ASSUME NEW v \in Objects, Rooted(v)', v # o PROVE Rooted(v)
    BY <1>1, <1>2, <1>3, <2>1, RootsKept
  <2>. QED BY <2>1 DEF Roots
<1>8. p \in Roots \cup {NULL} /\ (o \notin Objs => parent' = parent)
  BY <1>1, <1>4 DEF Roots
<1>9. Store!Create(o, p)
  BY <1>1, <1>2, <1>5, <1>6, <1>7, <1>8 DEF Store!Create, Store!Learn, Seen, Alive, Roots
<1>. QED BY <1>9 DEF Store!Next

LEMMA SetterReturnsFinishes ==
  ASSUME Inv, NEW r \in Values, SetterReturns(r)
  PROVE  Store!Next
<1>1. /\ calls # <<>> /\ calls' = Tail(calls)
      /\ r \in Objects => held[r] > 0
      /\ held' = Minus(held, r)
      /\ work' = Plus(Plus(work, Caller.self), Caller.arg)
      /\ UNCHANGED <<parent, get, set, count, lost, fault>>
  BY DEF SetterReturns
<1>2. PICK s : s = Caller.slot
  OBVIOUS
<1>3. Inv' /\ s \in Pending /\ s \in Slots /\ Seen' = [Seen EXCEPT ![s] = r]
  BY <1>2, SetterReturnsKeeps
<1>4. work \in [Objects -> Nat] /\ held \in [Objects -> Nat]
  BY DEF Inv, TypeOK
<1>5. ASSUME NEW v \in Objects, Rooted(v)' PROVE Rooted(v)
  <2>1. CASE v = Caller.self \/ v = Caller.arg
    BY <1>1, <2>1, CallerRoots DEF Inv
  <2>2. CASE v # Caller.self /\ v # Caller.arg
    <3>1. work'[v] = work[v]
      <4>1. Eq(Caller.self, v) = 0 /\ Eq(Caller.arg, v) = 0
        BY <2>2 DEF Eq
      <4>2. work'[v] = work[v] + (0 + 0) /\ work[v] \in Nat
        BY <1>1, <1>4, <4>1, PlusTwo
      <4>. QED BY <4>2
    <3>2. Refs(calls', v) = Refs(calls, v)
      <4>1. Weight(Caller, v) = 0 /\ Tops(calls, Caller, calls')
        BY <1>1, <2>2, CallsShape DEF Weight, Eq, Inv
      <4>2. Refs(calls, v) = Refs(calls', v) + 0 /\ Refs(calls', v) \in Nat
        BY <4>1, RefsHits DEF Tops
      <4>. QED BY <4>2
    <3>3. held'[v] > 0 => held[v] > 0
      <4>1. held'[v] = held[v] - Eq(r, v) /\ Eq(r, v) \in Nat /\ held[v] \in Nat
        BY <1>1, <1>4, MinusType DEF Eq
      <4>. QED BY ONLY <4>1
    <3>. QED BY <1>1, <1>3, <1>5, <3>1, <3>2, <3>3, RootsKept
  <2>. QED BY <2>1, <2>2
<1>6. Roots' \subseteq Roots /\ Alive' = Alive
  BY <1>1, <1>5 DEF Roots, Alive
<1>7. r \in Roots \cup {NULL}
  BY <1>1 DEF Roots, Rooted, Values
<1>8. Seen[s] = Uninit
  BY <1>3, PresentSeen
<1>9. Store!Finish(s, r)
  BY <1>1, <1>3, <1>6, <1>8 DEF Store!Finish, Store!Learn, Seen, Alive, Roots
<1>10. \E t \in Slots, v \in Roots \cup {NULL} : Store!Finish(t, v)
  BY <1>3, <1>7, <1>9
<1>. QED BY <1>10, Zenon DEF Store!Next, Roots

LEMMA AssignPuts ==
  ASSUME Inv, NEW s \in Slots, s \notin Pending, NEW v \in Values,
         v \in Roots \cup {Seen[t] : t \in Slots} \cup {NULL}, Rooted(s[1]),
         NEW stack \in Seq(Operations), \A o : Refs(stack, o) = Refs(calls, o),
         Waiting(stack, 0) = Waiting(calls, 0), Orderly(stack), Assign(s, v, stack)
  PROVE  Store!Next
<1>. DEFINE e == Call("set", s[1], v, s)
<1>1. work' = Plus(work, Seen[s]) /\ UNCHANGED <<parent, get, set, held, lost, fault>>
  <2>1. Read(s) = Seen[s]
    BY PresentSeen DEF Read
  <2>. QED BY <2>1 DEF Assign, Replaced
<1>2. \/ count' = Plus(count, v) /\ calls' = stack
      \/ count' = Plus(Plus(count, v), s[1]) /\ calls' = <<e>> \o stack
  BY DEF Assign
<1>3. Inv' /\ (Seen' = [Seen EXCEPT ![s] = v] \/ Seen' = [Seen EXCEPT ![s] = Uninit])
  BY AssignKeeps
<1>4. count \in [Objects -> Nat] /\ work \in [Objects -> Nat] /\ calls \in Seq(Operations)
  BY DEF Inv, TypeOK
<1>5. s[1] \in Objs /\ s[1] \in Objects
  BY SlotShape, Kinded
<1>6. e \in Operations /\ e.self = s[1] /\ e.arg = v
  BY <1>5 DEF Call, Operations
<1>. HIDE DEF e
<1>7. ASSUME NEW x \in Objects, x # v, x # s[1]
      PROVE  count'[x] = count[x] /\ Refs(calls', x) = Refs(calls, x)
  <2>1. Eq(v, x) = 0 /\ Eq(s[1], x) = 0 /\ Weight(e, x) = 0 /\ Refs(calls, x) \in Nat /\ count[x] \in Nat
    BY <1>4, <1>6, <1>7, RefsHits DEF Eq, Weight
  <2>2. CASE count' = Plus(count, v) /\ calls' = stack
    <3>1. count'[x] = count[x] + 0 /\ Refs(calls', x) = Refs(calls, x)
      BY <1>4, <2>1, <2>2, PlusType
    <3>. QED BY <2>1, <3>1
  <2>3. CASE count' = Plus(Plus(count, v), s[1]) /\ calls' = <<e>> \o stack
    <3>1. count'[x] = count[x] + (0 + 0)
      BY <1>4, <2>1, <2>3, PlusTwo
    <3>2. Tops(calls', e, stack)
      BY <1>6, <2>3, PushCalls
    <3>3. Refs(calls', x) = Refs(calls, x) + 0
      BY <2>1, <3>2 DEF Tops
    <3>. QED BY <2>1, <3>1, <3>3
  <2>. QED BY <1>2, <2>2, <2>3
<1>8. ASSUME NEW x \in Objects, x = v \/ x = s[1] PROVE count[x] > 0
  <2>1. CASE x = s[1]
    BY <2>1, RootsLive
  <2>2. CASE x = v
    <3>1. Rooted(x) \/ \E t \in Slots : Seen[t] = x
      BY <2>2, Kinded DEF Roots
    <3>. QED BY <3>1, RootsLive
  <2>. QED BY <1>8, <2>1, <2>2
<1>9. ASSUME NEW x \in Objects PROVE count'[x] >= count[x] /\ count[x] \in Nat /\ count'[x] \in Nat
  <2>1. Eq(v, x) \in Nat /\ Eq(s[1], x) \in Nat /\ count[x] \in Nat
    BY <1>4 DEF Eq
  <2>2. CASE count' = Plus(count, v)
    <3>1. count'[x] = count[x] + Eq(v, x)
      BY <1>4, <2>2, PlusType
    <3>. QED BY ONLY <2>1, <3>1
  <2>3. CASE count' = Plus(Plus(count, v), s[1])
    <3>1. count'[x] = count[x] + (Eq(v, x) + Eq(s[1], x))
      BY <1>4, <2>3, PlusTwo
    <3>. QED BY ONLY <2>1, <3>1
  <2>. QED BY <1>2, <2>2, <2>3
<1>10. Alive' = Alive
  <2>1. ASSUME NEW x \in Objects PROVE count'[x] > 0 <=> count[x] > 0
    <3>1. CASE x = v \/ x = s[1]
      <4>1. count[x] > 0 /\ count'[x] >= count[x] /\ count[x] \in Nat /\ count'[x] \in Nat
        BY <1>8, <1>9, <3>1
      <4>. QED BY ONLY <4>1
    <3>2. CASE x # v /\ x # s[1]
      BY <1>7, <3>2
    <3>. QED BY <3>1, <3>2
  <2>. QED BY <2>1 DEF Alive
<1>11. Roots' \subseteq Roots \cup ({Seen[s], v} \cap Objects)
  <2>1. ASSUME NEW x \in Objects, Rooted(x)', x # Seen[s], x # v PROVE Rooted(x)
    <3>1. CASE x = s[1]
      BY <3>1
    <3>2. CASE x # s[1]
      <4>1. work'[x] = work[x]
        <5>1. work'[x] = work[x] + 0 /\ work[x] \in Nat
          BY <1>1, <1>4, <2>1, PlusType DEF Eq
        <5>. QED BY <5>1
      <4>2. Refs(calls', x) = Refs(calls, x)
        BY <1>7, <2>1, <3>2
      <4>. QED BY <1>1, <1>3, <2>1, <4>1, <4>2, RootsKept
    <3>. QED BY <3>1, <3>2
  <2>. QED BY <2>1 DEF Roots
<1>12. s[1] \in Roots /\ Seen[s] # Uninit
  BY <1>5, PresentSeen DEF Roots
<1>13. Store!Put(s, v) \/ Store!Begin(s, v)
  <2>1. CASE Seen' = [Seen EXCEPT ![s] = v]
    <3>1. Store!Put(s, v)
      BY <1>1, <1>10, <1>11, <1>12, <2>1 DEF Store!Put, Store!Learn, Seen, Alive, Roots
    <3>. QED BY <3>1
  <2>2. CASE Seen' = [Seen EXCEPT ![s] = Uninit]
    <3>1. Store!Begin(s, v)
      BY <1>1, <1>10, <1>11, <1>12, <2>2 DEF Store!Begin, Store!Learn, Seen, Alive, Roots
    <3>. QED BY <3>1
  <2>. QED BY <1>3, <2>1, <2>2
<1>14. v \notin {Absent, Uninit}
  BY Kinded
<1>15. \E t \in Slots, u \in Roots \cup {Seen[q] : q \in Slots} \cup {NULL} :
         u \notin {Absent, Uninit} /\ (Store!Put(t, u) \/ Store!Begin(t, u))
  BY <1>13, <1>14
<1>. QED BY <1>15, Zenon DEF Store!Next, Roots, Seen

LEMMA ObjSetPuts ==
  ASSUME Inv, NEW s \in Slots \ Pending, NEW v \in Values, Usable(s[1]), v \in Objects => Usable(v),
         ObjSet(s, v)
  PROVE  Store!Next
<1>1. Assign(s, v, calls) /\ v \in Roots \cup {NULL} /\ Rooted(s[1])
  BY UsableRoots DEF ObjSet, Roots, Values
<1>2. calls \in Seq(Operations) /\ Orderly(calls)
  BY DEF Inv, TypeOK
<1>. QED BY <1>1, <1>2, AssignPuts

LEMMA PatchStepPuts ==
  ASSUME Inv, NEW s \in Slots, PatchStep(s)
  PROVE  Store!Next
<1>. DEFINE e == [Caller EXCEPT !.done = @ \cup {s}]
            stack == <<e>> \o Tail(calls)
<1>1. PatchNext(s) /\ Assign(PatchTarget(s), Read(s), stack)
  BY DEF PatchStep
<1>2. /\ PatchTarget(s) \in Slots /\ PatchTarget(s) \notin Pending /\ Read(s) \in Values
      /\ calls # <<>> /\ Caller.kind = "patch" /\ s \notin Pending
  BY <1>1, PatchTargetFree
<1>3. calls \in Seq(Operations) /\ Orderly(calls) /\ Caller \in Operations
  BY <1>2, CallsShape DEF Inv, TypeOK, Tops
<1>4. /\ e \in Operations /\ e.self = Caller.self /\ e.arg = Caller.arg
      /\ e.kind = Caller.kind /\ e.slot = Caller.slot
  BY <1>2, <1>3 DEF Operations
<1>. HIDE DEF e
<1>5. /\ stack \in Seq(Operations) /\ \A o : Refs(stack, o) = Refs(calls, o)
      /\ Waiting(stack, 0) = Waiting(calls, 0) /\ Orderly(stack)
  <2>1. PICK t, r : t = calls /\ r = stack
    OBVIOUS
  <2>2. /\ t \in Seq(Operations) /\ t # <<>> /\ e \in Operations /\ r = <<e>> \o Tail(t) /\ Orderly(t)
        /\ e.self = Head(t).self /\ e.arg = Head(t).arg
        /\ e.kind = Head(t).kind /\ e.slot = Head(t).slot
    BY <1>2, <1>3, <1>4, <2>1 DEF Caller
  <2>3. /\ r \in Seq(Operations) /\ \A o : Refs(r, o) = Refs(t, o)
        /\ Waiting(r, 0) = Waiting(t, 0) /\ Orderly(r)
    BY ONLY <2>2, SwapCalls
  <2>. QED BY <2>1, <2>3
<1>. HIDE DEF stack
<1>6. Read(s) = Seen[s]
  BY <1>2, PresentSeen DEF Read
<1>7. Rooted(PatchTarget(s)[1])
  BY <1>2, CallerRoots DEF PatchTarget, Inv
<1>8. PICK t, v : t = PatchTarget(s) /\ v = Read(s)
  OBVIOUS
<1>9. /\ t \in Slots /\ t \notin Pending /\ v \in Values /\ Rooted(t[1]) /\ Assign(t, v, stack)
      /\ v \in Roots \cup {Seen[q] : q \in Slots} \cup {NULL}
  BY <1>1, <1>2, <1>6, <1>7, <1>8
<1>. QED BY <1>5, <1>9, AssignPuts

LEMMA DestroyCollects ==
  ASSUME Inv, NEW o \in Objects, Destroy(o)
  PROVE  Store!Next
<1>1. /\ work[o] > 0 /\ count[o] = work[o]
      /\ work' = [v \in Objects |-> (IF v = o THEN 0 ELSE work[v]) + Owned(o, v)]
      /\ lost' = [v \in Objects |-> lost[v] + Unowned(o, v)]
      /\ get' = [s \in Slots |-> IF s \in Of(o) THEN NULL ELSE get[s]]
      /\ set' = [s \in Slots |-> IF s \in Of(o) THEN NULL ELSE set[s]]
      /\ parent' = [p \in Objs |-> IF p = o THEN NULL ELSE parent[p]]
      /\ UNCHANGED <<held, calls, fault>>
  BY DEF Destroy
<1>2. /\ Inv' /\ Of(o) \cap Pending = {}
      /\ Seen' = [s \in Slots |-> IF s \in Of(o) THEN Absent ELSE Seen[s]]
      /\ \A x \in Objects : count'[x] > 0 <=> count[x] > 0 /\ x # o
  BY DestroyKeeps
<1>3. /\ held[o] = 0 /\ lost[o] = 0
      /\ \A i \in DOMAIN calls : calls[i].self # o /\ calls[i].arg # o
      /\ \A s \in Slots : Seen[s] # o /\ get[s] # o /\ set[s] # o
      /\ \A p \in Objs : parent[p] # o
  BY <1>1, Living DEF Inv
<1>4. Alive' = Alive \ {o} /\ o \in Alive
  <2>1. count[o] > 0
    BY <1>1
  <2>. QED BY <1>2, <2>1 DEF Alive
<1>5. Of(o) \subseteq Slots /\ \A s \in Of(o) : Read(s) = Seen[s]
  BY <1>2, PresentSeen DEF Of, Read
<1>6. ASSUME NEW v \in Objects
      PROVE  /\ Owned(o, v) \in Nat /\ Unowned(o, v) \in Nat
             /\ Owned(o, v) # 0 => (\E s \in Of(o) : Seen[s] = v) \/ (\E p \in {o} \cap Objs : parent[p] = v)
             /\ Unowned(o, v) # 0 => \E s \in Slots : v \in {get[s], set[s]}
  <2>. DEFINE A == {s \in Of(o) : Read(s) = v}
              B == {p \in {o} \cap Objs : parent[p] = v}
              C == {s \in Of(o) : get[s] = v}
              D == {s \in Of(o) : set[s] = v}
  <2>1. A \in SUBSET Slots /\ B \in SUBSET Objs /\ C \in SUBSET Slots /\ D \in SUBSET Slots
    BY <1>5
  <2>2. Owned(o, v) = Cardinality(A) + Cardinality(B) /\ Unowned(o, v) = Cardinality(C) + Cardinality(D)
    BY DEF Owned, Unowned
  <2>3. /\ (\E s \in A : TRUE) => \E s \in Of(o) : Seen[s] = v
        /\ (\E p \in B : TRUE) => \E p \in {o} \cap Objs : parent[p] = v
        /\ (\E s \in C \cup D : TRUE) => \E s \in Slots : v \in {get[s], set[s]}
    BY <1>5
  <2>. HIDE DEF A, B, C, D
  <2>4. /\ Cardinality(A) \in Nat /\ Cardinality(B) \in Nat /\ Cardinality(C) \in Nat /\ Cardinality(D) \in Nat
        /\ (Cardinality(A) = 0 <=> A = {}) /\ (Cardinality(B) = 0 <=> B = {})
        /\ (Cardinality(C) = 0 <=> C = {}) /\ (Cardinality(D) = 0 <=> D = {})
    BY <2>1, SlotsFinite, SlotsAssumption, FS_Subset, FS_CardinalityType, FS_EmptySet
  <2>5. /\ Owned(o, v) # 0 => A # {} \/ B # {}
        /\ Unowned(o, v) # 0 => C # {} \/ D # {}
    BY <2>2, <2>4
  <2>. QED BY <2>2, <2>3, <2>4, <2>5
<1>7. Roots' \subseteq Roots \cup (({Seen[s] : s \in {t \in Slots : t[1] = o}}
                                    \cup {parent[p] : p \in {o} \cap Objs}) \cap Objects)
  <2>1. ASSUME NEW v \in Objects, Rooted(v)', ~Rooted(v)
        PROVE  (\E s \in Of(o) : Seen[s] = v) \/ (\E p \in {o} \cap Objs : parent[p] = v)
    <3>1. SUFFICES ASSUME Owned(o, v) = 0 PROVE FALSE
      BY <1>6
    <3>2. Unowned(o, v) = 0
      BY <1>6, <2>1 DEF Rooted
    <3>3. lost'[v] = lost[v]
      <4>1. lost'[v] = lost[v] + 0 /\ lost[v] \in Nat
        BY <1>1, <3>2 DEF Inv, TypeOK
      <4>. QED BY <4>1
    <3>4. work'[v] > 0 => work[v] > 0
      <4>1. work'[v] = (IF v = o THEN 0 ELSE work[v]) + 0 /\ work[v] \in Nat
        BY <1>1, <3>1 DEF Inv, TypeOK
      <4>. QED BY <4>1
    <3>5. \A s \in Slots : v \in {get'[s], set'[s]} => v \in {get[s], set[s]}
      BY <1>1, Kinded
    <3>. QED BY <1>1, <1>2, <2>1, <3>3, <3>4, <3>5, RootsKept
  <2>2. Of(o) = {t \in Slots : t[1] = o}
    BY DEF Of
  <2>. QED BY <2>1, <2>2 DEF Roots
<1>8. o \notin Roots'
  <2>1. Owned(o, o) = 0 /\ Unowned(o, o) = 0
    BY <1>3, <1>5, <1>6
  <2>2. work'[o] = 0 + 0 /\ lost'[o] = 0 + 0
    BY <1>1, <1>3, <2>1
  <2>3. \A s \in Slots : get'[s] # o /\ set'[s] # o
    BY <1>1, <1>3, Kinded
  <2>. QED BY <1>1, <1>3, <2>2, <2>3 DEF Roots, Rooted
<1>9. o \notin {Seen[s] : s \in Slots} \cup {parent[p] : p \in Objs}
  BY <1>3
<1>10. Seen' = [s \in Slots |-> IF s[1] = o THEN Absent ELSE Seen[s]]
  BY <1>2 DEF Of
<1>11. Store!Collect(o)
  BY <1>1, <1>4, <1>7, <1>8, <1>9, <1>10 DEF Store!Collect, Store!Learn, Store!Referred, Seen, Alive, Roots
<1>. QED BY <1>11 DEF Store!Next

LEMMA StoreInit == Init => Store!Init
<1>. SUFFICES ASSUME Init PROVE Store!Init
  OBVIOUS
<1>1. Inv /\ Pending = {} /\ DOMAIN calls = {}
  BY InitInv DEF Init, Pending
<1>2. Seen = [s \in Slots |-> Absent]
  BY <1>1 DEF Seen, Init
<1>3. Alive = {}
  BY DEF Init, Alive
<1>4. Roots = {}
  BY <1>1, <1>3, RootsLive DEF Alive, Roots
<1>. QED BY <1>2, <1>3, <1>4 DEF Init, Store!Init, Seen, Alive, Roots

LEMMA StoreStep ==
  Inv /\ [CarefulNext]_vars => Store!Next \/ UNCHANGED <<Seen, parent, Alive, Roots>>
<1>. SUFFICES ASSUME Inv, [CarefulNext]_vars
              PROVE  Store!Next \/ UNCHANGED <<Seen, parent, Alive, Roots>>
  OBVIOUS
<1>1. CASE UNCHANGED vars
  BY <1>1 DEF vars, Seen, Pending, Alive, Roots, Rooted
<1>2. ASSUME NEW o \in Objects, NEW p \in Objs \cup {NULL}, ObjClone(o, p) PROVE Store!Next
  BY <1>2, CloneCreates
<1>3. ASSUME NEW o \in Objects, ObjRelease(o) PROVE Store!Next
  BY <1>3, ReleaseForgets
<1>4. ASSUME NEW o \in Objs, NEW s \in Slots \ Pending, Usable(o), s \in Sought(o),
             GetStored(s) \/ GetCalls(o, s) \/ GetMetadata(s)
      PROVE  Store!Next
  BY <1>4, GetStoredReads, GetCallsForgets, GetMetadataForgets
<1>5. ASSUME NEW s \in Present \ Pending, NEW f \in Funcs, NEW table, SetMetadata(s, table, f)
      PROVE  Store!Next
  BY <1>5, SetMetadataForgets
<1>6. ASSUME NEW s \in Slots \ Pending, NEW v \in Values, Usable(s[1]), v \in Objects => Usable(v),
             ObjSet(s, v)
      PROVE  Store!Next
  BY <1>6, ObjSetPuts
<1>7. ASSUME GetterReturns PROVE Store!Next
  BY <1>7, GetterReturnsForgets
<1>8. ASSUME NEW r \in Values, SetterReturns(r) PROVE Store!Next
  BY <1>8, SetterReturnsFinishes
<1>9. ASSUME Caller.slot \in Slots \ Pending, AccessorThrows PROVE Store!Next
  BY <1>9, AccessorThrowsForgets
<1>10. ASSUME NEW self \in Objs, NEW from \in Objs, NEW kinds,
              Of(self) \cup Of(from) \subseteq Slots \ Pending, ObjPatch(self, from, kinds)
       PROVE  Store!Next
  BY <1>10, ObjPatchForgets
<1>11. ASSUME NEW o \in Objects, Decrease(o) \/ Destroy(o) PROVE Store!Next
  BY <1>11, DecreaseForgets, DestroyCollects
<1>12. ASSUME NEW s \in Slots, PatchStep(s) PROVE Store!Next
  BY <1>12, PatchStepPuts
<1>13. ASSUME PatchDone PROVE Store!Next
  BY <1>13, PatchDoneForgets
<1>14. ASSUME PatchPrototypes PROVE Store!Next
  BY <1>14, PatchPrototypesForgets
<1>15. CASE Program(Slots \ Pending, Present \ Pending)
  BY <1>2, <1>3, <1>4, <1>5, <1>6, <1>7, <1>8, <1>9, <1>10, <1>15 DEF Program
<1>16. CASE Continue
  BY <1>11, <1>12, <1>13, <1>14, <1>16 DEF Continue
<1>. QED BY <1>1, <1>15, <1>16 DEF CarefulNext

(* Objects with properties, as the library keeps them by counting, are those *)
(* that sol.h promises to a careful program: every lookup gives the nearest  *)
(* definition, every assignment takes effect once its setter has answered,   *)
(* and an object goes away only when nothing refers to it (sol.c:46-139,     *)
(* 299-513).                                                                 *)
THEOREM ImplementsStore == CarefulSpec => IsStore
<1>1. Init => Store!Init
  BY StoreInit
<1>2. Inv /\ [CarefulNext]_vars =>
        Store!Next \/ UNCHANGED <<[s \in Slots |-> IF s \in Pending THEN Uninit ELSE value[s]], parent,
                                  {o \in Objects : count[o] > 0}, {o \in Objects : Rooted(o)}>>
  BY StoreStep DEF Seen, Alive, Roots
<1>. QED BY <1>1, <1>2, Invariance, PTL DEF CarefulSpec, IsStore, Store!Spec
=============================================================================
