--------------------------- MODULE SolTokenProofs ---------------------------
(***************************************************************************)
(* Proofs about SolToken for any identifiers, objects, scopes and          *)
(* bindings: types, exact counts of bindings and then of objects, and that *)
(* nothing reachable has been freed.                                       *)
(***************************************************************************)
EXTENDS SolToken, FiniteSets, FiniteSetTheorems, FunctionTheorems, SequenceTheorems,
        WellFoundedInduction, TLAPS

-----------------------------------------------------------------------------
(* Induction over the natural numbers, as facts about sets of numbers. *)

(* A set of numbers that has 0, and with a number the next, has them all:  *)
(* the form in which the proofs about walks, scopes and handlers use it.   *)
LEMMA SetInduction ==
  ASSUME NEW S, 0 \in S, \A n \in Nat : n \in S => n + 1 \in S
  PROVE  Nat \subseteq S
<1>. DEFINE R == OpToRel(<, Nat)
            T == Nat \ S
<1>1. SUFFICES ASSUME T # {} PROVE FALSE
  OBVIOUS
<1>2. IsWellFoundedOn(R, Nat)
  BY NatLessThanWellFounded
<1>3. R = {ss \in Nat \X Nat : ss[1] < ss[2]}
  BY DEF OpToRel
<1>. HIDE DEF R
<1>4. PICK x \in T : \A y \in T : ~(<<y, x>> \in R)
  BY <1>1, <1>2, WFMin
<1>5. x \in Nat /\ x # 0 /\ x - 1 \in Nat /\ (x - 1) + 1 = x
  BY <1>4
<1>6. <<x - 1, x>> \in R
  BY <1>3, <1>5
<1>7. x - 1 \in S
  BY <1>4, <1>5, <1>6
<1>. QED BY <1>4, <1>5, <1>7

(* A set of numbers that is not empty has a least one.                     *)
LEMMA Least ==
  ASSUME NEW S \in SUBSET Nat, S # {}
  PROVE  \E n \in S : \A m \in S : n <= m
<1>. DEFINE R == OpToRel(<, Nat)
<1>1. IsWellFoundedOn(R, Nat)
  BY NatLessThanWellFounded
<1>2. R = {ss \in Nat \X Nat : ss[1] < ss[2]}
  BY DEF OpToRel
<1>. HIDE DEF R
<1>3. PICK n \in S : \A m \in S : ~(<<m, n>> \in R)
  BY <1>1, WFMin
<1>4. ASSUME NEW m \in S PROVE n <= m
  <2>1. m \in Nat /\ n \in Nat
    OBVIOUS
  <2>2. ~(m < n)
    BY <1>2, <1>3, <2>1
  <2>. QED BY <2>1, <2>2
<1>. QED BY <1>4

(* A function on a set can be applied over and over.                       *)
LEMMA Iterates ==
  ASSUME NEW T, NEW a \in T, NEW g \in [T -> T]
  PROVE  \E w \in [Nat -> T] : w[0] = a /\ \A k \in Nat : w[k+1] = g[w[k]]
<1>. DEFINE Starts(h, k) == h[0] = a /\ \A i \in 1 .. k : h[i] = g[h[i-1]]
            Some == {k \in Nat : \E h \in [0 .. k -> T] : Starts(h, k)}
            One == {k \in Nat : \A h, j : Starts(h, k) /\ Starts(j, k) => h[k] = j[k]}
<1>1. Nat \subseteq Some
  <2>1. 0 \in Some
    <3>1. [i \in 0 .. 0 |-> a] \in [0 .. 0 -> T] /\ Starts([i \in 0 .. 0 |-> a], 0)
      OBVIOUS
    <3>. QED BY <3>1
  <2>2. ASSUME NEW k \in Nat, k \in Some PROVE k + 1 \in Some
    <3>1. PICK h \in [0 .. k -> T] : Starts(h, k)
      BY <2>2
    <3>2. PICK j : j = [i \in 0 .. k + 1 |-> IF i <= k THEN h[i] ELSE g[h[k]]]
      OBVIOUS
    <3>3. h[k] \in T /\ g[h[k]] \in T
      OBVIOUS
    <3>4. j \in [0 .. k + 1 -> T]
      <4>1. ASSUME NEW i \in 0 .. k + 1, i <= k PROVE h[i] \in T
        <5>1. i \in 0 .. k
          BY <4>1
        <5>. QED BY <5>1
      <4>. QED BY <3>2, <3>3, <4>1
    <3>5. j[0] = a
      BY <3>1, <3>2
    <3>6. ASSUME NEW i \in 1 .. k + 1 PROVE j[i] = g[j[i-1]]
      <4>1. i \in 0 .. k + 1 /\ i - 1 \in 0 .. k + 1 /\ i - 1 <= k /\ i - 1 \in 0 .. k
        OBVIOUS
      <4>2. j[i-1] = h[i-1]
        BY <3>2, <4>1
      <4>3. CASE i <= k
        <5>1. i \in 1 .. k /\ j[i] = h[i]
          BY <3>2, <4>1, <4>3
        <5>. QED BY <3>1, <4>2, <5>1
      <4>4. CASE ~(i <= k)
        <5>1. i - 1 = k /\ j[i] = g[h[k]]
          BY <3>2, <4>1, <4>4
        <5>. QED BY <4>2, <5>1
      <4>. QED BY <4>3, <4>4
    <3>7. Starts(j, k + 1)
      BY <3>5, <3>6
    <3>. HIDE DEF Starts
    <3>. QED BY <3>4, <3>7
  <2>. HIDE DEF Some
  <2>. QED BY <2>1, <2>2, SetInduction
<1>2. Nat \subseteq One
  <2>1. 0 \in One
    OBVIOUS
  <2>2. ASSUME NEW k \in Nat, k \in One PROVE k + 1 \in One
    <3>1. SUFFICES ASSUME NEW h, NEW j, Starts(h, k + 1), Starts(j, k + 1)
                   PROVE  h[k+1] = j[k+1]
      OBVIOUS
    <3>2. Starts(h, k) /\ Starts(j, k)
      BY <3>1
    <3>3. h[k] = j[k]
      BY <2>2, <3>2
    <3>4. k + 1 \in 1 .. k + 1 /\ (k + 1) - 1 = k
      OBVIOUS
    <3>. QED BY <3>1, <3>3, <3>4
  <2>. HIDE DEF One
  <2>. QED BY <2>1, <2>2, SetInduction
<1>. DEFINE G(k) == CHOOSE h \in [0 .. k -> T] : Starts(h, k)
            w == [k \in Nat |-> G(k)[k]]
<1>3. ASSUME NEW k \in Nat PROVE G(k) \in [0 .. k -> T] /\ Starts(G(k), k)
  <2>1. \E h \in [0 .. k -> T] : Starts(h, k)
    BY <1>1
  <2>. HIDE DEF Starts
  <2>. QED BY <2>1
<1>4. w \in [Nat -> T]
  <2>. HIDE DEF G
  <2>1. ASSUME NEW k \in Nat PROVE G(k)[k] \in T
    <3>1. k \in 0 .. k
      OBVIOUS
    <3>. QED BY <1>3, <3>1
  <2>. QED BY <2>1
<1>5. w[0] = a
  <2>1. G(0)[0] = a
    BY <1>3
  <2>. HIDE DEF G
  <2>. QED BY <2>1
<1>6. ASSUME NEW k \in Nat PROVE w[k+1] = g[w[k]]
  <2>1. Starts(G(k + 1), k + 1) /\ Starts(G(k), k)
    <3>. HIDE DEF Starts, G
    <3>. QED BY <1>3
  <2>. HIDE DEF G
  <2>2. Starts(G(k + 1), k) /\ k + 1 \in 1 .. k + 1 /\ (k + 1) - 1 = k
    BY <2>1
  <2>3. G(k + 1)[k] = G(k)[k]
    BY <1>2, <2>1, <2>2
  <2>4. G(k + 1)[k+1] = g[G(k + 1)[k]]
    BY <2>1, <2>2
  <2>. QED BY <2>3, <2>4
<1>. HIDE DEF w
<1>. QED BY <1>4, <1>5, <1>6

(* Finitely many numbers have a bound.                                     *)
LEMMA Bounded ==
  ASSUME NEW S, IsFiniteSet(S), NEW f \in [S -> Nat]
  PROVE  \E m \in Nat : \A x \in S : f[x] < m
<1>. DEFINE Ks == {k \in Nat : \A T \in SUBSET S :
                     Cardinality(T) = k => \E m \in Nat : \A x \in T : f[x] < m}
<1>1. 0 \in Ks
  <2>1. ASSUME NEW T \in SUBSET S, Cardinality(T) = 0 PROVE \E m \in Nat : \A x \in T : f[x] < m
    <3>1. IsFiniteSet(T)
      BY FS_Subset
    <3>2. T = {}
      BY <2>1, <3>1, FS_EmptySet
    <3>. QED BY <3>2
  <2>. QED BY <2>1
<1>2. ASSUME NEW k \in Nat, k \in Ks PROVE k + 1 \in Ks
  <2>1. SUFFICES ASSUME NEW T \in SUBSET S, Cardinality(T) = k + 1
                 PROVE  \E m \in Nat : \A x \in T : f[x] < m
    OBVIOUS
  <2>2. IsFiniteSet(T)
    BY FS_Subset
  <2>3. PICK y : y \in T
    <3>1. T # {}
      BY <2>1, FS_EmptySet
    <3>. QED BY <3>1
  <2>4. Cardinality(T \ {y}) = k
    <3>1. Cardinality(T \ {y}) = Cardinality(T) - 1
      BY <2>2, <2>3, FS_RemoveElement
    <3>. QED BY <2>1, <3>1
  <2>5. PICK m \in Nat : \A x \in T \ {y} : f[x] < m
    BY <1>2, <2>4
  <2>6. f[y] \in Nat
    BY <2>3
  <2>7. m + f[y] + 1 \in Nat
    BY <2>6
  <2>8. ASSUME NEW x \in T PROVE f[x] < m + f[y] + 1
    <3>1. f[x] \in Nat
      OBVIOUS
    <3>2. x = y \/ f[x] < m
      BY <2>5
    <3>. QED BY ONLY <2>6, <3>1, <3>2, m \in Nat
  <2>. QED BY <2>7, <2>8
<1>. HIDE DEF Ks
<1>3. Nat \subseteq Ks
  BY <1>1, <1>2, SetInduction
<1>4. Cardinality(S) \in Nat
  BY FS_CardinalityType
<1>. QED BY <1>3, <1>4 DEF Ks

-----------------------------------------------------------------------------
(* Facts about the constants and the state that the steps share. *)

LEMMA Disjointness ==
  /\ Scopes \cap Funcs = {} /\ NULL \notin Maps /\ NULL \notin Bindings
  /\ NULL \notin Objects /\ NULL \notin Idents /\ Nil \notin Objects
  /\ Funcs \subseteq Objects /\ Tokens \subseteq Objects /\ Objects \subseteq Values
BY MapsAssumption, ObjectsAssumption, NullAssumption DEF Maps, Objects, Values

\* The operation in progress has the fields of its kind.
LEMMA OpFields ==
  ASSUME TypeOK
  PROVE  /\ op.kind = "pop" => /\ op.scope \in Scopes /\ op.binding \in Bindings \cup {NULL}
                               /\ op \in [kind : {"pop"}, scope : Scopes, binding : Bindings \cup {NULL}]
         /\ op.kind = "register" => op.ident \in Idents /\ op.obj \in Values
         /\ op.kind = "update" => op.binding \in Bindings /\ op.obj \in Values
BY DEF TypeOK, Ops, Idle

\* Lookup returns a binding or NULL.
LEMMA LookupType ==
  ASSUME TypeOK, NEW n \in Idents
  PROVE  Lookup(n) \in Bindings \cup {NULL}
<1>1. CASE FirstHit(n) = {}
  BY <1>1 DEF Lookup
<1>2. CASE FirstHit(n) # {}
  <2>. DEFINE i == CHOOSE j \in FirstHit(n) : TRUE
  <2>1. i \in DOMAIN pool
    BY <1>2 DEF FirstHit, Hits
  <2>2. pool[i] \in Maps
    BY <2>1 DEF TypeOK
  <2>3. Lookup(n) = entry[pool[i]][n]
    BY <1>2 DEF Lookup
  <2>. QED BY <2>2, <2>3 DEF TypeOK
<1>. QED BY <1>1, <1>2

\* sol_obj_release keeps the types of the counts and of the stack.
LEMMA ReleaseType ==
  ASSUME NEW c \in [Objects -> Int], NEW v, NEW k \in Int,
         NEW stack \in Seq(Frames)
  PROVE  /\ Decrease(c, v, k) \in [Objects -> Int]
         /\ Opened(c, v, k, stack) \in Seq(Frames)
<1>1. Decrease(c, v, k) \in [Objects -> Int]
  BY DEF Decrease
<1>2. CASE v \in Funcs /\ c[v] <= k
  <2>1. Frame(v, NULL) \in Frames
    BY <1>2 DEF Frame, Frames
  <2>2. <<Frame(v, NULL)>> \in Seq(Frames)
    BY <2>1
  <2>3. Opened(c, v, k, stack) = <<Frame(v, NULL)>> \o stack
    BY <1>2 DEF Opened
  <2>. QED BY <1>1, <2>2, <2>3
<1>3. CASE ~(v \in Funcs /\ c[v] <= k)
  BY <1>1, <1>3 DEF Opened
<1>. QED BY <1>2, <1>3

\* A function keeps its type when it changes at one point, in its domain or not.
LEMMA ExceptType ==
  ASSUME NEW D, NEW R, NEW f \in [D -> R], NEW d, NEW e, d \in D => e \in R
  PROVE  [f EXCEPT ![d] = e] \in [D -> R]
<1>1. CASE d \in D
  BY <1>1
<1>2. CASE d \notin D
  <2>1. [f EXCEPT ![d] = e] = f
    BY <1>2
  <2>. QED BY <2>1
<1>. QED BY <1>1, <1>2

LEMMA RetainType ==
  ASSUME NEW c \in [Objects -> Int], NEW v, NEW k \in Int
  PROVE  Retain(c, v, k) \in [Objects -> Int]
BY DEF Retain

-----------------------------------------------------------------------------
(* Type correctness.  TypeOK puts a scope on top of the pool, which holds    *)
(* only because every closure map in the pool has a scope below it.          *)

PoolShape == \A i \in DOMAIN pool : pool[i] \in Funcs => i < Len(pool) /\ pool[i+1] \in Scopes

TypeInv == TypeOK /\ PoolShape

LEMMA InitType == Init => TypeInv
<1>. SUFFICES ASSUME Init PROVE TypeInv
  OBVIOUS
<1>1. PICK s \in Scopes : pool = <<s>>
  BY DEF Init
<1>2. pool \in Seq(Maps) /\ pool # <<>> /\ Head(pool) = s /\ DOMAIN pool = {1} /\ pool[1] = s
  BY <1>1 DEF Maps
<1>3. PoolShape
  BY <1>2, Disjointness DEF PoolShape
<1>4. op \in Ops
  BY DEF Init, Ops
<1>5. dealloc \in Seq(Frames)
  BY DEF Init
<1>6. value \in [Bindings -> Values]
  BY DEF Init, Values
<1>7. entry \in [Maps -> [Idents -> Bindings \cup {NULL}]]
  BY DEF Init, EmptyMap
<1>. QED BY <1>2, <1>3, <1>4, <1>5, <1>6, <1>7 DEF Init, TypeInv, TypeOK, Idle
LEMMA TypeStep == TypeInv /\ [Next]_vars => TypeInv'
<1>. SUFFICES ASSUME TypeInv, [Next]_vars PROVE TypeInv'
  OBVIOUS
<1>. USE Disjointness
<1>t. TypeOK /\ PoolShape
  BY DEF TypeInv
<1>c. count \in [Objects -> Int] /\ dealloc \in Seq(Frames)
  BY <1>t DEF TypeOK
<1>i. Idle \in Ops
  BY DEF Ops
<1>e. EmptyMap \in [Idents -> Bindings \cup {NULL}]
  BY DEF EmptyMap
<1>1. ASSUME NEW o \in Data \cup Tokens, ObjCreate(o) PROVE TypeInv'
  <2>1. count' \in [Objects -> Int] /\ held' \in [Objects -> Nat]
    BY <1>t, <1>1 DEF ObjCreate, TypeOK, Objects
  <2>. QED BY <1>t, <1>1, <2>1 DEF ObjCreate, TypeInv, TypeOK, PoolShape
<1>2. ASSUME NEW f \in Funcs, FuncCreate(f) PROVE TypeInv'
  <2>1. entry' \in [Maps -> [Idents -> Bindings \cup {NULL}]]
    <3>1. [n \in Idents |-> Lookup(n)] \in [Idents -> Bindings \cup {NULL}]
      BY <1>t, LookupType
    <3>. QED BY <1>t, <1>2, <3>1 DEF FuncCreate, TypeOK
  <2>2. \A S : S \subseteq Idents => Cardinality(S) \in Nat
    BY FS_Subset, FS_CardinalityType, IdentsAssumption
  <2>3. retain' \in [Bindings -> Int]
    <3>1. \A b \in Bindings : Cardinality(Sharing(b)) \in Nat
      BY <2>2 DEF Sharing
    <3>. QED BY <1>t, <1>2, <3>1 DEF FuncCreate, TypeOK
  <2>4. count' \in [Objects -> Int]
    <3>1. \A o \in Objects : Cardinality(Captured(o)) \in Nat
      BY <2>2 DEF Captured
    <3>. QED BY <1>t, <1>2, <3>1 DEF FuncCreate, TypeOK
  <2>5. held' \in [Objects -> Nat]
    BY <1>t, <1>2 DEF FuncCreate, TypeOK
  <2>. QED BY <1>t, <1>2, <2>1, <2>3, <2>4, <2>5 DEF FuncCreate, TypeInv, TypeOK, PoolShape
<1>3. ASSUME NEW o \in Objects, ObjRelease(o) PROVE TypeInv'
  <2>1. count' \in [Objects -> Int] /\ dealloc' \in Seq(Frames)
    <3>1. Decrease(count, o, 1) \in [Objects -> Int] /\ Opened(count, o, 1, dealloc) \in Seq(Frames)
      BY SMTT(30), <1>c, ReleaseType
    <3>2. count' = Decrease(count, o, 1) /\ dealloc' = Opened(count, o, 1, dealloc)
      BY <1>3 DEF ObjRelease, Release
    <3>. QED BY <3>1, <3>2
  <2>2. held' \in [Objects -> Nat]
    BY <1>t, <1>3 DEF ObjRelease, TypeOK
  <2>. QED BY <1>t, <1>3, <2>1, <2>2 DEF ObjRelease, TypeInv, TypeOK, PoolShape
<1>4. ASSUME NEW n \in Idents, TokenResolve(n) PROVE TypeInv'
  <2>1. count' \in [Objects -> Int]
    <3>1. Retain(count, value[Resolve(n)], 1) \in [Objects -> Int]
      BY <1>t, RetainType DEF TypeOK
    <3>. QED BY <1>4, <3>1 DEF TokenResolve
  <2>2. held' \in [Objects -> Nat]
    BY <1>t, <1>4 DEF TokenResolve, TypeOK
  <2>. QED BY <1>t, <1>4, <2>1, <2>2 DEF TokenResolve, TypeInv, TypeOK, PoolShape
<1>5. ASSUME NEW s \in Scopes, TokenPoolPush(s) PROVE TypeInv'
  <2>1. pool' \in Seq(Maps) /\ pool' # <<>> /\ Head(pool') \in Scopes
    BY <1>t, <1>5 DEF TokenPoolPush, TypeOK, Maps
  <2>2. PoolShape'
    BY <1>t, <1>5 DEF TokenPoolPush, TypeOK, PoolShape, Maps
  <2>. QED BY <1>t, <1>5, <2>1, <2>2 DEF TokenPoolPush, TypeInv, TypeOK
<1>6. ASSUME NEW f \in Funcs, NEW s \in Scopes, FuncEnter(f, s) PROVE TypeInv'
  <2>1. pool' \in Seq(Maps) /\ pool' # <<>> /\ Head(pool') \in Scopes
    BY <1>t, <1>6 DEF FuncEnter, TypeOK, Maps
  <2>2. PoolShape'
    <3>1. pool # <<>> /\ pool \in Seq(Maps) /\ pool[1] \in Scopes
      BY <1>t, <1>6 DEF FuncEnter, TypeOK, Ready, Idle
    <3>. QED BY <1>t, <1>6, <3>1 DEF FuncEnter, PoolShape, Maps
  <2>3. held' \in [Objects -> Nat]
    BY <1>t, <1>6 DEF FuncEnter, TypeOK
  <2>. QED BY <1>t, <1>6, <2>1, <2>2, <2>3 DEF FuncEnter, TypeInv, TypeOK
<1>7. ASSUME TokenPoolPop PROVE TypeInv'
  <2>1. pool' \in Seq(Maps) /\ pool' # <<>>
    <3>1. pool \in Seq(Maps) /\ pool # <<>> /\ Len(pool) > 1 /\ pool' = Tail(pool)
      BY <1>t, <1>7 DEF TokenPoolPop, TypeOK
    <3>2. Tail(pool) \in Seq(Maps) /\ Len(Tail(pool)) > 0
      BY <3>1, HeadTailProperties, LenProperties
    <3>. QED BY <3>1, <3>2
  <2>2. PoolShape'
    BY <1>t, <1>7 DEF TokenPoolPop, TypeOK, PoolShape
  <2>3. op' \in Ops /\ op'.kind = "pop"
    BY <1>t, <1>7 DEF TokenPoolPop, PopOf, TypeOK, Ops, Ready, Idle
  <2>. QED BY <1>t, <1>7, <2>1, <2>2, <2>3 DEF TokenPoolPop, TypeInv, TypeOK
<1>8. ASSUME NEW n \in Idents, PopEntry(n) PROVE TypeInv'
  <2>. DEFINE b == entry[op.scope][n]
  <2>1. op.scope \in Maps /\ b \in Bindings
    BY <1>t, <1>8, OpFields DEF PopEntry, Popping, TypeOK, Maps
  <2>2. op' \in Ops /\ op'.kind = "pop"
    BY <1>t, <1>8, <2>1, OpFields DEF PopEntry, Popping, PopOf, Ops
  <2>3. count' \in [Objects -> Int] /\ dealloc' \in Seq(Frames)
    <3>. DEFINE v == value[b]
    <3>1. count' = Decrease(count, v, 1) /\ dealloc' = Opened(count, v, 1, dealloc)
      BY <1>8 DEF PopEntry, Release
    <3>2. Decrease(count, v, 1) \in [Objects -> Int] /\ Opened(count, v, 1, dealloc) \in Seq(Frames)
      <4>. HIDE DEF v
      <4>. QED BY <1>c, ReleaseType
    <3>. QED BY <3>1, <3>2
  <2>4. entry' \in [Maps -> [Idents -> Bindings \cup {NULL}]]
    BY <1>t, <1>8, <2>1 DEF PopEntry, TypeOK
  <2>. QED BY <1>t, <1>8, <2>2, <2>3, <2>4 DEF PopEntry, TypeInv, TypeOK, PoolShape
<1>9. ASSUME PopBinding PROVE TypeInv'
  <2>1. op' \in Ops /\ op'.kind = "pop"
    BY <1>t, <1>9, OpFields DEF PopBinding, Popping, PopOf, Ops
  <2>2. retain' \in [Bindings -> Int]
    BY <1>t, <1>9, OpFields DEF PopBinding, Popping, TypeOK
  <2>. QED BY <1>t, <1>9, <2>1, <2>2 DEF PopBinding, TypeInv, TypeOK, PoolShape
<1>10. ASSUME PopDone PROVE TypeInv'
  <2>1. pool \in Seq(Maps) /\ pool # <<>> /\ Head(pool) = pool[1] /\ pool[1] \in Maps
    BY <1>t DEF TypeOK
  <2>2. CASE Head(pool) \in Funcs
    <3>1. 1 < Len(pool) /\ pool[2] \in Scopes
      BY <1>t, <2>1, <2>2 DEF PoolShape
    <3>2. pool' = Tail(pool) /\ held' \in [Objects -> Nat]
      BY <1>t, <1>10, <2>2 DEF PopDone, TypeOK
    <3>3. pool' \in Seq(Maps) /\ pool' # <<>> /\ Head(pool') \in Scopes
      <4>1. Tail(pool) \in Seq(Maps) /\ Len(Tail(pool)) > 0 /\ Tail(pool)[1] = pool[2]
        BY <2>1, <3>1, HeadTailProperties, LenProperties
      <4>2. Tail(pool) # <<>>
        BY <4>1, \A p \in Seq(Maps) : Len(p) > 0 => p # <<>>
      <4>. QED BY <3>1, <3>2, <4>1, <4>2
    <3>4. PoolShape'
      BY <1>t, <2>1, <3>2 DEF PoolShape
    <3>. QED BY <1>t, <1>i, <1>10, <3>2, <3>3, <3>4 DEF PopDone, TypeInv, TypeOK
  <2>3. CASE Head(pool) \notin Funcs
    <3>1. UNCHANGED <<pool, held>> /\ Head(pool) \in Scopes
      BY <1>10, <2>1, <2>3 DEF PopDone, Maps
    <3>. QED BY <1>t, <1>i, <1>10, <3>1 DEF PopDone, TypeInv, TypeOK, PoolShape
  <2>. QED BY <2>2, <2>3
<1>11. ASSUME NEW n \in Idents, NEW v \in Values, TokenRegister(n, v) PROVE TypeInv'
  <2>1. op' \in Ops /\ op'.kind = "register"
    BY <1>11 DEF TokenRegister, Ops
  <2>2. Retain(count, v, 1) \in [Objects -> Int]
    BY <1>t, RetainType DEF TypeOK
  <2>3. count' \in [Objects -> Int] /\ dealloc' \in Seq(Frames)
    <3>1. CASE entry[Head(pool)][n] = NULL
      BY <1>t, <1>11, <2>2, <3>1 DEF TokenRegister, TypeOK
    <3>2. CASE entry[Head(pool)][n] # NULL
      <4>. DEFINE c == Retain(count, v, 1)
                  old == value[entry[Head(pool)][n]]
      <4>1. count' = Decrease(c, old, 1) /\ dealloc' = Opened(c, old, 1, dealloc)
        BY <1>11, <3>2 DEF TokenRegister, Release
      <4>2. Decrease(c, old, 1) \in [Objects -> Int] /\ Opened(c, old, 1, dealloc) \in Seq(Frames)
        <5>1. c \in [Objects -> Int]
          BY <2>2
        <5>. HIDE DEF c, old
        <5>. QED BY <1>c, <5>1, ReleaseType
      <4>. QED BY <4>1, <4>2
    <3>. QED BY <3>1, <3>2
  <2>4. Head(pool) \in Scopes
    BY <1>t, <1>11 DEF TokenRegister, Ready, Idle, TypeOK
  <2>. QED BY <1>t, <1>11, <2>1, <2>3, <2>4 DEF TokenRegister, TypeInv, TypeOK, PoolShape
<1>d. Dropped \in [Bindings -> Int]
  <2>1. CASE OldBinding = NULL
    BY <1>t, <2>1 DEF TypeOK, Dropped
  <2>2. CASE OldBinding # NULL
    <3>. DEFINE b == OldBinding
    <3>1. Dropped = [retain EXCEPT ![b] = retain[b] - 1]
      BY <2>2 DEF Dropped
    <3>2. b \in Bindings => retain[b] \in Int
      BY <1>t DEF TypeOK
    <3>. HIDE DEF b
    <3>. QED BY <1>t, <3>1, <3>2, ExceptType DEF TypeOK
  <2>. QED BY <2>1, <2>2
<1>h. op.kind = "register" => Head(pool) \in Scopes /\ Head(pool) \in Maps /\ op.ident \in Idents /\ op.obj \in Values
  BY <1>t, OpFields DEF TypeOK, Maps
<1>12. ASSUME RegisterAlias PROVE TypeInv'
  <2>. DEFINE v == op.obj
              b == Aliased(v)
  <2>1. b \in Bindings
    <3>1. IdentOf[v] \in Idents
      BY <1>12, ObjectsAssumption DEF RegisterAlias, Resolvable
    <3>2. OldBinding \in Bindings \cup {NULL}
      BY <1>t, <1>12, <1>h DEF RegisterAlias, Registering, OldBinding, TypeOK
    <3>. QED BY <1>t, <1>12, <3>1, <3>2, LookupType DEF RegisterAlias, Aliased
  <2>2. entry' \in [Maps -> [Idents -> Bindings \cup {NULL}]]
    BY <1>t, <1>12, <1>h, <2>1 DEF RegisterAlias, Registering, TypeOK
  <2>3. retain' \in [Bindings -> Int]
    BY <1>12, <1>d, <2>1 DEF RegisterAlias
  <2>4. count' \in [Objects -> Int] /\ dealloc' \in Seq(Frames)
    <3>1. Retain(count, value[b], 1) \in [Objects -> Int]
      BY <1>t, RetainType DEF TypeOK
    <3>. DEFINE c == Retain(count, value[b], 1)
    <3>2. count' = Decrease(c, v, 1) /\ dealloc' = Opened(c, v, 1, dealloc)
      BY <1>12 DEF RegisterAlias, Release
    <3>3. Decrease(c, v, 1) \in [Objects -> Int] /\ Opened(c, v, 1, dealloc) \in Seq(Frames)
      <4>1. c \in [Objects -> Int]
        BY <3>1
      <4>. HIDE DEF c, v
      <4>. QED BY <1>c, <4>1, ReleaseType
    <3>. QED BY <3>2, <3>3
  <2>. QED BY <1>t, <1>i, <1>12, <1>h, <2>2, <2>3, <2>4 DEF RegisterAlias, Registering, TypeInv, TypeOK, PoolShape
<1>13. ASSUME RegisterFresh PROVE TypeInv'
  <2>1. PICK b \in Bindings :
          /\ entry' = [entry EXCEPT ![Head(pool)][op.ident] = b]
          /\ value' = [value EXCEPT ![b] = IF IsUndefined(op.obj) THEN NULL ELSE op.obj]
          /\ retain' = [Dropped EXCEPT ![b] = 1]
    BY <1>13 DEF RegisterFresh
  <2>2. entry' \in [Maps -> [Idents -> Bindings \cup {NULL}]]
    BY <1>t, <1>13, <1>h, <2>1 DEF RegisterFresh, Registering, TypeOK
  <2>3. retain' \in [Bindings -> Int]
    BY <1>d, <2>1
  <2>4. value' \in [Bindings -> Values]
    <3>1. (IF IsUndefined(op.obj) THEN NULL ELSE op.obj) \in Values
      BY <1>13, <1>h DEF RegisterFresh, Registering, Values
    <3>. QED BY <1>t, <2>1, <3>1 DEF TypeOK
  <2>5. count' \in [Objects -> Int] /\ dealloc' \in Seq(Frames)
    <3>. DEFINE v == op.obj
    <3>1. Decrease(count, v, 1) \in [Objects -> Int] /\ Opened(count, v, 1, dealloc) \in Seq(Frames)
      BY <1>c, ReleaseType
    <3>2. \/ count' = Decrease(count, v, 1) /\ dealloc' = Opened(count, v, 1, dealloc)
          \/ UNCHANGED <<count, dealloc>>
      BY <1>13 DEF RegisterFresh, Release
    <3>. QED BY <1>t, <3>1, <3>2 DEF TypeOK
  <2>. QED BY <1>t, <1>i, <1>13, <1>h, <2>2, <2>3, <2>4, <2>5 DEF RegisterFresh, Registering, TypeInv, TypeOK, PoolShape
<1>14. ASSUME RegisterNull \/ RegisterWild PROVE TypeInv'
  BY <1>t, <1>14 DEF RegisterNull, RegisterWild, TypeInv, TypeOK, PoolShape
<1>15. ASSUME NEW n \in Idents, NEW v \in Values, TokenUpdate(n, v) PROVE TypeInv'
  <2>. DEFINE b == Lookup(n)
  <2>1. b \in Bindings
    BY <1>t, <1>15, LookupType DEF TokenUpdate
  <2>2. op' \in Ops /\ op'.kind = "update"
    BY <1>15, <2>1 DEF TokenUpdate, Ops
  <2>3. retain[b] \in Int
    BY <1>t, <2>1 DEF TypeOK
  <2>4. count' \in [Objects -> Int] /\ dealloc' \in Seq(Frames)
    <3>1. Retain(count, v, retain[b]) \in [Objects -> Int]
      BY <1>t, <2>3, RetainType DEF TypeOK
    <3>2. Release(Retain(count, v, retain[b]), value[b], retain[b], dealloc)
      BY <1>15 DEF TokenUpdate
    <3>. QED BY <1>t, <2>3, <3>1, <3>2, ReleaseType DEF TypeOK, Release
  <2>5. Head(pool) \in Scopes
    BY <1>t, <1>15 DEF TokenUpdate, Ready, Idle, TypeOK
  <2>. QED BY <1>t, <1>15, <2>2, <2>4, <2>5 DEF TokenUpdate, TypeInv, TypeOK, PoolShape
<1>16. ASSUME UpdateDone PROVE TypeInv'
  <2>1. value' \in [Bindings -> Values]
    BY <1>t, <1>16, OpFields DEF UpdateDone, TypeOK
  <2>2. Head(pool) \in Scopes
    BY <1>t, <1>16 DEF UpdateDone, TypeOK
  <2>. QED BY <1>t, <1>i, <1>16, <2>1, <2>2 DEF UpdateDone, TypeInv, TypeOK, PoolShape
<1>f. Destroying => /\ Dead \in Frames /\ Dead.func \in Funcs /\ Dead.func \in Maps
                    /\ Tail(dealloc) \in Seq(Frames)
  <2>. SUFFICES ASSUME Destroying PROVE Dead \in Frames /\ Dead.func \in Funcs /\ Tail(dealloc) \in Seq(Frames)
    BY DEF Maps
  <2>1. dealloc \in Seq(Frames) /\ dealloc # <<>>
    BY <1>t DEF TypeOK, Destroying
  <2>2. Dead \in Frames /\ Tail(dealloc) \in Seq(Frames)
    BY <2>1, HeadTailProperties DEF Dead
  <2>. QED BY <2>2 DEF Frames
<1>p. ASSUME NEW k \in Idents \cup {NULL}, Destroying
      PROVE  <<Frame(Dead.func, k)>> \o Tail(dealloc) \in Seq(Frames)
  <2>1. Frame(Dead.func, k) \in Frames
    BY <1>f, <1>p DEF Frame, Frames
  <2>2. <<Frame(Dead.func, k)>> \in Seq(Frames)
    BY <2>1
  <2>. QED BY <1>f, <1>p, <2>2
<1>17. ASSUME NEW n \in Idents, DeallocEntry(n) PROVE TypeInv'
  <2>. DEFINE v == value[entry[Dead.func][n]]
  <2>1. count' \in [Objects -> Int] /\ dealloc' \in Seq(Frames)
    <3>. DEFINE stack == <<Frame(Dead.func, n)>> \o Tail(dealloc)
    <3>1. count' = Decrease(count, v, 1) /\ dealloc' = Opened(count, v, 1, stack)
      BY <1>17 DEF DeallocEntry, Release
    <3>2. stack \in Seq(Frames)
      BY <1>p, <1>17 DEF DeallocEntry
    <3>3. Decrease(count, v, 1) \in [Objects -> Int] /\ Opened(count, v, 1, stack) \in Seq(Frames)
      <4>1. Decrease(count, v, 1) \in [Objects -> Int]
        BY <1>c DEF Decrease
      <4>2. Opened(count, v, 1, stack) \in Seq(Frames)
        <5>. HIDE DEF stack, v
        <5>. QED BY <1>c, <3>2, ReleaseType
      <4>. QED BY <4>1, <4>2
    <3>. QED BY <3>1, <3>3
  <2>. QED BY <1>t, <1>17, <2>1 DEF DeallocEntry, TypeInv, TypeOK, PoolShape
<1>18. ASSUME NEW n \in Idents, DeallocRunaway(n) PROVE TypeInv'
  BY <1>t, <1>18 DEF DeallocRunaway, TypeInv, TypeOK, PoolShape
<1>19. ASSUME DeallocBinding PROVE TypeInv'
  <2>1. Dead.ident \in Idents
    BY <1>f, <1>19 DEF DeallocBinding, Frames
  <2>2. entry' \in [Maps -> [Idents -> Bindings \cup {NULL}]]
    BY <1>t, <1>f, <1>19, <2>1 DEF DeallocBinding, TypeOK
  <2>3. retain' \in [Bindings -> Int]
    <3>. DEFINE b == entry[Dead.func][Dead.ident]
    <3>1. retain' = [retain EXCEPT ![b] = retain[b] - 1]
      BY <1>19 DEF DeallocBinding
    <3>2. b \in Bindings => retain[b] \in Int
      BY <1>t DEF TypeOK
    <3>. HIDE DEF b
    <3>. QED BY <1>t, <3>1, <3>2, ExceptType DEF TypeOK
  <2>4. dealloc' \in Seq(Frames)
    BY <1>p, <1>19 DEF DeallocBinding
  <2>. QED BY <1>t, <1>19, <2>2, <2>3, <2>4 DEF DeallocBinding, TypeInv, TypeOK, PoolShape
<1>20. ASSUME DeallocDone PROVE TypeInv'
  BY <1>t, <1>f, <1>20 DEF DeallocDone, TypeInv, TypeOK, PoolShape
<1>21. CASE UNCHANGED vars
  BY <1>t, <1>21 DEF vars, TypeInv, TypeOK, PoolShape
<1>22. CASE Call
  BY <1>22, <1>1, <1>2, <1>3, <1>4, <1>5, <1>6, <1>7, <1>11, <1>15 DEF Call
<1>23. CASE Continue
  BY <1>23, <1>8, <1>9, <1>10, <1>12, <1>13, <1>14, <1>16, <1>17, <1>18, <1>19, <1>20 DEF Continue
<1>. QED BY <1>21, <1>22, <1>23 DEF Next

(* Every state of every execution has the types of soltoken.h and sol.h, and *)
(* the most local map of the pool is a scope, never a closure.               *)
THEOREM TypeCorrect == Spec => []TypeOK
<1>1. TypeInv => TypeOK
  BY DEF TypeInv
<1>. QED BY InitType, TypeStep, <1>1, PTL DEF Spec

-----------------------------------------------------------------------------
(* Counting slots. *)

Ind(p) == IF p THEN 1 ELSE 0

LEMMA SlotSets ==
  ASSUME NEW A, A \subseteq Slots
  PROVE  IsFiniteSet(A) /\ Cardinality(A) \in Nat
<1>1. IsFiniteSet(Maps)
  BY MapsAssumption, FS_Union DEF Maps
<1>2. IsFiniteSet(Slots)
  BY <1>1, IdentsAssumption, FS_Product DEF Slots
<1>. QED BY <1>2, FS_Subset, FS_CardinalityType

\* Two sets of slots that agree everywhere but at x.
LEMMA OneSlot ==
  ASSUME NEW A, NEW B, A \subseteq Slots, B \subseteq Slots, NEW x,
         \A s \in Slots : s # x => (s \in A <=> s \in B)
  PROVE  Cardinality(B) = Cardinality(A) - Ind(x \in A) + Ind(x \in B)
<1>1. A \ {x} = B \ {x}
  OBVIOUS
<1>2. Cardinality(A \ {x}) = Cardinality(A) - Ind(x \in A)
  BY SlotSets, FS_RemoveElement DEF Ind
<1>3. Cardinality(B \ {x}) = Cardinality(B) - Ind(x \in B)
  BY SlotSets, FS_RemoveElement DEF Ind
<1>4. Cardinality(A) \in Nat /\ Cardinality(B) \in Nat
  BY SlotSets
<1>5. Ind(x \in A) \in 0 .. 1 /\ Ind(x \in B) \in 0 .. 1
  BY DEF Ind
<1>6. Cardinality(A) - Ind(x \in A) = Cardinality(B) - Ind(x \in B)
  BY <1>1, <1>2, <1>3
<1>. QED BY <1>4, <1>5, <1>6

\* A set of slots that grows by the slots of map f with an identifier in N.
LEMMA MoreSlots ==
  ASSUME NEW A, A \subseteq Slots, NEW f \in Maps, NEW N, N \subseteq Idents,
         \A n \in N : <<f, n>> \notin A
  PROVE  Cardinality(A \cup ({f} \X N)) = Cardinality(A) + Cardinality(N)
<1>1. IsFiniteSet(N) /\ Cardinality(N) \in Nat
  BY IdentsAssumption, FS_Subset, FS_CardinalityType
<1>2. IsFiniteSet({f}) /\ Cardinality({f}) = 1
  BY FS_Singleton
<1>3. IsFiniteSet({f} \X N) /\ Cardinality({f} \X N) = Cardinality({f}) * Cardinality(N)
  BY <1>1, <1>2, FS_Product
<1>4. A \cap ({f} \X N) = {}
  OBVIOUS
<1>5. Cardinality(A \cap ({f} \X N)) = 0
  BY <1>4, FS_EmptySet
<1>6. Cardinality(A \cup ({f} \X N)) = Cardinality(A) + Cardinality({f} \X N) - Cardinality(A \cap ({f} \X N))
  BY <1>3, SlotSets, FS_Union
<1>. QED BY <1>1, <1>2, <1>3, <1>5, <1>6, SlotSets

-----------------------------------------------------------------------------
(* Stacks of sol_obj_release calls. *)

FuncsOf(st)   == {st[i].func : i \in DOMAIN st}
SettledBy(st) == {s \in Slots : \E i \in DOMAIN st : s = <<st[i].func, st[i].ident>>}
Distinct(st)  == \A i, j \in DOMAIN st : st[i].func = st[j].func => i = j
Outermost(st) == st[Len(st)].func

LEMMA PushFrame ==
  ASSUME NEW st \in Seq(Frames), NEW fr \in Frames, NEW q, q = <<fr>> \o st
  PROVE  /\ q \in Seq(Frames) /\ q # <<>>
         /\ FuncsOf(q) = {fr.func} \cup FuncsOf(st)
         /\ SettledBy(q) = SettledBy(st) \cup ({<<fr.func, fr.ident>>} \cap Slots)
         /\ Distinct(q) <=> Distinct(st) /\ fr.func \notin FuncsOf(st)
         /\ Outermost(q) = IF st = <<>> THEN fr.func ELSE Outermost(st)
<1>1. /\ q \in Seq(Frames) /\ Len(q) = Len(st) + 1 /\ Len(st) \in Nat
      /\ q[1] = fr /\ \A i \in DOMAIN st : q[i+1] = st[i]
      /\ DOMAIN q = 1 .. Len(st) + 1 /\ DOMAIN st = 1 .. Len(st)
  OBVIOUS
<1>2. \A i \in DOMAIN q : i = 1 \/ (i - 1 \in DOMAIN st /\ q[i] = st[i-1])
  BY <1>1
<1>3. \A i \in DOMAIN st : i + 1 \in DOMAIN q
  BY <1>1
<1>4. 1 \in DOMAIN q
  BY <1>1
<1>5. FuncsOf(q) = {fr.func} \cup FuncsOf(st)
  BY <1>1, <1>2, <1>3, <1>4 DEF FuncsOf
<1>6. SettledBy(q) = SettledBy(st) \cup ({<<fr.func, fr.ident>>} \cap Slots)
  <2>1. ASSUME NEW s \in SettledBy(q) PROVE s \in SettledBy(st) \cup ({<<fr.func, fr.ident>>} \cap Slots)
    <3>1. PICK i \in DOMAIN q : s = <<q[i].func, q[i].ident>>
      BY <2>1 DEF SettledBy
    <3>2. s \in Slots
      BY <2>1 DEF SettledBy
    <3>. QED BY <1>1, <1>2, <3>1, <3>2 DEF SettledBy
  <2>2. ASSUME NEW s \in SettledBy(st) PROVE s \in SettledBy(q)
    <3>1. PICK i \in DOMAIN st : s = <<st[i].func, st[i].ident>>
      BY <2>2 DEF SettledBy
    <3>2. s \in Slots /\ i + 1 \in DOMAIN q /\ q[i+1] = st[i]
      BY <1>1, <1>3, <2>2 DEF SettledBy
    <3>. QED BY <3>1, <3>2 DEF SettledBy
  <2>3. ASSUME <<fr.func, fr.ident>> \in Slots PROVE <<fr.func, fr.ident>> \in SettledBy(q)
    BY <1>1, <1>4, <2>3 DEF SettledBy
  <2>. QED BY <2>1, <2>2, <2>3
<1>7. Distinct(q) => Distinct(st) /\ fr.func \notin FuncsOf(st)
  <2>. SUFFICES ASSUME Distinct(q) PROVE Distinct(st) /\ fr.func \notin FuncsOf(st)
    OBVIOUS
  <2>1. ASSUME NEW i \in DOMAIN st, NEW j \in DOMAIN st, st[i].func = st[j].func PROVE i = j
    <3>1. q[i+1] = st[i] /\ q[j+1] = st[j] /\ i + 1 \in DOMAIN q /\ j + 1 \in DOMAIN q
      BY <1>1, <1>3
    <3>2. i + 1 = j + 1
      BY <2>1, <3>1 DEF Distinct
    <3>. QED BY <1>1, <3>2
  <2>2. ASSUME NEW i \in DOMAIN st PROVE st[i].func # fr.func
    <3>1. q[i+1] = st[i] /\ i + 1 \in DOMAIN q /\ i + 1 # 1
      BY <1>1, <1>3
    <3>. QED BY <1>1, <1>4, <3>1 DEF Distinct
  <2>. QED BY <2>1, <2>2 DEF Distinct, FuncsOf
<1>8. Distinct(st) /\ fr.func \notin FuncsOf(st) => Distinct(q)
  <2>. SUFFICES ASSUME Distinct(st), fr.func \notin FuncsOf(st),
                       NEW i \in DOMAIN q, NEW j \in DOMAIN q, q[i].func = q[j].func
                PROVE  i = j
    BY DEF Distinct
  <2>1. \A k \in DOMAIN st : st[k].func # fr.func
    BY DEF FuncsOf
  <2>2. CASE i = 1 \/ j = 1
    BY <1>1, <1>2, <2>1, <2>2
  <2>3. CASE i # 1 /\ j # 1
    <3>1. i - 1 = j - 1
      BY <1>2, <2>3 DEF Distinct
    <3>. QED BY <1>1, <3>1
  <2>. QED BY <2>2, <2>3
<1>9. Outermost(q) = IF st = <<>> THEN fr.func ELSE Outermost(st)
  <2>1. CASE st = <<>>
    BY <1>1, <2>1 DEF Outermost
  <2>2. CASE st # <<>>
    <3>1. Len(st) \in DOMAIN st
      BY <1>1, <2>2
    <3>. QED BY <1>1, <2>2, <3>1 DEF Outermost
  <2>. QED BY <2>1, <2>2
<1>10. q # <<>>
  BY <1>1
<1>. QED BY <1>1, <1>5, <1>6, <1>7, <1>8, <1>9, <1>10

\* What sol_obj_release adds to the stack.
LEMMA OpenedStack ==
  ASSUME NEW c, NEW v, NEW k, NEW st \in Seq(Frames), NEW q, q = Opened(c, v, k, st)
  PROVE  /\ q \in Seq(Frames)
         /\ FuncsOf(q) = FuncsOf(st) \cup (IF v \in Funcs /\ c[v] <= k THEN {v} ELSE {})
         /\ SettledBy(q) = SettledBy(st)
         /\ Distinct(st) /\ v \notin FuncsOf(st) => Distinct(q)
         /\ st # <<>> => Outermost(q) = Outermost(st)
         /\ st = <<>> /\ q # <<>> => Outermost(q) = v
<1>1. CASE v \in Funcs /\ c[v] <= k
  <2>1. Frame(v, NULL) \in Frames /\ Frame(v, NULL).func = v /\ Frame(v, NULL).ident = NULL
    BY <1>1 DEF Frame, Frames
  <2>2. q = <<Frame(v, NULL)>> \o st
    BY <1>1 DEF Opened
  <2>3. <<v, NULL>> \notin Slots
    BY Disjointness DEF Slots
  <2>. DEFINE fr == Frame(v, NULL)
  <2>4. fr \in Frames /\ q = <<fr>> \o st
    BY <2>1, <2>2
  <2>. HIDE DEF fr
  <2>5. /\ q \in Seq(Frames) /\ q # <<>>
        /\ FuncsOf(q) = {fr.func} \cup FuncsOf(st)
        /\ SettledBy(q) = SettledBy(st) \cup ({<<fr.func, fr.ident>>} \cap Slots)
        /\ Distinct(q) <=> Distinct(st) /\ fr.func \notin FuncsOf(st)
        /\ Outermost(q) = IF st = <<>> THEN fr.func ELSE Outermost(st)
    BY <2>4, PushFrame
  <2>. USE DEF fr
  <2>6. /\ q \in Seq(Frames) /\ q # <<>>
        /\ FuncsOf(q) = {v} \cup FuncsOf(st)
        /\ SettledBy(q) = SettledBy(st) \cup ({<<v, NULL>>} \cap Slots)
        /\ Distinct(q) <=> Distinct(st) /\ v \notin FuncsOf(st)
        /\ Outermost(q) = IF st = <<>> THEN v ELSE Outermost(st)
    BY <2>1, <2>5
  <2>. QED BY <1>1, <2>3, <2>6
<1>2. CASE ~(v \in Funcs /\ c[v] <= k)
  BY <1>2 DEF Opened
<1>. QED BY <1>1, <1>2

\* The innermost call: its frame is the head of the stack.
LEMMA HeadFrame ==
  ASSUME TypeOK, Destroying
  PROVE  /\ Dead \in Frames /\ Dead.func \in Funcs /\ Dead.ident \in Idents \cup {NULL}
         /\ Tail(dealloc) \in Seq(Frames) /\ dealloc # <<>> /\ dealloc \in Seq(Frames)
         /\ FuncsOf(dealloc) = {Dead.func} \cup FuncsOf(Tail(dealloc))
         /\ SettledBy(dealloc) = SettledBy(Tail(dealloc)) \cup ({<<Dead.func, Dead.ident>>} \cap Slots)
         /\ Distinct(dealloc) <=> Distinct(Tail(dealloc)) /\ Dead.func \notin FuncsOf(Tail(dealloc))
         /\ Outermost(dealloc) = IF Tail(dealloc) = <<>> THEN Dead.func ELSE Outermost(Tail(dealloc))
<1>1. dealloc \in Seq(Frames) /\ dealloc # <<>>
  BY DEF TypeOK, Destroying
<1>2. Dead \in Frames /\ Tail(dealloc) \in Seq(Frames)
  BY <1>1, HeadTailProperties DEF Dead
<1>3. dealloc = <<Dead>> \o Tail(dealloc)
  <2>. DEFINE q == <<Dead>> \o Tail(dealloc)
  <2>1. /\ q \in Seq(Frames) /\ Len(q) = Len(dealloc) /\ q[1] = dealloc[1]
        /\ \A i \in 1 .. Len(Tail(dealloc)) : q[i+1] = dealloc[i+1]
        /\ Len(Tail(dealloc)) = Len(dealloc) - 1
    BY <1>1, <1>2, HeadTailProperties DEF Dead
  <2>2. ASSUME NEW i \in 1 .. Len(q) PROVE q[i] = dealloc[i]
    <3>1. i = 1 \/ i - 1 \in 1 .. Len(Tail(dealloc))
      BY <1>1, <2>1
    <3>2. CASE i = 1
      BY <2>1, <3>2
    <3>3. CASE i - 1 \in 1 .. Len(Tail(dealloc))
      <4>1. q[(i-1)+1] = dealloc[(i-1)+1] /\ (i-1)+1 = i
        BY <1>1, <2>1, <3>3
      <4>. QED BY <4>1
    <3>. QED BY <3>1, <3>2, <3>3
  <2>. HIDE DEF q
  <2>3. q = dealloc
    BY <1>1, <2>1, <2>2, SeqEqual
  <2>. QED BY <2>3 DEF q
<1>4. Dead.func \in Funcs /\ Dead.ident \in Idents \cup {NULL}
  BY <1>2 DEF Frames
<1>. HIDE DEF Dead
<1>. QED BY <1>1, <1>2, <1>3, <1>4, PushFrame

\* The innermost call goes on to entry k of its closure.
LEMMA MoveHead ==
  ASSUME TypeOK, Destroying, NEW k \in Idents \cup {NULL},
         NEW q, q = <<Frame(Dead.func, k)>> \o Tail(dealloc)
  PROVE  /\ q \in Seq(Frames) /\ q # <<>>
         /\ FuncsOf(q) = FuncsOf(dealloc)
         /\ SettledBy(q) = SettledBy(Tail(dealloc)) \cup ({<<Dead.func, k>>} \cap Slots)
         /\ Distinct(q) <=> Distinct(dealloc)
         /\ Outermost(q) = Outermost(dealloc)
<1>. DEFINE fr == Frame(Dead.func, k)
<1>1. fr \in Frames /\ fr.func = Dead.func /\ fr.ident = k
  BY HeadFrame DEF Frame, Frames
<1>2. q = <<fr>> \o Tail(dealloc)
  OBVIOUS
<1>. HIDE DEF fr
<1>3. Tail(dealloc) \in Seq(Frames)
  BY HeadFrame
<1>4. /\ q \in Seq(Frames) /\ q # <<>>
      /\ FuncsOf(q) = {fr.func} \cup FuncsOf(Tail(dealloc))
      /\ SettledBy(q) = SettledBy(Tail(dealloc)) \cup ({<<fr.func, fr.ident>>} \cap Slots)
      /\ Distinct(q) <=> Distinct(Tail(dealloc)) /\ fr.func \notin FuncsOf(Tail(dealloc))
      /\ Outermost(q) = IF Tail(dealloc) = <<>> THEN fr.func ELSE Outermost(Tail(dealloc))
  <2>. DEFINE tl == Tail(dealloc)
  <2>. HIDE DEF tl
  <2>1. tl \in Seq(Frames) /\ q = <<fr>> \o tl
    BY <1>2, <1>3 DEF tl
  <2>2. /\ q \in Seq(Frames) /\ q # <<>>
        /\ FuncsOf(q) = {fr.func} \cup FuncsOf(tl)
        /\ SettledBy(q) = SettledBy(tl) \cup ({<<fr.func, fr.ident>>} \cap Slots)
        /\ Distinct(q) <=> Distinct(tl) /\ fr.func \notin FuncsOf(tl)
        /\ Outermost(q) = IF tl = <<>> THEN fr.func ELSE Outermost(tl)
    BY <1>1, <2>1, PushFrame
  <2>. QED BY <2>2 DEF tl
<1>. QED BY <1>1, <1>4, HeadFrame

-----------------------------------------------------------------------------
(***************************************************************************)
(* Proofs that the reference counts of SolToken are exact and that no      *)
(* entry dangles.                                                          *)
(*                                                                         *)
(* The counts alone are not inductive.  A closure's address may be reused  *)
(* only because its map is empty by then (ClosureInv), and a cascade       *)
(* releases each value once only because no function is destroyed twice at *)
(* a time and an update never meets its own binding in a closure that is   *)
(* being destroyed (StackInv).                                             *)
(***************************************************************************)

\* The closure map of a function that is neither alive nor dying is empty.
ClosureInv == \A f \in Funcs : count[f] <= 0 /\ ~Dying(f) => entry[f] = EmptyMap

\* Each call of sol_obj_release on the stack destroys another function; under
\* sol_token_update the outermost one destroys the old value.
StackInv ==
  /\ Distinct(dealloc)
  /\ op.kind = "update" /\ dealloc # <<>> => Outermost(dealloc) = value[op.binding]

LEMMA DyingFuncs == ASSUME NEW f PROVE Dying(f) <=> f \in FuncsOf(dealloc)
BY DEF Dying, FuncsOf

LEMMA DyingFuncsPrime == ASSUME NEW f PROVE Dying(f)' <=> f \in FuncsOf(dealloc')
BY DEF Dying, FuncsOf

LEMMA NoFrames == FuncsOf(<<>>) = {} /\ SettledBy(<<>>) = {} /\ Distinct(<<>>)
BY DEF FuncsOf, SettledBy, Distinct

\* An object whose count drops to zero is a function on the stack or no function.
LEMMA ReleasedDies ==
  ASSUME NEW c \in [Objects -> Int], NEW v, NEW k \in Int, NEW st \in Seq(Frames),
         NEW f \in Funcs, Decrease(c, v, k)[f] <= 0, f \notin FuncsOf(Opened(c, v, k, st))
  PROVE  c[f] <= 0 /\ f \notin FuncsOf(st)
<1>. f \in Objects
  BY Disjointness
<1>1. FuncsOf(Opened(c, v, k, st)) = FuncsOf(st) \cup (IF v \in Funcs /\ c[v] <= k THEN {v} ELSE {})
  BY OpenedStack
<1>2. CASE v = f
  <2>1. Decrease(c, v, k)[f] = c[f] - k
    BY <1>2 DEF Decrease
  <2>. QED BY <1>1, <1>2, <2>1
<1>3. CASE v # f
  <2>1. Decrease(c, v, k)[f] = c[f]
    BY <1>3 DEF Decrease
  <2>. QED BY <1>1, <2>1
<1>. QED BY <1>2, <1>3

\* A reference taken before the release cannot bring a count down.
LEMMA RetainRaises ==
  ASSUME NEW c \in [Objects -> Int], NEW v, NEW k \in Nat, NEW o \in Objects, Retain(c, v, k)[o] <= 0
  PROVE  c[o] <= 0
BY DEF Retain

LEMMA InitStack == Init => ClosureInv /\ StackInv
<1>. SUFFICES ASSUME Init PROVE ClosureInv /\ StackInv
  OBVIOUS
<1>1. ClosureInv
  BY Disjointness DEF Init, ClosureInv, Maps
<1>2. StackInv
  BY NoFrames DEF Init, StackInv, Idle
<1>. QED BY <1>1, <1>2

-----------------------------------------------------------------------------
(* The stack of deallocations. *)

LEMMA StackStep == TypeInv /\ StackInv /\ [Next]_vars => StackInv'
<1>. SUFFICES ASSUME TypeInv, StackInv, [Next]_vars PROVE StackInv'
  OBVIOUS
<1>t. TypeOK
  BY DEF TypeInv
<1>s. /\ Distinct(dealloc)
      /\ op.kind = "update" /\ dealloc # <<>> => Outermost(dealloc) = value[op.binding]
  BY DEF StackInv
<1>k. Idle.kind # "update"
  BY DEF Idle
<1>1. ASSUME UNCHANGED <<dealloc, op, value>> PROVE StackInv'
  BY <1>s, <1>1 DEF StackInv
<1>2. ASSUME dealloc' = <<>> PROVE StackInv'
  BY <1>2, NoFrames DEF StackInv
<1>3. ASSUME NEW c, NEW v, NEW k, dealloc = <<>>, dealloc' = Opened(c, v, k, dealloc),
             op'.kind = "update" => value'[op'.binding] = v
      PROVE  StackInv'
  <2>1. dealloc \in Seq(Frames)
    BY <1>3
  <2>2. Distinct(dealloc) /\ v \notin FuncsOf(dealloc)
    BY <1>3, NoFrames
  <2>. DEFINE q == Opened(c, v, k, dealloc)
  <2>3. /\ Distinct(dealloc) /\ v \notin FuncsOf(dealloc) => Distinct(q)
        /\ dealloc = <<>> /\ q # <<>> => Outermost(q) = v
    BY <2>1, OpenedStack
  <2>4. Distinct(dealloc') /\ (dealloc' # <<>> => Outermost(dealloc') = v)
    BY <1>3, <2>2, <2>3
  <2>. QED BY <1>3, <2>4 DEF StackInv
<1>4. ASSUME NEW o \in Data \cup Tokens, ObjCreate(o) PROVE StackInv'
  BY <1>1, <1>4 DEF ObjCreate
<1>5. ASSUME NEW f \in Funcs, FuncCreate(f) PROVE StackInv'
  BY <1>1, <1>5 DEF FuncCreate
<1>6. ASSUME NEW o \in Objects, ObjRelease(o) PROVE StackInv'
  BY <1>3, <1>6, <1>k DEF ObjRelease, Release, Ready
<1>7. ASSUME NEW n \in Idents, TokenResolve(n) PROVE StackInv'
  BY <1>1, <1>7 DEF TokenResolve
<1>8. ASSUME NEW s \in Scopes, TokenPoolPush(s) PROVE StackInv'
  BY <1>1, <1>8 DEF TokenPoolPush
<1>9. ASSUME NEW f \in Funcs, NEW s \in Scopes, FuncEnter(f, s) PROVE StackInv'
  BY <1>1, <1>9 DEF FuncEnter
<1>10. ASSUME TokenPoolPop PROVE StackInv'
  BY <1>2, <1>10 DEF TokenPoolPop, Ready
<1>11. ASSUME NEW n \in Idents, PopEntry(n) PROVE StackInv'
  BY <1>3, <1>11 DEF PopEntry, Popping, Release, PopOf
<1>12. ASSUME PopBinding PROVE StackInv'
  BY <1>2, <1>12 DEF PopBinding, Popping
<1>13. ASSUME PopDone PROVE StackInv'
  BY <1>2, <1>13 DEF PopDone, Popping
<1>14. ASSUME NEW n \in Idents, NEW v \in Values, TokenRegister(n, v) PROVE StackInv'
  <2>1. dealloc = <<>> /\ op'.kind = "register"
    BY <1>14 DEF TokenRegister, Ready
  <2>2. CASE entry[Head(pool)][n] = NULL
    BY <1>2, <1>14, <2>1, <2>2 DEF TokenRegister
  <2>3. CASE entry[Head(pool)][n] # NULL
    BY <1>3, <1>14, <2>1, <2>3 DEF TokenRegister, Release
  <2>. QED BY <2>2, <2>3
<1>15. ASSUME RegisterAlias PROVE StackInv'
  BY <1>3, <1>15, <1>k DEF RegisterAlias, Registering, Release
<1>16. ASSUME RegisterFresh PROVE StackInv'
  <2>1. dealloc = <<>> /\ op'.kind # "update"
    BY <1>16, <1>k DEF RegisterFresh, Registering
  <2>2. CASE IsUndefined(op.obj)
    BY <1>3, <1>16, <2>1, <2>2 DEF RegisterFresh, Release
  <2>3. CASE ~IsUndefined(op.obj)
    BY <1>2, <1>16, <2>1, <2>3 DEF RegisterFresh
  <2>. QED BY <2>2, <2>3
<1>17. ASSUME RegisterNull \/ RegisterWild PROVE StackInv'
  BY <1>1, <1>17 DEF RegisterNull, RegisterWild
<1>18. ASSUME NEW n \in Idents, NEW v \in Values, TokenUpdate(n, v) PROVE StackInv'
  <2>1. /\ dealloc = <<>> /\ op'.binding = Lookup(n) /\ value' = value
        /\ dealloc' = Opened(Retain(count, v, retain[Lookup(n)]), value[Lookup(n)], retain[Lookup(n)], dealloc)
    BY <1>18 DEF TokenUpdate, Release, Ready
  <2>. QED BY <1>3, <2>1
<1>19. ASSUME UpdateDone PROVE StackInv'
  BY <1>2, <1>19 DEF UpdateDone
<1>20. ASSUME NEW n \in Idents, DeallocEntry(n) PROVE StackInv'
  <2>. DEFINE v  == value[entry[Dead.func][n]]
              st == <<Frame(Dead.func, n)>> \o Tail(dealloc)
  <2>1. Destroying /\ ~Dying(v) /\ dealloc' = Opened(count, v, 1, st) /\ UNCHANGED <<op, value>>
    BY <1>20 DEF DeallocEntry, Release
  <2>3. /\ st \in Seq(Frames) /\ st # <<>> /\ FuncsOf(st) = FuncsOf(dealloc)
        /\ Distinct(st) /\ Outermost(st) = Outermost(dealloc)
    BY <1>t, <1>s, <2>1, MoveHead
  <2>4. v \notin FuncsOf(st)
    BY <2>1, <2>3, DyingFuncs
  <2>5. Distinct(dealloc') /\ Outermost(dealloc') = Outermost(st)
    <3>. HIDE DEF st, v
    <3>. QED BY <2>1, <2>3, <2>4, OpenedStack
  <2>. QED BY <1>t, <1>s, <2>1, <2>3, <2>5, HeadFrame DEF StackInv
<1>21. ASSUME NEW n \in Idents, DeallocRunaway(n) PROVE StackInv'
  BY <1>1, <1>21 DEF DeallocRunaway
<1>22. ASSUME DeallocBinding PROVE StackInv'
  <2>1. Destroying /\ dealloc' = <<Frame(Dead.func, NULL)>> \o Tail(dealloc) /\ UNCHANGED <<op, value>>
    BY <1>22 DEF DeallocBinding
  <2>3. Distinct(dealloc') /\ Outermost(dealloc') = Outermost(dealloc)
    BY <1>t, <1>s, <2>1, MoveHead
  <2>. QED BY <1>t, <1>s, <2>1, <2>3, HeadFrame DEF StackInv
<1>23. ASSUME DeallocDone PROVE StackInv'
  <2>1. Destroying /\ dealloc' = Tail(dealloc) /\ UNCHANGED <<op, value>>
    BY <1>23 DEF DeallocDone
  <2>2. Distinct(dealloc') /\ (dealloc' # <<>> => Outermost(dealloc') = Outermost(dealloc))
    BY <1>t, <1>s, <2>1, HeadFrame
  <2>. QED BY <1>t, <1>s, <2>1, <2>2, HeadFrame DEF StackInv
<1>24. CASE UNCHANGED vars
  BY <1>1, <1>24 DEF vars
<1>25. CASE Call
  BY <1>25, <1>4, <1>5, <1>6, <1>7, <1>8, <1>9, <1>10, <1>14, <1>18 DEF Call
<1>26. CASE Continue
  BY <1>26, <1>11, <1>12, <1>13, <1>15, <1>16, <1>17, <1>19, <1>20, <1>21, <1>22, <1>23 DEF Continue
<1>. QED BY <1>24, <1>25, <1>26 DEF Next

-----------------------------------------------------------------------------
(* The counts of bindings. *)

\* The slots of a table of entries e that hold binding b.
UsersOf(e, b) == {s \in Slots : e[s[1]][s[2]] = b}

LEMMA UsersType == ASSUME NEW b PROVE Users(b) \subseteq Slots /\ Cardinality(Users(b)) \in Nat
BY SlotSets DEF Users

\* An entry is rewritten: only its old and its new binding count differently.
LEMMA UsersExcept ==
  ASSUME NEW e, NEW q, NEW m \in Maps, NEW x \in Idents, NEW c, q[m][x] = c,
         \A k \in Maps, i \in Idents : k # m \/ i # x => q[k][i] = e[k][i], NEW b
  PROVE  Cardinality(UsersOf(q, b)) = Cardinality(UsersOf(e, b)) - Ind(e[m][x] = b) + Ind(c = b)
<1>. DEFINE y == <<m, x>>
            A == UsersOf(e, b)
            B == UsersOf(q, b)
<1>1. y \in Slots /\ y[1] = m /\ y[2] = x
  BY DEF Slots
<1>2. A \subseteq Slots /\ B \subseteq Slots
  BY DEF UsersOf
<1>4. ASSUME NEW s \in Slots, s # y PROVE s \in A <=> s \in B
  <2>1. PICK m2 \in Maps, n2 \in Idents : s = <<m2, n2>>
    BY DEF Slots
  <2>2. m2 # m \/ n2 # x
    BY <1>4, <2>1
  <2>3. q[m2][n2] = e[m2][n2]
    BY <2>2
  <2>. QED BY <2>1, <2>3 DEF UsersOf
<1>5. y \in A <=> e[m][x] = b
  BY <1>1 DEF UsersOf
<1>6. y \in B <=> c = b
  BY <1>1 DEF UsersOf
<1>. HIDE DEF A, B, y
<1>7. Cardinality(B) = Cardinality(A) - Ind(y \in A) + Ind(y \in B)
  BY <1>2, <1>4, OneSlot
<1>8. Ind(y \in A) = Ind(e[m][x] = b) /\ Ind(y \in B) = Ind(c = b)
  BY <1>5, <1>6 DEF Ind
<1>. USE DEF A, B
<1>. QED BY <1>7, <1>8

\* sol_token_register drops the old entry's use of its binding.
LEMMA DroppedCount ==
  ASSUME TypeOK, BindingCount, Registering, NEW b \in Bindings
  PROVE  /\ Dropped[b] = Cardinality(Users(b)) - Ind(OldBinding = b)
         /\ Head(pool) \in Maps /\ op.ident \in Idents
         /\ Cardinality(Users(b)) \in Nat /\ Ind(OldBinding = b) \in Nat
<1>1. Head(pool) \in Maps /\ op.ident \in Idents
  BY OpFields DEF Registering, TypeOK, Maps
<1>2. retain[b] = Cardinality(Users(b)) /\ Cardinality(Users(b)) \in Nat
  BY UsersType DEF Registering, BindingCount, Unlinked
<1>3. Dropped[b] = retain[b] - Ind(OldBinding = b)
  <2>1. retain \in [Bindings -> Int]
    BY DEF TypeOK
  <2>2. CASE OldBinding = NULL
    BY <1>2, <2>1, <2>2, Disjointness DEF Dropped, Ind
  <2>3. CASE OldBinding # NULL
    BY <1>2, <2>1, <2>3 DEF Dropped, Ind
  <2>. QED BY <2>2, <2>3
<1>. QED BY <1>1, <1>2, <1>3 DEF Ind

LEMMA BindingStep == TypeInv /\ ClosureInv /\ BindingCount /\ [Next]_vars => BindingCount'
<1>. SUFFICES ASSUME TypeInv, ClosureInv, BindingCount, [Next]_vars PROVE BindingCount'
  OBVIOUS
<1>. USE Disjointness
<1>t. TypeOK
  BY DEF TypeInv
<1>r. retain \in [Bindings -> Int] /\ entry \in [Maps -> [Idents -> Bindings \cup {NULL}]]
  BY <1>t DEF TypeOK
<1>b. \A b \in Bindings : retain[b] = Cardinality(Users(b)) + Unlinked(b)
  BY DEF BindingCount
<1>u. \A b \in Bindings : op.kind # "pop" => Unlinked(b) = 0
  BY DEF Unlinked
<1>v. \A b \in Bindings : op'.kind # "pop" => Unlinked(b)' = 0
  BY DEF Unlinked
<1>k. Idle.kind # "pop"
  BY DEF Idle
<1>1. ASSUME UNCHANGED <<entry, retain>>, \A b \in Bindings : Unlinked(b)' = Unlinked(b) PROVE BindingCount'
  BY <1>b, <1>1 DEF BindingCount, Users, At
<1>2. ASSUME UNCHANGED <<entry, retain>>, op.kind # "pop", op'.kind # "pop" PROVE BindingCount'
  BY <1>1, <1>2, <1>u, <1>v
<1>3. ASSUME UNCHANGED <<entry, retain, op>> PROVE BindingCount'
  BY <1>1, <1>3 DEF Unlinked
<1>4. ASSUME NEW o \in Data \cup Tokens, ObjCreate(o) PROVE BindingCount'
  BY <1>3, <1>4 DEF ObjCreate
<1>5. ASSUME NEW f \in Funcs, FuncCreate(f) PROVE BindingCount'
  <2>1. f \in Maps /\ op = Idle /\ op' = op /\ dealloc = <<>>
    BY <1>5 DEF FuncCreate, Ready, Maps
  <2>2. entry[f] = EmptyMap
    <3>1. count[f] <= 0
      BY <1>5 DEF FuncCreate
    <3>2. ~Dying(f)
      BY <2>1 DEF Dying
    <3>. QED BY <3>1, <3>2 DEF ClosureInv
  <2>3. ASSUME NEW b \in Bindings PROVE (retain[b] = Cardinality(Users(b)) + Unlinked(b))'
    <3>1. Users(b)' = Users(b) \cup ({f} \X Sharing(b))
      <4>1. ASSUME NEW s \in Slots PROVE s \in Users(b)' <=> s \in Users(b) \cup ({f} \X Sharing(b))
        <5>1. PICK m \in Maps, n \in Idents : s = <<m, n>>
          BY DEF Slots
        <5>2. CASE m = f
          <6>1. entry'[f][n] = Lookup(n) /\ entry[f][n] = NULL
            BY <1>5, <1>r, <2>1, <2>2 DEF FuncCreate, EmptyMap
          <6>. QED BY <5>1, <5>2, <6>1 DEF Users, At, Sharing
        <5>3. CASE m # f
          <6>1. entry'[m] = entry[m]
            BY <1>5, <1>r, <5>3 DEF FuncCreate
          <6>. QED BY <5>1, <5>3, <6>1 DEF Users, At, Sharing
        <5>. QED BY <5>2, <5>3
      <4>2. {f} \X Sharing(b) \subseteq Slots
        BY <2>1 DEF Slots, Sharing
      <4>. QED BY <4>1, <4>2 DEF Users
    <3>2. \A n \in Sharing(b) : <<f, n>> \notin Users(b)
      BY <2>2 DEF Users, At, EmptyMap, Sharing
    <3>3. Cardinality(Users(b)') = Cardinality(Users(b)) + Cardinality(Sharing(b))
      <4>1. Users(b) \subseteq Slots /\ Sharing(b) \subseteq Idents
        BY DEF Users, Sharing
      <4>2. Cardinality(Users(b) \cup ({f} \X Sharing(b))) = Cardinality(Users(b)) + Cardinality(Sharing(b))
        BY <2>1, <3>2, <4>1, MoreSlots
      <4>. QED BY <3>1, <4>2
    <3>4. retain'[b] = retain[b] + Cardinality(Sharing(b))
      BY <1>5 DEF FuncCreate
    <3>5. Unlinked(b) = 0 /\ Unlinked(b)' = 0
      BY <1>k, <1>u, <1>v, <2>1
    <3>6. retain[b] = Cardinality(Users(b)) /\ Cardinality(Users(b)) \in Nat
      BY <1>b, <3>5, UsersType
    <3>7. Cardinality(Sharing(b)) \in Nat
      BY IdentsAssumption, FS_Subset, FS_CardinalityType DEF Sharing
    <3>. QED BY <3>3, <3>4, <3>5, <3>6, <3>7
  <2>. QED BY <2>3 DEF BindingCount
<1>6. ASSUME NEW o \in Objects, ObjRelease(o) PROVE BindingCount'
  BY <1>3, <1>6 DEF ObjRelease
<1>7. ASSUME NEW n \in Idents, TokenResolve(n) PROVE BindingCount'
  BY <1>3, <1>7 DEF TokenResolve
<1>8. ASSUME NEW s \in Scopes, TokenPoolPush(s) PROVE BindingCount'
  BY <1>3, <1>8 DEF TokenPoolPush
<1>9. ASSUME NEW f \in Funcs, NEW s \in Scopes, FuncEnter(f, s) PROVE BindingCount'
  BY <1>3, <1>9 DEF FuncEnter
<1>10. ASSUME TokenPoolPop PROVE BindingCount'
  <2>1. op.kind # "pop" /\ op'.binding = NULL /\ UNCHANGED <<entry, retain>>
    BY <1>10, <1>k DEF TokenPoolPop, Ready, PopOf
  <2>. QED BY <1>1, <1>u, <2>1 DEF Unlinked
<1>11. ASSUME NEW n \in Idents, PopEntry(n) PROVE BindingCount'
  <2>. DEFINE c == entry[op.scope][n]
  <2>1. /\ op.kind = "pop" /\ op.scope \in Maps /\ op.binding = NULL /\ c \in Bindings
        /\ entry' = [entry EXCEPT ![op.scope][n] = NULL] /\ retain' = retain
        /\ op'.kind = "pop" /\ op'.binding = c
    BY <1>t, <1>r, <1>11, OpFields DEF PopEntry, Popping, PopOf, Maps
  <2>2. ASSUME NEW b \in Bindings PROVE (retain[b] = Cardinality(Users(b)) + Unlinked(b))'
    <3>1. Cardinality(Users(b)') = Cardinality(Users(b)) - Ind(c = b) + Ind(NULL = b)
      <4>1. /\ op.scope \in Maps /\ n \in Idents /\ entry'[op.scope][n] = NULL
            /\ \A k \in Maps, i \in Idents : k # op.scope \/ i # n => entry'[k][i] = entry[k][i]
        BY <1>r, <1>11, <2>1 DEF PopEntry
      <4>. DEFINE m == op.scope
      <4>2. Cardinality(UsersOf(entry', b)) = Cardinality(UsersOf(entry, b)) - Ind(entry[m][n] = b) + Ind(NULL = b)
        <5>1. /\ m \in Maps /\ n \in Idents /\ entry'[m][n] = NULL
              /\ \A k \in Maps, i \in Idents : k # m \/ i # n => entry'[k][i] = entry[k][i]
          BY <4>1
        <5>. HIDE DEF m
        <5>. QED BY <5>1, UsersExcept, SMTT(60)
      <4>. QED BY <4>2 DEF Users, At, UsersOf
    <3>2. Unlinked(b) = 0 /\ Unlinked(b)' = Ind(c = b) /\ Ind(NULL = b) = 0
      BY <2>1 DEF Unlinked, Ind
    <3>3. retain[b] = Cardinality(Users(b)) /\ Cardinality(Users(b)) \in Nat /\ Ind(c = b) \in Nat
      BY <1>b, <3>2, UsersType DEF Ind
    <3>. QED BY <2>1, <3>1, <3>2, <3>3
  <2>. QED BY <2>2 DEF BindingCount
<1>12. ASSUME PopBinding PROVE BindingCount'
  <2>1. /\ op.kind = "pop" /\ op.binding \in Bindings /\ entry' = entry
        /\ retain' = [retain EXCEPT ![op.binding] = @ - 1] /\ op'.binding = NULL
    BY <1>t, <1>12, OpFields DEF PopBinding, Popping, PopOf
  <2>2. ASSUME NEW b \in Bindings PROVE (retain[b] = Cardinality(Users(b)) + Unlinked(b))'
    <3>1. Cardinality(Users(b)') = Cardinality(Users(b)) /\ Cardinality(Users(b)) \in Nat
      BY <2>1, UsersType DEF Users, At
    <3>2. Unlinked(b) = Ind(op.binding = b) /\ Unlinked(b)' = 0
      BY <2>1 DEF Unlinked, Ind
    <3>3. retain'[b] = retain[b] - Ind(op.binding = b)
      BY <1>r, <2>1 DEF Ind
    <3>4. retain[b] = Cardinality(Users(b)) + Ind(op.binding = b) /\ Ind(op.binding = b) \in Nat
      BY <1>b, <3>2 DEF Ind
    <3>. QED BY <3>1, <3>2, <3>3, <3>4
  <2>. QED BY <2>2 DEF BindingCount
<1>13. ASSUME PopDone PROVE BindingCount'
  <2>1. op.binding = NULL /\ op'.kind # "pop" /\ UNCHANGED <<entry, retain>>
    BY <1>13, <1>k DEF PopDone
  <2>. QED BY <1>1, <1>v, <2>1 DEF Unlinked
<1>14. ASSUME NEW n \in Idents, NEW v \in Values, TokenRegister(n, v) PROVE BindingCount'
  BY <1>2, <1>14, <1>k DEF TokenRegister, Ready
<1>d. ASSUME NEW b \in Bindings, Registering
      PROVE  /\ Dropped[b] = Cardinality(Users(b)) - Ind(OldBinding = b)
             /\ Head(pool) \in Maps /\ op.ident \in Idents
             /\ Cardinality(Users(b)) \in Nat /\ Ind(OldBinding = b) \in Nat
  BY <1>t, <1>d, DroppedCount
<1>e. Dropped \in [Bindings -> Int]
  <2>1. CASE OldBinding = NULL
    BY <1>r, <2>1 DEF Dropped
  <2>2. CASE OldBinding # NULL
    <3>. DEFINE ob == OldBinding
    <3>1. Dropped = [retain EXCEPT ![ob] = retain[ob] - 1]
      BY <2>2 DEF Dropped
    <3>2. ob \in Bindings => retain[ob] - 1 \in Int
      BY <1>r
    <3>. HIDE DEF ob
    <3>. QED BY <1>r, <3>1, <3>2, ExceptType
  <2>. QED BY <2>1, <2>2
<1>15. ASSUME RegisterAlias PROVE BindingCount'
  <2>. DEFINE c == Aliased(op.obj)
  <2>1. /\ Registering /\ entry' = [entry EXCEPT ![Head(pool)][op.ident] = c]
        /\ retain' = [Dropped EXCEPT ![c] = @ + 1] /\ op'.kind # "pop"
    BY <1>15, <1>k DEF RegisterAlias
  <2>2. ASSUME NEW b \in Bindings PROVE (retain[b] = Cardinality(Users(b)) + Unlinked(b))'
    <3>. HIDE DEF c
    <3>1. Cardinality(Users(b)') = Cardinality(Users(b)) - Ind(OldBinding = b) + Ind(c = b)
      <4>1. /\ Head(pool) \in Maps /\ op.ident \in Idents /\ entry'[Head(pool)][op.ident] = c
            /\ \A k \in Maps, i \in Idents : k # Head(pool) \/ i # op.ident => entry'[k][i] = entry[k][i]
        BY <1>r, <1>d, <2>1
      <4>2. Cardinality(UsersOf(entry', b)) = Cardinality(UsersOf(entry, b)) - Ind(OldBinding = b) + Ind(c = b)
        BY <4>1, UsersExcept DEF OldBinding
      <4>. QED BY <4>2 DEF Users, At, UsersOf
    <3>2. retain'[b] = Dropped[b] + Ind(c = b)
      BY <1>e, <2>1 DEF Ind
    <3>3. Unlinked(b)' = 0
      BY <1>v, <2>1
    <3>4. Ind(c = b) \in Nat
      BY DEF Ind
    <3>. QED BY <1>d, <2>1, <3>1, <3>2, <3>3, <3>4
  <2>. QED BY <2>2 DEF BindingCount
<1>16. ASSUME RegisterFresh PROVE BindingCount'
  <2>1. PICK c \in Bindings : /\ Dropped[c] = 0
                              /\ entry' = [entry EXCEPT ![Head(pool)][op.ident] = c]
                              /\ retain' = [Dropped EXCEPT ![c] = 1]
    BY <1>16 DEF RegisterFresh
  <2>2. Registering /\ op'.kind # "pop"
    BY <1>16, <1>k DEF RegisterFresh
  <2>3. ASSUME NEW b \in Bindings PROVE (retain[b] = Cardinality(Users(b)) + Unlinked(b))'
    <3>1. Cardinality(Users(b)') = Cardinality(Users(b)) - Ind(OldBinding = b) + Ind(c = b)
      <4>1. /\ Head(pool) \in Maps /\ op.ident \in Idents /\ entry'[Head(pool)][op.ident] = c
            /\ \A k \in Maps, i \in Idents : k # Head(pool) \/ i # op.ident => entry'[k][i] = entry[k][i]
        BY <1>r, <1>d, <2>1, <2>2
      <4>2. Cardinality(UsersOf(entry', b)) = Cardinality(UsersOf(entry, b)) - Ind(OldBinding = b) + Ind(c = b)
        BY <4>1, UsersExcept DEF OldBinding
      <4>. QED BY <4>2 DEF Users, At, UsersOf
    <3>2. retain'[b] = Dropped[b] + Ind(c = b)
      BY <1>e, <2>1 DEF Ind
    <3>3. Unlinked(b)' = 0
      BY <1>v, <2>2
    <3>4. Ind(c = b) \in Nat
      BY DEF Ind
    <3>. QED BY <1>d, <2>2, <3>1, <3>2, <3>3, <3>4
  <2>. QED BY <2>3 DEF BindingCount
<1>17. ASSUME RegisterNull \/ RegisterWild PROVE BindingCount'
  BY <1>3, <1>17 DEF RegisterNull, RegisterWild
<1>18. ASSUME NEW n \in Idents, NEW v \in Values, TokenUpdate(n, v) PROVE BindingCount'
  BY <1>2, <1>18, <1>k DEF TokenUpdate, Ready
<1>19. ASSUME UpdateDone PROVE BindingCount'
  BY <1>2, <1>19, <1>k DEF UpdateDone
<1>20. ASSUME NEW n \in Idents, DeallocEntry(n) PROVE BindingCount'
  BY <1>3, <1>20 DEF DeallocEntry
<1>21. ASSUME NEW n \in Idents, DeallocRunaway(n) PROVE BindingCount'
  BY <1>3, <1>21 DEF DeallocRunaway
<1>22. ASSUME DeallocBinding PROVE BindingCount'
  <2>. DEFINE c == entry[Dead.func][Dead.ident]
  <2>1. /\ Dead.func \in Maps /\ Dead.ident \in Idents
        /\ entry' = [entry EXCEPT ![Dead.func][Dead.ident] = NULL]
        /\ retain' = [retain EXCEPT ![c] = @ - 1] /\ op' = op
    BY <1>t, <1>22, HeadFrame DEF DeallocBinding, Maps
  <2>2. ASSUME NEW b \in Bindings PROVE (retain[b] = Cardinality(Users(b)) + Unlinked(b))'
    <3>1. Cardinality(Users(b)') = Cardinality(Users(b)) - Ind(c = b) + Ind(NULL = b)
      <4>1. /\ Dead.func \in Maps /\ Dead.ident \in Idents /\ entry'[Dead.func][Dead.ident] = NULL
            /\ \A k \in Maps, i \in Idents : k # Dead.func \/ i # Dead.ident => entry'[k][i] = entry[k][i]
        BY <1>r, <2>1
      <4>2. Cardinality(UsersOf(entry', b)) = Cardinality(UsersOf(entry, b)) - Ind(c = b) + Ind(NULL = b)
        BY <4>1, UsersExcept
      <4>. QED BY <4>2 DEF Users, At, UsersOf
    <3>2. Unlinked(b)' = Unlinked(b) /\ Unlinked(b) \in Nat /\ Ind(NULL = b) = 0 /\ Ind(c = b) \in Nat
      BY <2>1 DEF Unlinked, Ind
    <3>3. retain'[b] = retain[b] - Ind(c = b)
      <4>. HIDE DEF c
      <4>. QED BY <1>r, <2>1 DEF Ind
    <3>4. retain[b] = Cardinality(Users(b)) + Unlinked(b) /\ Cardinality(Users(b)) \in Nat
      BY <1>b, UsersType
    <3>. QED BY <3>1, <3>2, <3>3, <3>4
  <2>. QED BY <2>2 DEF BindingCount
<1>23. ASSUME DeallocDone PROVE BindingCount'
  BY <1>3, <1>23 DEF DeallocDone
<1>24. CASE UNCHANGED vars
  BY <1>3, <1>24 DEF vars
<1>25. CASE Call
  BY <1>25, <1>4, <1>5, <1>6, <1>7, <1>8, <1>9, <1>10, <1>14, <1>18 DEF Call
<1>26. CASE Continue
  BY <1>26, <1>11, <1>12, <1>13, <1>15, <1>16, <1>17, <1>19, <1>20, <1>21, <1>22, <1>23 DEF Continue
<1>. QED BY <1>24, <1>25, <1>26 DEF Next

-----------------------------------------------------------------------------
(* The closures of functions that are gone. *)

LEMMA ClosureStep == TypeInv /\ ClosureInv /\ BindingCount /\ [Next]_vars => ClosureInv'
<1>. SUFFICES ASSUME TypeInv, ClosureInv, BindingCount, [Next]_vars PROVE ClosureInv'
  OBVIOUS
<1>. USE Disjointness
<1>t. TypeOK
  BY DEF TypeInv
<1>y. /\ entry \in [Maps -> [Idents -> Bindings \cup {NULL}]] /\ value \in [Bindings -> Values]
      /\ retain \in [Bindings -> Int] /\ count \in [Objects -> Int] /\ dealloc \in Seq(Frames)
  BY <1>t DEF TypeOK
<1>c. count \in [Objects -> Int] /\ dealloc \in Seq(Frames)
  BY <1>t DEF TypeOK
<1>i. \A f \in Funcs : count[f] <= 0 /\ f \notin FuncsOf(dealloc) => entry[f] = EmptyMap
  BY DyingFuncs DEF ClosureInv
<1>1. ASSUME NEW c \in [Objects -> Int], NEW v, NEW k \in Int, NEW st \in Seq(Frames),
             count' = Decrease(c, v, k), dealloc' = Opened(c, v, k, st),
             \A f \in Funcs : c[f] <= 0 => count[f] <= 0, FuncsOf(st) = FuncsOf(dealloc),
             \A f \in Funcs : entry'[f] = entry[f]
      PROVE  ClosureInv'
  <2>1. ASSUME NEW f \in Funcs, count'[f] <= 0, f \notin FuncsOf(dealloc') PROVE entry'[f] = EmptyMap
    <3>1. c[f] <= 0 /\ f \notin FuncsOf(st)
      BY <1>1, <2>1, ReleasedDies
    <3>. QED BY <1>i, <1>1, <3>1
  <2>. QED BY <2>1, DyingFuncsPrime DEF ClosureInv
<1>2. ASSUME dealloc' = dealloc, \A f \in Funcs : count'[f] <= 0 => count[f] <= 0 /\ entry'[f] = entry[f]
      PROVE  ClosureInv'
  BY <1>i, <1>2, DyingFuncsPrime DEF ClosureInv
<1>3. ASSUME UNCHANGED <<entry, count, dealloc>> PROVE ClosureInv'
  BY <1>2, <1>3
<1>s. ASSUME NEW s \in Scopes, NEW n, NEW b, entry' = [entry EXCEPT ![s][n] = b]
      PROVE  \A f \in Funcs : entry'[f] = entry[f]
  BY <1>s, <1>y DEF Maps
<1>4. ASSUME NEW o \in Data \cup Tokens, ObjCreate(o) PROVE ClosureInv'
  BY <1>2, <1>y, <1>4 DEF ObjCreate
<1>5. ASSUME NEW f \in Funcs, FuncCreate(f) PROVE ClosureInv'
  <2>1. ASSUME NEW g \in Funcs, count'[g] <= 0 PROVE count[g] <= 0 /\ entry'[g] = entry[g]
    <3>1. g # f /\ count'[g] = count[g] + Cardinality(Captured(g))
      BY <1>5, <2>1 DEF FuncCreate
    <3>2. Cardinality(Captured(g)) \in Nat
      BY IdentsAssumption, FS_Subset, FS_CardinalityType DEF Captured
    <3>3. entry'[g] = entry[g]
      BY <1>y, <1>5, <3>1 DEF FuncCreate, Maps
    <3>. QED BY <1>y, <2>1, <3>1, <3>2, <3>3
  <2>. QED BY <1>2, <1>5, <2>1 DEF FuncCreate
<1>6. ASSUME NEW o \in Objects, ObjRelease(o) PROVE ClosureInv'
  <2>1. count' = Decrease(count, o, 1) /\ dealloc' = Opened(count, o, 1, dealloc) /\ entry' = entry
    BY <1>6 DEF ObjRelease, Release
  <2>. QED BY <1>1, <1>c, <2>1
<1>7. ASSUME NEW n \in Idents, TokenResolve(n) PROVE ClosureInv'
  <2>1. \A f \in Funcs : count'[f] <= 0 => count[f] <= 0
    BY <1>y, <1>7, RetainRaises DEF TokenResolve
  <2>. QED BY <1>2, <1>7, <2>1 DEF TokenResolve
<1>8. ASSUME NEW s \in Scopes, TokenPoolPush(s) PROVE ClosureInv'
  BY <1>3, <1>8 DEF TokenPoolPush
<1>9. ASSUME NEW f \in Funcs, NEW s \in Scopes, FuncEnter(f, s) PROVE ClosureInv'
  BY <1>3, <1>9 DEF FuncEnter
<1>10. ASSUME TokenPoolPop PROVE ClosureInv'
  BY <1>3, <1>10 DEF TokenPoolPop
<1>11. ASSUME NEW n \in Idents, PopEntry(n) PROVE ClosureInv'
  <2>. DEFINE v == value[entry[op.scope][n]]
  <2>1. count' = Decrease(count, v, 1) /\ dealloc' = Opened(count, v, 1, dealloc)
    BY <1>11 DEF PopEntry, Release
  <2>2. \A f \in Funcs : entry'[f] = entry[f]
    <3>1. entry' = [entry EXCEPT ![op.scope][n] = NULL] /\ op.scope \in Scopes
      BY <1>t, <1>11, OpFields DEF PopEntry, Popping
    <3>. QED BY <1>s, <3>1
  <2>. HIDE DEF v
  <2>. QED BY <1>1, <1>c, <2>1, <2>2
<1>12. ASSUME PopBinding \/ PopDone \/ UpdateDone PROVE ClosureInv'
  BY <1>3, <1>12 DEF PopBinding, PopDone, UpdateDone
<1>14. ASSUME NEW n \in Idents, NEW v \in Values, TokenRegister(n, v) PROVE ClosureInv'
  <2>. DEFINE c == Retain(count, v, 1)
              w == value[entry[Head(pool)][n]]
  <2>1. c \in [Objects -> Int] /\ \A f \in Funcs : c[f] <= 0 => count[f] <= 0
    BY <1>y, RetainType, RetainRaises
  <2>2. CASE entry[Head(pool)][n] = NULL
    BY <1>2, <1>14, <2>1, <2>2 DEF TokenRegister
  <2>3. CASE entry[Head(pool)][n] # NULL
    <3>1. count' = Decrease(c, w, 1) /\ dealloc' = Opened(c, w, 1, dealloc) /\ entry' = entry
      BY <1>14, <2>3 DEF TokenRegister, Release
    <3>. HIDE DEF c, w
    <3>. QED BY <1>1, <1>c, <2>1, <3>1
  <2>. QED BY <2>2, <2>3
<1>h. ASSUME Registering, NEW b, entry' = [entry EXCEPT ![Head(pool)][op.ident] = b]
      PROVE  \A f \in Funcs : entry'[f] = entry[f]
  <2>1. Head(pool) \in Scopes
    BY <1>t, <1>h DEF Registering, TypeOK
  <2>. DEFINE s == Head(pool)
              n == op.ident
  <2>. HIDE DEF s, n
  <2>2. s \in Scopes /\ entry' = [entry EXCEPT ![s][n] = b]
    BY <1>h, <2>1 DEF s, n
  <2>. QED BY <1>s, <2>2
<1>15. ASSUME RegisterAlias PROVE ClosureInv'
  <2>. DEFINE v == op.obj
              b == Aliased(v)
              c == Retain(count, value[b], 1)
  <2>1. c \in [Objects -> Int] /\ \A f \in Funcs : c[f] <= 0 => count[f] <= 0
    BY <1>y, RetainType, RetainRaises
  <2>2. /\ Registering /\ entry' = [entry EXCEPT ![Head(pool)][op.ident] = b]
        /\ count' = Decrease(c, v, 1) /\ dealloc' = Opened(c, v, 1, dealloc)
    BY <1>15 DEF RegisterAlias, Release
  <2>. HIDE DEF b, c, v
  <2>3. \A f \in Funcs : entry'[f] = entry[f]
    BY <1>h, <2>2
  <2>4. count' = Decrease(c, v, 1) /\ dealloc' = Opened(c, v, 1, dealloc)
    BY <2>2
  <2>. QED BY <1>1, <1>c, <2>1, <2>3, <2>4
<1>16. ASSUME RegisterFresh PROVE ClosureInv'
  <2>. DEFINE v == op.obj
  <2>1. \A f \in Funcs : entry'[f] = entry[f]
    BY <1>h, <1>16 DEF RegisterFresh
  <2>2. CASE IsUndefined(op.obj)
    <3>1. count' = Decrease(count, v, 1) /\ dealloc' = Opened(count, v, 1, dealloc)
      BY <1>16, <2>2 DEF RegisterFresh, Release
    <3>. HIDE DEF v
    <3>. QED BY <1>1, <1>c, <2>1, <3>1
  <2>3. CASE ~IsUndefined(op.obj)
    BY <1>2, <1>16, <2>1, <2>3 DEF RegisterFresh
  <2>. QED BY <2>2, <2>3
<1>17. ASSUME RegisterNull \/ RegisterWild PROVE ClosureInv'
  BY <1>3, <1>17 DEF RegisterNull, RegisterWild
<1>18. ASSUME NEW n \in Idents, NEW v \in Values, TokenUpdate(n, v) PROVE ClosureInv'
  <2>. DEFINE b == Lookup(n)
              k == retain[b]
              w == value[b]
              c == Retain(count, v, k)
  <2>1. b \in Bindings /\ op = Idle
    BY <1>t, <1>18, LookupType DEF TokenUpdate, Ready
  <2>2. k \in Nat
    <3>1. k = Cardinality(Users(b)) + Unlinked(b) /\ Unlinked(b) = 0
      BY <2>1 DEF BindingCount, Unlinked, Idle
    <3>. QED BY <3>1, UsersType
  <2>3. count' = Decrease(c, w, k) /\ dealloc' = Opened(c, w, k, dealloc) /\ entry' = entry
    BY <1>18 DEF TokenUpdate, Release
  <2>. HIDE DEF b, k, w
  <2>4. c \in [Objects -> Int] /\ \A f \in Funcs : c[f] <= 0 => count[f] <= 0
    BY <1>y, <2>2, RetainType, RetainRaises
  <2>. HIDE DEF c
  <2>. QED BY <1>1, <1>c, <2>2, <2>3, <2>4
<1>20. ASSUME NEW n \in Idents, DeallocEntry(n) PROVE ClosureInv'
  <2>. DEFINE v  == value[entry[Dead.func][n]]
              st == <<Frame(Dead.func, n)>> \o Tail(dealloc)
  <2>1. /\ Destroying /\ count' = Decrease(count, v, 1) /\ dealloc' = Opened(count, v, 1, st)
        /\ entry' = entry
    BY <1>20 DEF DeallocEntry, Release
  <2>2. st \in Seq(Frames) /\ FuncsOf(st) = FuncsOf(dealloc)
    BY <1>t, <2>1, MoveHead
  <2>. HIDE DEF v, st
  <2>. QED BY <1>1, <1>c, <2>1, <2>2
<1>21. ASSUME NEW n \in Idents, DeallocRunaway(n) PROVE ClosureInv'
  BY <1>3, <1>21 DEF DeallocRunaway
<1>22. ASSUME DeallocBinding PROVE ClosureInv'
  <2>1. /\ Destroying /\ count' = count /\ dealloc' = <<Frame(Dead.func, NULL)>> \o Tail(dealloc)
        /\ entry' = [entry EXCEPT ![Dead.func][Dead.ident] = NULL]
    BY <1>22 DEF DeallocBinding
  <2>2. FuncsOf(dealloc') = FuncsOf(dealloc) /\ Dead.func \in FuncsOf(dealloc)
    BY <1>t, <2>1, MoveHead, HeadFrame
  <2>3. ASSUME NEW f \in Funcs, f \notin FuncsOf(dealloc') PROVE entry'[f] = entry[f]
    BY <1>y, <2>1, <2>2, <2>3 DEF Maps
  <2>. QED BY <1>i, <2>1, <2>2, <2>3, DyingFuncsPrime DEF ClosureInv
<1>23. ASSUME DeallocDone PROVE ClosureInv'
  <2>1. Destroying /\ dealloc' = Tail(dealloc) /\ entry[Dead.func] = EmptyMap /\ UNCHANGED <<count, entry>>
    BY <1>23 DEF DeallocDone
  <2>2. FuncsOf(dealloc) = {Dead.func} \cup FuncsOf(dealloc')
    BY <1>t, <2>1, HeadFrame
  <2>. QED BY <1>i, <2>1, <2>2, DyingFuncsPrime DEF ClosureInv
<1>24. CASE UNCHANGED vars
  BY <1>3, <1>24 DEF vars
<1>25. CASE Call
  BY <1>25, <1>4, <1>5, <1>6, <1>7, <1>8, <1>9, <1>10, <1>14, <1>18 DEF Call
<1>26. CASE Continue
  BY <1>26, <1>11, <1>12, <1>15, <1>16, <1>17, <1>20, <1>21, <1>22, <1>23 DEF Continue
<1>. QED BY <1>24, <1>25, <1>26 DEF Next

(* The retain_count of a binding is exact in every state of every execution, *)
(* however the pushes, pops, registrations, updates and cascades of          *)
(* sol_obj_release interleave.                                               *)
THEOREM BindingsCounted == Spec => []BindingCount
<1>. DEFINE Inv == TypeInv /\ ClosureInv /\ BindingCount
<1>1. Init => Inv
  <2>1. ASSUME Init PROVE BindingCount
    <3>1. ASSUME NEW b \in Bindings PROVE Users(b) = {} /\ Unlinked(b) = 0 /\ retain[b] = 0
      BY <2>1, Disjointness DEF Init, Users, At, Slots, EmptyMap, Unlinked, Idle
    <3>. QED BY <3>1, FS_EmptySet DEF BindingCount
  <2>. QED BY <2>1, InitType, InitStack
<1>2. Inv /\ [Next]_vars => Inv'
  BY TypeStep, ClosureStep, BindingStep
<1>3. Inv => BindingCount
  OBVIOUS
<1>. QED BY <1>1, <1>2, <1>3, PTL DEF Spec
-----------------------------------------------------------------------------
(* Places in a sequence that hold an element of a set. *)

Places(p, A) == {i \in DOMAIN p : p[i] \in A}

LEMMA PlacesType ==
  ASSUME NEW T, NEW p \in Seq(T), NEW A
  PROVE  IsFiniteSet(Places(p, A)) /\ Cardinality(Places(p, A)) \in Nat
<1>1. IsFiniteSet(1 .. Len(p))
  BY LenProperties, FS_Interval
<1>2. Places(p, A) \subseteq 1 .. Len(p)
  BY LenProperties DEF Places
<1>. QED BY <1>1, <1>2, FS_Subset, FS_CardinalityType

LEMMA PlacesPush ==
  ASSUME NEW T, NEW p \in Seq(T), NEW m \in T, NEW A
  PROVE  Cardinality(Places(<<m>> \o p, A)) = Cardinality(Places(p, A)) + Ind(m \in A)
<1>. DEFINE q == <<m>> \o p
<1>1. /\ q \in Seq(T) /\ Len(q) = Len(p) + 1 /\ Len(p) \in Nat
      /\ q[1] = m /\ \A i \in DOMAIN p : q[i+1] = p[i]
      /\ DOMAIN q = 1 .. Len(p) + 1 /\ DOMAIN p = 1 .. Len(p)
  OBVIOUS
<1>. DEFINE C == Places(p, A)
            D == {i \in Places(q, A) : i # 1}
            F == [i \in C |-> i + 1]
<1>2. F \in Bijection(C, D)
  <2>1. F \in [C -> D] /\ \A i, j \in C : F[i] = F[j] => i = j
    BY <1>1 DEF Places
  <2>2. \A j \in D : \E i \in C : F[i] = j
    <3>. SUFFICES ASSUME NEW j \in D PROVE j - 1 \in C /\ F[j - 1] = j
      OBVIOUS
    <3>1. j \in 2 .. Len(p) + 1 /\ q[j] \in A
      BY <1>1 DEF Places
    <3>2. j - 1 \in DOMAIN p /\ q[(j - 1) + 1] = p[j - 1] /\ (j - 1) + 1 = j
      BY <1>1, <3>1
    <3>. QED BY <3>1, <3>2 DEF Places
  <2>. HIDE DEF C, D, F
  <2>. QED BY <2>1, <2>2, Fun_IsBij
<1>3. Cardinality(D) = Cardinality(C) /\ IsFiniteSet(D)
  <2>1. ExistsBijection(C, D)
    BY <1>2 DEF ExistsBijection
  <2>. HIDE DEF C, D
  <2>. QED BY <2>1, PlacesType, FS_Bijection DEF C
<1>4. CASE m \in A
  <2>1. Places(q, A) = D \cup {1} /\ 1 \notin D
    BY <1>1, <1>4 DEF Places
  <2>2. Cardinality(D \cup {1}) = Cardinality(D) + 1
    BY <1>3, <2>1, FS_AddElement
  <2>. QED BY <1>1, <1>3, <1>4, <2>1, <2>2 DEF Ind
<1>5. CASE m \notin A
  <2>1. Places(q, A) = D
    BY <1>1, <1>5 DEF Places
  <2>2. Cardinality(C) \in Nat
    BY PlacesType
  <2>3. Cardinality(Places(q, A)) = Cardinality(C) /\ Ind(m \in A) = 0
    BY <1>3, <1>5, <2>1 DEF Ind
  <2>. HIDE DEF C
  <2>4. Cardinality(Places(q, A)) = Cardinality(C) + Ind(m \in A)
    BY <2>2, <2>3
  <2>. QED BY <1>1, <2>4 DEF C
<1>. QED BY <1>4, <1>5

LEMMA ConsTail ==
  ASSUME NEW T, NEW p \in Seq(T), p # <<>>
  PROVE  /\ Tail(p) \in Seq(T) /\ Head(p) \in T /\ p = <<Head(p)>> \o Tail(p)
         /\ Len(p) = Len(Tail(p)) + 1
<1>1. Tail(p) \in Seq(T) /\ Head(p) \in T /\ Len(p) = Len(Tail(p)) + 1
  BY HeadTailProperties
<1>. DEFINE q == <<Head(p)>> \o Tail(p)
<1>2. /\ q \in Seq(T) /\ Len(q) = Len(p) /\ q[1] = p[1]
      /\ \A i \in 1 .. Len(Tail(p)) : q[i+1] = p[i+1]
      /\ Len(Tail(p)) = Len(p) - 1
  BY <1>1, HeadTailProperties
<1>3. ASSUME NEW i \in 1 .. Len(q) PROVE q[i] = p[i]
  <2>1. i = 1 \/ i - 1 \in 1 .. Len(Tail(p))
    BY <1>1, <1>2
  <2>2. CASE i = 1
    BY <1>2, <2>2
  <2>3. CASE i - 1 \in 1 .. Len(Tail(p))
    <3>1. q[(i-1)+1] = p[(i-1)+1] /\ (i-1)+1 = i
      BY <1>2, <2>3
    <3>. QED BY <3>1
  <2>. QED BY <2>1, <2>2, <2>3
<1>. HIDE DEF q
<1>4. q = p
  BY <1>2, <1>3, SeqEqual
<1>. QED BY <1>1, <1>4 DEF q

-----------------------------------------------------------------------------
(* References from the token pool: one per place of the object in it. *)

CallsOf(p, o) == {i \in DOMAIN p : p[i] = o}

LEMMA CallsArePlaces == ASSUME NEW p, NEW o PROVE CallsOf(p, o) = Places(p, {o})
BY DEF CallsOf, Places

LEMMA CallsType ==
  ASSUME NEW p \in Seq(Maps), NEW o
  PROVE  IsFiniteSet(CallsOf(p, o)) /\ Cardinality(CallsOf(p, o)) \in Nat
BY CallsArePlaces, PlacesType

LEMMA CallsPush ==
  ASSUME NEW p \in Seq(Maps), NEW m \in Maps, NEW o
  PROVE  Cardinality(CallsOf(<<m>> \o p, o)) = Cardinality(CallsOf(p, o)) + Ind(m = o)
<1>1. Cardinality(Places(<<m>> \o p, {o})) = Cardinality(Places(p, {o})) + Ind(m \in {o})
  BY PlacesPush
<1>2. Ind(m \in {o}) = Ind(m = o)
  BY DEF Ind
<1>. QED BY <1>1, <1>2, CallsArePlaces

LEMMA CallsPop ==
  ASSUME NEW p \in Seq(Maps), p # <<>>, NEW o
  PROVE  /\ Tail(p) \in Seq(Maps) /\ Head(p) \in Maps
         /\ Cardinality(CallsOf(p, o)) = Cardinality(CallsOf(Tail(p), o)) + Ind(Head(p) = o)
<1>. DEFINE h == Head(p)
            tl == Tail(p)
<1>1. tl \in Seq(Maps) /\ h \in Maps /\ p = <<h>> \o tl
  BY ConsTail
<1>. HIDE DEF h, tl
<1>2. Cardinality(CallsOf(<<h>> \o tl, o)) = Cardinality(CallsOf(tl, o)) + Ind(h = o)
  BY <1>1, CallsPush
<1>3. CallsOf(p, o) = CallsOf(<<h>> \o tl, o)
  BY <1>1
<1>4. Cardinality(CallsOf(p, o)) = Cardinality(CallsOf(tl, o)) + Ind(h = o)
  BY <1>2, <1>3
<1>. QED BY <1>1, <1>4 DEF h, tl

-----------------------------------------------------------------------------
(* References from entries. *)

LEMMA RetainAt ==
  ASSUME NEW c \in [Objects -> Int], NEW v, NEW k \in Int, NEW o \in Objects
  PROVE  Retain(c, v, k)[o] = c[o] + (IF v = o THEN k ELSE 0)
BY DEF Retain

LEMMA DecreaseAt ==
  ASSUME NEW c \in [Objects -> Int], NEW v, NEW k \in Int, NEW o \in Objects
  PROVE  Decrease(c, v, k)[o] = c[o] - (IF v = o THEN k ELSE 0)
BY DEF Decrease

LEMMA OwnersType == ASSUME NEW o PROVE Owners(o) \subseteq Slots /\ Cardinality(Owners(o)) \in Nat
BY SlotSets DEF Owners

\* A settled slot is the one being registered or one of the closures on the stack.
LEMMA SettledSlots ==
  \A s \in Slots : Settled(s) <=>
     (op.kind = "register" /\ s = <<Head(pool), op.ident>>) \/ s \in SettledBy(dealloc)
BY DEF Settled, SettledBy

LEMMA SettledSlotsPrime ==
  \A s \in Slots : Settled(s)' <=>
     (op'.kind = "register" /\ s = <<Head(pool'), op'.ident>>) \/ s \in SettledBy(dealloc')
BY DEF Settled, SettledBy

\* A scope's slots are never settled by a deallocation.
LEMMA ScopeSlots ==
  ASSUME NEW st \in Seq(Frames), NEW m \in Scopes, NEW n
  PROVE  <<m, n>> \notin SettledBy(st)
<1>. SUFFICES ASSUME NEW i \in DOMAIN st, <<m, n>> = <<st[i].func, st[i].ident>> PROVE FALSE
  BY DEF SettledBy
<1>1. st[i] \in Frames
  OBVIOUS
<1>2. st[i].func \in Funcs
  BY <1>1 DEF Frames
<1>. QED BY <1>2, Disjointness

LEMMA SettledFuncs ==
  ASSUME NEW st \in Seq(Frames), NEW f, NEW n, <<f, n>> \in SettledBy(st)
  PROVE  f \in FuncsOf(st)
BY DEF SettledBy, FuncsOf

LEMMA ObjectStep ==
  TypeInv /\ StackInv /\ ClosureInv /\ BindingCount /\ ObjectCount /\ [Next]_vars => ObjectCount'
<1>. SUFFICES ASSUME TypeInv, StackInv, ClosureInv, BindingCount, ObjectCount, [Next]_vars
              PROVE  ObjectCount'
  OBVIOUS
<1>. USE Disjointness
<1>t. TypeOK
  BY DEF TypeInv
<1>y. /\ entry \in [Maps -> [Idents -> Bindings \cup {NULL}]] /\ value \in [Bindings -> Values]
      /\ count \in [Objects -> Int] /\ held \in [Objects -> Nat]
  BY <1>t DEF TypeOK
<1>c. count \in [Objects -> Int]
  BY <1>y
<1>d. dealloc \in Seq(Frames)
  BY <1>t DEF TypeOK
<1>l. pool \in Seq(Maps) /\ pool # <<>>
  BY <1>t DEF TypeOK
<1>o. ASSUME NEW o \in Objects
      PROVE  /\ count[o] = held[o] + Cardinality(CallsOf(pool, o)) + InHand(o) + Cardinality(Owners(o))
             /\ held[o] \in Nat /\ Cardinality(CallsOf(pool, o)) \in Nat /\ InHand(o) \in Nat
             /\ Cardinality(Owners(o)) \in Nat
  <2>1. count[o] = held[o] + Cardinality(Calls(o)) + InHand(o) + Cardinality(Owners(o))
    BY DEF ObjectCount
  <2>2. Calls(o) = CallsOf(pool, o)
    BY DEF Calls, CallsOf
  <2>3. Cardinality(CallsOf(pool, o)) \in Nat
    BY <1>l, CallsType
  <2>4. InHand(o) \in Nat
    BY DEF InHand
  <2>. QED BY <1>y, <2>1, <2>2, <2>3, <2>4, OwnersType
<1>g. ASSUME \A o \in Objects :
               count'[o] = held'[o] + Cardinality(CallsOf(pool', o)) + InHand(o)' + Cardinality(Owners(o)')
      PROVE  ObjectCount'
  BY <1>g DEF ObjectCount, Calls, CallsOf
<1>b. \A b : op.kind # "update" => Bound(b) = value[b]
  BY DEF Bound
<1>bp. \A b : op'.kind # "update" => Bound(b)' = value'[b]
  BY DEF Bound
<1>h. \A o : op.kind # "register" => InHand(o) = 0
  BY DEF InHand
<1>hp. \A o : op'.kind # "register" => InHand(o)' = 0
  BY DEF InHand
<1>k. Idle.kind = "idle"
  BY DEF Idle
<1>z. ASSUME NEW c, NEW v, NEW k, NEW st \in Seq(Frames), dealloc' = Opened(c, v, k, st)
      PROVE  SettledBy(dealloc') = SettledBy(st)
  BY <1>z, OpenedStack
<1>e. dealloc = <<>> => SettledBy(dealloc) = {}
  BY NoFrames
<1>1. ASSUME NEW o, NEW x, \A s \in Slots : s # x => (s \in Owners(o)' <=> s \in Owners(o))
      PROVE  Cardinality(Owners(o)') =
               Cardinality(Owners(o)) - Ind(x \in Owners(o)) + Ind(x \in Owners(o)')
  <2>. DEFINE A == Owners(o)
              B == Owners(o)'
  <2>1. A \subseteq Slots /\ B \subseteq Slots /\ \A s \in Slots : s # x => (s \in A <=> s \in B)
    BY <1>1 DEF Owners
  <2>. HIDE DEF A, B
  <2>2. Cardinality(B) = Cardinality(A) - Ind(x \in A) + Ind(x \in B)
    BY <2>1, OneSlot
  <2>. QED BY <2>2 DEF A, B
<1>2. ASSUME NEW o, \A s \in Slots : s \in Owners(o)' <=> s \in Owners(o)
      PROVE  Cardinality(Owners(o)') = Cardinality(Owners(o))
  <2>1. Owners(o)' = Owners(o)
    BY <1>2 DEF Owners
  <2>. QED BY <2>1
<1>3. ASSUME entry' = entry, value' = value, SettledBy(dealloc') = SettledBy(dealloc),
             op.kind \notin {"register", "update"}, op'.kind \notin {"register", "update"}, NEW o
      PROVE  Cardinality(Owners(o)') = Cardinality(Owners(o)) /\ InHand(o) = 0 /\ InHand(o)' = 0
  <2>1. ASSUME NEW s \in Slots PROVE s \in Owners(o)' <=> s \in Owners(o)
    <3>1. Settled(s)' <=> Settled(s)
      BY <1>3, SettledSlots, SettledSlotsPrime
    <3>2. At(s)' = At(s)
      BY <1>3 DEF At
    <3>3. Bound(At(s))' = Bound(At(s))
      BY <1>3, <3>2 DEF Bound
    <3>. QED BY <3>1, <3>2, <3>3 DEF Owners
  <2>. QED BY <1>2, <1>3, <1>h, <1>hp, <2>1
<1>4. ASSUME NEW p \in Data \cup Tokens, ObjCreate(p) PROVE ObjectCount'
  <2>1. ASSUME NEW o \in Objects
        PROVE  count'[o] = held'[o] + Cardinality(CallsOf(pool', o)) + InHand(o)' + Cardinality(Owners(o)')
    <3>1. Cardinality(Owners(o)') = Cardinality(Owners(o)) /\ InHand(o)' = InHand(o) /\ pool' = pool
      BY <1>3, <1>4, <1>k DEF ObjCreate, Ready
    <3>2. CASE o = p
      <4>1. count[o] = 0 /\ count'[o] = 1 /\ held'[o] = 1
        BY <1>y, <1>4, <3>2 DEF ObjCreate
      <4>. DEFINE h == held[o]
                  c == Cardinality(CallsOf(pool, o))
                  i == InHand(o)
                  w == Cardinality(Owners(o))
      <4>3. h + c + i + w = 0 /\ h \in Nat /\ c \in Nat /\ i \in Nat /\ w \in Nat
        BY <1>o, <4>1
      <4>2. c = 0 /\ i = 0 /\ w = 0
        <5>. HIDE DEF h, c, i, w
        <5>. QED BY <4>3
      <4>. QED BY <3>1, <4>1, <4>2
    <3>3. CASE o # p
      <4>1. count'[o] = count[o] /\ held'[o] = held[o]
        BY <1>y, <1>4, <3>3 DEF ObjCreate
      <4>. QED BY <1>o, <3>1, <4>1
    <3>. QED BY <3>2, <3>3
  <2>. QED BY <1>g, <2>1
<1>5. ASSUME NEW f \in Funcs, FuncCreate(f) PROVE ObjectCount'
  <2>1. /\ count[f] = 0 /\ op = Idle /\ op' = Idle /\ dealloc = <<>> /\ f \in Maps /\ f \in Objects
        /\ entry' = [entry EXCEPT ![f] = [n \in Idents |-> Lookup(n)]]
        /\ held' = [held EXCEPT ![f] = 1] /\ UNCHANGED <<pool, value, dealloc>>
    BY <1>5 DEF FuncCreate, Ready, Maps
  <2>2. entry[f] = EmptyMap
    <3>1. ~Dying(f)
      BY <2>1 DEF Dying
    <3>. QED BY <2>1, <3>1 DEF ClosureInv
  <2>3. \A s \in Slots : ~Settled(s) /\ ~Settled(s)'
    BY <1>k, <1>e, <2>1, SettledSlots, SettledSlotsPrime
  <2>4. held[f] = 0 /\ Cardinality(CallsOf(pool, f)) = 0 /\ InHand(f) = 0 /\ Owners(f) = {}
    <3>. DEFINE h == held[f]
                c == Cardinality(CallsOf(pool, f))
                i == InHand(f)
                w == Cardinality(Owners(f))
    <3>1. h + c + i + w = 0 /\ h \in Nat /\ c \in Nat /\ i \in Nat /\ w \in Nat
      BY <1>o, <2>1
    <3>2. h = 0 /\ c = 0 /\ i = 0 /\ w = 0
      <4>. HIDE DEF h, c, i, w
      <4>. QED BY <3>1
    <3>3. IsFiniteSet(Owners(f))
      BY SlotSets DEF Owners
    <3>. QED BY <3>2, <3>3, FS_EmptySet
  <2>5. Captured(f) = {}
    <3>. SUFFICES ASSUME NEW n \in Idents, Lookup(n) # NULL, value[Lookup(n)] = f PROVE FALSE
      BY DEF Captured
    <3>. DEFINE i == CHOOSE j \in FirstHit(n) : TRUE
    <3>1. i \in DOMAIN pool /\ Lookup(n) = entry[pool[i]][n]
      BY DEF Lookup, FirstHit, Hits
    <3>2. <<pool[i], n>> \in Slots
      BY <1>l, <3>1 DEF Slots
    <3>3. <<pool[i], n>> \in Owners(f)
      BY <1>b, <1>k, <2>1, <2>3, <3>1, <3>2 DEF Owners, At
    <3>. QED BY <2>4, <3>3
  <2>6. ASSUME NEW o \in Objects
        PROVE  count'[o] = held'[o] + Cardinality(CallsOf(pool', o)) + InHand(o)' + Cardinality(Owners(o)')
    <3>. DEFINE N == Captured(o)
    <3>1. Owners(o)' = Owners(o) \cup ({f} \X N)
      <4>1. ASSUME NEW s \in Slots PROVE s \in Owners(o)' <=> s \in Owners(o) \cup ({f} \X N)
        <5>1. PICK m \in Maps, n \in Idents : s = <<m, n>>
          BY DEF Slots
        <5>2. At(s)' = entry'[m][n] /\ At(s) = entry[m][n]
          BY <5>1 DEF At
        <5>3. Bound(At(s))' = value[At(s)'] /\ Bound(At(s)) = value[At(s)]
          BY <1>k, <2>1 DEF Bound
        <5>4. CASE m = f
          <6>1. entry'[m][n] = Lookup(n) /\ entry[m][n] = NULL
            BY <1>y, <2>1, <2>2, <5>4 DEF EmptyMap
          <6>2. s \in {f} \X N <=> n \in N
            BY <5>1, <5>4
          <6>3. s \in Owners(o)' <=> Lookup(n) # NULL /\ value[Lookup(n)] = o
            BY <2>3, <5>2, <5>3, <6>1 DEF Owners
          <6>4. s \notin Owners(o)
            BY <5>2, <6>1 DEF Owners
          <6>. QED BY <6>2, <6>3, <6>4 DEF Captured
        <5>5. CASE m # f
          <6>1. entry'[m][n] = entry[m][n]
            BY <1>y, <2>1, <5>5
          <6>2. s \notin {f} \X N
            BY <5>1, <5>5
          <6>. QED BY <2>3, <5>2, <5>3, <6>1, <6>2 DEF Owners
        <5>. QED BY <5>4, <5>5
      <4>2. {f} \X N \subseteq Slots
        BY <2>1 DEF Slots, Captured
      <4>. QED BY <4>1, <4>2 DEF Owners
    <3>2. \A n \in N : <<f, n>> \notin Owners(o)
      BY <2>2 DEF Owners, At, EmptyMap, Captured
    <3>3. Cardinality(Owners(o)') = Cardinality(Owners(o)) + Cardinality(N)
      <4>. DEFINE A == Owners(o)
      <4>1. A \subseteq Slots /\ N \subseteq Idents /\ \A n \in N : <<f, n>> \notin A
        BY <3>2 DEF Owners, Captured
      <4>2. Cardinality(A \cup ({f} \X N)) = Cardinality(A) + Cardinality(N)
        <5>. HIDE DEF A, N
        <5>. QED BY <2>1, <4>1, MoreSlots
      <4>. QED BY <3>1, <4>2
    <3>4. Cardinality(N) \in Nat
      BY IdentsAssumption, FS_Subset, FS_CardinalityType DEF Captured
    <3>5. InHand(o) = 0 /\ InHand(o)' = 0
      BY <1>h, <1>hp, <1>k, <2>1
    <3>6. CASE o = f
      <4>1. Cardinality(N) = 0 /\ Cardinality(Owners(o)) = 0
        BY <2>4, <2>5, <3>6, FS_EmptySet
      <4>2. count'[o] = 1 /\ held'[o] = 1
        BY <1>y, <1>5, <3>6 DEF FuncCreate
      <4>. QED BY <2>1, <2>4, <3>3, <3>5, <3>6, <4>1, <4>2
    <3>7. CASE o # f
      <4>1. count'[o] = count[o] + Cardinality(N) /\ held'[o] = held[o]
        BY <1>y, <1>5, <3>7 DEF FuncCreate
      <4>. DEFINE a == Cardinality(Owners(o))
                  c == Cardinality(N)
                  e == Cardinality(Owners(o)')
      <4>2. /\ e = a + c /\ count'[o] = count[o] + c /\ a \in Nat /\ c \in Nat
            /\ count[o] = held[o] + Cardinality(CallsOf(pool, o)) + InHand(o) + a
            /\ pool' = pool
        BY <1>o, <2>1, <3>3, <3>4, <4>1
      <4>. HIDE DEF a, c, e
      <4>3. count'[o] = held'[o] + Cardinality(CallsOf(pool', o)) + InHand(o)' + e
        BY <1>o, <3>5, <4>1, <4>2
      <4>. QED BY <4>3 DEF e
    <3>. QED BY <3>6, <3>7
  <2>. QED BY <1>g, <2>6
<1>6. ASSUME NEW p \in Objects, ObjRelease(p) PROVE ObjectCount'
  <2>1. /\ count' = Decrease(count, p, 1) /\ dealloc' = Opened(count, p, 1, dealloc)
        /\ op = Idle /\ op' = Idle /\ UNCHANGED <<pool, entry, value>>
    BY <1>6 DEF ObjRelease, Release, Ready
  <2>2. SettledBy(dealloc') = SettledBy(dealloc)
    BY <1>d, <1>z, <2>1
  <2>3. ASSUME NEW o \in Objects
        PROVE  count'[o] = held'[o] + Cardinality(CallsOf(pool', o)) + InHand(o)' + Cardinality(Owners(o)')
    <3>1. Cardinality(Owners(o)') = Cardinality(Owners(o)) /\ InHand(o)' = InHand(o) /\ pool' = pool
      BY <1>3, <1>k, <2>1, <2>2
    <3>2. count'[o] = count[o] - (IF p = o THEN 1 ELSE 0)
      BY <1>c, <2>1, DecreaseAt
    <3>3. held'[o] = held[o] - (IF p = o THEN 1 ELSE 0)
      BY <1>y, <1>6 DEF ObjRelease
    <3>. QED BY <1>o, <3>1, <3>2, <3>3
  <2>. QED BY <1>g, <2>3
<1>7. ASSUME NEW n \in Idents, TokenResolve(n) PROVE ObjectCount'
  <2>. DEFINE v == value[Resolve(n)]
  <2>1. /\ count' = Retain(count, v, 1) /\ held' = [held EXCEPT ![v] = @ + 1]
        /\ op = Idle /\ op' = Idle /\ UNCHANGED <<pool, entry, value, dealloc>>
    BY <1>7 DEF TokenResolve, Ready
  <2>. HIDE DEF v
  <2>3. ASSUME NEW o \in Objects
        PROVE  count'[o] = held'[o] + Cardinality(CallsOf(pool', o)) + InHand(o)' + Cardinality(Owners(o)')
    <3>1. Cardinality(Owners(o)') = Cardinality(Owners(o)) /\ InHand(o)' = InHand(o) /\ pool' = pool
      BY <1>3, <1>k, <2>1
    <3>2. count'[o] = count[o] + (IF v = o THEN 1 ELSE 0)
      BY <1>c, <2>1, RetainAt
    <3>3. held'[o] = held[o] + (IF v = o THEN 1 ELSE 0)
      BY <1>y, <2>1
    <3>. QED BY <1>o, <3>1, <3>2, <3>3
  <2>. QED BY <1>g, <2>3
<1>8. ASSUME NEW s \in Scopes, TokenPoolPush(s) PROVE ObjectCount'
  <2>1. /\ pool' = <<s>> \o pool /\ op = Idle /\ op' = Idle
        /\ UNCHANGED <<entry, value, count, held, dealloc>>
    BY <1>8 DEF TokenPoolPush, Ready
  <2>2. ASSUME NEW o \in Objects
        PROVE  count'[o] = held'[o] + Cardinality(CallsOf(pool', o)) + InHand(o)' + Cardinality(Owners(o)')
    <3>1. Cardinality(Owners(o)') = Cardinality(Owners(o)) /\ InHand(o)' = InHand(o)
      BY <1>3, <1>k, <2>1
    <3>2. Cardinality(CallsOf(<<s>> \o pool, o)) = Cardinality(CallsOf(pool, o)) + Ind(s = o)
      BY <1>l, CallsPush DEF Maps
    <3>3. Ind(s = o) = 0
      BY ObjectsAssumption DEF Ind
    <3>. QED BY <1>o, <2>1, <3>1, <3>2, <3>3
  <2>. QED BY <1>g, <2>2
<1>9. ASSUME NEW f \in Funcs, NEW s \in Scopes, FuncEnter(f, s) PROVE ObjectCount'
  <2>1. /\ pool' = <<s, f>> \o pool /\ op = Idle /\ op' = Idle /\ held' = [held EXCEPT ![f] = @ - 1]
        /\ UNCHANGED <<entry, value, count, dealloc>>
    BY <1>9 DEF FuncEnter, Ready
  <2>2. ASSUME NEW o \in Objects
        PROVE  count'[o] = held'[o] + Cardinality(CallsOf(pool', o)) + InHand(o)' + Cardinality(Owners(o)')
    <3>1. Cardinality(Owners(o)') = Cardinality(Owners(o)) /\ InHand(o)' = InHand(o)
      BY <1>3, <1>k, <2>1
    <3>. DEFINE p == <<f>> \o pool
    <3>2. pool' = <<s>> \o p /\ p \in Seq(Maps)
      BY <1>l, <2>1 DEF Maps
    <3>3. Cardinality(CallsOf(p, o)) = Cardinality(CallsOf(pool, o)) + Ind(f = o)
      <4>1. f \in Maps
        BY DEF Maps
      <4>. QED BY <1>l, <4>1, CallsPush
    <3>. HIDE DEF p
    <3>4. Cardinality(CallsOf(<<s>> \o p, o)) = Cardinality(CallsOf(p, o)) + Ind(s = o)
      BY <3>2, CallsPush DEF Maps
    <3>5. Ind(s = o) = 0 /\ Ind(f = o) \in Nat /\ held'[o] = held[o] - Ind(f = o)
      BY <1>y, <2>1, ObjectsAssumption DEF Ind
    <3>6. Cardinality(CallsOf(pool', o)) = Cardinality(CallsOf(pool, o)) + Ind(f = o)
      <4>1. Cardinality(CallsOf(pool, o)) \in Nat
        BY <1>o
      <4>. QED BY <3>2, <3>3, <3>4, <3>5, <4>1
    <3>7. count'[o] = count[o]
      BY <2>1
    <3>. QED BY <1>o, <3>1, <3>5, <3>6, <3>7
  <2>. QED BY <1>g, <2>2
<1>10. ASSUME TokenPoolPop PROVE ObjectCount'
  <2>1. /\ pool' = Tail(pool) /\ op = Idle /\ op' = PopOf(Head(pool), NULL)
        /\ UNCHANGED <<entry, value, count, held, dealloc>>
    BY <1>10 DEF TokenPoolPop, Ready
  <2>2. op'.kind = "pop"
    BY <2>1 DEF PopOf
  <2>3. Head(pool) \notin Objects
    <3>1. Head(pool) \in Scopes
      BY <1>t, <1>k, <2>1 DEF TypeOK
    <3>. QED BY <3>1, ObjectsAssumption
  <2>4. ASSUME NEW o \in Objects
        PROVE  count'[o] = held'[o] + Cardinality(CallsOf(pool', o)) + InHand(o)' + Cardinality(Owners(o)')
    <3>1. Cardinality(Owners(o)') = Cardinality(Owners(o)) /\ InHand(o)' = InHand(o)
      BY <1>3, <1>k, <2>1, <2>2
    <3>2. /\ Cardinality(CallsOf(pool, o)) = Cardinality(CallsOf(Tail(pool), o)) + Ind(Head(pool) = o)
          /\ Tail(pool) \in Seq(Maps)
      BY <1>l, CallsPop
    <3>3. Ind(Head(pool) = o) = 0 /\ Cardinality(CallsOf(Tail(pool), o)) \in Nat
      BY <2>3, <3>2, CallsType DEF Ind
    <3>. QED BY <1>o, <2>1, <3>1, <3>2, <3>3
  <2>. QED BY <1>g, <2>4
<1>11. ASSUME NEW n \in Idents, PopEntry(n) PROVE ObjectCount'
  <2>. DEFINE m == op.scope
              b == entry[m][n]
              v == value[b]
              x == <<m, n>>
  <2>1. /\ op.kind = "pop" /\ m \in Scopes /\ b # NULL /\ op'.kind = "pop" /\ dealloc = <<>>
        /\ UNCHANGED <<pool, value, held>>
    BY <1>t, <1>11, OpFields DEF PopEntry, Popping, PopOf
  <2>2. /\ entry'[m][n] = NULL
        /\ \A k \in Maps, i \in Idents : k # m \/ i # n => entry'[k][i] = entry[k][i]
    BY <1>y, <1>11, <2>1 DEF PopEntry, Maps
  <2>3. count' = Decrease(count, v, 1) /\ dealloc' = Opened(count, v, 1, dealloc)
    BY <1>11 DEF PopEntry, Release
  <2>4. SettledBy(dealloc') = {} /\ SettledBy(dealloc) = {}
    <3>. HIDE DEF v
    <3>. QED BY <1>d, <1>e, <1>z, <2>1, <2>3
  <2>5. \A s \in Slots : ~Settled(s) /\ ~Settled(s)'
    BY <2>1, <2>4, SettledSlots, SettledSlotsPrime
  <2>6. x \in Slots /\ x[1] = m /\ x[2] = n
    BY <2>1 DEF Slots, Maps
  <2>7. ASSUME NEW o \in Objects
        PROVE  count'[o] = held'[o] + Cardinality(CallsOf(pool', o)) + InHand(o)' + Cardinality(Owners(o)')
    <3>1. ASSUME NEW s \in Slots, s # x PROVE s \in Owners(o)' <=> s \in Owners(o)
      <4>1. PICK k \in Maps, i \in Idents : s = <<k, i>>
        BY DEF Slots
      <4>2. At(s)' = At(s)
        BY <2>2, <3>1, <4>1 DEF At
      <4>3. Bound(At(s))' = Bound(At(s))
        BY <2>1, <4>2 DEF Bound
      <4>. QED BY <2>5, <4>2, <4>3 DEF Owners
    <3>2. x \in Owners(o) <=> v = o
      BY <1>b, <2>1, <2>5, <2>6 DEF Owners, At
    <3>3. x \notin Owners(o)'
      BY <2>2, <2>6 DEF Owners, At
    <3>4. Cardinality(Owners(o)') = Cardinality(Owners(o)) - Ind(x \in Owners(o)) + Ind(x \in Owners(o)')
      <4>. HIDE DEF x
      <4>. QED BY <1>1, <3>1
    <3>5. count'[o] = count[o] - (IF v = o THEN 1 ELSE 0)
      <4>. HIDE DEF v
      <4>. QED BY <1>c, <2>3, DecreaseAt
    <3>6. InHand(o) = 0 /\ InHand(o)' = 0
      BY <1>h, <1>hp, <2>1
    <3>7. Ind(x \in Owners(o)) = (IF v = o THEN 1 ELSE 0) /\ Ind(x \in Owners(o)') = 0
      BY <3>2, <3>3 DEF Ind
    <3>. HIDE DEF v, x
    <3>. QED BY <1>o, <2>1, <3>4, <3>5, <3>6, <3>7
  <2>. QED BY <1>g, <2>7
<1>12. ASSUME PopBinding PROVE ObjectCount'
  <2>1. /\ op.kind = "pop" /\ op'.kind = "pop" /\ UNCHANGED <<pool, entry, value, count, held, dealloc>>
    BY <1>12 DEF PopBinding, Popping, PopOf
  <2>2. ASSUME NEW o \in Objects
        PROVE  count'[o] = held'[o] + Cardinality(CallsOf(pool', o)) + InHand(o)' + Cardinality(Owners(o)')
    <3>1. Cardinality(Owners(o)') = Cardinality(Owners(o)) /\ InHand(o)' = InHand(o)
      BY <1>3, <2>1
    <3>. QED BY <1>o, <2>1, <3>1
  <2>. QED BY <1>g, <2>2
<1>13. ASSUME PopDone PROVE ObjectCount'
  <2>1. op.kind = "pop" /\ op' = Idle /\ UNCHANGED <<entry, value, count, dealloc>>
    BY <1>13 DEF PopDone, Popping
  <2>2. ASSUME NEW o \in Objects
        PROVE  count'[o] = held'[o] + Cardinality(CallsOf(pool', o)) + InHand(o)' + Cardinality(Owners(o)')
    <3>1. Cardinality(Owners(o)') = Cardinality(Owners(o)) /\ InHand(o)' = InHand(o)
      BY <1>3, <1>k, <2>1
    <3>2. CASE Head(pool) \in Funcs
      <4>1. pool' = Tail(pool) /\ held' = [held EXCEPT ![Head(pool)] = @ + 1]
        BY <1>13, <3>2 DEF PopDone
      <4>2. /\ Cardinality(CallsOf(pool, o)) = Cardinality(CallsOf(Tail(pool), o)) + Ind(Head(pool) = o)
            /\ Tail(pool) \in Seq(Maps)
        BY <1>l, CallsPop
      <4>3. held'[o] = held[o] + Ind(Head(pool) = o)
        BY <1>y, <3>2, <4>1 DEF Ind
      <4>4. Ind(Head(pool) = o) \in Nat /\ Cardinality(CallsOf(Tail(pool), o)) \in Nat
        BY <4>2, CallsType DEF Ind
      <4>. QED BY <1>o, <2>1, <3>1, <4>1, <4>2, <4>3, <4>4
    <3>3. CASE Head(pool) \notin Funcs
      <4>1. UNCHANGED <<pool, held>>
        BY <1>13, <3>3 DEF PopDone
      <4>. QED BY <1>o, <2>1, <3>1, <4>1
    <3>. QED BY <3>2, <3>3
  <2>. QED BY <1>g, <2>2
<1>14. ASSUME NEW n \in Idents, NEW v \in Values, TokenRegister(n, v) PROVE ObjectCount'
  <2>. DEFINE m == Head(pool)
              b == entry[m][n]
              w == value[b]
              x == <<m, n>>
              c == Retain(count, v, 1)
  <2>1. /\ op = Idle /\ op'.kind = "register" /\ op'.ident = n /\ op'.obj = v /\ dealloc = <<>>
        /\ UNCHANGED <<pool, entry, value, held>>
    BY <1>14 DEF TokenRegister, Ready
  <2>2. x \in Slots /\ x[1] = m /\ x[2] = n
    BY <1>l, HeadTailProperties DEF Slots
  <2>3. c \in [Objects -> Int]
    BY <1>c, RetainType
  <2>4. \/ b = NULL /\ count' = c /\ dealloc' = dealloc
        \/ b # NULL /\ count' = Decrease(c, w, 1) /\ dealloc' = Opened(c, w, 1, dealloc)
    BY <1>14 DEF TokenRegister, Release
  <2>5. SettledBy(dealloc') = {} /\ SettledBy(dealloc) = {}
    <3>. HIDE DEF c, w, b
    <3>. QED BY <1>d, <1>e, <1>z, <2>1, <2>4
  <2>6. \A s \in Slots : ~Settled(s) /\ (Settled(s)' <=> s = x)
    BY <1>k, <2>1, <2>5, SettledSlots, SettledSlotsPrime
  <2>7. ASSUME NEW o \in Objects
        PROVE  count'[o] = held'[o] + Cardinality(CallsOf(pool', o)) + InHand(o)' + Cardinality(Owners(o)')
    <3>1. ASSUME NEW s \in Slots, s # x PROVE s \in Owners(o)' <=> s \in Owners(o)
      <4>1. At(s)' = At(s)
        BY <2>1 DEF At
      <4>2. Bound(At(s))' = Bound(At(s))
        BY <1>k, <2>1, <4>1 DEF Bound
      <4>. QED BY <2>6, <3>1, <4>1, <4>2 DEF Owners
    <3>2. x \in Owners(o) <=> b # NULL /\ w = o
      BY <1>b, <1>k, <2>1, <2>2, <2>6 DEF Owners, At
    <3>3. x \notin Owners(o)'
      BY <2>2, <2>6 DEF Owners
    <3>4. Cardinality(Owners(o)') = Cardinality(Owners(o)) - Ind(x \in Owners(o)) + Ind(x \in Owners(o)')
      <4>. HIDE DEF x
      <4>. QED BY <1>1, <3>1
    <3>5. c[o] = count[o] + (IF v = o THEN 1 ELSE 0)
      BY <1>c, RetainAt
    <3>6. InHand(o) = 0 /\ InHand(o)' = (IF v = o THEN 1 ELSE 0)
      BY <1>k, <2>1 DEF InHand
    <3>7. Ind(x \in Owners(o)') = 0
      BY <3>3 DEF Ind
    <3>8. CASE b = NULL
      <4>1. Ind(x \in Owners(o)) = 0
        BY <3>2, <3>8 DEF Ind
      <4>2. count'[o] = c[o]
        BY <2>4, <3>8
      <4>. HIDE DEF c, x
      <4>. QED BY <1>o, <2>1, <3>4, <3>5, <3>6, <3>7, <4>1, <4>2
    <3>9. CASE b # NULL
      <4>1. Ind(x \in Owners(o)) = (IF w = o THEN 1 ELSE 0)
        BY <3>2, <3>9 DEF Ind
      <4>2. count'[o] = c[o] - (IF w = o THEN 1 ELSE 0)
        <5>1. count' = Decrease(c, w, 1)
          BY <2>4, <3>9
        <5>. HIDE DEF c, w
        <5>. QED BY <2>3, <5>1, DecreaseAt
      <4>. HIDE DEF c, w, x
      <4>. QED BY <1>o, <2>1, <3>4, <3>5, <3>6, <3>7, <4>1, <4>2
    <3>. QED BY <3>8, <3>9
  <2>. QED BY <1>g, <2>7
<1>r. ASSUME Registering, NEW b, NEW val, op' = Idle, pool' = pool, held' = held, b # NULL,
             entry' = [entry EXCEPT ![Head(pool)][op.ident] = b],
             SettledBy(dealloc') = SettledBy(dealloc), val = value'[b],
             \A s \in Slots : s # <<Head(pool), op.ident>> /\ At(s) # NULL => value'[At(s)] = value[At(s)],
             NEW o \in Objects
      PROVE  /\ Cardinality(Owners(o)') = Cardinality(Owners(o)) + (IF val = o THEN 1 ELSE 0)
             /\ InHand(o) = (IF op.obj = o THEN 1 ELSE 0) /\ InHand(o)' = 0
  <2>. DEFINE m == Head(pool)
              n == op.ident
              x == <<m, n>>
  <2>1. op.kind = "register" /\ dealloc = <<>> /\ m \in Maps /\ n \in Idents
    BY <1>t, <1>l, <1>r, OpFields, HeadTailProperties DEF Registering
  <2>2. x \in Slots /\ x[1] = m /\ x[2] = n
    BY <2>1 DEF Slots
  <2>3. /\ entry'[m][n] = b
        /\ \A k \in Maps, i \in Idents : k # m \/ i # n => entry'[k][i] = entry[k][i]
    BY <1>y, <1>r, <2>1
  <2>4. \A s \in Slots : ~Settled(s)' /\ (Settled(s) <=> s = x)
    BY <1>k, <1>e, <1>r, <2>1, SettledSlots, SettledSlotsPrime
  <2>5. ASSUME NEW s \in Slots, s # x PROVE s \in Owners(o)' <=> s \in Owners(o)
    <3>1. PICK k \in Maps, i \in Idents : s = <<k, i>>
      BY DEF Slots
    <3>2. At(s)' = At(s)
      BY <2>3, <2>5, <3>1 DEF At
    <3>3. At(s) # NULL => Bound(At(s))' = Bound(At(s))
      BY <1>k, <1>r, <2>1, <2>5, <3>2 DEF Bound
    <3>. QED BY <2>4, <2>5, <3>2, <3>3 DEF Owners
  <2>6. x \notin Owners(o)
    BY <2>2, <2>4 DEF Owners
  <2>7. x \in Owners(o)' <=> val = o
    BY <1>bp, <1>k, <1>r, <2>2, <2>3, <2>4 DEF Owners, At
  <2>8. Cardinality(Owners(o)') = Cardinality(Owners(o)) - Ind(x \in Owners(o)) + Ind(x \in Owners(o)')
    <3>. HIDE DEF x
    <3>. QED BY <1>1, <2>5
  <2>9. Ind(x \in Owners(o)) = 0 /\ Ind(x \in Owners(o)') = (IF val = o THEN 1 ELSE 0)
    BY <2>6, <2>7 DEF Ind
  <2>10. InHand(o) = (IF op.obj = o THEN 1 ELSE 0) /\ InHand(o)' = 0
    BY <1>k, <1>r, <2>1 DEF InHand
  <2>. HIDE DEF x
  <2>. QED BY <1>o, <2>8, <2>9, <2>10
<1>15. ASSUME RegisterAlias PROVE ObjectCount'
  <2>. DEFINE v == op.obj
              b == Aliased(v)
              w == value[b]
              c == Retain(count, w, 1)
  <2>1. /\ Registering /\ op' = Idle /\ b # NULL /\ UNCHANGED <<pool, value, held>>
        /\ entry' = [entry EXCEPT ![Head(pool)][op.ident] = b]
        /\ count' = Decrease(c, v, 1) /\ dealloc' = Opened(c, v, 1, dealloc)
    BY <1>15 DEF RegisterAlias, Release
  <2>2. c \in [Objects -> Int]
    BY <1>c, RetainType
  <2>3. SettledBy(dealloc') = SettledBy(dealloc)
    <3>. HIDE DEF c, v
    <3>. QED BY <1>d, <1>z, <2>1
  <2>4. ASSUME NEW o \in Objects
        PROVE  count'[o] = held'[o] + Cardinality(CallsOf(pool', o)) + InHand(o)' + Cardinality(Owners(o)')
    <3>1. /\ Cardinality(Owners(o)') = Cardinality(Owners(o)) + (IF w = o THEN 1 ELSE 0)
          /\ InHand(o) = (IF v = o THEN 1 ELSE 0) /\ InHand(o)' = 0
      <4>1. w = value'[b]
        BY <2>1
      <4>. HIDE DEF b, w, c
      <4>. QED BY <1>r, <2>1, <2>3, <4>1
    <3>2. c[o] = count[o] + (IF w = o THEN 1 ELSE 0)
      <4>. HIDE DEF w
      <4>. QED BY <1>c, RetainAt
    <3>3. count'[o] = c[o] - (IF v = o THEN 1 ELSE 0)
      <4>. HIDE DEF c, v
      <4>. QED BY <2>1, <2>2, DecreaseAt
    <3>. HIDE DEF c, w, v
    <3>. QED BY <1>o, <2>1, <3>1, <3>2, <3>3
  <2>. QED BY <1>g, <2>4
<1>16. ASSUME RegisterFresh PROVE ObjectCount'
  <2>. DEFINE v == op.obj
              w == IF IsUndefined(v) THEN NULL ELSE v
              x == <<Head(pool), op.ident>>
  <2>1. PICK b \in Bindings : /\ Dropped[b] = 0
                              /\ entry' = [entry EXCEPT ![Head(pool)][op.ident] = b]
                              /\ value' = [value EXCEPT ![b] = w]
    BY <1>16 DEF RegisterFresh
  <2>2. /\ Registering /\ op' = Idle /\ b # NULL /\ UNCHANGED <<pool, held>>
        /\ \/ IsUndefined(v) /\ count' = Decrease(count, v, 1) /\ dealloc' = Opened(count, v, 1, dealloc)
           \/ ~IsUndefined(v) /\ count' = count /\ dealloc' = dealloc
    BY <1>16 DEF RegisterFresh, Release
  <2>3. SettledBy(dealloc') = SettledBy(dealloc)
    <3>. HIDE DEF v
    <3>. QED BY <1>d, <1>z, <2>2
  <2>4. w = value'[b]
    BY <1>y, <2>1
  <2>5. ASSUME NEW s \in Slots, s # x, At(s) # NULL PROVE value'[At(s)] = value[At(s)]
    <3>1. At(s) # b
      <4>1. /\ Cardinality(Users(b)) - Ind(OldBinding = b) = 0
            /\ Head(pool) \in Maps /\ op.ident \in Idents
            /\ Cardinality(Users(b)) \in Nat /\ Ind(OldBinding = b) \in Nat
        BY <1>t, <2>1, <2>2, DroppedCount
      <4>2. x \in Users(b) <=> OldBinding = b
        BY <4>1 DEF Users, At, OldBinding, Slots
      <4>3. IsFiniteSet(Users(b)) /\ IsFiniteSet(Users(b) \ {x})
        BY SlotSets DEF Users
      <4>4. Cardinality(Users(b) \ {x}) = Cardinality(Users(b)) - Ind(x \in Users(b))
        <5>. HIDE DEF x
        <5>. QED BY <4>1, <4>3, FS_RemoveElement DEF Ind
      <4>5. Cardinality(Users(b) \ {x}) = 0
        BY <4>1, <4>2, <4>4 DEF Ind
      <4>6. Users(b) \ {x} = {}
        BY <4>3, <4>5, FS_EmptySet
      <4>. QED BY <2>5, <4>6 DEF Users
    <3>2. At(s) \in Bindings
      <4>1. PICK k \in Maps, i \in Idents : s = <<k, i>>
        BY DEF Slots
      <4>. QED BY <1>y, <2>5, <4>1 DEF At
    <3>. QED BY <1>y, <2>1, <3>1, <3>2
  <2>6. ASSUME NEW o \in Objects
        PROVE  count'[o] = held'[o] + Cardinality(CallsOf(pool', o)) + InHand(o)' + Cardinality(Owners(o)')
    <3>1. /\ Cardinality(Owners(o)') = Cardinality(Owners(o)) + (IF w = o THEN 1 ELSE 0)
          /\ InHand(o) = (IF v = o THEN 1 ELSE 0) /\ InHand(o)' = 0
      <4>1. Registering /\ op' = Idle /\ pool' = pool /\ held' = held /\ b # NULL
        BY <2>2
      <4>2. entry' = [entry EXCEPT ![Head(pool)][op.ident] = b]
        BY <2>1
      <4>3. \A s \in Slots : s # <<Head(pool), op.ident>> /\ At(s) # NULL => value'[At(s)] = value[At(s)]
        BY <2>5
      <4>. HIDE DEF w
      <4>. QED BY <1>r, <2>3, <2>4, <4>1, <4>2, <4>3
    <3>2. CASE IsUndefined(v)
      <4>1. (IF w = o THEN 1 ELSE 0) = 0
        BY <3>2
      <4>2. count'[o] = count[o] - (IF v = o THEN 1 ELSE 0)
        <5>1. count' = Decrease(count, v, 1)
          BY <2>2, <3>2
        <5>. HIDE DEF v
        <5>. QED BY <1>c, <5>1, DecreaseAt
      <4>. HIDE DEF v, w
      <4>. QED BY <1>o, <2>2, <3>1, <4>1, <4>2
    <3>3. CASE ~IsUndefined(v)
      <4>1. w = v /\ count' = count
        BY <2>2, <3>3
      <4>. HIDE DEF v, w
      <4>. QED BY <1>o, <2>2, <3>1, <4>1
    <3>. QED BY <3>2, <3>3
  <2>. QED BY <1>g, <2>6
<1>17. ASSUME RegisterNull \/ RegisterWild \/ (\E n \in Idents : DeallocRunaway(n)) \/ UNCHANGED vars
       PROVE  ObjectCount'
  <2>1. UNCHANGED <<pool, entry, value, count, held, op, dealloc>>
    BY <1>17 DEF RegisterNull, RegisterWild, DeallocRunaway, vars
  <2>2. ASSUME NEW o \in Objects
        PROVE  count'[o] = held'[o] + Cardinality(CallsOf(pool', o)) + InHand(o)' + Cardinality(Owners(o)')
    <3>1. \A s \in Slots : (Settled(s)' <=> Settled(s)) /\ At(s)' = At(s)
      BY <2>1, SettledSlots, SettledSlotsPrime DEF At
    <3>2. ASSUME NEW s \in Slots PROVE s \in Owners(o)' <=> s \in Owners(o)
      <4>1. Bound(At(s))' = Bound(At(s))
        BY <2>1, <3>1 DEF Bound
      <4>. QED BY <3>1, <4>1 DEF Owners
    <3>3. Cardinality(Owners(o)') = Cardinality(Owners(o))
      BY <1>2, <3>2
    <3>4. InHand(o)' = InHand(o)
      BY <2>1 DEF InHand
    <3>. QED BY <1>o, <2>1, <3>3, <3>4
  <2>. QED BY <1>g, <2>2
<1>18. ASSUME NEW n \in Idents, NEW v \in Values, TokenUpdate(n, v) PROVE ObjectCount'
  <2>. DEFINE b == Lookup(n)
              k == retain[b]
              w == value[b]
              c == Retain(count, v, k)
              U == Users(b)
  <2>1. b \in Bindings /\ op = Idle /\ dealloc = <<>>
    BY <1>t, <1>18, LookupType DEF TokenUpdate, Ready
  <2>2. k = Cardinality(U) /\ k \in Nat
    <3>1. k = Cardinality(U) + Unlinked(b) /\ Unlinked(b) = 0
      BY <2>1 DEF BindingCount, Unlinked, Idle
    <3>. QED BY <3>1, UsersType
  <2>3. /\ count' = Decrease(c, w, k) /\ dealloc' = Opened(c, w, k, dealloc)
        /\ UNCHANGED <<pool, entry, value, held>>
        /\ op'.kind = "update" /\ op'.binding = b /\ op'.obj = v
    BY <1>18 DEF TokenUpdate, Release
  <2>4. c \in [Objects -> Int]
    <3>. HIDE DEF k
    <3>. QED BY <1>c, <2>2, RetainType
  <2>5. SettledBy(dealloc') = {} /\ SettledBy(dealloc) = {}
    <3>. HIDE DEF c, k, w
    <3>. QED BY <1>d, <1>e, <1>z, <2>1, <2>3
  <2>6. \A s \in Slots : ~Settled(s) /\ ~Settled(s)'
    BY <1>k, <2>1, <2>3, <2>5, SettledSlots, SettledSlotsPrime
  <2>7. \A s \in Slots : s \in U <=> At(s) = b
    BY DEF Users
  <2>8. ASSUME NEW o \in Objects
        PROVE  count'[o] = held'[o] + Cardinality(CallsOf(pool', o)) + InHand(o)' + Cardinality(Owners(o)')
    <3>. DEFINE A == Owners(o)
                B == Owners(o)'
    <3>1. A \subseteq Slots /\ B \subseteq Slots /\ U \subseteq Slots
      BY DEF Owners, Users
    <3>2. ASSUME NEW s \in Slots, s \notin U PROVE s \in A <=> s \in B
      <4>1. At(s)' = At(s) /\ At(s) # b
        BY <2>3, <2>7, <3>2 DEF At
      <4>2. Bound(At(s))' = Bound(At(s))
        BY <1>k, <2>1, <2>3, <4>1 DEF Bound
      <4>. QED BY <2>6, <4>1, <4>2 DEF Owners
    <3>3. A \cap U = IF w = o THEN U ELSE {}
      <4>1. \A s \in U : s \in A <=> w = o
        BY <1>b, <1>k, <2>1, <2>6, <2>7 DEF Owners, Users
      <4>. HIDE DEF A, U, w
      <4>. QED BY <4>1
    <3>4. B \cap U = IF v = o THEN U ELSE {}
      <4>1. ASSUME NEW s \in U PROVE s \in B <=> v = o
        <5>1. At(s)' = b
          BY <2>3, <2>7 DEF At, Users
        <5>2. Bound(At(s))' = v
          BY <2>3, <5>1 DEF Bound
        <5>. QED BY <2>1, <2>6, <2>7, <5>1, <5>2 DEF Owners, Users
      <4>. HIDE DEF B, U
      <4>. QED BY <4>1
    <3>5. Cardinality(B) = Cardinality(A) - Cardinality(A \cap U) + Cardinality(B \cap U)
      <4>1. A \ U = B \ U
        BY <3>1, <3>2
      <4>. HIDE DEF A, B, U
      <4>2. Cardinality(A \ U) = Cardinality(B \ U)
        BY <4>1
      <4>3. Cardinality(A \ U) = Cardinality(A) - Cardinality(A \cap U)
        BY <3>1, SlotSets, FS_Difference
      <4>4. Cardinality(B \ U) = Cardinality(B) - Cardinality(B \cap U)
        BY <3>1, SlotSets, FS_Difference
      <4>5. /\ Cardinality(A) \in Nat /\ Cardinality(A \cap U) \in Nat
            /\ Cardinality(B) \in Nat /\ Cardinality(B \cap U) \in Nat
        BY <3>1, SlotSets
      <4>. DEFINE a == Cardinality(A)
                  e == Cardinality(B)
                  p == Cardinality(A \cap U)
                  q == Cardinality(B \cap U)
      <4>6. a - p = e - q /\ a \in Nat /\ e \in Nat /\ p \in Nat /\ q \in Nat
        BY <4>2, <4>3, <4>4, <4>5
      <4>7. e = a - p + q
        <5>. HIDE DEF a, e, p, q
        <5>. QED BY <4>6
      <4>. QED BY <4>7
    <3>6. /\ Cardinality(A \cap U) = (IF w = o THEN k ELSE 0)
          /\ Cardinality(B \cap U) = (IF v = o THEN k ELSE 0)
      <4>. HIDE DEF A, B, U, w, k
      <4>. QED BY <2>2, <3>3, <3>4, FS_EmptySet
    <3>7. c[o] = count[o] + (IF v = o THEN k ELSE 0)
      <4>. HIDE DEF k
      <4>. QED BY <1>c, <2>2, RetainAt
    <3>8. count'[o] = c[o] - (IF w = o THEN k ELSE 0)
      <4>. HIDE DEF c, w, k
      <4>. QED BY <2>2, <2>3, <2>4, DecreaseAt
    <3>9. InHand(o) = 0 /\ InHand(o)' = 0
      BY <1>h, <1>hp, <1>k, <2>1, <2>3
    <3>10. Cardinality(Owners(o)') = Cardinality(Owners(o)) - (IF w = o THEN k ELSE 0) + (IF v = o THEN k ELSE 0)
      BY <3>5, <3>6
    <3>. HIDE DEF A, B, U, c, w, k
    <3>. QED BY <1>o, <2>2, <2>3, <3>7, <3>8, <3>9, <3>10
  <2>. QED BY <1>g, <2>8
<1>19. ASSUME UpdateDone PROVE ObjectCount'
  <2>1. /\ op.kind = "update" /\ op' = Idle /\ value' = [value EXCEPT ![op.binding] = op.obj]
        /\ op.binding \in Bindings /\ UNCHANGED <<pool, entry, count, held, dealloc>>
    BY <1>t, <1>19, OpFields DEF UpdateDone
  <2>2. ASSUME NEW o \in Objects
        PROVE  count'[o] = held'[o] + Cardinality(CallsOf(pool', o)) + InHand(o)' + Cardinality(Owners(o)')
    <3>1. \A s \in Slots : (Settled(s)' <=> Settled(s)) /\ At(s)' = At(s)
      BY <1>k, <2>1, SettledSlots, SettledSlotsPrime DEF At
    <3>2. ASSUME NEW s \in Slots PROVE s \in Owners(o)' <=> s \in Owners(o)
      <4>1. At(s) # NULL => At(s) \in Bindings
        <5>1. PICK k \in Maps, i \in Idents : s = <<k, i>>
          BY DEF Slots
        <5>. QED BY <1>y, <5>1 DEF At
      <4>2. At(s) # NULL => Bound(At(s))' = Bound(At(s))
        BY <1>k, <1>y, <2>1, <3>1, <4>1 DEF Bound
      <4>. QED BY <3>1, <4>2 DEF Owners
    <3>3. Cardinality(Owners(o)') = Cardinality(Owners(o))
      BY <1>2, <3>2
    <3>4. InHand(o) = 0 /\ InHand(o)' = 0
      BY <1>h, <1>hp, <1>k, <2>1
    <3>. QED BY <1>o, <2>1, <3>3, <3>4
  <2>. QED BY <1>g, <2>2
<1>20. ASSUME NEW n \in Idents, DeallocEntry(n) PROVE ObjectCount'
  <2>. DEFINE f  == Dead.func
              b  == entry[f][n]
              v  == value[b]
              x  == <<f, n>>
              st == <<Frame(f, n)>> \o Tail(dealloc)
  <2>1. /\ Destroying /\ Dead.ident = NULL /\ b # NULL /\ ~Dying(v)
        /\ count' = Decrease(count, v, 1) /\ dealloc' = Opened(count, v, 1, st)
        /\ UNCHANGED <<pool, entry, value, held, op>>
    BY <1>20 DEF DeallocEntry, Release
  <2>2. f \in Funcs /\ x \in Slots /\ x[1] = f /\ x[2] = n
    BY <1>t, <2>1, HeadFrame DEF Slots, Maps
  <2>3. /\ st \in Seq(Frames)
        /\ SettledBy(st) = SettledBy(Tail(dealloc)) \cup ({<<Dead.func, n>>} \cap Slots)
    BY <1>t, <2>1, MoveHead
  <2>4. SettledBy(dealloc') = SettledBy(Tail(dealloc)) \cup {x}
    <3>1. SettledBy(dealloc') = SettledBy(st)
      <4>. HIDE DEF st, v
      <4>. QED BY <1>z, <2>1, <2>3
    <3>. QED BY <2>2, <2>3, <3>1
  <2>5. SettledBy(dealloc) = SettledBy(Tail(dealloc))
    <3>1. SettledBy(dealloc) = SettledBy(Tail(dealloc)) \cup ({<<Dead.func, Dead.ident>>} \cap Slots)
      BY <1>t, <2>1, HeadFrame
    <3>. QED BY <2>1, <3>1 DEF Slots
  <2>6. x \notin SettledBy(dealloc)
    <3>1. Distinct(dealloc)
      BY DEF StackInv
    <3>2. f \notin FuncsOf(Tail(dealloc)) /\ Tail(dealloc) \in Seq(Frames)
      BY <1>t, <2>1, <3>1, HeadFrame
    <3>. DEFINE tl == Tail(dealloc)
    <3>. HIDE DEF f, tl
    <3>3. <<f, n>> \notin SettledBy(tl)
      BY <3>2, SettledFuncs DEF tl
    <3>. QED BY <2>5, <3>3 DEF tl
  <2>7. \A s \in Slots : s = x => ~Settled(s) /\ Settled(s)'
    <3>1. op.kind = "register" => Head(pool) \in Scopes
      BY <1>t DEF TypeOK
    <3>2. ~(op.kind = "register" /\ x = <<Head(pool), op.ident>>)
      BY <2>2, <3>1
    <3>. QED BY <2>2, <2>4, <2>6, <3>2, SettledSlots, SettledSlotsPrime
  <2>8. \A s \in Slots : s # x => (Settled(s)' <=> Settled(s))
    BY <2>1, <2>4, <2>5, SettledSlots, SettledSlotsPrime
  <2>9. Bound(b) = v
    <3>1. ASSUME op.kind = "update", op.binding = b PROVE FALSE
      <4>1. Outermost(dealloc) = v /\ dealloc # <<>>
        BY <2>1, <3>1 DEF StackInv, Destroying
      <4>2. Len(dealloc) \in DOMAIN dealloc
        BY <1>d, <4>1
      <4>. QED BY <2>1, <4>1, <4>2 DEF Outermost, Dying
    <3>. QED BY <3>1 DEF Bound
  <2>10. ASSUME NEW o \in Objects
         PROVE  count'[o] = held'[o] + Cardinality(CallsOf(pool', o)) + InHand(o)' + Cardinality(Owners(o)')
    <3>1. ASSUME NEW s \in Slots, s # x PROVE s \in Owners(o)' <=> s \in Owners(o)
      <4>1. At(s)' = At(s)
        BY <2>1 DEF At
      <4>2. Bound(At(s))' = Bound(At(s))
        BY <2>1, <4>1 DEF Bound
      <4>. QED BY <2>8, <3>1, <4>1, <4>2 DEF Owners
    <3>2. x \in Owners(o) <=> v = o
      BY <2>1, <2>2, <2>7, <2>9 DEF Owners, At
    <3>3. x \notin Owners(o)'
      BY <2>2, <2>7 DEF Owners
    <3>4. Cardinality(Owners(o)') = Cardinality(Owners(o)) - Ind(x \in Owners(o)) + Ind(x \in Owners(o)')
      <4>. HIDE DEF x
      <4>. QED BY <1>1, <3>1
    <3>5. count'[o] = count[o] - (IF v = o THEN 1 ELSE 0)
      <4>. HIDE DEF v, st
      <4>. QED BY <1>c, <2>1, DecreaseAt
    <3>6. InHand(o)' = InHand(o)
      BY <2>1 DEF InHand
    <3>7. Ind(x \in Owners(o)) = (IF v = o THEN 1 ELSE 0) /\ Ind(x \in Owners(o)') = 0
      BY <3>2, <3>3 DEF Ind
    <3>. HIDE DEF v, x, st
    <3>. QED BY <1>o, <2>1, <3>4, <3>5, <3>6, <3>7
  <2>. QED BY <1>g, <2>10
<1>22. ASSUME DeallocBinding PROVE ObjectCount'
  <2>. DEFINE f == Dead.func
              n == Dead.ident
              x == <<f, n>>
  <2>1. /\ Destroying /\ n # NULL /\ entry' = [entry EXCEPT ![f][n] = NULL]
        /\ dealloc' = <<Frame(Dead.func, NULL)>> \o Tail(dealloc)
        /\ UNCHANGED <<pool, value, count, held, op>>
    BY <1>22 DEF DeallocBinding
  <2>2. f \in Funcs /\ f \in Maps /\ n \in Idents /\ x \in Slots /\ x[1] = f /\ x[2] = n
    BY <1>t, <2>1, HeadFrame DEF Slots, Maps
  <2>3. /\ entry'[f][n] = NULL
        /\ \A k \in Maps, i \in Idents : k # f \/ i # n => entry'[k][i] = entry[k][i]
    BY <1>y, <2>1, <2>2
  <2>4. SettledBy(dealloc') = SettledBy(Tail(dealloc))
    <3>1. SettledBy(dealloc') = SettledBy(Tail(dealloc)) \cup ({<<Dead.func, NULL>>} \cap Slots)
      BY <1>t, <2>1, MoveHead
    <3>. QED BY <3>1 DEF Slots
  <2>5. SettledBy(dealloc) = SettledBy(Tail(dealloc)) \cup {x}
    BY <1>t, <2>1, <2>2, HeadFrame
  <2>6. Settled(x) /\ \A s \in Slots : s # x => (Settled(s)' <=> Settled(s))
    BY <2>1, <2>2, <2>4, <2>5, SettledSlots, SettledSlotsPrime
  <2>7. ASSUME NEW o \in Objects
        PROVE  count'[o] = held'[o] + Cardinality(CallsOf(pool', o)) + InHand(o)' + Cardinality(Owners(o)')
    <3>1. ASSUME NEW s \in Slots, s # x PROVE s \in Owners(o)' <=> s \in Owners(o)
      <4>1. PICK k \in Maps, i \in Idents : s = <<k, i>>
        BY DEF Slots
      <4>2. At(s)' = At(s)
        BY <2>3, <3>1, <4>1 DEF At
      <4>3. Bound(At(s))' = Bound(At(s))
        BY <2>1, <4>2 DEF Bound
      <4>. QED BY <2>6, <3>1, <4>2, <4>3 DEF Owners
    <3>2. x \notin Owners(o) /\ x \notin Owners(o)'
      BY <2>2, <2>3, <2>6 DEF Owners, At
    <3>3. Cardinality(Owners(o)') = Cardinality(Owners(o)) - Ind(x \in Owners(o)) + Ind(x \in Owners(o)')
      <4>. HIDE DEF x
      <4>. QED BY <1>1, <3>1
    <3>4. InHand(o)' = InHand(o)
      BY <2>1 DEF InHand
    <3>5. Ind(x \in Owners(o)) = 0 /\ Ind(x \in Owners(o)') = 0
      BY <3>2 DEF Ind
    <3>. HIDE DEF x
    <3>. QED BY <1>o, <2>1, <3>3, <3>4, <3>5
  <2>. QED BY <1>g, <2>7
<1>23. ASSUME DeallocDone PROVE ObjectCount'
  <2>1. /\ Destroying /\ Dead.ident = NULL /\ dealloc' = Tail(dealloc)
        /\ UNCHANGED <<pool, entry, value, count, held, op>>
    BY <1>23 DEF DeallocDone
  <2>2. SettledBy(dealloc') = SettledBy(dealloc)
    <3>1. SettledBy(dealloc) = SettledBy(Tail(dealloc)) \cup ({<<Dead.func, Dead.ident>>} \cap Slots)
      BY <1>t, <2>1, HeadFrame
    <3>. QED BY <2>1, <3>1 DEF Slots
  <2>3. ASSUME NEW o \in Objects
        PROVE  count'[o] = held'[o] + Cardinality(CallsOf(pool', o)) + InHand(o)' + Cardinality(Owners(o)')
    <3>1. \A s \in Slots : (Settled(s)' <=> Settled(s)) /\ At(s)' = At(s)
      BY <2>1, <2>2, SettledSlots, SettledSlotsPrime DEF At
    <3>2. ASSUME NEW s \in Slots PROVE s \in Owners(o)' <=> s \in Owners(o)
      <4>1. Bound(At(s))' = Bound(At(s))
        BY <2>1, <3>1 DEF Bound
      <4>. QED BY <3>1, <4>1 DEF Owners
    <3>3. Cardinality(Owners(o)') = Cardinality(Owners(o))
      BY <1>2, <3>2
    <3>4. InHand(o)' = InHand(o)
      BY <2>1 DEF InHand
    <3>. QED BY <1>o, <2>1, <3>3, <3>4
  <2>. QED BY <1>g, <2>3
<1>24. CASE Call
  BY <1>24, <1>4, <1>5, <1>6, <1>7, <1>8, <1>9, <1>10, <1>14, <1>18 DEF Call
<1>25. CASE Continue
  BY <1>25, <1>11, <1>12, <1>13, <1>15, <1>16, <1>17, <1>19, <1>20, <1>22, <1>23 DEF Continue
<1>. QED BY <1>17, <1>24, <1>25 DEF Next

-----------------------------------------------------------------------------

CountInv == TypeInv /\ StackInv /\ ClosureInv /\ BindingCount /\ ObjectCount

LEMMA InitCounts == Init => CountInv
<1>. SUFFICES ASSUME Init PROVE BindingCount /\ ObjectCount
  BY InitType, InitStack DEF CountInv
<1>1. ASSUME NEW b \in Bindings PROVE Users(b) = {} /\ Unlinked(b) = 0 /\ retain[b] = 0
  BY Disjointness DEF Init, Users, At, Slots, EmptyMap, Unlinked, Idle
<1>2. BindingCount
  BY <1>1, FS_EmptySet DEF BindingCount
<1>3. ASSUME NEW o \in Objects
      PROVE  count[o] = 0 /\ held[o] = 0 /\ Calls(o) = {} /\ InHand(o) = 0 /\ Owners(o) = {}
  <2>1. PICK s \in Scopes : pool = <<s>>
    BY DEF Init
  <2>2. s # o
    BY ObjectsAssumption
  <2>3. Calls(o) = {}
    BY <2>1, <2>2 DEF Calls
  <2>4. Owners(o) = {}
    BY Disjointness DEF Init, Owners, At, Slots, EmptyMap
  <2>. QED BY <2>3, <2>4 DEF Init, InHand, Idle
<1>4. ObjectCount
  BY <1>3, FS_EmptySet DEF ObjectCount
<1>. QED BY <1>2, <1>4

LEMMA CountStep == CountInv /\ [Next]_vars => CountInv'
BY TypeStep, StackStep, ClosureStep, BindingStep, ObjectStep DEF CountInv

(* The retain_count of every object is the number of references to it, in    *)
(* every state of every execution: no interleaving of calls, pushes, pops,   *)
(* registrations, updates and cascades of sol_obj_release miscounts.         *)
THEOREM ObjectsCounted == Spec => []ObjectCount
<1>1. CountInv => ObjectCount
  BY DEF CountInv
<1>. QED BY InitCounts, CountStep, <1>1, PTL DEF Spec

LEMMA CountsDangle == CountInv => NoDangling
<1>. SUFFICES ASSUME CountInv PROVE NoDangling
  OBVIOUS
<1>t. TypeOK /\ BindingCount /\ ObjectCount
  BY DEF CountInv, TypeInv
<1>p. \A A : A # {} /\ IsFiniteSet(A) => Cardinality(A) \in Nat \ {0}
  BY FS_EmptySet, FS_CardinalityType
<1>1. ASSUME NEW s \in Slots, At(s) # NULL PROVE retain[At(s)] > 0
  <2>. DEFINE b == At(s)
  <2>1. b \in Bindings
    <3>1. PICK m \in Maps, n \in Idents : s = <<m, n>>
      BY DEF Slots
    <3>. QED BY <1>t, <1>1, <3>1 DEF At, TypeOK
  <2>2. Cardinality(Users(b)) \in Nat \ {0}
    <3>1. s \in Users(b)
      BY DEF Users
    <3>2. IsFiniteSet(Users(b))
      BY SlotSets DEF Users
    <3>. QED BY <1>p, <3>1, <3>2
  <2>3. Unlinked(b) \in Nat
    BY DEF Unlinked
  <2>4. retain[b] = Cardinality(Users(b)) + Unlinked(b)
    BY <1>t, <2>1 DEF BindingCount
  <2>. HIDE DEF b
  <2>5. retain[b] > 0
    BY <2>2, <2>3, <2>4
  <2>. QED BY <2>5 DEF b
<1>o. ASSUME NEW o \in Objects, Calls(o) # {} \/ Owners(o) # {} PROVE count[o] > 0
  <2>1. count[o] = held[o] + Cardinality(Calls(o)) + InHand(o) + Cardinality(Owners(o))
    BY <1>t DEF ObjectCount
  <2>2. IsFiniteSet(Calls(o)) /\ Cardinality(Calls(o)) \in Nat
    <3>1. Calls(o) = CallsOf(pool, o)
      BY DEF Calls, CallsOf
    <3>. QED BY <1>t, <3>1, CallsType DEF TypeOK
  <2>3. IsFiniteSet(Owners(o)) /\ Cardinality(Owners(o)) \in Nat
    BY SlotSets DEF Owners
  <2>4. held[o] \in Nat /\ InHand(o) \in Nat
    BY <1>t DEF TypeOK, InHand
  <2>5. Cardinality(Calls(o)) \in Nat \ {0} \/ Cardinality(Owners(o)) \in Nat \ {0}
    BY <1>o, <1>p, <2>2, <2>3
  <2>. DEFINE c == Cardinality(Calls(o))
              w == Cardinality(Owners(o))
              i == InHand(o)
  <2>6. /\ count[o] = held[o] + c + i + w /\ c \in Nat /\ w \in Nat /\ i \in Nat
        /\ (c > 0 \/ w > 0)
    BY <2>1, <2>2, <2>3, <2>4, <2>5
  <2>. HIDE DEF c, w, i
  <2>. QED BY <2>4, <2>6
<1>2. ASSUME NEW s \in Slots, At(s) # NULL, ~Settled(s), Bound(At(s)) \in Objects
      PROVE  count[Bound(At(s))] > 0
  <2>. DEFINE o == Bound(At(s))
  <2>1. s \in Owners(o)
    BY <1>2 DEF Owners
  <2>. QED BY <1>o, <1>2, <2>1
<1>3. ASSUME NEW i \in DOMAIN pool, pool[i] \in Funcs PROVE count[pool[i]] > 0
  <2>1. i \in Calls(pool[i]) /\ pool[i] \in Objects
    BY <1>3, Disjointness DEF Calls
  <2>. QED BY <1>o, <2>1
<1>. QED BY <1>1, <1>2, <1>3 DEF NoDangling

(* No entry of any scope or closure ever leads to freed memory, and no       *)
(* function is destroyed while a call executes it: what sol_token_resolve    *)
(* and sol_token_update follow without a check is always alive.              *)
THEOREM NothingDangles == Spec => []NoDangling
BY InitCounts, CountStep, CountsDangle, PTL DEF Spec

-----------------------------------------------------------------------------
(* Closures are snapshots. *)

\* A function that is being destroyed has no references left.
Spent(c, st) == \A f \in FuncsOf(st) : c[f] <= 0

DyingInv == Spent(count, dealloc)

\* A release leaves on the stack only functions without references.
LEMMA ReleaseSpent ==
  ASSUME NEW c \in [Objects -> Int], NEW v, NEW k \in Int, NEW st \in Seq(Frames),
         FuncsOf(st) \subseteq Funcs, Spent(c, st), st = <<>> \/ k >= 0
  PROVE  Spent(Decrease(c, v, k), Opened(c, v, k, st))
<1>1. FuncsOf(Opened(c, v, k, st)) = FuncsOf(st) \cup (IF v \in Funcs /\ c[v] <= k THEN {v} ELSE {})
  BY OpenedStack
<1>2. SUFFICES ASSUME NEW f \in FuncsOf(Opened(c, v, k, st)) PROVE Decrease(c, v, k)[f] <= 0
  BY DEF Spent
<1>3. f \in Funcs /\ f \in Objects
  BY <1>1, Disjointness
<1>4. c[f] \in Int
  BY <1>3
<1>5. CASE v = f
  <2>1. Decrease(c, v, k)[f] = c[f] - k
    BY <1>3, <1>5 DEF Decrease
  <2>2. CASE f \in FuncsOf(st)
    <3>1. c[f] <= 0 /\ k >= 0
      BY <2>2, NoFrames DEF Spent
    <3>. QED BY ONLY <2>1, <3>1, <1>4, k \in Int
  <2>3. CASE f \notin FuncsOf(st)
    <3>1. c[f] <= k
      BY <1>1, <1>2, <1>5, <2>3
    <3>. QED BY ONLY <2>1, <3>1, <1>4, k \in Int
  <2>. QED BY <2>2, <2>3
<1>6. CASE v # f
  <2>1. Decrease(c, v, k)[f] = c[f]
    BY <1>6 DEF Decrease
  <2>2. f \in FuncsOf(st)
    BY <1>1, <1>2, <1>6
  <2>. QED BY <2>1, <2>2 DEF Spent
<1>. QED BY <1>5, <1>6

LEMMA StackFuncs == ASSUME NEW st \in Seq(Frames) PROVE FuncsOf(st) \subseteq Funcs
<1>1. ASSUME NEW i \in DOMAIN st PROVE st[i].func \in Funcs
  <2>1. st[i] \in Frames
    OBVIOUS
  <2>. QED BY <2>1 DEF Frames
<1>. QED BY <1>1 DEF FuncsOf

\* References are taken only while nothing is being destroyed.
LEMMA DyingStep == TypeInv /\ DyingInv /\ [Next]_vars => DyingInv'
<1>. SUFFICES ASSUME TypeInv, DyingInv, [Next]_vars PROVE DyingInv'
  OBVIOUS
<1>t. TypeOK /\ count \in [Objects -> Int] /\ dealloc \in Seq(Frames)
  BY DEF TypeInv, TypeOK
<1>n. 1 \in Int /\ 1 >= 0
  OBVIOUS
<1>e. ASSUME dealloc = <<>> PROVE Spent(count, dealloc)
  BY <1>e, NoFrames DEF Spent
<1>1. ASSUME UNCHANGED <<dealloc, count>> PROVE DyingInv'
  BY <1>1 DEF DyingInv, Spent
<1>2. ASSUME dealloc' = <<>> PROVE DyingInv'
  BY <1>2, NoFrames DEF DyingInv, Spent
<1>3. ASSUME NEW c \in [Objects -> Int], NEW v, NEW k \in Int, dealloc = <<>>,
             Release(c, v, k, dealloc)
      PROVE  DyingInv'
  <2>1. FuncsOf(dealloc) \subseteq Funcs /\ Spent(c, dealloc)
    BY <1>3, NoFrames DEF Spent
  <2>2. Spent(Decrease(c, v, k), Opened(c, v, k, dealloc))
    BY <1>t, <1>3, <2>1, ReleaseSpent
  <2>. QED BY <1>3, <2>2 DEF DyingInv, Release
<1>4. ASSUME NEW o \in Data \cup Tokens, ObjCreate(o) PROVE DyingInv'
  BY <1>2, <1>4 DEF ObjCreate, Ready
<1>5. ASSUME NEW f \in Funcs, FuncCreate(f) PROVE DyingInv'
  BY <1>2, <1>5 DEF FuncCreate, Ready
<1>6. ASSUME NEW o \in Objects, ObjRelease(o) PROVE DyingInv'
  BY <1>t, <1>n, <1>3, <1>6 DEF ObjRelease, Ready
<1>7. ASSUME NEW n \in Idents, TokenResolve(n) PROVE DyingInv'
  BY <1>2, <1>7 DEF TokenResolve, Ready
<1>8. ASSUME NEW s \in Scopes, TokenPoolPush(s) PROVE DyingInv'
  BY <1>1, <1>8 DEF TokenPoolPush
<1>9. ASSUME NEW f \in Funcs, NEW s \in Scopes, FuncEnter(f, s) PROVE DyingInv'
  BY <1>1, <1>9 DEF FuncEnter
<1>10. ASSUME TokenPoolPop PROVE DyingInv'
  BY <1>1, <1>10 DEF TokenPoolPop
<1>11. ASSUME NEW n \in Idents, PopEntry(n) PROVE DyingInv'
  BY <1>t, <1>n, <1>3, <1>11 DEF PopEntry, Popping
<1>12. ASSUME PopBinding \/ PopDone PROVE DyingInv'
  BY <1>1, <1>12 DEF PopBinding, PopDone
<1>13. ASSUME NEW n \in Idents, NEW v \in Values, TokenRegister(n, v) PROVE DyingInv'
  <2>1. dealloc = <<>> /\ Retain(count, v, 1) \in [Objects -> Int]
    BY <1>t, <1>n, <1>13, RetainType DEF TokenRegister, Ready
  <2>2. CASE entry[Head(pool)][n] = NULL
    BY <1>2, <1>13, <2>1, <2>2 DEF TokenRegister
  <2>3. CASE entry[Head(pool)][n] # NULL
    <3>1. Release(Retain(count, v, 1), value[entry[Head(pool)][n]], 1, dealloc)
      BY <1>13, <2>3 DEF TokenRegister
    <3>. QED BY <1>n, <1>3, <2>1, <3>1
  <2>. QED BY <2>2, <2>3
<1>14. ASSUME RegisterAlias PROVE DyingInv'
  <2>1. dealloc = <<>> /\ Retain(count, value[Aliased(op.obj)], 1) \in [Objects -> Int]
    BY <1>t, <1>n, <1>14, RetainType DEF RegisterAlias, Registering
  <2>2. Release(Retain(count, value[Aliased(op.obj)], 1), op.obj, 1, dealloc)
    BY <1>14 DEF RegisterAlias
  <2>. QED BY <1>n, <1>3, <2>1, <2>2
<1>15. ASSUME RegisterFresh PROVE DyingInv'
  <2>1. dealloc = <<>>
    BY <1>15 DEF RegisterFresh, Registering
  <2>2. CASE IsUndefined(op.obj)
    BY <1>t, <1>n, <1>3, <1>15, <2>1, <2>2 DEF RegisterFresh
  <2>3. CASE ~IsUndefined(op.obj)
    BY <1>2, <1>15, <2>1, <2>3 DEF RegisterFresh
  <2>. QED BY <2>2, <2>3
<1>16. ASSUME RegisterNull \/ RegisterWild PROVE DyingInv'
  BY <1>1, <1>16 DEF RegisterNull, RegisterWild
<1>17. ASSUME NEW n \in Idents, NEW v \in Values, TokenUpdate(n, v) PROVE DyingInv'
  <2>1. dealloc = <<>> /\ Lookup(n) \in Bindings
    BY <1>t, <1>17, LookupType DEF TokenUpdate, Ready
  <2>2. retain[Lookup(n)] \in Int
    BY <1>t, <2>1 DEF TypeOK
  <2>3. Retain(count, v, retain[Lookup(n)]) \in [Objects -> Int]
    BY <1>t, <2>2, RetainType
  <2>4. Release(Retain(count, v, retain[Lookup(n)]), value[Lookup(n)], retain[Lookup(n)], dealloc)
    BY <1>17 DEF TokenUpdate
  <2>. QED BY <1>3, <2>1, <2>2, <2>3, <2>4
<1>18. ASSUME UpdateDone PROVE DyingInv'
  BY <1>1, <1>18 DEF UpdateDone
<1>19. ASSUME NEW n \in Idents, DeallocEntry(n) PROVE DyingInv'
  <2>. DEFINE v  == value[entry[Dead.func][n]]
              st == <<Frame(Dead.func, n)>> \o Tail(dealloc)
  <2>1. Destroying /\ Release(count, v, 1, st)
    BY <1>19 DEF DeallocEntry
  <2>2. st \in Seq(Frames) /\ FuncsOf(st) = FuncsOf(dealloc)
    BY <1>t, <2>1, MoveHead
  <2>. HIDE DEF v, st
  <2>3. FuncsOf(st) \subseteq Funcs /\ Spent(count, st)
    BY <2>2, StackFuncs DEF DyingInv, Spent
  <2>4. Spent(Decrease(count, v, 1), Opened(count, v, 1, st))
    BY <1>t, <1>n, <2>2, <2>3, ReleaseSpent
  <2>. QED BY <2>1, <2>4 DEF DyingInv, Release
<1>20. ASSUME NEW n \in Idents, DeallocRunaway(n) PROVE DyingInv'
  BY <1>1, <1>20 DEF DeallocRunaway
<1>21. ASSUME DeallocBinding PROVE DyingInv'
  <2>1. Destroying /\ dealloc' = <<Frame(Dead.func, NULL)>> \o Tail(dealloc) /\ count' = count
    BY <1>21 DEF DeallocBinding
  <2>2. FuncsOf(dealloc') = FuncsOf(dealloc)
    BY <1>t, <2>1, MoveHead
  <2>. QED BY <2>1, <2>2 DEF DyingInv, Spent
<1>22. ASSUME DeallocDone PROVE DyingInv'
  <2>1. Destroying /\ dealloc' = Tail(dealloc) /\ count' = count
    BY <1>22 DEF DeallocDone
  <2>2. FuncsOf(dealloc') \subseteq FuncsOf(dealloc)
    BY <1>t, <2>1, HeadFrame
  <2>. QED BY <2>1, <2>2 DEF DyingInv, Spent
<1>23. CASE UNCHANGED vars
  BY <1>1, <1>23 DEF vars
<1>24. CASE Call
  BY <1>24, <1>4, <1>5, <1>6, <1>7, <1>8, <1>9, <1>10, <1>13, <1>17 DEF Call
<1>25. CASE Continue
  BY <1>25, <1>11, <1>12, <1>14, <1>15, <1>16, <1>18, <1>19, <1>20, <1>21, <1>22 DEF Continue
<1>. QED BY <1>23, <1>24, <1>25 DEF Next

\* Only creating or destroying a function writes to a closure map.
LEMMA ClosureWrites ==
  ASSUME TypeInv, [Next]_vars, NEW f \in Funcs, entry'[f] # entry[f]
  PROVE  \/ FuncCreate(f)
         \/ /\ DeallocBinding /\ f = Dead.func
<1>. USE Disjointness
<1>t. TypeOK /\ f \in Maps /\ entry \in [Maps -> [Idents -> Bindings \cup {NULL}]]
  BY DEF TypeInv, TypeOK, Maps
<1>1. entry' # entry
  OBVIOUS
<1>2. ASSUME NEW m, NEW n, NEW b, entry' = [entry EXCEPT ![m][n] = b] PROVE f = m
  BY <1>t, <1>2
<1>3. ASSUME NEW g \in Funcs, FuncCreate(g) PROVE FuncCreate(f)
  <2>1. entry' = [entry EXCEPT ![g] = [n \in Idents |-> Lookup(n)]]
    BY <1>3 DEF FuncCreate
  <2>2. f = g
    BY <1>t, <2>1
  <2>. QED BY <1>3, <2>2
<1>4. ASSUME NEW n \in Idents, PopEntry(n) PROVE FALSE
  <2>1. op.scope \in Scopes /\ entry' = [entry EXCEPT ![op.scope][n] = NULL]
    BY <1>t, <1>4, OpFields DEF PopEntry, Popping
  <2>. QED BY <1>2, <2>1
<1>5. ASSUME RegisterAlias \/ RegisterFresh PROVE FALSE
  <2>1. Head(pool) \in Scopes
    BY <1>t, <1>5 DEF RegisterAlias, RegisterFresh, Registering, TypeOK
  <2>2. \E b : entry' = [entry EXCEPT ![Head(pool)][op.ident] = b]
    BY <1>5 DEF RegisterAlias, RegisterFresh
  <2>. QED BY <1>2, <2>1, <2>2
<1>6. ASSUME DeallocBinding PROVE f = Dead.func
  <2>1. entry' = [entry EXCEPT ![Dead.func][Dead.ident] = NULL]
    BY <1>6 DEF DeallocBinding
  <2>. QED BY <1>2, <2>1
<1>7. CASE UNCHANGED vars
  BY <1>1, <1>7 DEF vars
<1>8. CASE Call
  BY <1>1, <1>3, <1>8 DEF Call, ObjCreate, ObjRelease, TokenResolve, TokenPoolPush, FuncEnter,
    TokenPoolPop, TokenRegister, TokenUpdate
<1>9. CASE Continue
  BY <1>1, <1>4, <1>5, <1>6, <1>9 DEF Continue, DeallocEntry, DeallocRunaway, PopBinding, PopDone,
    RegisterNull, RegisterWild, UpdateDone, DeallocDone
<1>. QED BY <1>7, <1>8, <1>9 DEF Next

(* A closure is a snapshot: as long as a function has references, its        *)
(* closure keeps the bindings it was created with, whatever is registered or *)
(* destroyed meanwhile (soltoken.c:94-115, sol.c:62-88).                     *)
THEOREM ClosuresKept == Spec => ClosureFixed
<1>1. Init => TypeInv /\ DyingInv
  BY InitType, NoFrames DEF Init, DyingInv, Spent
<1>2. TypeInv /\ DyingInv /\ [Next]_vars => TypeInv' /\ DyingInv'
  BY TypeStep, DyingStep
<1>3. TypeInv /\ DyingInv /\ [Next]_vars
        => [\A f \in Funcs : count[f] > 0 /\ count'[f] > 0 => entry'[f] = entry[f]]_vars
  <2>1. SUFFICES ASSUME TypeInv, DyingInv, [Next]_vars, NEW f \in Funcs,
                        count[f] > 0, entry'[f] # entry[f]
                 PROVE  FALSE
    OBVIOUS
  <2>2. f \in Objects /\ count[f] \in Int
    BY <2>1, Disjointness DEF TypeInv, TypeOK
  <2>3. CASE FuncCreate(f)
    BY <2>1, <2>3 DEF FuncCreate
  <2>4. CASE DeallocBinding /\ f = Dead.func
    <3>1. f \in FuncsOf(dealloc)
      BY <2>1, <2>4, HeadFrame DEF DeallocBinding, TypeInv
    <3>. QED BY <2>1, <2>2, <3>1 DEF DyingInv, Spent
  <2>. QED BY <2>1, <2>3, <2>4, ClosureWrites
<1>. QED BY <1>1, <1>2, <1>3, PTL DEF Spec, ClosureFixed

-----------------------------------------------------------------------------
(* Functions and what their closures hold.                                 *)
(***************************************************************************)
(* A careful client builds no cycle: functions can be numbered so that     *)
(* what a closure holds, or will hold when an update is done, is below the *)
(* function (Layers).  Hence a cascade of releases goes down, and meets    *)
(* neither a function it is destroying already nor the binding that a      *)
(* registration is replacing.                                              *)
(***************************************************************************)

\* Function f holds function g, now or when the update in progress is done.
Links ==
  {l \in Funcs \X Funcs : \E n \in Idents :
     entry[l[1]][n] # NULL /\ l[2] \in {value[entry[l[1]][n]], Bound(entry[l[1]][n])}}

Older(age) == \A l \in Links : age[l[2]] < age[l[1]]

LEMMA LinkOf ==
  ASSUME NEW f \in Funcs, NEW g \in Funcs, NEW n \in Idents, entry[f][n] # NULL,
         g = value[entry[f][n]] \/ g = Bound(entry[f][n])
  PROVE  <<f, g>> \in Links
BY DEF Links

LEMMA ContentLinks ==
  ASSUME NEW f \in Funcs, NEW g \in Funcs, g \in Contents(f)
  PROVE  <<f, g>> \in Links
<1>1. PICK n \in Idents : entry[f][n] # NULL /\ g = value[entry[f][n]]
  BY DEF Contents
<1>. QED BY <1>1, LinkOf

LEMMA ContentsType ==
  ASSUME TypeOK, NEW m \in Maps
  PROVE  Contents(m) \subseteq Values
<1>1. ASSUME NEW n \in Idents, entry[m][n] # NULL PROVE value[entry[m][n]] \in Values
  <2>1. entry[m][n] \in Bindings
    BY <1>1 DEF TypeOK
  <2>. QED BY <2>1 DEF TypeOK
<1>. QED BY <1>1 DEF Contents

\* w[k] is what k steps through closures reach from S.
Grows(w, S) ==
  /\ w[0] = S
  /\ \A k \in 0 .. Cardinality(Funcs) : w[k] \subseteq Values
  /\ \A k \in 1 .. Cardinality(Funcs) :
       w[k] = w[k-1] \cup UNION {Contents(f) : f \in w[k-1] \cap Funcs}

LEMMA ReachGrows ==
  ASSUME TypeOK, NEW S \in SUBSET Values
  PROVE  \E w : Reach(S) = w[Cardinality(Funcs)] /\ Grows(w, S)
<1>. DEFINE N == Cardinality(Funcs)
            More(X) == X \cup UNION {Contents(f) : f \in X \cap Funcs}
            R == CHOOSE u : u = [k \in 0 .. N |->
                   IF k = 0 THEN S ELSE u[k-1] \cup UNION {Contents(f) : f \in u[k-1] \cap Funcs}]
<1>1. Reach(S) = R[N]
  BY Zenon DEF Reach
<1>2. N \in Nat
  BY MapsAssumption, FS_CardinalityType
<1>3. PICK g : g = [X \in SUBSET Values |-> More(X)]
  OBVIOUS
<1>4. g \in [SUBSET Values -> SUBSET Values]
  <2>1. ASSUME NEW X \in SUBSET Values PROVE More(X) \in SUBSET Values
    <3>1. \A f \in X \cap Funcs : Contents(f) \subseteq Values
      BY ContentsType DEF Maps
    <3>. QED BY <3>1
  <2>. QED BY <1>3, <2>1
<1>. HIDE DEF N, More
<1>5. PICK w \in [Nat -> SUBSET Values] : w[0] = S /\ \A k \in Nat : w[k+1] = g[w[k]]
  <2>1. PICK T : T = SUBSET Values
    OBVIOUS
  <2>2. S \in T /\ g \in [T -> T]
    BY <1>4, <2>1
  <2>3. \E w \in [Nat -> T] : w[0] = S /\ \A k \in Nat : w[k+1] = g[w[k]]
    BY ONLY <2>2, Iterates
  <2>. QED BY <2>1, <2>3
<1>6. ASSUME NEW k \in 1 .. N PROVE k - 1 \in 0 .. N /\ w[k] = More(w[k-1])
  <2>1. k - 1 \in Nat /\ (k - 1) + 1 = k /\ k - 1 \in 0 .. N
    BY <1>2
  <2>2. w[k] = g[w[k-1]] /\ w[k-1] \in SUBSET Values
    BY <1>5, <2>1
  <2>. QED BY <1>3, <2>1, <2>2
<1>7. PICK u : u = [k \in 0 .. N |-> w[k]]
  OBVIOUS
<1>8. \A k \in 0 .. N : u[k] = IF k = 0 THEN S ELSE More(u[k-1])
  <2>1. ASSUME NEW k \in 0 .. N, k # 0 PROVE u[k] = More(u[k-1])
    <3>1. k \in 1 .. N
      BY <1>2, <2>1
    <3>. QED BY <1>6, <1>7, <3>1
  <2>2. 0 \in 0 .. N
    BY <1>2
  <2>. QED BY <1>5, <1>7, <2>1, <2>2
<1>9. u = [k \in 0 .. N |-> IF k = 0 THEN S ELSE u[k-1] \cup UNION {Contents(f) : f \in u[k-1] \cap Funcs}]
  BY <1>7, <1>8 DEF More
<1>10. R = [k \in 0 .. N |-> IF k = 0 THEN S ELSE R[k-1] \cup UNION {Contents(f) : f \in R[k-1] \cap Funcs}]
  BY <1>9, Zenon
<1>. HIDE DEF R
<1>11. \A k \in 0 .. N : R[k] = IF k = 0 THEN S ELSE R[k-1] \cup UNION {Contents(f) : f \in R[k-1] \cap Funcs}
  BY <1>10
<1>12. \A k \in 0 .. N : R[k] = IF k = 0 THEN S ELSE More(R[k-1])
  BY <1>11 DEF More
<1>. DEFINE Agree == {k \in Nat : k \in 0 .. N => R[k] = w[k]}
<1>13. Nat \subseteq Agree
  <2>1. 0 \in Agree
    BY <1>5, <1>12
  <2>2. ASSUME NEW k \in Nat, k \in Agree PROVE k + 1 \in Agree
    <3>1. SUFFICES ASSUME k + 1 \in 0 .. N PROVE R[k+1] = w[k+1]
      OBVIOUS
    <3>2. k \in 0 .. N /\ k + 1 \in 1 .. N /\ k + 1 # 0 /\ (k + 1) - 1 = k
      BY <1>2, <3>1
    <3>3. R[k+1] = More(R[k])
      BY <1>12, <3>1, <3>2
    <3>4. w[k+1] = More(w[k])
      BY <1>6, <3>2
    <3>. QED BY <2>2, <3>2, <3>3, <3>4
  <2>. HIDE DEF Agree
  <2>. QED BY <2>1, <2>2, SetInduction
<1>14. N \in Nat /\ N \in 0 .. N
  BY <1>2
<1>15. Reach(S) = w[N]
  <2>1. R[N] = w[N]
    BY <1>13, <1>14
  <2>. QED BY <1>1, <2>1
<1>16. \A k \in 0 .. N : w[k] \subseteq Values
  BY <1>5
<1>17. Grows(w, S)
  BY <1>5, <1>6, <1>16 DEF Grows, More, N
<1>. QED BY <1>15, <1>17 DEF N

\* The steps that the definition of Reach allows are enough, because what a
\* closure holds is older than the function.
LEMMA ReachClosed ==
  ASSUME TypeOK, NEW age \in [Funcs -> Nat], Older(age), NEW S \in SUBSET Values
  PROVE  /\ S \subseteq Reach(S)
         /\ \A f \in Reach(S) \cap Funcs : Contents(f) \subseteq Reach(S)
<1>. DEFINE N == Cardinality(Funcs)
            Above(x) == {g \in Funcs : age[g] > age[x]}
<1>1. PICK w : Reach(S) = w[N] /\ Grows(w, S)
  BY ReachGrows
<1>. DEFINE Fresh(k) == {x \in w[k] \cap Funcs : \A j \in 0 .. k - 1 : x \notin w[j]}
            Far == {k \in Nat : k \in 0 .. N => \A x \in Fresh(k) : Cardinality(Above(x)) >= k}
<1>2. N \in Nat /\ IsFiniteSet(Funcs)
  BY MapsAssumption, FS_CardinalityType
<1>3. ASSUME NEW x \in Funcs
      PROVE  IsFiniteSet(Above(x)) /\ Cardinality(Above(x)) \in Nat
  <2>1. Above(x) \in SUBSET Funcs
    OBVIOUS
  <2>. QED BY <1>2, <2>1, FS_Subset, FS_CardinalityType
<1>4. w[0] = S
  BY <1>1 DEF Grows
<1>5. ASSUME NEW k \in 0 .. N, k + 1 \in 0 .. N
      PROVE  w[k+1] = w[k] \cup UNION {Contents(f) : f \in w[k] \cap Funcs}
  <2>1. k + 1 \in 1 .. N /\ (k + 1) - 1 = k
    BY <1>2, <1>5
  <2>. QED BY <1>1, <2>1 DEF Grows
<1>. HIDE DEF N
\* Each step keeps what was reached.
<1>6. \A k \in 0 .. N : w[k] \subseteq w[N]
  <2>. DEFINE Kept == {d \in Nat : d \in 0 .. N => w[N-d] \subseteq w[N]}
  <2>1. 0 \in Kept
    BY <1>2
  <2>2. ASSUME NEW d \in Nat, d \in Kept PROVE d + 1 \in Kept
    <3>1. SUFFICES ASSUME d + 1 \in 0 .. N PROVE w[N-(d+1)] \subseteq w[N]
      OBVIOUS
    <3>2. PICK k : k = N - (d + 1)
      OBVIOUS
    <3>3. d \in 0 .. N /\ k \in 0 .. N /\ k + 1 \in 0 .. N /\ k + 1 = N - d
      BY <1>2, <3>1, <3>2
    <3>4. w[k] \subseteq w[k+1]
      BY <1>5, <3>3
    <3>. QED BY <2>2, <3>2, <3>3, <3>4
  <2>. HIDE DEF Kept
  <2>3. Nat \subseteq Kept
    BY <2>1, <2>2, SetInduction
  <2>4. ASSUME NEW k \in 0 .. N PROVE w[k] \subseteq w[N]
    <3>1. N - k \in Nat /\ N - k \in 0 .. N /\ N - (N - k) = k
      BY <1>2
    <3>. QED BY <2>3, <3>1 DEF Kept
  <2>. QED BY <2>4
\* What k steps reach first has k functions above it.
<1>7. Nat \subseteq Far
  <2>1. 0 \in Far
    <3>1. ASSUME NEW x \in Fresh(0) PROVE Cardinality(Above(x)) >= 0
      <4>1. Cardinality(Above(x)) \in Nat
        BY <1>3
      <4>. HIDE DEF Above
      <4>. QED BY <4>1
    <3>. HIDE DEF Above, Fresh
    <3>. QED BY <3>1
  <2>2. ASSUME NEW k \in Nat, k \in Far PROVE k + 1 \in Far
    <3>1. SUFFICES ASSUME k + 1 \in 0 .. N, NEW x \in Fresh(k + 1)
                   PROVE  Cardinality(Above(x)) >= k + 1
      OBVIOUS
    <3>2. k \in 0 .. N /\ k \in 0 .. (k + 1) - 1
      BY <1>2, <3>1
    <3>3. x \in w[k+1] /\ x \in Funcs /\ x \notin w[k]
      BY <3>2
    <3>4. PICK f \in w[k] \cap Funcs : x \in Contents(f)
      BY <1>5, <3>1, <3>2, <3>3
    <3>5. ASSUME NEW j \in 0 .. k - 1, f \in w[j] PROVE FALSE
      <4>1. j \in 0 .. N /\ j + 1 \in 0 .. N /\ j + 1 \in 0 .. (k + 1) - 1
        BY <1>2, <3>2, <3>5
      <4>2. x \in w[j+1]
        BY <1>5, <3>4, <3>5, <4>1
      <4>. QED BY <4>1, <4>2
    <3>6. f \in Fresh(k)
      BY <3>4, <3>5
    <3>7. Cardinality(Above(f)) >= k
      BY <2>2, <3>2, <3>6
    <3>8. age[x] < age[f]
      <4>1. <<f, x>> \in Links
        BY <3>3, <3>4, ContentLinks
      <4>. QED BY <4>1 DEF Older
    <3>9. Above(f) \cup {f} \in SUBSET Above(x) /\ f \notin Above(f)
      <4>1. age[f] \in Nat /\ age[x] \in Nat
        BY <3>3, <3>4
      <4>2. ASSUME NEW g \in Above(f) PROVE age[g] > age[x]
        <5>1. age[g] \in Nat /\ age[g] > age[f]
          OBVIOUS
        <5>. QED BY ONLY <3>8, <4>1, <5>1
      <4>. QED BY <3>4, <3>8, <4>1, <4>2
    <3>10. Cardinality(Above(f) \cup {f}) = Cardinality(Above(f)) + 1
      BY <1>3, <3>4, <3>9, FS_AddElement
    <3>11. Cardinality(Above(f) \cup {f}) <= Cardinality(Above(x))
      BY <1>3, <3>3, <3>9, FS_Subset
    <3>12. Cardinality(Above(f)) \in Nat /\ Cardinality(Above(x)) \in Nat
      BY <1>3, <3>3, <3>4
    <3>. HIDE DEF Above
    <3>. QED BY ONLY <3>7, <3>10, <3>11, <3>12, k \in Nat
  <2>. HIDE DEF Far
  <2>. QED BY <2>1, <2>2, SetInduction
<1>8. ASSUME NEW x \in w[N] \cap Funcs PROVE \E j \in 0 .. N - 1 : x \in w[j]
  <2>1. SUFFICES ASSUME x \in Fresh(N) PROVE FALSE
    OBVIOUS
  <2>2. Cardinality(Above(x)) >= N
    <3>1. N \in Far /\ N \in 0 .. N
      BY <1>2, <1>7
    <3>. QED BY <2>1, <3>1
  <2>3. Above(x) \in SUBSET (Funcs \ {x})
    OBVIOUS
  <2>4. IsFiniteSet(Funcs \ {x}) /\ Cardinality(Funcs \ {x}) = N - 1
    BY <1>2, FS_RemoveElement DEF N
  <2>5. Cardinality(Above(x)) <= N - 1
    BY <2>3, <2>4, FS_Subset
  <2>6. Cardinality(Above(x)) \in Nat
    BY <1>3
  <2>. HIDE DEF Above
  <2>. QED BY ONLY <1>2, <2>2, <2>5, <2>6
<1>9. ASSUME NEW f \in w[N] \cap Funcs PROVE Contents(f) \subseteq w[N]
  <2>1. PICK j \in 0 .. N - 1 : f \in w[j]
    BY <1>8
  <2>2. j \in 0 .. N /\ j + 1 \in 0 .. N
    BY <1>2, <2>1
  <2>3. Contents(f) \subseteq w[j+1]
    BY <1>5, <2>1, <2>2
  <2>. QED BY <1>6, <2>2, <2>3
<1>10. S \subseteq w[N]
  <2>1. 0 \in 0 .. N
    BY <1>2
  <2>. QED BY <1>4, <1>6, <2>1
<1>11. Reach(S) = w[N]
  BY <1>1 DEF N
<1>. QED BY <1>9, <1>10, <1>11

-----------------------------------------------------------------------------
(* The order of the functions that are being destroyed. *)

\* From the innermost to the outermost, ages do not fall.
Sorted(st, age) ==
  \A i, j \in DOMAIN st : i <= j => age[st[i].func] <= age[st[j].func]

LEMMA PushSorted ==
  ASSUME NEW age \in [Funcs -> Nat], NEW st \in Seq(Frames), NEW fr \in Frames,
         NEW q, q = <<fr>> \o st
  PROVE  Sorted(q, age) <=> Sorted(st, age) /\ \A g \in FuncsOf(st) : age[fr.func] <= age[g]
<1>1. /\ Len(st) \in Nat /\ q[1] = fr /\ \A i \in DOMAIN st : q[i+1] = st[i]
      /\ DOMAIN q = 1 .. Len(st) + 1 /\ DOMAIN st = 1 .. Len(st)
  OBVIOUS
<1>2. ASSUME Sorted(q, age) PROVE Sorted(st, age) /\ \A g \in FuncsOf(st) : age[fr.func] <= age[g]
  <2>1. ASSUME NEW i \in DOMAIN st, NEW j \in DOMAIN st, i <= j PROVE age[st[i].func] <= age[st[j].func]
    <3>1. i + 1 \in DOMAIN q /\ j + 1 \in DOMAIN q /\ i + 1 <= j + 1 /\ q[i+1] = st[i] /\ q[j+1] = st[j]
      BY <1>1, <2>1
    <3>. QED BY <1>2, <3>1 DEF Sorted
  <2>2. ASSUME NEW g \in FuncsOf(st) PROVE age[fr.func] <= age[g]
    <3>1. PICK i \in DOMAIN st : g = st[i].func
      BY DEF FuncsOf
    <3>2. i + 1 \in DOMAIN q /\ 1 \in DOMAIN q /\ 1 <= i + 1 /\ q[i+1] = st[i]
      BY <1>1
    <3>. QED BY <1>1, <1>2, <3>1, <3>2 DEF Sorted
  <2>. QED BY <2>1, <2>2 DEF Sorted
<1>3. ASSUME Sorted(st, age), \A g \in FuncsOf(st) : age[fr.func] <= age[g],
             NEW i \in DOMAIN q, NEW j \in DOMAIN q, i <= j
      PROVE  age[q[i].func] <= age[q[j].func]
  <2>1. CASE j = 1
    <3>1. i = 1 /\ age[fr.func] \in Nat
      BY <1>1, <1>3, <2>1 DEF Frames
    <3>. QED BY <1>1, <2>1, <3>1
  <2>2. CASE j # 1 /\ i = 1
    <3>1. j - 1 \in DOMAIN st /\ (j - 1) + 1 = j
      BY <1>1, <2>2
    <3>2. q[j] = st[j-1] /\ st[j-1].func \in FuncsOf(st)
      BY <1>1, <3>1 DEF FuncsOf
    <3>. QED BY <1>1, <1>3, <2>2, <3>2
  <2>3. CASE j # 1 /\ i # 1
    <3>1. /\ j - 1 \in DOMAIN st /\ (j - 1) + 1 = j /\ i - 1 \in DOMAIN st /\ (i - 1) + 1 = i
          /\ i - 1 <= j - 1
      BY <1>1, <1>3, <2>3
    <3>2. q[j] = st[j-1] /\ q[i] = st[i-1]
      BY <1>1, <3>1
    <3>. QED BY <1>3, <3>1, <3>2 DEF Sorted
  <2>. QED BY <2>1, <2>2, <2>3
<1>4. ASSUME Sorted(st, age), \A g \in FuncsOf(st) : age[fr.func] <= age[g] PROVE Sorted(q, age)
  BY <1>3, <1>4 DEF Sorted
<1>. QED BY <1>2, <1>4

LEMMA OpenedSorted ==
  ASSUME NEW age \in [Funcs -> Nat], NEW st \in Seq(Frames), Sorted(st, age), NEW c, NEW v, NEW k,
         v \in Funcs => \A g \in FuncsOf(st) : age[v] <= age[g]
  PROVE  Sorted(Opened(c, v, k, st), age)
<1>1. CASE v \in Funcs /\ c[v] <= k
  <2>1. PICK fr : fr = Frame(v, NULL)
    OBVIOUS
  <2>2. fr \in Frames /\ fr.func = v
    BY <1>1, <2>1 DEF Frame, Frames
  <2>3. Opened(c, v, k, st) = <<fr>> \o st
    BY <1>1, <2>1 DEF Opened
  <2>. QED BY <1>1, <2>2, <2>3, PushSorted
<1>2. CASE ~(v \in Funcs /\ c[v] <= k)
  BY <1>2 DEF Opened
<1>. QED BY <1>1, <1>2

LEMMA EmptySorted == ASSUME NEW age PROVE Sorted(<<>>, age)
BY DEF Sorted

LEMMA OutermostDies ==
  ASSUME NEW st \in Seq(Frames), st # <<>>
  PROVE  Outermost(st) \in FuncsOf(st)
<1>1. Len(st) \in DOMAIN st
  OBVIOUS
<1>. QED BY <1>1 DEF Outermost, FuncsOf

\* The innermost deallocation is that of the lowest function.
LEMMA HeadSorted ==
  ASSUME TypeOK, Destroying, NEW age \in [Funcs -> Nat], Sorted(dealloc, age)
  PROVE  /\ Sorted(Tail(dealloc), age)
         /\ \A g \in FuncsOf(dealloc) : age[Dead.func] <= age[g]
         /\ \A k \in Idents \cup {NULL} : Sorted(<<Frame(Dead.func, k)>> \o Tail(dealloc), age)
<1>1. PICK hd, tl : hd = Dead /\ tl = Tail(dealloc)
  OBVIOUS
<1>2. hd \in Frames /\ hd.func \in Funcs /\ tl \in Seq(Frames) /\ FuncsOf(dealloc) = {hd.func} \cup FuncsOf(tl)
  BY <1>1, HeadFrame
<1>3. dealloc = <<hd>> \o tl
  BY <1>1, HeadTailProperties DEF TypeOK, Destroying, Dead
<1>4. Sorted(tl, age) /\ \A g \in FuncsOf(tl) : age[hd.func] <= age[g]
  BY <1>2, <1>3, PushSorted
<1>5. ASSUME NEW k \in Idents \cup {NULL} PROVE Sorted(<<Frame(hd.func, k)>> \o tl, age)
  <2>1. PICK f \in Funcs : f = hd.func
    BY <1>2
  <2>2. PICK fr : fr = Frame(f, k)
    OBVIOUS
  <2>3. fr \in Frames /\ fr.func = f
    BY <2>2 DEF Frame, Frames
  <2>4. \A g \in FuncsOf(tl) : age[fr.func] <= age[g]
    BY <1>4, <2>1, <2>3
  <2>5. PICK q : q = <<fr>> \o tl
    OBVIOUS
  <2>6. Sorted(q, age)
    BY <1>2, <1>4, <2>3, <2>4, <2>5, PushSorted
  <2>7. q = <<Frame(hd.func, k)>> \o tl
    BY <2>1, <2>2, <2>5
  <2>. QED BY <2>6, <2>7
<1>6. age[hd.func] \in Nat
  BY <1>2
<1>. QED BY <1>1, <1>2, <1>4, <1>5, <1>6

-----------------------------------------------------------------------------
(* The invariant of a careful client. *)

Layered(age) == age \in [Funcs -> Nat] /\ Older(age) /\ Sorted(dealloc, age)

Layers == \E age : Layered(age)

\* A registration has an object.  What it destroys is the value it replaces, and
\* a token for the entry it replaces has another user of the binding.
RegisterSafe ==
  op.kind = "register" =>
    /\ op.obj # NULL
    /\ dealloc # <<>> => OldBinding # NULL /\ Outermost(dealloc) = value[OldBinding]
    /\ SelfAlias(op.obj) => OldBinding # NULL /\ retain[OldBinding] > 1

\* A scope that is not in the pool has no entries, but for those that a pop has
\* still to destroy.
ScopesEmpty ==
  \A s \in Scopes :
    (\A i \in DOMAIN pool : pool[i] # s) /\ ~(op.kind = "pop" /\ op.scope = s) => entry[s] = EmptyMap

CarefulInv == CountInv /\ fault = "none" /\ Layers /\ RegisterSafe /\ ScopesEmpty

LEMMA InitCareful == Init => CarefulInv
<1>. SUFFICES ASSUME Init PROVE Layers /\ RegisterSafe /\ ScopesEmpty
  BY InitCounts DEF CarefulInv, Init
<1>1. Links = {}
  BY Disjointness DEF Init, Links, EmptyMap, Maps
<1>2. Layered([f \in Funcs |-> 0])
  BY <1>1, EmptySorted DEF Init, Layered, Older
<1>3. RegisterSafe
  BY DEF Init, RegisterSafe, Idle
<1>4. ScopesEmpty
  BY DEF Init, ScopesEmpty, Maps
<1>. QED BY <1>2, <1>3, <1>4 DEF Layers

\* No step of a careful client kills the program.
LEMMA FaultStep == CarefulInv /\ [CarefulNext]_vars => fault' = "none"
<1>. SUFFICES ASSUME CarefulInv, [CarefulNext]_vars PROVE fault' = "none"
  OBVIOUS
<1>t. TypeOK /\ fault = "none"
  BY DEF CarefulInv, CountInv, TypeInv
<1>1. ASSUME RegisterNull PROVE FALSE
  BY <1>1 DEF CarefulInv, RegisterSafe, RegisterNull, Registering
<1>2. ASSUME RegisterWild PROVE FALSE
  <2>. DEFINE b == Aliased(op.obj)
  <2>1. op.kind = "register" /\ SelfAlias(op.obj) /\ Wild(b)
    BY <1>2 DEF RegisterWild, Registering
  <2>2. b = OldBinding
    BY <2>1 DEF SelfAlias, Aliased
  <2>3. b # NULL /\ retain[b] > 1
    BY <2>1, <2>2 DEF CarefulInv, RegisterSafe
  <2>4. b \in Bindings
    <3>1. Head(pool) \in Maps /\ op.ident \in Idents
      BY <1>t, <2>1, OpFields DEF TypeOK
    <3>. QED BY <1>t, <2>2, <2>3, <3>1 DEF OldBinding, TypeOK
  <2>5. retain[b] \in Int /\ Dropped[b] = retain[b] - 1
    BY <1>t, <2>2, <2>3, <2>4 DEF TypeOK, Dropped
  <2>6. Dropped[b] = 0
    BY <2>1, <2>3 DEF Wild
  <2>. QED BY <2>3, <2>5, <2>6
<1>3. ASSUME NEW n \in Idents, DeallocRunaway(n) PROVE FALSE
  <2>. DEFINE v == value[entry[Dead.func][n]]
  <2>1. Destroying /\ entry[Dead.func][n] # NULL /\ v \in FuncsOf(dealloc)
    BY <1>3, DyingFuncs DEF DeallocRunaway
  <2>2. PICK age \in [Funcs -> Nat] : Older(age) /\ Sorted(dealloc, age)
    BY DEF CarefulInv, Layers, Layered
  <2>3. Dead.func \in Funcs /\ v \in Funcs
    BY <1>t, <2>1, HeadFrame, StackFuncs
  <2>4. age[v] < age[Dead.func]
    BY <2>1, <2>2, <2>3, LinkOf DEF Older
  <2>5. age[Dead.func] <= age[v]
    BY <1>t, <2>1, <2>2, HeadSorted
  <2>6. age[v] \in Nat /\ age[Dead.func] \in Nat
    BY <2>3
  <2>. QED BY ONLY <2>4, <2>5, <2>6
<1>4. CASE UNCHANGED vars
  BY <1>t, <1>4 DEF vars
<1>5. CASE Call
  BY <1>t, <1>5 DEF Call, ObjCreate, FuncCreate, ObjRelease, TokenResolve, TokenPoolPush, FuncEnter,
    TokenPoolPop, TokenRegister, TokenUpdate
<1>6. CASE Continue
  BY <1>t, <1>1, <1>2, <1>3, <1>6 DEF Continue, PopEntry, DeallocEntry, PopBinding, PopDone,
    RegisterAlias, RegisterFresh, UpdateDone, DeallocBinding, DeallocDone
<1>. QED BY <1>4, <1>5, <1>6 DEF CarefulNext, Next

-----------------------------------------------------------------------------
(* The order is kept. *)

\* What a step does to the stack of deallocations.
LEMMA StackMoves ==
  ASSUME [Next]_vars
  PROVE  \/ dealloc' = dealloc
         \/ dealloc = <<>> /\ \E c, v, k : dealloc' = Opened(c, v, k, dealloc)
         \/ \E n \in Idents : DeallocEntry(n)
         \/ DeallocBinding
         \/ DeallocDone
<1>1. ASSUME NEW o \in Objects, ObjRelease(o)
      PROVE  dealloc = <<>> /\ \E c, v, k : dealloc' = Opened(c, v, k, dealloc)
  BY <1>1 DEF ObjRelease, Ready, Release
<1>2. ASSUME NEW n \in Idents, PopEntry(n)
      PROVE  dealloc = <<>> /\ \E c, v, k : dealloc' = Opened(c, v, k, dealloc)
  BY <1>2 DEF PopEntry, Popping, Release
<1>3. ASSUME NEW n \in Idents, NEW v \in Values, TokenRegister(n, v)
      PROVE  \/ dealloc' = dealloc
             \/ dealloc = <<>> /\ \E c, w, k : dealloc' = Opened(c, w, k, dealloc)
  <2>1. dealloc = <<>>
    BY <1>3 DEF TokenRegister, Ready
  <2>2. CASE entry[Head(pool)][n] = NULL
    BY <1>3, <2>2 DEF TokenRegister
  <2>3. CASE entry[Head(pool)][n] # NULL
    BY <1>3, <2>1, <2>3 DEF TokenRegister, Release
  <2>. QED BY <2>2, <2>3
<1>4. ASSUME RegisterAlias
      PROVE  dealloc = <<>> /\ \E c, v, k : dealloc' = Opened(c, v, k, dealloc)
  BY <1>4 DEF RegisterAlias, Registering, Release
<1>5. ASSUME RegisterFresh
      PROVE  \/ dealloc' = dealloc
             \/ dealloc = <<>> /\ \E c, v, k : dealloc' = Opened(c, v, k, dealloc)
  <2>1. dealloc = <<>>
    BY <1>5 DEF RegisterFresh, Registering
  <2>2. CASE IsUndefined(op.obj)
    BY <1>5, <2>1, <2>2 DEF RegisterFresh, Release
  <2>3. CASE ~IsUndefined(op.obj)
    BY <1>5, <2>3 DEF RegisterFresh
  <2>. QED BY <2>2, <2>3
<1>6. ASSUME NEW n \in Idents, NEW v \in Values, TokenUpdate(n, v)
      PROVE  dealloc = <<>> /\ \E c, w, k : dealloc' = Opened(c, w, k, dealloc)
  BY <1>6 DEF TokenUpdate, Ready, Release
<1>7. CASE UNCHANGED vars
  BY <1>7 DEF vars
<1>8. CASE Call
  BY <1>1, <1>3, <1>6, <1>8 DEF Call, ObjCreate, FuncCreate, TokenResolve, TokenPoolPush, FuncEnter,
    TokenPoolPop
<1>9. CASE Continue
  BY <1>2, <1>4, <1>5, <1>9 DEF Continue, DeallocRunaway, PopBinding, PopDone, RegisterNull,
    RegisterWild, UpdateDone
<1>. QED BY <1>7, <1>8, <1>9 DEF Next

\* While something is being destroyed the ages stay; otherwise any will do.
LEMMA SortedStep ==
  ASSUME TypeInv, [Next]_vars, NEW age \in [Funcs -> Nat],
         dealloc # <<>> => Older(age) /\ Sorted(dealloc, age)
  PROVE  Sorted(dealloc', age)
<1>t. TypeOK /\ dealloc \in Seq(Frames)
  BY DEF TypeInv, TypeOK
<1>s. Sorted(dealloc, age)
  BY EmptySorted
<1>1. CASE dealloc' = dealloc
  BY <1>s, <1>1
<1>2. CASE dealloc = <<>> /\ \E c, v, k : dealloc' = Opened(c, v, k, dealloc)
  <2>1. PICK c, v, k : dealloc' = Opened(c, v, k, dealloc)
    BY <1>2
  <2>2. FuncsOf(dealloc) = {}
    BY <1>2, NoFrames
  <2>. QED BY <1>t, <1>s, <2>1, <2>2, OpenedSorted
<1>3. ASSUME NEW n \in Idents, DeallocEntry(n) PROVE Sorted(dealloc', age)
  <2>. DEFINE v  == value[entry[Dead.func][n]]
              st == <<Frame(Dead.func, n)>> \o Tail(dealloc)
  <2>1. Destroying /\ dealloc # <<>> /\ entry[Dead.func][n] # NULL /\ dealloc' = Opened(count, v, 1, st)
    BY <1>3 DEF DeallocEntry, Release, Destroying
  <2>2. Dead.func \in Funcs /\ st \in Seq(Frames) /\ FuncsOf(st) = FuncsOf(dealloc)
    BY <1>t, <2>1, HeadFrame, MoveHead
  <2>3. Sorted(st, age) /\ \A g \in FuncsOf(dealloc) : age[Dead.func] <= age[g]
    BY <1>t, <1>s, <2>1, HeadSorted
  <2>4. ASSUME v \in Funcs, NEW g \in FuncsOf(st) PROVE age[v] <= age[g]
    <3>1. age[v] < age[Dead.func]
      BY <2>1, <2>2, <2>4, LinkOf DEF Older
    <3>2. age[Dead.func] <= age[g] /\ g \in Funcs
      BY <2>2, <2>3, StackFuncs
    <3>3. age[v] \in Nat /\ age[Dead.func] \in Nat /\ age[g] \in Nat
      BY <2>2, <2>4, <3>2
    <3>. QED BY ONLY <3>1, <3>2, <3>3
  <2>. HIDE DEF v, st
  <2>. QED BY <2>1, <2>2, <2>3, <2>4, OpenedSorted
<1>4. CASE DeallocBinding
  <2>1. Destroying /\ dealloc' = <<Frame(Dead.func, NULL)>> \o Tail(dealloc)
    BY <1>4 DEF DeallocBinding
  <2>. QED BY <1>t, <1>s, <2>1, HeadSorted
<1>5. CASE DeallocDone
  <2>1. Destroying /\ dealloc' = Tail(dealloc)
    BY <1>5 DEF DeallocDone
  <2>. QED BY <1>t, <1>s, <2>1, HeadSorted
<1>. QED BY <1>1, <1>2, <1>3, <1>4, <1>5, StackMoves

\* What a binding in a closure leads to changes only as the update foresees.
LEMMA ValueKept ==
  ASSUME TypeInv, BindingCount, [Next]_vars, \A n \in Idents, v \in Values : ~TokenUpdate(n, v),
         NEW f \in Funcs, NEW n \in Idents, NEW b, b = entry[f][n], b # NULL
  PROVE  {value'[b], Bound(b)'} \subseteq {value[b], Bound(b)}
<1>t. TypeOK /\ f \in Maps /\ <<f, n>> \in Slots
  BY DEF TypeInv, Maps, Slots
<1>b. b \in Bindings /\ <<f, n>> \in Users(b)
  BY <1>t DEF TypeOK, Users, At
<1>1. ASSUME value'[b] = value[b], op' = op \/ op'.kind # "update"
      PROVE  {value'[b], Bound(b)'} \subseteq {value[b], Bound(b)}
  BY <1>1 DEF Bound
<1>2. ASSUME UpdateDone PROVE {value'[b], Bound(b)'} \subseteq {value[b], Bound(b)}
  <2>1. op.kind = "update" /\ op' = Idle /\ value' = [value EXCEPT ![op.binding] = op.obj]
    BY <1>2 DEF UpdateDone
  <2>2. Bound(b)' = value'[b]
    BY <2>1 DEF Bound, Idle
  <2>3. CASE b = op.binding
    <3>1. value'[b] = op.obj
      BY <1>t, <1>b, <2>1, <2>3 DEF TypeOK
    <3>. QED BY <2>1, <2>2, <2>3, <3>1 DEF Bound
  <2>4. CASE b # op.binding
    <3>1. value'[b] = value[b]
      BY <1>t, <1>b, <2>1, <2>4 DEF TypeOK
    <3>. QED BY <2>2, <3>1
  <2>. QED BY <2>3, <2>4
<1>3. ASSUME RegisterFresh PROVE {value'[b], Bound(b)'} \subseteq {value[b], Bound(b)}
  <2>1. op' = Idle /\ op.kind = "register"
    BY <1>3 DEF RegisterFresh, Registering
  <2>2. PICK c \in Bindings : Dropped[c] = 0 /\ \E v : value' = [value EXCEPT ![c] = v]
    BY <1>3 DEF RegisterFresh
  <2>3. ASSUME c = b PROVE FALSE
    <3>1. Head(pool) \in Scopes /\ Head(pool) # f /\ op.ident \in Idents
      BY <1>t, <2>1, OpFields, Disjointness DEF TypeOK
    <3>2. retain[b] = Cardinality(Users(b))
      <4>1. Unlinked(b) = 0
        BY <2>1 DEF Unlinked
      <4>. QED BY <1>b, <4>1, UsersType DEF BindingCount
    <3>3. IsFiniteSet(Users(b)) /\ Cardinality(Users(b)) \in Nat
      BY UsersType, SlotSets
    <3>4. CASE OldBinding = b
      <4>1. <<Head(pool), op.ident>> \in Users(b)
        BY <3>1, <3>4 DEF Users, At, OldBinding, Slots, Maps
      <4>2. Dropped[b] = retain[b] - 1
        BY <1>t, <1>b, <3>4, Disjointness DEF Dropped, TypeOK
      <4>3. Cardinality(Users(b)) = 1
        BY <2>2, <2>3, <3>2, <3>3, <4>2
      <4>4. PICK x : Users(b) = {x}
        BY <3>3, <4>3, FS_Singleton
      <4>. QED BY <1>b, <3>1, <4>1, <4>4
    <3>5. CASE OldBinding # b
      <4>1. Dropped[b] = retain[b]
        BY <1>t, <1>b, <3>5 DEF Dropped, TypeOK
      <4>2. Users(b) = {}
        BY <2>2, <2>3, <3>2, <3>3, <4>1, FS_EmptySet
      <4>. QED BY <1>b, <4>2
    <3>. QED BY <3>4, <3>5
  <2>4. value'[b] = value[b]
    BY <1>t, <1>b, <2>2, <2>3 DEF TypeOK
  <2>. QED BY <1>1, <2>1, <2>4 DEF Idle
<1>4. CASE UNCHANGED vars
  BY <1>1, <1>4 DEF vars
<1>5. ASSUME value' = value, op' = op PROVE {value'[b], Bound(b)'} \subseteq {value[b], Bound(b)}
  BY <1>1, <1>5
<1>6. ASSUME value' = value, op'.kind # "update" PROVE {value'[b], Bound(b)'} \subseteq {value[b], Bound(b)}
  BY <1>1, <1>6
<1>7. ASSUME TokenPoolPop \/ PopBinding \/ \E m \in Idents : PopEntry(m)
      PROVE  value' = value /\ op'.kind # "update"
  <2>1. \A x, y : PopOf(x, y).kind # "update"
    BY DEF PopOf
  <2>2. value' = value /\ \E x, y : op' = PopOf(x, y)
    BY <1>7 DEF TokenPoolPop, PopBinding, PopEntry
  <2>. QED BY <2>1, <2>2
<1>8. ASSUME NEW m \in Idents, NEW v \in Values, TokenRegister(m, v)
      PROVE  value' = value /\ op'.kind # "update"
  <2>1. value' = value /\ op' = [kind |-> "register", ident |-> m, obj |-> v]
    BY <1>8 DEF TokenRegister
  <2>. QED BY <2>1
<1>9. ASSUME PopDone \/ RegisterAlias PROVE value' = value /\ op'.kind # "update"
  BY <1>9 DEF PopDone, RegisterAlias, Idle
<1>10. CASE Call
  BY <1>5, <1>6, <1>7, <1>8, <1>10 DEF Call, ObjCreate, FuncCreate, ObjRelease, TokenResolve,
    TokenPoolPush, FuncEnter
<1>11. CASE Continue
  BY <1>2, <1>3, <1>5, <1>6, <1>7, <1>9, <1>11 DEF Continue, DeallocEntry, DeallocRunaway,
    RegisterNull, RegisterWild, DeallocBinding, DeallocDone
<1>. QED BY <1>4, <1>10, <1>11 DEF Next

\* No step but these two makes a link.
LEMMA LinksShrink ==
  ASSUME TypeInv, BindingCount, [Next]_vars,
         \A n \in Idents, v \in Values : ~TokenUpdate(n, v), \A f \in Funcs : ~FuncCreate(f)
  PROVE  Links' \subseteq Links
<1>1. SUFFICES ASSUME NEW f \in Funcs, NEW g \in Funcs, NEW n \in Idents, NEW b, b = entry'[f][n],
                      b # NULL, g \in {value'[b], Bound(b)'}
               PROVE  <<f, g>> \in Links
  <2>1. ASSUME NEW l \in Links' PROVE l \in Links
    <3>1. PICK f \in Funcs, h \in Funcs : l = <<f, h>>
      BY <2>1 DEF Links
    <3>2. PICK n \in Idents : entry'[f][n] # NULL /\ h \in {value'[entry'[f][n]], Bound(entry[f][n])'}
      BY <2>1, <3>1 DEF Links
    <3>3. PICK b : b = entry'[f][n]
      OBVIOUS
    <3>4. Bound(entry[f][n])' = Bound(b)'
      BY <3>3 DEF Bound
    <3>. QED BY <1>1, <3>1, <3>2, <3>3, <3>4
  <2>. QED BY <2>1
<1>2. b = entry[f][n]
  <2>1. CASE entry'[f] = entry[f]
    BY <1>1, <2>1
  <2>2. CASE entry'[f] # entry[f]
    <3>1. DeallocBinding /\ f = Dead.func
      <4>1. ~FuncCreate(f)
        OBVIOUS
      <4>. QED BY <2>2, <4>1, ClosureWrites
    <3>2. entry' = [entry EXCEPT ![f][Dead.ident] = NULL]
      BY <3>1 DEF DeallocBinding
    <3>3. f \in Maps /\ entry \in [Maps -> [Idents -> Bindings \cup {NULL}]]
      BY DEF TypeInv, TypeOK, Maps
    <3>4. entry'[f] = [entry[f] EXCEPT ![Dead.ident] = NULL]
      BY <3>2, <3>3
    <3>. QED BY <1>1, <3>3, <3>4
  <2>. QED BY <2>1, <2>2
<1>3. {value'[b], Bound(b)'} \subseteq {value[b], Bound(b)}
  BY <1>1, <1>2, ValueKept
<1>. QED BY <1>1, <1>2, <1>3, LinkOf

\* An object that an entry leads to is alive between operations.
LEMMA EntryAlive ==
  ASSUME CountInv, Ready, NEW s \in Slots, At(s) # NULL, value[At(s)] \in Objects
  PROVE  count[value[At(s)]] > 0
<1>1. NoDangling
  BY CountsDangle
<1>2. Bound(At(s)) = value[At(s)] /\ ~Settled(s)
  BY DEF Ready, Bound, Settled, Idle
<1>. QED BY <1>1, <1>2 DEF NoDangling

\* A new function goes above all others: nothing can hold it yet.
LEMMA CreateLayers ==
  ASSUME CarefulInv, [Next]_vars, NEW f \in Funcs, FuncCreate(f)
  PROVE  Layers'
<1>t. CountInv /\ TypeInv /\ TypeOK /\ Ready /\ f \in Objects /\ f \in Maps
  BY Disjointness DEF CarefulInv, CountInv, TypeInv, FuncCreate, Maps
<1>1. PICK age \in [Funcs -> Nat] : Older(age) /\ Sorted(dealloc, age)
  BY DEF CarefulInv, Layers, Layered
<1>2. PICK m \in Nat : \A g \in Funcs : age[g] < m
  BY MapsAssumption, Bounded
<1>3. PICK new : new = [age EXCEPT ![f] = m]
  OBVIOUS
<1>4. new \in [Funcs -> Nat] /\ new[f] = m /\ \A g \in Funcs \ {f} : new[g] = age[g]
  BY <1>3
<1>5. \A b : Bound(b)' = value[b] /\ value' = value
  BY DEF FuncCreate, Ready, Bound, Idle
<1>6. ASSUME NEW s \in Slots, At(s) # NULL PROVE value[At(s)] # f
  BY <1>t, <1>6, EntryAlive DEF FuncCreate
<1>7. ASSUME NEW k \in Idents, Lookup(k) # NULL PROVE value[Lookup(k)] # f
  <2>1. PICK i \in DOMAIN pool : Lookup(k) = entry[pool[i]][k]
    <3>1. FirstHit(k) # {} /\ FirstHit(k) \subseteq DOMAIN pool
      BY <1>7 DEF Lookup, FirstHit, Hits
    <3>. QED BY <3>1 DEF Lookup
  <2>2. <<pool[i], k>> \in Slots /\ At(<<pool[i], k>>) = Lookup(k)
    BY <1>t, <2>1 DEF Slots, At, TypeOK
  <2>. QED BY <1>6, <1>7, <2>2
<1>8. ASSUME NEW x \in Funcs, NEW y \in Funcs, NEW k \in Idents, entry'[x][k] # NULL,
             y = value[entry'[x][k]]
      PROVE  new[y] < new[x]
  <2>1. entry' = [entry EXCEPT ![f] = [n \in Idents |-> Lookup(n)]]
    BY DEF FuncCreate
  <2>2. x \in Maps
    BY DEF Maps
  <2>3. CASE x = f
    <3>1. entry'[x][k] = Lookup(k)
      BY <1>t, <2>1, <2>3 DEF TypeOK
    <3>2. y # f
      BY <1>7, <1>8, <3>1
    <3>. QED BY <1>2, <1>4, <2>3, <3>2
  <2>4. CASE x # f
    <3>1. entry'[x] = entry[x]
      BY <1>t, <2>1, <2>2, <2>4 DEF TypeOK
    <3>2. <<x, k>> \in Slots /\ At(<<x, k>>) = entry[x][k]
      BY <2>2 DEF Slots, At
    <3>3. y # f
      BY <1>6, <1>8, <3>1, <3>2
    <3>4. age[y] < age[x]
      BY <1>1, <1>8, <3>1, LinkOf DEF Older
    <3>. QED BY <1>4, <2>4, <3>3, <3>4
  <2>. QED BY <2>3, <2>4
<1>9. Older(new)'
  BY <1>5, <1>8 DEF Older, Links
<1>10. Sorted(dealloc', new)
  BY <1>t, <1>4, SortedStep DEF Ready
<1>. QED BY <1>4, <1>9, <1>10 DEF Layers, Layered

\* An update puts the functions that hold the binding above the new value, and
\* all that is not below the new value with them.
LEMMA UpdateLayers ==
  ASSUME CarefulInv, [CarefulNext]_vars, NEW n \in Idents, NEW v \in Values, TokenUpdate(n, v)
  PROVE  Layers'
<1>t. TypeInv /\ TypeOK /\ Ready /\ [Next]_vars
  BY DEF CarefulInv, CountInv, TypeInv, TokenUpdate, CarefulNext
<1>1. PICK age \in [Funcs -> Nat] : Older(age) /\ Sorted(dealloc, age)
  BY DEF CarefulInv, Layers, Layered
<1>2. PICK b \in Bindings : b = Lookup(n)
  BY <1>t, LookupType DEF TokenUpdate
<1>3. op = Idle /\ op' = [kind |-> "update", binding |-> b, obj |-> v] /\ UNCHANGED <<entry, value>>
  BY <1>2 DEF TokenUpdate, Ready
<1>4. \A f \in Reach({v}) \cap Funcs, k \in Idents : entry[f][k] # b
  <2>1. op' # op
    BY <1>3 DEF Idle
  <2>2. Careful
    BY <2>1 DEF CarefulNext, vars
  <2>. QED BY <1>3, <2>2 DEF Careful
<1>5. \A c : Bound(c) = value[c]
  BY <1>3 DEF Bound, Idle
<1>6. \A c : c # b => Bound(c)' = value[c]
  BY <1>3 DEF Bound
<1>7. Bound(b)' = v
  BY <1>3 DEF Bound
<1>8. ASSUME NEW x \in Funcs, NEW y \in Funcs, NEW k \in Idents, entry'[x][k] # NULL,
             y \in {value'[entry'[x][k]], Bound(entry[x][k])'}
      PROVE  <<x, y>> \in Links \/ (y = v /\ x \notin Reach({v}))
  <2>1. entry'[x][k] = entry[x][k] /\ value' = value
    BY <1>3
  <2>2. PICK c : c = entry[x][k]
    OBVIOUS
  <2>3. Bound(entry[x][k])' = Bound(c)'
    BY <2>1, <2>2 DEF Bound
  <2>4. CASE y = value[c]
    BY <1>8, <2>1, <2>2, <2>4, LinkOf
  <2>5. CASE y # value[c]
    <3>1. y = Bound(c)'
      BY <1>8, <2>1, <2>2, <2>3, <2>5
    <3>2. c = b /\ y = v
      BY <1>6, <1>7, <2>5, <3>1
    <3>. QED BY <1>4, <2>2, <3>2
  <2>. QED BY <2>4, <2>5
<1>9. ASSUME NEW l \in Links'
      PROVE  \E x \in Funcs, y \in Funcs : l = <<x, y>> /\ (<<x, y>> \in Links \/ (y = v /\ x \notin Reach({v})))
  <2>1. PICK x \in Funcs, y \in Funcs : l = <<x, y>>
    BY DEF Links
  <2>2. PICK k \in Idents : entry'[x][k] # NULL /\ y \in {value'[entry'[x][k]], Bound(entry[x][k])'}
    BY <2>1 DEF Links
  <2>. QED BY <1>8, <2>1, <2>2
<1>10. CASE v \notin Funcs
  <2>1. Older(age)'
    BY <1>1, <1>9, <1>10 DEF Older
  <2>2. Sorted(dealloc', age)
    BY <1>t, <1>1, SortedStep
  <2>. QED BY <1>1, <2>1, <2>2 DEF Layers, Layered
<1>11. CASE v \in Funcs
  <2>. DEFINE S == Reach({v})
  <2>1. PICK new : new = [f \in Funcs |-> IF f \in S THEN age[f] ELSE age[f] + age[v] + 1]
    OBVIOUS
  <2>2. new \in [Funcs -> Nat]
    BY <1>11, <2>1
  <2>3. v \in S /\ \A f \in S \cap Funcs : Contents(f) \subseteq S
    <3>1. {v} \in SUBSET Values
      OBVIOUS
    <3>. QED BY <1>t, <1>1, <3>1, ReachClosed
  <2>. HIDE DEF S
  <2>4. ASSUME NEW x \in Funcs, NEW y \in Funcs, <<x, y>> \in Links PROVE new[y] < new[x]
    <3>1. age[y] < age[x] /\ age[y] \in Nat /\ age[x] \in Nat /\ age[v] \in Nat
      BY <1>1, <1>11, <2>4 DEF Older
    <3>2. x \in S => y \in S
      <4>1. y \in Contents(x)
        <5>1. PICK k \in Idents : entry[x][k] # NULL /\ y \in {value[entry[x][k]], Bound(entry[x][k])}
          BY <2>4 DEF Links
        <5>. QED BY <1>5, <5>1 DEF Contents
      <4>. QED BY <2>3, <4>1
    <3>3. /\ new[x] = IF x \in S THEN age[x] ELSE age[x] + age[v] + 1
          /\ new[y] = IF y \in S THEN age[y] ELSE age[y] + age[v] + 1
      BY <2>1
    <3>. QED BY ONLY <3>1, <3>2, <3>3
  <2>5. ASSUME NEW x \in Funcs, x \notin S PROVE new[v] < new[x]
    <3>1. new[v] = age[v] /\ new[x] = age[x] + age[v] + 1 /\ age[v] \in Nat /\ age[x] \in Nat
      BY <1>11, <2>1, <2>3, <2>5
    <3>. QED BY ONLY <3>1
  <2>6. Older(new)'
    <3>1. ASSUME NEW l \in Links' PROVE new[l[2]] < new[l[1]]
      <4>1. PICK x \in Funcs, y \in Funcs : l = <<x, y>> /\ (<<x, y>> \in Links \/ (y = v /\ x \notin S))
        BY <1>9 DEF S
      <4>2. l[1] = x /\ l[2] = y
        BY <4>1
      <4>. QED BY <2>4, <2>5, <4>1, <4>2
    <3>. QED BY <3>1 DEF Older
  <2>7. Sorted(dealloc', new)
    BY <1>t, <2>2, SortedStep DEF Ready
  <2>. QED BY <2>2, <2>6, <2>7 DEF Layers, Layered
<1>. QED BY <1>10, <1>11

LEMMA LayersStep == CarefulInv /\ [CarefulNext]_vars => Layers'
<1>. SUFFICES ASSUME CarefulInv, [CarefulNext]_vars PROVE Layers'
  OBVIOUS
<1>1. TypeInv /\ BindingCount /\ [Next]_vars
  BY DEF CarefulInv, CountInv, CarefulNext
<1>2. ASSUME \A n \in Idents, v \in Values : ~TokenUpdate(n, v), \A f \in Funcs : ~FuncCreate(f)
      PROVE  Layers'
  <2>1. PICK age \in [Funcs -> Nat] : Older(age) /\ Sorted(dealloc, age)
    BY DEF CarefulInv, Layers, Layered
  <2>2. Links' \subseteq Links
    BY <1>1, <1>2, LinksShrink
  <2>3. Older(age)'
    BY <2>1, <2>2 DEF Older
  <2>4. Sorted(dealloc', age)
    BY <1>1, <2>1, SortedStep
  <2>. QED BY <2>1, <2>3, <2>4 DEF Layers, Layered
<1>. QED BY <1>1, <1>2, CreateLayers, UpdateLayers

\* The binding that a registration replaces is in no closure that the release of
\* the old value destroys.
LEMMA RegisterStep == CarefulInv /\ [CarefulNext]_vars => RegisterSafe'
<1>. SUFFICES ASSUME CarefulInv, [CarefulNext]_vars PROVE RegisterSafe'
  OBVIOUS
<1>t. TypeInv /\ TypeOK /\ [Next]_vars /\ fault' = "none"
  BY FaultStep DEF CarefulInv, CountInv, TypeInv, CarefulNext
<1>s. RegisterSafe
  BY DEF CarefulInv
<1>1. ASSUME UNCHANGED <<op, pool, entry, value, retain, dealloc>> PROVE RegisterSafe'
  BY <1>s, <1>1 DEF RegisterSafe, OldBinding, SelfAlias, Resolvable
<1>2. ASSUME op'.kind # "register" PROVE RegisterSafe'
  BY <1>2 DEF RegisterSafe
<1>3. ASSUME op = Idle, op' = op PROVE RegisterSafe'
  BY <1>2, <1>3 DEF Idle
<1>4. ASSUME NEW n \in Idents, NEW v \in Values, TokenRegister(n, v) PROVE RegisterSafe'
  <2>1. /\ op = Idle /\ op' = [kind |-> "register", ident |-> n, obj |-> v] /\ dealloc = <<>>
        /\ UNCHANGED <<pool, entry, value, retain>>
    BY <1>4 DEF TokenRegister, Ready
  <2>2. Careful
    <3>1. op' # op
      BY <2>1 DEF Idle
    <3>. QED BY <3>1 DEF CarefulNext, vars
  <2>. DEFINE old == entry[Head(pool)][n]
  <2>3. OldBinding' = old
    BY <2>1 DEF OldBinding
  <2>4. op'.obj = v /\ op'.kind = "register" /\ op'.ident = n
    BY <2>1
  <2>5. v # NULL /\ (Resolvable(v) /\ IdentOf[v] = n => old # NULL /\ retain[old] > 1)
    BY <2>1, <2>2, <2>4 DEF Careful
  <2>6. SelfAlias(op.obj)' <=> Resolvable(v) /\ IdentOf[v] = n
    BY <2>4 DEF SelfAlias, Resolvable
  <2>7. ASSUME dealloc' # <<>> PROVE old # NULL /\ Outermost(dealloc') = value[old]
    <3>1. old # NULL /\ Release(Retain(count, v, 1), value[old], 1, dealloc)
      BY <1>4, <2>1, <2>7 DEF TokenRegister
    <3>2. dealloc' = Opened(Retain(count, v, 1), value[old], 1, dealloc) /\ dealloc \in Seq(Frames)
      BY <2>1, <3>1 DEF Release
    <3>3. value' = value
      BY <2>1
    <3>. HIDE DEF old
    <3>4. PICK c : c = Retain(count, v, 1)
      OBVIOUS
    <3>5. PICK u : u = value[old]
      OBVIOUS
    <3>6. dealloc' = Opened(c, u, 1, dealloc) /\ dealloc = <<>>
      BY <2>1, <3>2, <3>4, <3>5
    <3>. DEFINE q == Opened(c, u, 1, dealloc)
    <3>7. /\ Distinct(dealloc) /\ u \notin FuncsOf(dealloc) => Distinct(q)
          /\ dealloc = <<>> /\ q # <<>> => Outermost(q) = u
      BY <3>2, OpenedStack
    <3>8. dealloc' = q /\ q # <<>> /\ dealloc = <<>>
      BY <2>7, <3>6
    <3>. HIDE DEF q
    <3>9. Outermost(dealloc') = u
      BY <3>7, <3>8
    <3>. QED BY <3>1, <3>3, <3>5, <3>9
  <2>. HIDE DEF old
  <2>. QED BY <2>1, <2>3, <2>4, <2>5, <2>6, <2>7 DEF RegisterSafe
<1>5. ASSUME NEW n \in Idents, DeallocEntry(n) PROVE RegisterSafe'
  <2>. DEFINE v  == value[entry[Dead.func][n]]
              st == <<Frame(Dead.func, n)>> \o Tail(dealloc)
  <2>1. Destroying /\ dealloc # <<>> /\ dealloc' = Opened(count, v, 1, st)
        /\ UNCHANGED <<op, pool, entry, value, retain>>
    BY <1>5 DEF DeallocEntry, Release, Destroying
  <2>2. st \in Seq(Frames) /\ st # <<>> /\ Outermost(st) = Outermost(dealloc)
    BY <1>t, <2>1, MoveHead
  <2>. HIDE DEF v, st
  <2>3. Outermost(dealloc') = Outermost(dealloc)
    BY <2>1, <2>2, OpenedStack
  <2>. QED BY <1>s, <2>1, <2>3 DEF RegisterSafe, OldBinding, SelfAlias, Resolvable
<1>6. ASSUME DeallocBinding, op.kind = "register" PROVE RegisterSafe'
  <2>. DEFINE b == entry[Dead.func][Dead.ident]
  <2>1. /\ Destroying /\ dealloc # <<>> /\ Dead.ident # NULL
        /\ dealloc' = <<Frame(Dead.func, NULL)>> \o Tail(dealloc)
        /\ retain' = [retain EXCEPT ![b] = @ - 1]
        /\ entry' = [entry EXCEPT ![Dead.func][Dead.ident] = NULL]
        /\ UNCHANGED <<op, pool, value>>
    BY <1>6 DEF DeallocBinding, Destroying
  <2>2. dealloc \in Seq(Frames) /\ Dead.func \in Funcs /\ Dead.ident \in Idents
    BY <1>t, <2>1, HeadFrame
  <2>3. Outermost(dealloc') = Outermost(dealloc)
    BY <1>t, <2>1, MoveHead
  <2>4. Head(pool) \in Scopes /\ Head(pool) \in Maps /\ op.ident \in Idents /\ Head(pool) # Dead.func
    BY <1>t, <1>6, <2>2, OpFields, Disjointness DEF TypeOK, Maps
  <2>5. OldBinding' = OldBinding
    BY <1>t, <2>1, <2>4 DEF OldBinding, TypeOK
  <2>6. OldBinding # NULL /\ Outermost(dealloc) = value[OldBinding]
    BY <1>s, <1>6, <2>1 DEF RegisterSafe
  <2>7. b # OldBinding
    <3>1. SUFFICES ASSUME b = OldBinding PROVE FALSE
      OBVIOUS
    <3>2. PICK age \in [Funcs -> Nat] : Older(age) /\ Sorted(dealloc, age)
      BY DEF CarefulInv, Layers, Layered
    <3>3. Outermost(dealloc) \in FuncsOf(dealloc) /\ Outermost(dealloc) \in Funcs
      BY <2>1, <2>2, OutermostDies, StackFuncs
    <3>4. age[Outermost(dealloc)] < age[Dead.func]
      BY <2>2, <2>6, <3>1, <3>2, <3>3, LinkOf DEF Older
    <3>5. age[Dead.func] <= age[Outermost(dealloc)]
      BY <1>t, <2>1, <3>2, <3>3, HeadSorted
    <3>6. age[Outermost(dealloc)] \in Nat /\ age[Dead.func] \in Nat
      BY <2>2, <3>3
    <3>. QED BY ONLY <3>4, <3>5, <3>6
  <2>. HIDE DEF b
  <2>8. retain'[OldBinding] = retain[OldBinding]
    BY <2>1, <2>7
  <2>9. retain'[OldBinding'] = retain[OldBinding]
    BY <2>5, <2>8
  <2>. QED BY <1>s, <2>1, <2>3, <2>5, <2>6, <2>9 DEF RegisterSafe, SelfAlias, Resolvable
<1>7. ASSUME DeallocBinding PROVE RegisterSafe'
  <2>1. op' = op
    BY <1>7 DEF DeallocBinding
  <2>. QED BY <1>2, <1>6, <1>7, <2>1
<1>8. ASSUME DeallocDone PROVE RegisterSafe'
  <2>1. Destroying /\ dealloc # <<>> /\ dealloc' = Tail(dealloc) /\ UNCHANGED <<op, pool, entry, value, retain>>
    BY <1>8 DEF DeallocDone, Destroying
  <2>2. dealloc' # <<>> => Outermost(dealloc') = Outermost(dealloc)
    BY <1>t, <2>1, HeadFrame
  <2>. QED BY <1>s, <2>1, <2>2 DEF RegisterSafe, OldBinding, SelfAlias, Resolvable
<1>9. ASSUME TokenPoolPop \/ PopBinding \/ \E m \in Idents : PopEntry(m) PROVE RegisterSafe'
  <2>1. \A x, y : PopOf(x, y).kind # "register"
    BY DEF PopOf
  <2>2. \E x, y : op' = PopOf(x, y)
    BY <1>9 DEF TokenPoolPop, PopBinding, PopEntry
  <2>. QED BY <1>2, <2>1, <2>2
<1>10. ASSUME PopDone \/ RegisterAlias \/ RegisterFresh \/ UpdateDone PROVE RegisterSafe'
  <2>1. op' = Idle
    BY <1>10 DEF PopDone, RegisterAlias, RegisterFresh, UpdateDone
  <2>. QED BY <1>2, <2>1 DEF Idle
<1>11. ASSUME NEW n \in Idents, NEW v \in Values, TokenUpdate(n, v) PROVE RegisterSafe'
  <2>1. op' = [kind |-> "update", binding |-> Lookup(n), obj |-> v]
    BY <1>11 DEF TokenUpdate
  <2>. QED BY <1>2, <2>1
<1>12. CASE UNCHANGED vars
  BY <1>1, <1>12 DEF vars
<1>13. CASE Call
  BY <1>3, <1>4, <1>9, <1>11, <1>13 DEF Call, ObjCreate, FuncCreate, ObjRelease, TokenResolve,
    TokenPoolPush, FuncEnter, Ready
<1>14. CASE Continue
  <2>1. ~RegisterNull /\ ~RegisterWild /\ \A n \in Idents : ~DeallocRunaway(n)
    BY <1>t DEF RegisterNull, RegisterWild, DeallocRunaway
  <2>. QED BY <1>5, <1>7, <1>8, <1>9, <1>10, <1>14, <2>1 DEF Continue
<1>. QED BY <1>12, <1>13, <1>14 DEF CarefulNext, Next

LEMMA ScopesStep == CarefulInv /\ [CarefulNext]_vars => ScopesEmpty'
<1>. SUFFICES ASSUME CarefulInv, [CarefulNext]_vars, NEW s \in Scopes,
                     \A i \in DOMAIN pool' : pool'[i] # s, ~(op'.kind = "pop" /\ op'.scope = s)
              PROVE  entry'[s] = EmptyMap
  BY DEF ScopesEmpty, EmptyMap
<1>t. TypeOK /\ s \in Maps /\ s \notin Funcs
      /\ entry \in [Maps -> [Idents -> Bindings \cup {NULL}]] /\ pool \in Seq(Maps) /\ pool # <<>>
  BY Disjointness DEF CarefulInv, CountInv, TypeInv, TypeOK, Maps
<1>s. (\A i \in DOMAIN pool : pool[i] # s) /\ ~(op.kind = "pop" /\ op.scope = s) => entry[s] = EmptyMap
  BY DEF CarefulInv, ScopesEmpty
<1>p. Head(pool) = pool[1] /\ 1 \in DOMAIN pool
  BY <1>t
<1>q. ASSUME pool' = Tail(pool), NEW i \in DOMAIN pool, i # 1 PROVE pool[i] # s
  <2>1. i - 1 \in DOMAIN Tail(pool) /\ Tail(pool)[i-1] = pool[i]
    BY <1>t, <1>q
  <2>. QED BY <1>q, <2>1
<1>1. ASSUME UNCHANGED <<pool, op, entry>> PROVE entry'[s] = EmptyMap
  BY <1>s, <1>1
<1>2. ASSUME UNCHANGED <<pool, entry>>, op.kind # "pop" PROVE entry'[s] = EmptyMap
  BY <1>s, <1>2
<1>k. Idle.kind # "pop"
  BY DEF Idle
<1>3. ASSUME NEW f \in Funcs, FuncCreate(f) PROVE entry'[s] = EmptyMap
  <2>1. entry'[s] = entry[s] /\ pool' = pool /\ op' = op
    BY <1>t, <1>3 DEF FuncCreate
  <2>. QED BY <1>s, <2>1
<1>4. ASSUME NEW x, pool' = <<x>> \o pool, UNCHANGED <<op, entry>> PROVE entry'[s] = EmptyMap
  <2>1. ASSUME NEW i \in DOMAIN pool PROVE pool[i] # s
    <3>1. i + 1 \in DOMAIN (<<x>> \o pool) /\ (<<x>> \o pool)[i+1] = pool[i]
      BY <1>t
    <3>. QED BY <1>4, <3>1
  <2>. QED BY <1>s, <1>4, <2>1
<1>5. ASSUME NEW f \in Funcs, NEW x \in Scopes, FuncEnter(f, x) PROVE entry'[s] = EmptyMap
  <2>1. pool' = <<x, f>> \o pool /\ UNCHANGED <<op, entry>>
    BY <1>5 DEF FuncEnter
  <2>2. ASSUME NEW i \in DOMAIN pool PROVE pool[i] # s
    <3>1. i + 2 \in DOMAIN (<<x, f>> \o pool) /\ (<<x, f>> \o pool)[i+2] = pool[i]
      BY <1>t
    <3>. QED BY <2>1, <3>1
  <2>. QED BY <1>s, <2>1, <2>2
<1>6. ASSUME TokenPoolPop PROVE entry'[s] = EmptyMap
  <2>1. op.kind # "pop" /\ pool' = Tail(pool) /\ op' = PopOf(Head(pool), NULL) /\ entry' = entry
    BY <1>k, <1>6 DEF TokenPoolPop, Ready
  <2>2. pool[1] # s
    BY <1>p, <2>1 DEF PopOf
  <2>3. \A i \in DOMAIN pool : pool[i] # s
    BY <1>q, <2>1, <2>2
  <2>. QED BY <1>s, <2>1, <2>3
<1>7. ASSUME NEW n \in Idents, PopEntry(n) PROVE entry'[s] = EmptyMap
  <2>1. /\ op.kind = "pop" /\ pool' = pool /\ entry' = [entry EXCEPT ![op.scope][n] = NULL]
        /\ op' = PopOf(op.scope, entry[op.scope][n])
    BY <1>7 DEF PopEntry, Popping
  <2>2. op.scope # s
    BY <2>1 DEF PopOf
  <2>3. entry'[s] = entry[s]
    BY <1>t, <2>1, <2>2
  <2>. QED BY <1>s, <2>1, <2>2, <2>3
<1>8. ASSUME PopBinding PROVE entry'[s] = EmptyMap
  <2>1. op.kind = "pop" /\ pool' = pool /\ entry' = entry /\ op' = PopOf(op.scope, NULL)
    BY <1>8 DEF PopBinding, Popping
  <2>2. op.scope # s
    BY <2>1 DEF PopOf
  <2>. QED BY <1>s, <2>1, <2>2
<1>9. ASSUME PopDone PROVE entry'[s] = EmptyMap
  <2>1. entry' = entry /\ entry[op.scope] = EmptyMap
    BY <1>9 DEF PopDone
  <2>2. CASE op.scope = s
    BY <2>1, <2>2
  <2>3. CASE op.scope # s
    <3>1. \A i \in DOMAIN pool : pool[i] # s
      <4>1. CASE pool' = pool
        BY <4>1
      <4>2. CASE Head(pool) \in Funcs /\ pool' = Tail(pool)
        BY <1>t, <1>p, <1>q, <4>2
      <4>. QED BY <1>9, <4>1, <4>2 DEF PopDone
    <3>. QED BY <1>s, <2>1, <2>3, <3>1
  <2>. QED BY <2>2, <2>3
<1>10. ASSUME RegisterAlias \/ RegisterFresh PROVE entry'[s] = EmptyMap
  <2>1. op.kind # "pop" /\ pool' = pool /\ \E b : entry' = [entry EXCEPT ![Head(pool)][op.ident] = b]
    BY <1>10 DEF RegisterAlias, RegisterFresh, Registering
  <2>2. Head(pool) # s
    BY <1>p, <2>1
  <2>3. entry'[s] = entry[s]
    BY <1>t, <2>1, <2>2
  <2>. QED BY <1>s, <2>1, <2>3
<1>11. ASSUME DeallocBinding PROVE entry'[s] = EmptyMap
  <2>1. UNCHANGED <<pool, op>> /\ entry' = [entry EXCEPT ![Dead.func][Dead.ident] = NULL]
    BY <1>11 DEF DeallocBinding
  <2>2. Dead.func # s
    BY <1>t, <1>11, HeadFrame DEF DeallocBinding
  <2>3. entry'[s] = entry[s]
    BY <1>t, <2>1, <2>2
  <2>. QED BY <1>s, <2>1, <2>3
<1>12. CASE UNCHANGED vars
  BY <1>1, <1>12 DEF vars
<1>13. CASE Call
  BY <1>1, <1>2, <1>3, <1>4, <1>5, <1>6, <1>k, <1>13 DEF Call, ObjCreate, ObjRelease, TokenResolve,
    TokenPoolPush, TokenRegister, TokenUpdate, Ready
<1>14. CASE Continue
  BY <1>1, <1>2, <1>7, <1>8, <1>9, <1>10, <1>11, <1>14 DEF Continue, DeallocEntry, DeallocRunaway,
    RegisterNull, RegisterWild, UpdateDone, DeallocDone
<1>. QED BY <1>12, <1>13, <1>14 DEF CarefulNext, Next

LEMMA CarefulStep == CarefulInv /\ [CarefulNext]_vars => CarefulInv'
<1>1. [CarefulNext]_vars => [Next]_vars
  BY DEF CarefulNext
<1>. QED BY <1>1, CountStep, FaultStep, LayersStep, RegisterStep, ScopesStep DEF CarefulInv

LEMMA CarefulInvariant == CarefulSpec => []CarefulInv
BY InitCareful, CarefulStep, PTL DEF CarefulSpec

(* For a careful client no release goes on for ever and no registration      *)
(* follows a freed or missing binding: cascades only ever go down, away from *)
(* what is being destroyed and from what is being replaced (sol.c:62-88,     *)
(* soltoken.c:94-115).                                                       *)
THEOREM NeverDies == CarefulSpec => []NoFault
<1>1. CarefulInv => NoFault
  BY DEF CarefulInv, NoFault
<1>. QED BY <1>1, CarefulInvariant, PTL

-----------------------------------------------------------------------------
(* Counting is complete when there are no cycles. *)

\* Whatever is alive and not reached from the roots is in the closure of a
\* function that is alive and not reached.
LEMMA Holder ==
  ASSUME CarefulInv, Ready, NEW o \in Objects, count[o] > 0, o \notin Reach(Roots)
  PROVE  \E f \in Funcs : count[f] > 0 /\ f \notin Reach(Roots) /\ o \in Contents(f)
<1>t. TypeOK /\ ObjectCount /\ ClosureInv
  BY DEF CarefulInv, CountInv, TypeInv
<1>1. op = Idle /\ dealloc = <<>>
  BY DEF Ready
<1>2. PICK age \in [Funcs -> Nat] : Older(age)
  BY DEF CarefulInv, Layers, Layered
<1>3. Roots \subseteq Values
  <2>1. \A i \in DOMAIN pool : pool[i] \in Maps /\ Contents(pool[i]) \subseteq Values
    BY <1>t, ContentsType DEF TypeOK
  <2>. QED BY <2>1, Disjointness DEF Roots
<1>4. Roots \subseteq Reach(Roots) /\ \A f \in Reach(Roots) \cap Funcs : Contents(f) \subseteq Reach(Roots)
  BY <1>t, <1>2, <1>3, ReachClosed
<1>5. o \notin Roots
  BY <1>4
<1>6. held[o] = 0
  BY <1>t, <1>5 DEF Roots, TypeOK
<1>7. Calls(o) = {}
  <2>1. SUFFICES ASSUME NEW i \in DOMAIN pool, pool[i] = o PROVE FALSE
    BY DEF Calls
  <2>2. o \in Funcs
    <3>1. o \in Maps
      BY <1>t, <2>1 DEF TypeOK
    <3>. QED BY <3>1, ObjectsAssumption DEF Maps
  <2>. QED BY <1>5, <2>1, <2>2 DEF Roots
<1>8. InHand(o) = 0
  BY <1>1 DEF InHand, Idle
<1>9. Owners(o) # {}
  <2>1. count[o] = held[o] + Cardinality(Calls(o)) + InHand(o) + Cardinality(Owners(o))
    BY <1>t DEF ObjectCount
  <2>2. Cardinality(Calls(o)) = 0 /\ (Owners(o) = {} => Cardinality(Owners(o)) = 0)
    BY <1>7, FS_EmptySet
  <2>. QED BY <1>6, <1>8, <2>1, <2>2
<1>10. PICK m \in Maps, n \in Idents : entry[m][n] # NULL /\ value[entry[m][n]] = o
  <2>1. PICK s \in Slots : At(s) # NULL /\ Bound(At(s)) = o
    BY <1>9 DEF Owners
  <2>2. Bound(At(s)) = value[At(s)]
    BY <1>1 DEF Bound, Idle
  <2>3. PICK m \in Maps, n \in Idents : s = <<m, n>>
    BY DEF Slots
  <2>. QED BY <2>1, <2>2, <2>3 DEF At
<1>11. o \in Contents(m)
  BY <1>10 DEF Contents
<1>12. entry[m] # EmptyMap
  BY <1>10 DEF EmptyMap
<1>13. m \in Funcs
  <2>1. SUFFICES ASSUME m \in Scopes PROVE FALSE
    BY DEF Maps
  <2>2. PICK i \in DOMAIN pool : pool[i] = m
    BY <1>1, <1>12, <2>1 DEF CarefulInv, ScopesEmpty, Idle
  <2>. QED BY <1>5, <1>11, <2>2 DEF Roots
<1>14. count[m] > 0
  <2>1. ~Dying(m)
    BY <1>1, NoFrames, DyingFuncs
  <2>2. m \in Objects /\ count[m] \in Int
    BY <1>t, <1>13, Disjointness DEF TypeOK
  <2>. QED BY <1>t, <1>12, <1>13, <2>1, <2>2 DEF ClosureInv
<1>15. m \notin Reach(Roots)
  BY <1>4, <1>11, <1>13
<1>. QED BY <1>11, <1>13, <1>14, <1>15

LEMMA FunctionsReached ==
  ASSUME CarefulInv, Ready, NEW f \in Funcs, count[f] > 0
  PROVE  f \in Reach(Roots)
<1>. DEFINE U == {g \in Funcs : count[g] > 0 /\ g \notin Reach(Roots)}
<1>1. PICK age \in [Funcs -> Nat] : Older(age)
  BY DEF CarefulInv, Layers, Layered
<1>2. PICK bound \in Nat : \A g \in Funcs : age[g] < bound
  BY <1>1, MapsAssumption, Bounded
<1>3. SUFFICES ASSUME U # {} PROVE FALSE
  OBVIOUS
\* The distance to the bound is least for the highest function of U.
<1>4. PICK D : D = {bound - age[g] : g \in U}
  OBVIOUS
<1>5. D \in SUBSET Nat /\ D # {}
  <2>1. ASSUME NEW g \in U PROVE bound - age[g] \in Nat
    <3>1. age[g] \in Nat /\ age[g] < bound
      BY <1>2
    <3>. QED BY <3>1
  <2>. QED BY <1>3, <1>4, <2>1
<1>6. PICK d \in D : \A e \in D : d <= e
  BY <1>5, Least
<1>7. PICK top \in U : d = bound - age[top]
  BY <1>4
<1>8. PICK g \in U : top \in Contents(g)
  <2>1. top \in Funcs /\ top \in Objects /\ count[top] > 0 /\ top \notin Reach(Roots)
    BY Disjointness
  <2>. QED BY <2>1, Holder
<1>9. age[top] < age[g]
  BY <1>1, <1>8, ContentLinks DEF Older
<1>10. d <= bound - age[g]
  BY <1>4, <1>6
<1>11. age[top] \in Nat /\ age[g] \in Nat
  OBVIOUS
<1>. QED BY ONLY <1>7, <1>9, <1>10, <1>11, bound \in Nat

(* For a careful client reference counting is garbage collection: between    *)
(* operations everything that is allocated can be reached from the evaluator *)
(* or the token pool, and no closure map outlives its function.              *)
THEOREM NothingLeaks == CarefulSpec => []NoLeak
<1>1. CarefulInv => NoLeak
  <2>1. SUFFICES ASSUME CarefulInv, Ready
                 PROVE  /\ \A o \in Objects : count[o] > 0 => o \in Reach(Roots)
                        /\ \A f \in Funcs : count[f] = 0 => entry[f] = EmptyMap
    BY DEF NoLeak
  <2>2. ASSUME NEW o \in Objects, count[o] > 0 PROVE o \in Reach(Roots)
    BY <2>1, <2>2, Holder, FunctionsReached
  <2>3. ASSUME NEW f \in Funcs, count[f] = 0 PROVE entry[f] = EmptyMap
    <3>1. ~Dying(f)
      BY <2>1, NoFrames, DyingFuncs DEF Ready
    <3>. QED BY <2>1, <2>3, <3>1 DEF CarefulInv, CountInv, ClosureInv
  <2>. QED BY <2>2, <2>3
<1>. QED BY <1>1, CarefulInvariant, PTL

-----------------------------------------------------------------------------
(* What SolScope sees of the maps. *)

MapTables == [Maps -> [Idents -> Bindings \cup {NULL}]]

\* Whether the entry of n in map m is hidden, without tuples of frames.
Masked(m, n) ==
  \/ op.kind = "pop" /\ m = op.scope
  \/ <<m, n>> \in SettledBy(dealloc)
  \/ op.kind = "register" /\ ~SelfAlias(op.obj) /\ m = Head(pool) /\ n = op.ident

LEMMA EnvAt ==
  ASSUME NEW m \in Maps, NEW n \in Idents
  PROVE  Env[m][n] = IF Masked(m, n) THEN NULL ELSE entry[m][n]
<1>1. <<m, n>> \in Slots
  BY DEF Slots
<1>2. <<m, n>> \in SettledBy(dealloc) <=> \E i \in DOMAIN dealloc : dealloc[i].func = m /\ dealloc[i].ident = n
  BY <1>1 DEF SettledBy
<1>3. Hidden(m, n) <=> Masked(m, n)
  BY <1>2 DEF Hidden, Masked
<1>. QED BY <1>3 DEF Env

LEMMA EnvAtPrime ==
  ASSUME NEW m \in Maps, NEW n \in Idents
  PROVE  Env'[m][n] = IF Masked(m, n)' THEN NULL ELSE entry'[m][n]
<1>1. <<m, n>> \in Slots
  BY DEF Slots
<1>2. <<m, n>> \in SettledBy(dealloc') <=> \E i \in DOMAIN dealloc' : dealloc'[i].func = m /\ dealloc'[i].ident = n
  BY <1>1 DEF SettledBy
<1>3. Hidden(m, n)' <=> Masked(m, n)'
  BY <1>2 DEF Hidden, Masked
<1>. QED BY <1>3 DEF Env

LEMMA EnvType == TypeOK => Env \in MapTables
<1>. SUFFICES ASSUME TypeOK PROVE Env \in MapTables
  OBVIOUS
<1>1. \A m \in Maps, n \in Idents : entry[m][n] \in Bindings \cup {NULL}
  BY DEF TypeOK
<1>. QED BY <1>1 DEF Env, MapTables

LEMMA EnvTypePrime == TypeOK' => Env' \in MapTables
<1>. SUFFICES ASSUME TypeOK' PROVE Env' \in MapTables
  OBVIOUS
<1>1. \A m \in Maps, n \in Idents : entry'[m][n] \in Bindings \cup {NULL}
  BY DEF TypeOK
<1>. QED BY <1>1 DEF Env, MapTables

\* Tables that agree everywhere are equal.
LEMMA SameTables ==
  ASSUME NEW e \in MapTables, NEW q \in MapTables, \A m \in Maps, n \in Idents : e[m][n] = q[m][n]
  PROVE  e = q
<1>1. ASSUME NEW m \in Maps PROVE e[m] = q[m]
  <2>1. e[m] \in [Idents -> Bindings \cup {NULL}] /\ q[m] \in [Idents -> Bindings \cup {NULL}]
    BY DEF MapTables
  <2>. QED BY <2>1
<1>. QED BY <1>1 DEF MapTables

\* Tables with one entry changed, and with one map changed.
LEMMA TableExcept ==
  ASSUME NEW e \in MapTables, NEW m \in Maps, NEW n \in Idents, NEW b \in Bindings \cup {NULL}
  PROVE  /\ [e EXCEPT ![m][n] = b] \in MapTables
         /\ \A k \in Maps, i \in Idents :
              [e EXCEPT ![m][n] = b][k][i] = IF k = m /\ i = n THEN b ELSE e[k][i]
BY DEF MapTables

LEMMA MapExcept ==
  ASSUME NEW e \in MapTables, NEW m \in Maps, NEW t \in [Idents -> Bindings \cup {NULL}]
  PROVE  /\ [e EXCEPT ![m] = t] \in MapTables
         /\ \A k \in Maps, i \in Idents :
              [e EXCEPT ![m] = t][k][i] = IF k = m THEN t[i] ELSE e[k][i]
BY DEF MapTables

\* Nothing is hidden unless a scope is popped, an entry is replaced, or a closure
\* is being destroyed.
LEMMA PlainView ==
  ASSUME TypeOK, op.kind \notin {"pop", "register"}, SettledBy(dealloc) = {}
  PROVE  Env = entry /\ Chain = pool /\ Owned = held /\ Task = <<>>
<1>1. Env \in MapTables /\ entry \in MapTables
  BY EnvType DEF TypeOK, MapTables
<1>2. \A m \in Maps, n \in Idents : Env[m][n] = entry[m][n]
  BY EnvAt DEF Masked
<1>. QED BY <1>1, <1>2, SameTables DEF Chain, Owned, Task, Returning

LEMMA PlainViewPrime ==
  ASSUME TypeOK', op'.kind \notin {"pop", "register"}, SettledBy(dealloc') = {}
  PROVE  Env' = entry' /\ Chain' = pool' /\ Owned' = held' /\ Task' = <<>>
<1>1. Env' \in MapTables /\ entry' \in MapTables
  BY EnvTypePrime DEF TypeOK, MapTables
<1>2. \A m \in Maps, n \in Idents : Env'[m][n] = entry'[m][n]
  BY EnvAtPrime DEF Masked
<1>. QED BY <1>1, <1>2, SameTables DEF Chain, Owned, Task, Returning

LEMMA PlainVal == ASSUME TypeOK, op.kind # "update" PROVE Val = value
BY DEF Val, Bound, TypeOK

LEMMA PlainValPrime == ASSUME TypeOK', op'.kind # "update" PROVE Val' = value'
BY DEF Val, Bound, TypeOK

-----------------------------------------------------------------------------
(* What nobody refers to is garbage in SolScope. *)

\* An object without references is in no hand, scope or closure.
LEMMA NoReference ==
  ASSUME CountInv, NEW o \in Objects, count[o] <= 0
  PROVE  held[o] = 0 /\ Calls(o) = {} /\ Owners(o) = {}
<1>1. count[o] = held[o] + Cardinality(Calls(o)) + InHand(o) + Cardinality(Owners(o))
  BY DEF CountInv, ObjectCount
<1>2. held[o] \in Nat /\ InHand(o) \in Nat /\ count[o] \in Int /\ pool \in Seq(Maps)
  BY DEF CountInv, TypeInv, TypeOK, InHand
<1>3. Calls(o) = CallsOf(pool, o)
  BY DEF Calls, CallsOf
<1>4. IsFiniteSet(Calls(o)) /\ Cardinality(Calls(o)) \in Nat
  BY <1>2, <1>3, CallsType
<1>5. IsFiniteSet(Owners(o)) /\ Cardinality(Owners(o)) \in Nat
  BY OwnersType, SlotSets
<1>6. held[o] = 0 /\ Cardinality(Calls(o)) = 0 /\ Cardinality(Owners(o)) = 0
  BY <1>1, <1>2, <1>4, <1>5
<1>. QED BY <1>4, <1>5, <1>6, FS_EmptySet

\* A binding that counts more than one entry is in another one.
LEMMA OtherUser ==
  ASSUME TypeOK, BindingCount, NEW b \in Bindings, retain[b] > 1, Unlinked(b) = 0, NEW r
  PROVE  \E s \in Slots : At(s) = b /\ s # r
<1>1. SUFFICES ASSUME \A s \in Slots : At(s) = b => s = r PROVE FALSE
  OBVIOUS
<1>2. retain[b] = Cardinality(Users(b)) + Unlinked(b)
  BY DEF BindingCount
<1>3. {} \subseteq Slots /\ \A s \in Slots : s # r => (s \in {} <=> s \in Users(b))
  BY <1>1 DEF Users
<1>4. Cardinality(Users(b)) = Cardinality({}) - Ind(r \in {}) + Ind(r \in Users(b))
  BY <1>3, UsersType, OneSlot
<1>5. Cardinality({}) = 0 /\ Ind(r \in {}) = 0 /\ Ind(r \in Users(b)) \in 0 .. 1
  BY FS_EmptySet DEF Ind
<1>6. Cardinality(Users(b)) <= 1
  BY <1>4, <1>5
<1>7. Cardinality(Users(b)) \in Nat /\ retain[b] \in Int
  BY UsersType DEF TypeOK
<1>. QED BY <1>2, <1>6, <1>7

\* A token for the entry it replaces destroys nothing: what the entry was bound
\* to has another owner.
LEMMA SelfKeeps ==
  ASSUME CarefulInv, DyingInv, op.kind = "register", SelfAlias(op.obj)
  PROVE  dealloc = <<>>
<1>. SUFFICES ASSUME dealloc # <<>> PROVE FALSE
  OBVIOUS
<1>. DEFINE b == OldBinding
            r == <<Head(pool), op.ident>>
<1>t. TypeOK /\ BindingCount /\ dealloc \in Seq(Frames) /\ Destroying
  BY DEF CarefulInv, CountInv, TypeInv, TypeOK, Destroying
<1>1. b # NULL /\ retain[b] > 1 /\ Outermost(dealloc) = value[b]
  BY DEF CarefulInv, RegisterSafe
<1>2. Head(pool) \in Maps /\ op.ident \in Idents
  BY <1>t, OpFields DEF TypeOK, Maps
<1>3. b \in Bindings
  BY <1>t, <1>1, <1>2 DEF TypeOK, OldBinding
<1>4. Outermost(dealloc) \in FuncsOf(dealloc) /\ Outermost(dealloc) \in Funcs
  BY <1>t, OutermostDies, StackFuncs
<1>5. Owners(Outermost(dealloc)) = {}
  BY <1>4, NoReference, Disjointness DEF CarefulInv, DyingInv, Spent
<1>6. PICK s \in Slots : At(s) = b /\ s # r
  <2>1. Unlinked(b) = 0
    BY DEF Unlinked
  <2>. HIDE DEF b, r
  <2>. QED BY <1>t, <1>1, <1>3, <2>1, OtherUser
<1>7. s \in SettledBy(dealloc)
  <2>1. Bound(b) = value[b]
    BY DEF Bound
  <2>2. Settled(s)
    BY <1>1, <1>5, <1>6, <2>1 DEF Owners
  <2>. QED BY <1>6, <2>2, SettledSlots
<1>8. PICK g \in Funcs, n \in Idents : s = <<g, n>> /\ g \in FuncsOf(dealloc)
  <2>1. PICK m \in Maps, n \in Idents : s = <<m, n>>
    BY DEF Slots
  <2>2. m \in FuncsOf(dealloc)
    BY <1>t, <1>7, <2>1, SettledFuncs
  <2>. QED BY <1>t, <2>1, <2>2, StackFuncs
<1>9. PICK age \in [Funcs -> Nat] : Older(age) /\ Sorted(dealloc, age)
  BY DEF CarefulInv, Layers, Layered
<1>10. age[Outermost(dealloc)] < age[g]
  BY <1>1, <1>4, <1>6, <1>8, <1>9, LinkOf DEF Older, At
<1>11. age[g] <= age[Outermost(dealloc)]
  <2>1. PICK i \in DOMAIN dealloc : g = dealloc[i].func
    BY <1>8 DEF FuncsOf
  <2>2. i \in 1 .. Len(dealloc) /\ Len(dealloc) \in DOMAIN dealloc
    BY <1>t, <2>1
  <2>. QED BY <1>9, <2>1, <2>2 DEF Sorted, Outermost
<1>12. age[g] \in Nat /\ age[Outermost(dealloc)] \in Nat
  BY <1>4, <1>8
<1>. QED BY ONLY <1>10, <1>11, <1>12

\* The most local scope and the call it belongs to leave the chain together.
LEMMA ChainType ==
  ASSUME TypeOK
  PROVE  \A i \in DOMAIN Chain : \E j \in DOMAIN pool : Chain[i] = pool[j]
<1>1. CASE Returning
  <2>1. pool \in Seq(Maps) /\ pool # <<>> /\ Chain = Tail(pool)
    BY <1>1 DEF TypeOK, Chain
  <2>2. \A i \in DOMAIN Chain : i + 1 \in DOMAIN pool /\ Chain[i] = pool[i+1]
    BY <2>1
  <2>. QED BY <2>2
<1>2. CASE ~Returning
  BY <1>2 DEF Chain
<1>. QED BY <1>1, <1>2

\* An object without references is garbage, unless a registration has just taken
\* its name away.
LEMMA Unreferenced ==
  ASSUME CarefulInv, DyingInv, NEW o \in Objects, count[o] <= 0, dealloc # <<>> \/ op.kind # "register"
  PROVE  Scope!Garbage(o)
<1>t. TypeOK /\ CountInv
  BY DEF CarefulInv, CountInv, TypeInv
<1>1. held[o] = 0 /\ Calls(o) = {} /\ Owners(o) = {}
  BY <1>t, NoReference
<1>. DEFINE S == Objects \ {o}
<1>2. \A i \in DOMAIN pool : pool[i] # o
  BY <1>1 DEF Calls
<1>3. Owned[o] = 0
  <2>1. CASE Returning
    <3>1. Head(pool) # o
      BY <1>t, <1>2 DEF TypeOK
    <3>. QED BY <1>t, <1>1, <2>1, <3>1 DEF Owned, TypeOK
  <2>2. CASE ~Returning
    BY <1>1, <2>2 DEF Owned
  <2>. QED BY <2>1, <2>2
<1>4. \A i \in DOMAIN Chain : Chain[i] # o
  BY <1>t, <1>2, ChainType
<1>5. ASSUME NEW m \in Maps, NEW n \in Idents, Env[m][n] # NULL PROVE Val[Env[m][n]] # o
  <2>1. ~Masked(m, n) /\ Env[m][n] = entry[m][n]
    BY <1>5, EnvAt
  <2>2. entry[m][n] \in Bindings
    BY <1>t, <1>5, <2>1 DEF TypeOK
  <2>3. SUFFICES ASSUME Bound(entry[m][n]) = o PROVE FALSE
    BY <2>1, <2>2 DEF Val
  <2>4. <<m, n>> \in Slots /\ At(<<m, n>>) = entry[m][n]
    BY DEF Slots, At
  <2>5. Settled(<<m, n>>)
    BY <1>1, <1>5, <2>1, <2>3, <2>4 DEF Owners
  <2>6. op.kind = "register" /\ m = Head(pool) /\ n = op.ident
    BY <2>1, <2>4, <2>5, SettledSlots DEF Masked
  <2>7. SelfAlias(op.obj)
    BY <2>1, <2>6 DEF Masked
  <2>. QED BY <2>6, <2>7, SelfKeeps
<1>6. \A m \in Maps : Scope!Contents(m) \subseteq S
  BY <1>5 DEF Scope!Contents
<1>7. \A i \in DOMAIN Chain : Chain[i] \in Maps
  BY <1>t, ChainType DEF TypeOK
<1>8. Scope!Executed \subseteq S
  BY <1>4, Disjointness DEF Scope!Executed
<1>9. Scope!Roots \subseteq S
  BY <1>3, <1>6, <1>7, <1>8 DEF Scope!Roots
<1>10. \A f \in S \cap Funcs : Scope!Contents(f) \subseteq S
  BY <1>6 DEF Maps
<1>11. S \in SUBSET (Objects \ {o})
  OBVIOUS
<1>. HIDE DEF S
<1>. QED BY <1>9, <1>10, <1>11 DEF Scope!Garbage

-----------------------------------------------------------------------------
(* Lookups. *)

LEMMA FirstExists ==
  ASSUME TypeOK, NEW n \in Idents
  PROVE  \/ Hits(n) = {} /\ FirstHit(n) = {}
         \/ \E i \in Hits(n) : FirstHit(n) = {i} /\ \A j \in Hits(n) : i <= j
<1>1. Hits(n) \in SUBSET Nat
  BY DEF Hits, TypeOK
<1>2. CASE Hits(n) = {}
  BY <1>2 DEF FirstHit
<1>3. CASE Hits(n) # {}
  <2>1. PICK i \in Hits(n) : \A j \in Hits(n) : i <= j
    BY <1>1, <1>3, Least
  <2>2. ASSUME NEW k \in FirstHit(n) PROVE k = i
    <3>1. k \in Hits(n) /\ k <= i /\ i <= k /\ k \in Nat /\ i \in Nat
      BY <1>1, <2>1 DEF FirstHit
    <3>. QED BY <3>1
  <2>3. i \in FirstHit(n)
    BY <2>1 DEF FirstHit
  <2>. QED BY <2>1, <2>2, <2>3
<1>. QED BY <1>2, <1>3

\* SolScope finds the same variable as long as the name is hidden nowhere.
LEMMA SameVariable ==
  ASSUME TypeOK, NEW n \in Idents, Chain = pool, \A i \in DOMAIN pool : Env[pool[i]][n] = entry[pool[i]][n]
  PROVE  Scope!Variable(n) = Lookup(n)
<1>. DEFINE found == {i \in DOMAIN Chain : Env[Chain[i]][n] # NULL}
<1>1. found = Hits(n)
  BY DEF Hits
<1>2. Scope!Variable(n) = IF found = {} THEN NULL
                          ELSE Env[Chain[CHOOSE i \in found : \A j \in found : i <= j]][n]
  BY DEF Scope!Variable
<1>. HIDE DEF found
<1>3. CASE Hits(n) = {}
  BY <1>1, <1>2, <1>3, FirstExists DEF Lookup
<1>4. ASSUME NEW i \in Hits(n), FirstHit(n) = {i}, \A j \in Hits(n) : i <= j
      PROVE  Scope!Variable(n) = Lookup(n)
  <2>1. Lookup(n) = entry[pool[i]][n]
    BY <1>4 DEF Lookup
  <2>2. \A k \in Hits(n) : (\A j \in Hits(n) : k <= j) => k = i
    <3>1. SUFFICES ASSUME NEW k \in Hits(n), \A j \in Hits(n) : k <= j PROVE k \in FirstHit(n)
      BY <1>4
    <3>. QED BY <3>1 DEF FirstHit
  <2>3. (CHOOSE k \in found : \A j \in found : k <= j) = i
    BY <1>1, <1>4, <2>2
  <2>4. found # {} /\ i \in DOMAIN pool
    BY <1>1 DEF Hits
  <2>. QED BY <1>2, <2>1, <2>3, <2>4
<1>. QED BY <1>3, <1>4, FirstExists

\* The name of the most local entry leads there.
LEMMA LookupLocal ==
  ASSUME TypeOK, NEW n \in Idents, entry[Head(pool)][n] # NULL
  PROVE  Lookup(n) = entry[Head(pool)][n]
<1>1. 1 \in Hits(n) /\ pool[1] = Head(pool)
  BY DEF Hits, TypeOK
<1>2. \A j \in Hits(n) : j \in Nat /\ 1 <= j
  BY DEF Hits, TypeOK
<1>3. 1 \in FirstHit(n)
  BY <1>1, <1>2 DEF FirstHit
<1>4. FirstHit(n) = {1}
  BY <1>1, <1>2, <1>3 DEF FirstHit
<1>. QED BY <1>1, <1>4 DEF Lookup

-----------------------------------------------------------------------------
(* Each step is a step of SolScope, or changes nothing that it sees. *)

ScopeInv == CarefulInv /\ DyingInv

Unseen == UNCHANGED <<Chain, Env, Val, Owned, Task>>

LEMMA ReadyView ==
  ASSUME TypeOK, Ready
  PROVE  /\ Env = entry /\ Chain = pool /\ Owned = held /\ Task = <<>> /\ Val = value
         /\ SettledBy(dealloc) = {} /\ op = Idle /\ dealloc = <<>>
<1>1. op = Idle /\ op.kind = "idle" /\ SettledBy(dealloc) = {} /\ dealloc = <<>>
  BY NoFrames DEF Ready, Idle
<1>. QED BY <1>1, PlainView, PlainVal

LEMMA IdleView ==
  ASSUME TypeOK', op' = Idle, SettledBy(dealloc') = {}
  PROVE  Env' = entry' /\ Chain' = pool' /\ Owned' = held' /\ Task' = <<>> /\ Val' = value'
<1>1. op'.kind = "idle"
  BY DEF Idle
<1>. QED BY <1>1, PlainViewPrime, PlainValPrime

LEMMA ReleaseHides ==
  ASSUME TypeOK, NEW c, NEW v, NEW k, Release(c, v, k, dealloc)
  PROVE  SettledBy(dealloc') = SettledBy(dealloc)
<1>1. dealloc \in Seq(Frames) /\ dealloc' = Opened(c, v, k, dealloc)
  BY DEF TypeOK, Release
<1>. DEFINE q == Opened(c, v, k, dealloc)
<1>2. SettledBy(q) = SettledBy(dealloc) /\ q \in Seq(Frames)
  BY <1>1, OpenedStack
<1>. QED BY <1>1, <1>2

LEMMA CreateMaps ==
  ASSUME ScopeInv, TypeOK', NEW o \in Objects \ Funcs, ObjCreate(o)
  PROVE  Scope!Next
<1>t. TypeOK /\ CountInv /\ CarefulInv /\ DyingInv
  BY DEF ScopeInv, CarefulInv, CountInv, TypeInv
<1>1. /\ Ready /\ count[o] = 0 /\ held' = [held EXCEPT ![o] = 1]
      /\ UNCHANGED <<pool, entry, value, op, dealloc>>
  BY DEF ObjCreate
<1>2. Env = entry /\ Chain = pool /\ Owned = held /\ Task = <<>> /\ Val = value /\ SettledBy(dealloc) = {}
      /\ op = Idle /\ dealloc = <<>>
  BY <1>t, <1>1, ReadyView
<1>3. Env' = entry' /\ Chain' = pool' /\ Owned' = held' /\ Task' = <<>> /\ Val' = value'
  BY <1>1, <1>2, IdleView
<1>4. Scope!Garbage(o)
  BY <1>t, <1>1, <1>2, Unreferenced DEF Idle
<1>5. held[o] = 0
  BY <1>t, <1>1, NoReference
<1>6. held' # held
  BY <1>t, <1>1, <1>5 DEF TypeOK
<1>7. Scope!Create(o)
  BY <1>1, <1>2, <1>3, <1>4, <1>5 DEF Scope!Create, Scope!Idle
<1>. QED BY <1>1, <1>2, <1>3, <1>6, <1>7 DEF Scope!Next, Scope!References

LEMMA ClosureMaps ==
  ASSUME ScopeInv, TypeOK', NEW f \in Funcs, FuncCreate(f)
  PROVE  Scope!Next
<1>t. TypeOK /\ CountInv /\ CarefulInv /\ DyingInv /\ f \in Objects
  BY Disjointness DEF ScopeInv, CarefulInv, CountInv, TypeInv
<1>1. /\ Ready /\ count[f] = 0 /\ held' = [held EXCEPT ![f] = 1]
      /\ entry' = [entry EXCEPT ![f] = [n \in Idents |-> Lookup(n)]]
      /\ UNCHANGED <<pool, value, op, dealloc>>
  BY DEF FuncCreate
<1>2. Env = entry /\ Chain = pool /\ Owned = held /\ Task = <<>> /\ Val = value /\ SettledBy(dealloc) = {}
      /\ op = Idle /\ dealloc = <<>>
  BY <1>t, <1>1, ReadyView
<1>3. Env' = entry' /\ Chain' = pool' /\ Owned' = held' /\ Task' = <<>> /\ Val' = value'
  BY <1>1, <1>2, IdleView
<1>4. Scope!Garbage(f)
  BY <1>t, <1>1, <1>2, Unreferenced DEF Idle
<1>5. held[f] = 0
  BY <1>t, <1>1, NoReference
<1>6. held' # held
  BY <1>t, <1>1, <1>5 DEF TypeOK
<1>7. \A n \in Idents : Scope!Variable(n) = Lookup(n)
  BY <1>t, <1>2, SameVariable
<1>8. Scope!Closure(f)
  BY <1>1, <1>2, <1>3, <1>4, <1>5, <1>7 DEF Scope!Closure, Scope!Idle
<1>. QED BY <1>1, <1>2, <1>3, <1>6, <1>8 DEF Scope!Next, Scope!References

LEMMA DropMaps ==
  ASSUME ScopeInv, TypeOK', NEW o \in Objects, ObjRelease(o)
  PROVE  Scope!Next
<1>t. TypeOK
  BY DEF ScopeInv, CarefulInv, CountInv, TypeInv
<1>1. /\ Ready /\ held[o] > 0 /\ held' = [held EXCEPT ![o] = @ - 1] /\ Release(count, o, 1, dealloc)
      /\ UNCHANGED <<pool, entry, value, op>>
  BY DEF ObjRelease
<1>2. Env = entry /\ Chain = pool /\ Owned = held /\ Task = <<>> /\ Val = value /\ SettledBy(dealloc) = {}
      /\ op = Idle
  BY <1>t, <1>1, ReadyView
<1>3. SettledBy(dealloc') = {}
  BY <1>t, <1>1, <1>2, ReleaseHides
<1>4. Env' = entry' /\ Chain' = pool' /\ Owned' = held' /\ Task' = <<>> /\ Val' = value'
  BY <1>1, <1>2, <1>3, IdleView
<1>5. held' # held
  BY <1>t, <1>1 DEF TypeOK
<1>6. Scope!Drop(o)
  BY <1>1, <1>2, <1>4 DEF Scope!Drop, Scope!Idle
<1>. QED BY <1>1, <1>2, <1>4, <1>5, <1>6 DEF Scope!Next, Scope!References

LEMMA ReadMaps ==
  ASSUME ScopeInv, TypeOK', NEW n \in Idents, TokenResolve(n)
  PROVE  Scope!Next
<1>t. TypeOK
  BY DEF ScopeInv, CarefulInv, CountInv, TypeInv
<1>. DEFINE o == value[Resolve(n)]
<1>1. /\ Ready /\ Resolve(n) # NULL /\ o \in Objects /\ held' = [held EXCEPT ![o] = @ + 1]
      /\ UNCHANGED <<pool, entry, value, op, dealloc>>
  BY DEF TokenResolve
<1>2. Env = entry /\ Chain = pool /\ Owned = held /\ Task = <<>> /\ Val = value /\ SettledBy(dealloc) = {}
      /\ op = Idle
  BY <1>t, <1>1, ReadyView
<1>3. Env' = entry' /\ Chain' = pool' /\ Owned' = held' /\ Task' = <<>> /\ Val' = value'
  BY <1>1, <1>2, IdleView
<1>4. n # Undefined /\ Resolve(n) = Lookup(n)
  BY <1>1 DEF Resolve
<1>5. Scope!Variable(n) = Lookup(n)
  BY <1>t, <1>2, SameVariable
<1>6. held' # held
  BY <1>t, <1>1 DEF TypeOK
<1>7. Scope!Read(n, o)
  BY <1>1, <1>2, <1>3, <1>4, <1>5 DEF Scope!Read, Scope!Idle
<1>. QED BY <1>1, <1>2, <1>3, <1>6, <1>7 DEF Scope!Next, Scope!References

LEMMA OpenMaps ==
  ASSUME ScopeInv, TypeOK', NEW s \in Scopes, TokenPoolPush(s)
  PROVE  Scope!Next
<1>t. TypeOK
  BY DEF ScopeInv, CarefulInv, CountInv, TypeInv
<1>1. Ready /\ Unused(s) /\ pool' = <<s>> \o pool /\ UNCHANGED <<entry, value, held, op, dealloc>>
  BY DEF TokenPoolPush
<1>2. Env = entry /\ Chain = pool /\ Owned = held /\ Task = <<>> /\ Val = value /\ SettledBy(dealloc) = {}
      /\ op = Idle
  BY <1>t, <1>1, ReadyView
<1>3. Env' = entry' /\ Chain' = pool' /\ Owned' = held' /\ Task' = <<>> /\ Val' = value'
  BY <1>1, <1>2, IdleView
<1>4. pool' # pool
  BY <1>t, <1>1 DEF TypeOK
<1>5. Scope!Open(s)
  BY <1>1, <1>2, <1>3 DEF Scope!Open, Scope!Idle, Unused
<1>. QED BY <1>2, <1>3, <1>4, <1>5 DEF Scope!Next, Scope!Scoping

LEMMA EnterMaps ==
  ASSUME ScopeInv, TypeOK', NEW f \in Funcs, NEW s \in Scopes, FuncEnter(f, s)
  PROVE  Scope!Next
<1>t. TypeOK
  BY DEF ScopeInv, CarefulInv, CountInv, TypeInv
<1>1. /\ Ready /\ Unused(s) /\ held[f] > 0 /\ pool' = <<s, f>> \o pool /\ held' = [held EXCEPT ![f] = @ - 1]
      /\ UNCHANGED <<entry, value, op, dealloc>>
  BY DEF FuncEnter
<1>2. Env = entry /\ Chain = pool /\ Owned = held /\ Task = <<>> /\ Val = value /\ SettledBy(dealloc) = {}
      /\ op = Idle
  BY <1>t, <1>1, ReadyView
<1>3. Env' = entry' /\ Chain' = pool' /\ Owned' = held' /\ Task' = <<>> /\ Val' = value'
  BY <1>1, <1>2, IdleView
<1>4. pool' # pool
  BY <1>t, <1>1 DEF TypeOK
<1>5. Scope!Enter(f, s)
  BY <1>1, <1>2, <1>3 DEF Scope!Enter, Scope!Idle, Unused
<1>. QED BY <1>2, <1>3, <1>4, <1>5 DEF Scope!Next, Scope!Scoping

LEMMA LeaveMaps ==
  ASSUME ScopeInv, TypeOK', TokenPoolPop
  PROVE  Scope!Next
<1>t. TypeOK
  BY DEF ScopeInv, CarefulInv, CountInv, TypeInv
<1>1. /\ Ready /\ Len(pool) > 1 /\ pool' = Tail(pool) /\ op' = PopOf(Head(pool), NULL)
      /\ UNCHANGED <<entry, value, held, dealloc>>
  BY DEF TokenPoolPop
<1>2. Env = entry /\ Chain = pool /\ Owned = held /\ Task = <<>> /\ Val = value /\ SettledBy(dealloc) = {}
      /\ op = Idle
  BY <1>t, <1>1, ReadyView
<1>3. op'.kind = "pop" /\ op'.scope = Head(pool)
  BY <1>1 DEF PopOf
<1>4. Val' = value' /\ Task' = <<>>
  BY <1>3, PlainValPrime DEF Task
<1>5. Head(pool) \in Maps /\ pool \in Seq(Maps)
  BY <1>t, <1>1 DEF TypeOK
<1>6. Env' = [Env EXCEPT ![Head(pool)] = EmptyMap]
  <2>1. Env' \in MapTables /\ Env \in MapTables /\ EmptyMap \in [Idents -> Bindings \cup {NULL}]
    BY <1>t, EnvType, EnvTypePrime DEF EmptyMap
  <2>. DEFINE q == [Env EXCEPT ![Head(pool)] = EmptyMap]
  <2>2. q \in MapTables /\ \A k \in Maps, i \in Idents :
          q[k][i] = IF k = Head(pool) THEN EmptyMap[i] ELSE Env[k][i]
    BY <1>5, <2>1, MapExcept
  <2>. HIDE DEF q
  <2>3. \A n \in Idents : EmptyMap[n] = NULL
    BY DEF EmptyMap
  <2>4. ASSUME NEW m \in Maps, NEW n \in Idents PROVE Env'[m][n] = q[m][n]
    <3>1. Masked(m, n)' <=> m = Head(pool)
      BY <1>1, <1>2, <1>3 DEF Masked
    <3>2. Env'[m][n] = IF m = Head(pool) THEN NULL ELSE Env[m][n]
      BY <1>1, <1>2, <3>1, EnvAtPrime
    <3>. QED BY <2>2, <2>3, <3>2
  <2>5. Env' = q
    BY <2>1, <2>2, <2>4, SameTables
  <2>. QED BY <2>5 DEF q
<1>7. Returning' <=> Head(Tail(pool)) \in Funcs
  BY <1>1, <1>3 DEF Returning
<1>8. Chain' # Chain
  <2>1. Tail(pool) \in Seq(Maps) /\ Len(pool) = Len(Tail(pool)) + 1 /\ Len(Tail(pool)) \in Nat
    <3>1. pool # <<>>
      BY <1>t DEF TypeOK
    <3>. QED BY <1>5, <3>1, ConsTail, LenProperties
  <2>2. Tail(pool) # <<>>
    <3>. DEFINE tl == Tail(pool)
    <3>1. Len(tl) > 0
      BY <1>1, <2>1
    <3>. HIDE DEF tl
    <3>2. tl # <<>>
      BY <3>1
    <3>. QED BY <3>2 DEF tl
  <2>3. Len(Tail(Tail(pool))) + 1 = Len(Tail(pool)) /\ Len(Tail(Tail(pool))) \in Nat
    <3>. DEFINE tl == Tail(pool)
    <3>1. tl \in Seq(Maps) /\ tl # <<>>
      BY <2>1, <2>2
    <3>. HIDE DEF tl
    <3>2. Len(Tail(tl)) + 1 = Len(tl) /\ Len(Tail(tl)) \in Nat
      BY <3>1, ConsTail, LenProperties
    <3>. QED BY <3>2 DEF tl
  <2>4. Chain' = Tail(pool) \/ Chain' = Tail(Tail(pool))
    BY <1>1 DEF Chain
  <2>5. Len(Chain') < Len(pool)
    <3>1. CASE Chain' = Tail(pool)
      BY <2>1, <3>1
    <3>2. CASE Chain' = Tail(Tail(pool))
      BY <2>1, <2>3, <3>2
    <3>. QED BY <2>4, <3>1, <3>2
  <2>6. Len(Chain') # Len(pool)
    BY <2>1, <2>5
  <2>. QED BY <1>2, <2>6
<1>9. IF Head(Tail(pool)) \in Funcs
      THEN Chain' = Tail(Tail(pool)) /\ Owned' = [held EXCEPT ![Head(Tail(pool))] = @ + 1]
      ELSE Chain' = Tail(pool) /\ Owned' = held
  BY <1>1, <1>7 DEF Chain, Owned
<1>10. Scope!Leave
  BY <1>1, <1>2, <1>4, <1>6, <1>9 DEF Scope!Leave, Scope!Idle, Scope!Empty, EmptyMap
<1>. QED BY <1>8, <1>10 DEF Scope!Next, Scope!Scoping

LEMMA BeginMaps ==
  ASSUME ScopeInv, TypeOK', Careful, NEW n \in Idents, NEW v \in Values, TokenRegister(n, v)
  PROVE  Scope!Next
<1>t. TypeOK
  BY DEF ScopeInv, CarefulInv, CountInv, TypeInv
<1>1. /\ Ready /\ Argument(v) /\ op' = [kind |-> "register", ident |-> n, obj |-> v]
      /\ UNCHANGED <<pool, entry, value, held>>
  BY DEF TokenRegister
<1>2. Env = entry /\ Chain = pool /\ Owned = held /\ Task = <<>> /\ Val = value /\ SettledBy(dealloc) = {}
      /\ op = Idle
  BY <1>t, <1>1, ReadyView
<1>. DEFINE old == entry[Head(pool)][n]
            self == Resolvable(v) /\ IdentOf[v] = n
<1>3. SettledBy(dealloc') = {}
  <2>1. dealloc' = dealloc \/ Release(Retain(count, v, 1), value[old], 1, dealloc)
    BY DEF TokenRegister
  <2>. QED BY <1>t, <1>2, <2>1, ReleaseHides
<1>4. op'.kind = "register" /\ op'.ident = n /\ op'.obj = v
  BY <1>1
<1>5. SelfAlias(op.obj)' <=> self
  BY <1>4 DEF SelfAlias, Resolvable
<1>6. v # NULL /\ (self => old # NULL)
  BY <1>2, <1>4 DEF Careful
<1>7. Val' = value' /\ Task' = <<n, v>> /\ Chain' = pool' /\ Owned' = held'
  BY <1>4, PlainValPrime DEF Task, Chain, Owned, Returning
<1>8. Head(pool) \in Maps
  BY <1>t DEF TypeOK
<1>9. Env' = IF self THEN Env ELSE [Env EXCEPT ![Head(pool)][n] = NULL]
  <2>. DEFINE q == [Env EXCEPT ![Head(pool)][n] = NULL]
  <2>1. Env' \in MapTables /\ Env \in MapTables
    BY <1>t, EnvType, EnvTypePrime
  <2>2. q \in MapTables /\ \A k \in Maps, i \in Idents :
          q[k][i] = IF k = Head(pool) /\ i = n THEN NULL ELSE Env[k][i]
    BY <1>8, <2>1, TableExcept
  <2>3. ASSUME NEW m \in Maps, NEW i \in Idents
        PROVE  Env'[m][i] = IF ~self /\ m = Head(pool) /\ i = n THEN NULL ELSE Env[m][i]
    <3>1. Masked(m, i)' <=> ~self /\ m = Head(pool) /\ i = n
      BY <1>1, <1>3, <1>4, <1>5 DEF Masked
    <3>. QED BY <1>1, <1>2, <3>1, EnvAtPrime
  <2>. HIDE DEF q, self
  <2>4. CASE self
    BY <2>1, <2>3, <2>4, SameTables
  <2>5. CASE ~self
    <3>1. \A m \in Maps, i \in Idents : Env'[m][i] = q[m][i]
      BY <2>2, <2>3, <2>5
    <3>2. Env' = q
      BY <2>1, <2>2, <3>1, SameTables
    <3>. QED BY <2>5, <3>2 DEF q
  <2>. QED BY <2>4, <2>5
<1>10. Scope!Usable(v)
  <2>1. ASSUME NEW i \in DOMAIN pool, pool[i] = v, v \in Objects PROVE v \in Scope!Executed
    <3>1. v \in Maps
      BY <1>t, <2>1 DEF TypeOK
    <3>2. v \in Funcs
      BY <2>1, <3>1, ObjectsAssumption DEF Maps
    <3>. QED BY <1>2, <2>1, <3>2 DEF Scope!Executed
  <2>. QED BY <1>1, <1>2, <2>1 DEF Argument, Values, Scope!Usable
<1>11. v \in Objects \cup {Nil}
  BY <1>6 DEF Values
<1>12. Scope!Begin(n, v)
  BY <1>1, <1>2, <1>6, <1>7, <1>9, <1>10 DEF Scope!Begin, Scope!Idle, Scope!Token, Resolvable
<1>. QED BY <1>7, <1>11, <1>12 DEF Scope!Next, Scope!Names

LEMMA AssignMaps ==
  ASSUME ScopeInv, TypeOK', NEW n \in Idents, NEW v \in Values, TokenUpdate(n, v)
  PROVE  Scope!Next \/ Unseen
<1>t. TypeOK
  BY DEF ScopeInv, CarefulInv, CountInv, TypeInv
<1>. DEFINE b == Lookup(n)
<1>1. /\ Ready /\ Argument(v) /\ b # NULL /\ op' = [kind |-> "update", binding |-> b, obj |-> v]
      /\ Release(Retain(count, v, retain[b]), value[b], retain[b], dealloc)
      /\ UNCHANGED <<pool, entry, value, held>>
  BY DEF TokenUpdate
<1>2. Env = entry /\ Chain = pool /\ Owned = held /\ Task = <<>> /\ Val = value /\ SettledBy(dealloc) = {}
      /\ op = Idle
  BY <1>t, <1>1, ReadyView
<1>3. SettledBy(dealloc') = {}
  BY <1>t, <1>1, <1>2, ReleaseHides
<1>4. op'.kind = "update" /\ op'.binding = b /\ op'.obj = v
  BY <1>1
<1>5. Env' = entry' /\ Chain' = pool' /\ Owned' = held' /\ Task' = <<>>
  BY <1>3, <1>4, PlainViewPrime
<1>6. b \in Bindings /\ value \in [Bindings -> Values]
  BY <1>t, <1>1, LookupType DEF TypeOK
<1>7. Val' = [value EXCEPT ![b] = v]
  <2>1. \A c \in Bindings : Bound(c)' = IF c = b THEN v ELSE value[c]
    BY <1>1, <1>4 DEF Bound
  <2>. QED BY <1>6, <2>1 DEF Val
<1>8. Scope!Variable(n) = b
  BY <1>t, <1>2, SameVariable
<1>9. Scope!Usable(v)
  <2>1. ASSUME NEW i \in DOMAIN pool, pool[i] = v, v \in Objects PROVE v \in Scope!Executed
    <3>1. v \in Maps
      BY <1>t, <2>1 DEF TypeOK
    <3>2. v \in Funcs
      BY <2>1, <3>1, ObjectsAssumption DEF Maps
    <3>. QED BY <1>2, <2>1, <3>2 DEF Scope!Executed
  <2>. QED BY <1>1, <1>2, <2>1 DEF Argument, Values, Scope!Usable
<1>. HIDE DEF b
<1>10. CASE v = value[b]
  <2>1. Val' = Val
    BY <1>2, <1>6, <1>7, <1>10
  <2>. QED BY <1>1, <1>2, <1>5, <2>1 DEF Unseen
<1>11. CASE v # value[b]
  <2>1. Val' # Val
    BY <1>2, <1>6, <1>7, <1>11
  <2>2. Scope!Assign(b, v)
    BY <1>1, <1>2, <1>5, <1>6, <1>7, <1>8, <1>9, <1>11 DEF Scope!Assign, Scope!Idle
  <2>3. v \in Objects \cup {Nil, NULL}
    BY DEF Values
  <2>. QED BY <1>6, <2>1, <2>2, <2>3 DEF Scope!Next, Scope!Names
<1>. QED BY <1>10, <1>11

\* What is seen while the old value of a name is destroyed, and when it is gone.
LEMMA RegisterView ==
  ASSUME ScopeInv, Registering
  PROVE  /\ Chain = pool /\ Owned = held /\ Val = value /\ Task = <<op.ident, op.obj>>
         /\ Head(pool) \in Maps /\ op.ident \in Idents /\ op.obj \in Values
         /\ \A m \in Maps, n \in Idents :
              Env[m][n] = IF ~SelfAlias(op.obj) /\ m = Head(pool) /\ n = op.ident THEN NULL ELSE entry[m][n]
         /\ SettledBy(dealloc) = {}
<1>t. TypeOK
  BY DEF ScopeInv, CarefulInv, CountInv, TypeInv
<1>1. op.kind = "register" /\ SettledBy(dealloc) = {}
  BY NoFrames DEF Registering
<1>2. Chain = pool /\ Owned = held /\ Val = value /\ Task = <<op.ident, op.obj>>
  BY <1>t, <1>1, PlainVal DEF Chain, Owned, Returning, Task
<1>3. Head(pool) \in Maps /\ op.ident \in Idents /\ op.obj \in Values
  BY <1>t, <1>1, OpFields DEF TypeOK
<1>4. ASSUME NEW m \in Maps, NEW n \in Idents
      PROVE  Masked(m, n) <=> ~SelfAlias(op.obj) /\ m = Head(pool) /\ n = op.ident
  BY <1>1 DEF Masked
<1>. QED BY <1>1, <1>2, <1>3, <1>4, EnvAt

\* A token means the same variable.
LEMMA MeantIs ==
  ASSUME ScopeInv, Registering, SelfAlias(op.obj) => OldBinding # NULL
  PROVE  Scope!Meant = IF Resolvable(op.obj) THEN Aliased(op.obj) ELSE NULL
<1>t. TypeOK
  BY DEF ScopeInv, CarefulInv, CountInv, TypeInv
<1>. DEFINE v == op.obj
            k == IdentOf[v]
<1>1. Scope!Token(v) <=> Resolvable(v)
  BY DEF Scope!Token, Resolvable
<1>2. Task = <<op.ident, v>> /\ Chain = pool
  BY RegisterView
<1>3. Scope!Meant = IF Scope!Token(v) THEN Scope!Variable(k) ELSE NULL
  BY <1>2 DEF Scope!Meant
<1>4. SUFFICES ASSUME Resolvable(v) PROVE Scope!Variable(k) = Aliased(v)
  BY <1>1, <1>3
<1>5. k \in Idents
  BY <1>4, ObjectsAssumption DEF Resolvable
<1>6. \A i \in DOMAIN pool : pool[i] \in Maps
  BY <1>t DEF TypeOK
<1>7. ASSUME NEW i \in DOMAIN pool PROVE Env[pool[i]][k] = entry[pool[i]][k]
  <2>1. k = op.ident => SelfAlias(v)
    BY <1>4 DEF SelfAlias
  <2>. QED BY <1>5, <1>6, <2>1, RegisterView
<1>8. Scope!Variable(k) = Lookup(k)
  BY <1>t, <1>2, <1>5, <1>7, SameVariable
<1>9. CASE k = op.ident
  <2>1. SelfAlias(v) /\ Aliased(v) = OldBinding
    BY <1>4, <1>9 DEF SelfAlias, Aliased
  <2>2. OldBinding = entry[Head(pool)][k]
    BY <1>9 DEF OldBinding
  <2>3. Lookup(k) = OldBinding
    BY <1>t, <1>5, <2>1, <2>2, LookupLocal
  <2>. QED BY <1>8, <2>1, <2>3
<1>10. CASE k # op.ident
  BY <1>8, <1>10 DEF Aliased
<1>. QED BY <1>9, <1>10

LEMMA AliasMaps ==
  ASSUME ScopeInv, TypeOK', RegisterAlias
  PROVE  Scope!Next
<1>t. TypeOK
  BY DEF ScopeInv, CarefulInv, CountInv, TypeInv
<1>. DEFINE v == op.obj
            b == Aliased(v)
<1>1. /\ Registering /\ Resolvable(v) /\ b # NULL /\ op' = Idle
      /\ entry' = [entry EXCEPT ![Head(pool)][op.ident] = b]
      /\ Release(Retain(count, value[b], 1), v, 1, dealloc)
      /\ UNCHANGED <<pool, value, held>>
  BY DEF RegisterAlias
<1>2. /\ Chain = pool /\ Owned = held /\ Val = value /\ Task = <<op.ident, op.obj>>
      /\ Head(pool) \in Maps /\ op.ident \in Idents /\ SettledBy(dealloc) = {}
      /\ \A m \in Maps, n \in Idents :
           Env[m][n] = IF ~SelfAlias(op.obj) /\ m = Head(pool) /\ n = op.ident THEN NULL ELSE entry[m][n]
  BY <1>1, RegisterView
<1>3. SettledBy(dealloc') = {}
  BY <1>t, <1>1, <1>2, ReleaseHides
<1>4. Env' = entry' /\ Chain' = pool' /\ Owned' = held' /\ Task' = <<>> /\ Val' = value'
  BY <1>1, <1>3, IdleView
<1>5. SelfAlias(v) => OldBinding # NULL
  BY <1>1 DEF ScopeInv, CarefulInv, RegisterSafe, Registering
<1>6. Scope!Meant = b
  BY <1>1, <1>5, MeantIs
<1>7. b \in Bindings \cup {NULL}
  <2>1. IdentOf[v] \in Idents
    BY <1>1, ObjectsAssumption DEF Resolvable
  <2>. QED BY <1>t, <1>2, <2>1, LookupType DEF Aliased, OldBinding, TypeOK
<1>. HIDE DEF b
<1>8. Env' = [Env EXCEPT ![Head(pool)][op.ident] = b]
  <2>1. Env' \in MapTables /\ Env \in MapTables /\ entry \in MapTables
    BY <1>t, EnvType, EnvTypePrime DEF TypeOK, MapTables
  <2>. DEFINE q == [Env EXCEPT ![Head(pool)][op.ident] = b]
              r == [entry EXCEPT ![Head(pool)][op.ident] = b]
  <2>2. q \in MapTables /\ \A k \in Maps, i \in Idents :
          q[k][i] = IF k = Head(pool) /\ i = op.ident THEN b ELSE Env[k][i]
    BY <1>2, <1>7, <2>1, TableExcept
  <2>3. r \in MapTables /\ \A k \in Maps, i \in Idents :
          r[k][i] = IF k = Head(pool) /\ i = op.ident THEN b ELSE entry[k][i]
    BY <1>2, <1>7, <2>1, TableExcept
  <2>4. Env' = r
    BY <1>1, <1>4
  <2>. HIDE DEF q, r
  <2>5. \A m \in Maps, n \in Idents : r[m][n] = q[m][n]
    BY <1>2, <2>2, <2>3
  <2>6. r = q
    BY <2>2, <2>3, <2>5, SameTables
  <2>. QED BY <2>4, <2>6 DEF q
<1>9. Scope!Alias
  BY <1>1, <1>2, <1>4, <1>6, <1>8 DEF Scope!Alias, Scope!Finish, Scope!Idle
<1>. QED BY <1>4, <1>9 DEF Scope!Next, Scope!Names

\* A binding that the registration may use again has no name left.
LEMMA FreshUnused ==
  ASSUME ScopeInv, Registering, ~SelfAlias(op.obj), NEW b \in Bindings, Dropped[b] = 0,
         NEW m \in Maps, NEW n \in Idents
  PROVE  Env[m][n] # b
<1>. SUFFICES ASSUME Env[m][n] = b PROVE FALSE
  OBVIOUS
<1>t. TypeOK /\ BindingCount
  BY DEF ScopeInv, CarefulInv, CountInv, TypeInv
<1>. DEFINE s == <<m, n>>
            r == <<Head(pool), op.ident>>
            A == Users(b) \ {r}
<1>1. b # NULL
  BY Disjointness
<1>2. entry[m][n] = b /\ ~(m = Head(pool) /\ n = op.ident)
  BY <1>1, RegisterView
<1>3. s \in Slots /\ s \in Users(b) /\ s # r
  BY <1>2 DEF Users, At, Slots
<1>4. Dropped[b] = Cardinality(Users(b)) - Ind(OldBinding = b) /\ Cardinality(Users(b)) \in Nat
  BY <1>t, DroppedCount
<1>5. Users(b) \subseteq Slots /\ A \subseteq Slots /\ s \in A
  BY <1>3, UsersType
<1>6. IsFiniteSet(A) /\ Cardinality(A) \in Nat
  BY <1>5, SlotSets
<1>7. Cardinality(A) # 0
  BY <1>5, <1>6, FS_EmptySet
<1>8. Cardinality(Users(b)) = Cardinality(A) - Ind(r \in A) + Ind(r \in Users(b))
  <2>1. \A x \in Slots : x # r => (x \in A <=> x \in Users(b))
    OBVIOUS
  <2>. HIDE DEF A, r
  <2>. QED BY <1>5, <2>1, OneSlot
<1>9. Ind(r \in A) = 0
  BY DEF Ind
<1>10. OldBinding = b <=> r \in Users(b)
  BY RegisterView DEF OldBinding, Users, At, Slots
<1>11. Ind(r \in Users(b)) = Ind(OldBinding = b) /\ Ind(OldBinding = b) \in Nat
  BY <1>10 DEF Ind
<1>. HIDE DEF A, r
<1>. QED BY <1>4, <1>6, <1>7, <1>8, <1>9, <1>11

LEMMA DefineMaps ==
  ASSUME ScopeInv, TypeOK', RegisterFresh
  PROVE  Scope!Next
<1>t. TypeOK
  BY DEF ScopeInv, CarefulInv, CountInv, TypeInv
<1>. DEFINE v == op.obj
<1>1. PICK b \in Bindings :
        /\ Registering /\ v # NULL /\ op' = Idle /\ Dropped[b] = 0
        /\ Resolvable(v) => ~SelfAlias(v) /\ Aliased(v) = NULL
        /\ entry' = [entry EXCEPT ![Head(pool)][op.ident] = b]
        /\ value' = [value EXCEPT ![b] = IF IsUndefined(v) THEN NULL ELSE v]
        /\ Release(count, v, 1, dealloc) \/ UNCHANGED dealloc
        /\ UNCHANGED <<pool, held>>
  BY DEF RegisterFresh
<1>2. /\ Chain = pool /\ Owned = held /\ Val = value /\ Task = <<op.ident, op.obj>>
      /\ Head(pool) \in Maps /\ op.ident \in Idents /\ SettledBy(dealloc) = {}
      /\ \A m \in Maps, n \in Idents :
           Env[m][n] = IF ~SelfAlias(op.obj) /\ m = Head(pool) /\ n = op.ident THEN NULL ELSE entry[m][n]
  BY <1>1, RegisterView
<1>3. SettledBy(dealloc') = {}
  BY <1>t, <1>1, <1>2, ReleaseHides
<1>4. Env' = entry' /\ Chain' = pool' /\ Owned' = held' /\ Task' = <<>> /\ Val' = value'
  BY <1>1, <1>3, IdleView
<1>5. ~SelfAlias(v)
  BY <1>1 DEF SelfAlias
<1>6. Scope!Meant = NULL
  BY <1>1, <1>5, MeantIs
<1>7. Env' = [Env EXCEPT ![Head(pool)][op.ident] = b]
  <2>1. Env' \in MapTables /\ Env \in MapTables /\ entry \in MapTables
    BY <1>t, EnvType, EnvTypePrime DEF TypeOK, MapTables
  <2>. DEFINE q == [Env EXCEPT ![Head(pool)][op.ident] = b]
              r == [entry EXCEPT ![Head(pool)][op.ident] = b]
  <2>2. q \in MapTables /\ \A k \in Maps, i \in Idents :
          q[k][i] = IF k = Head(pool) /\ i = op.ident THEN b ELSE Env[k][i]
    BY <1>2, <2>1, TableExcept
  <2>3. r \in MapTables /\ \A k \in Maps, i \in Idents :
          r[k][i] = IF k = Head(pool) /\ i = op.ident THEN b ELSE entry[k][i]
    BY <1>2, <2>1, TableExcept
  <2>4. Env' = r
    BY <1>1, <1>4
  <2>. HIDE DEF q, r
  <2>5. \A m \in Maps, n \in Idents : r[m][n] = q[m][n]
    BY <1>2, <2>2, <2>3
  <2>6. r = q
    BY <2>2, <2>3, <2>5, SameTables
  <2>. QED BY <2>4, <2>6 DEF q
<1>8. \A m \in Scopes \cup Funcs, n \in Idents : Env[m][n] # b
  BY <1>1, <1>5, FreshUnused DEF Maps
<1>9. Scope!Define(b)
  BY <1>1, <1>2, <1>4, <1>6, <1>7, <1>8 DEF Scope!Define, Scope!Finish, Scope!Idle, IsUndefined
<1>. QED BY <1>4, <1>9 DEF Scope!Next, Scope!Names

LEMMA SameRest ==
  ASSUME UNCHANGED <<op, pool, held, value>>
  PROVE  Chain' = Chain /\ Owned' = Owned /\ Val' = Val /\ Task' = Task
BY DEF Chain, Owned, Val, Task, Returning, Bound

\* Where the stack of deallocations changes, and only there, other entries are hidden.
LEMMA MaskedMoves ==
  ASSUME UNCHANGED <<op, pool>>, NEW m, NEW n
  PROVE  Masked(m, n)' <=> \/ op.kind = "pop" /\ m = op.scope
                           \/ <<m, n>> \in SettledBy(dealloc')
                           \/ op.kind = "register" /\ ~SelfAlias(op.obj) /\ m = Head(pool) /\ n = op.ident
BY DEF Masked, SelfAlias, Resolvable

LEMMA ForgetMaps ==
  ASSUME ScopeInv, TypeOK', NEW n \in Idents, DeallocEntry(n)
  PROVE  Scope!Next
<1>t. TypeOK /\ CarefulInv /\ DyingInv /\ Distinct(dealloc)
  BY DEF ScopeInv, CarefulInv, CountInv, TypeInv, StackInv
<1>. DEFINE f  == Dead.func
            st == <<Frame(f, n)>> \o Tail(dealloc)
            v  == value[entry[f][n]]
<1>1. /\ Destroying /\ Dead.ident = NULL /\ entry[f][n] # NULL /\ dealloc # <<>>
      /\ dealloc' = Opened(count, v, 1, st)
      /\ UNCHANGED <<op, pool, entry, value, held>>
  BY DEF DeallocEntry, Release, Destroying
<1>2. /\ f \in Funcs /\ f \in FuncsOf(dealloc) /\ f \notin FuncsOf(Tail(dealloc))
      /\ Tail(dealloc) \in Seq(Frames)
      /\ SettledBy(dealloc) = SettledBy(Tail(dealloc)) \cup ({<<f, Dead.ident>>} \cap Slots)
  BY <1>t, <1>1, HeadFrame
<1>3. f \in Maps /\ f \in Objects /\ f \notin Scopes /\ <<f, n>> \in Slots /\ <<f, Dead.ident>> \notin Slots
  BY <1>1, <1>2, Disjointness DEF Maps, Slots
<1>4. SettledBy(dealloc) = SettledBy(Tail(dealloc)) /\ <<f, n>> \notin SettledBy(dealloc)
  <2>1. <<f, n>> \notin SettledBy(Tail(dealloc))
    BY <1>2, SettledFuncs
  <2>. QED BY <1>2, <1>3, <2>1
<1>5. SettledBy(dealloc') = SettledBy(dealloc) \cup {<<f, n>>}
  <2>1. st \in Seq(Frames) /\ SettledBy(st) = SettledBy(Tail(dealloc)) \cup ({<<f, n>>} \cap Slots)
    BY <1>t, <1>1, MoveHead
  <2>. HIDE DEF st
  <2>. DEFINE q == Opened(count, v, 1, st)
  <2>2. q \in Seq(Frames) /\ SettledBy(q) = SettledBy(st)
    BY <2>1, OpenedStack
  <2>. QED BY <1>1, <1>3, <1>4, <2>1, <2>2
<1>6. Chain' = Chain /\ Owned' = Owned /\ Val' = Val /\ Task' = Task
  BY <1>1, SameRest
<1>7. ~Masked(f, n)
  <2>1. op.kind = "pop" => op.scope \in Scopes
    BY <1>t, OpFields
  <2>2. op.kind = "register" => Head(pool) \in Scopes
    BY <1>t DEF TypeOK
  <2>. QED BY <1>3, <1>4, <2>1, <2>2 DEF Masked
<1>8. Env[f][n] # NULL
  BY <1>1, <1>3, <1>7, EnvAt
<1>9. Scope!Garbage(f)
  <2>1. count[f] <= 0
    BY <1>t, <1>2 DEF DyingInv, Spent
  <2>. QED BY <1>t, <1>1, <1>3, <2>1, Unreferenced
<1>10. Env' = [Env EXCEPT ![f][n] = NULL]
  <2>1. Env' \in MapTables /\ Env \in MapTables
    BY <1>t, EnvType, EnvTypePrime
  <2>. DEFINE q == [Env EXCEPT ![f][n] = NULL]
  <2>2. q \in MapTables /\ \A k \in Maps, i \in Idents :
          q[k][i] = IF k = f /\ i = n THEN NULL ELSE Env[k][i]
    BY <1>3, <2>1, TableExcept
  <2>. HIDE DEF q
  <2>3. ASSUME NEW m \in Maps, NEW i \in Idents PROVE Env'[m][i] = q[m][i]
    <3>1. Masked(m, i)' <=> Masked(m, i) \/ (m = f /\ i = n)
      BY <1>1, <1>5, MaskedMoves DEF Masked
    <3>. QED BY <1>1, <2>2, <3>1, EnvAt, EnvAtPrime
  <2>4. Env' = q
    BY <2>1, <2>2, <2>3, SameTables
  <2>. QED BY <2>4 DEF q
<1>11. Scope!Forget(f, n)
  BY <1>6, <1>8, <1>9, <1>10 DEF Scope!Forget
<1>. QED BY <1>2, <1>11 DEF Scope!Next

LEMMA DeallocUnseen ==
  ASSUME ScopeInv, TypeOK', DeallocBinding \/ DeallocDone
  PROVE  Unseen
<1>t. TypeOK
  BY DEF ScopeInv, CarefulInv, CountInv, TypeInv
<1>. DEFINE f == Dead.func
            k == Dead.ident
<1>1. Destroying /\ dealloc # <<>> /\ UNCHANGED <<op, pool, value, held>>
  BY DEF DeallocBinding, DeallocDone, Destroying
<1>2. /\ f \in Funcs /\ k \in Idents \cup {NULL}
      /\ SettledBy(dealloc) = SettledBy(Tail(dealloc)) \cup ({<<f, k>>} \cap Slots)
  BY <1>t, <1>1, HeadFrame
<1>3. Chain' = Chain /\ Owned' = Owned /\ Val' = Val /\ Task' = Task
  BY <1>1, SameRest
<1>4. <<f, NULL>> \notin Slots
  BY Disjointness DEF Slots
<1>5. Env' \in MapTables /\ Env \in MapTables
  BY <1>t, EnvType, EnvTypePrime
<1>6. ASSUME DeallocBinding, NEW m \in Maps, NEW n \in Idents PROVE Env'[m][n] = Env[m][n]
  <2>1. k # NULL /\ entry' = [entry EXCEPT ![f][k] = NULL] /\ dealloc' = <<Frame(f, NULL)>> \o Tail(dealloc)
    BY <1>6 DEF DeallocBinding
  <2>2. SettledBy(dealloc') = SettledBy(Tail(dealloc))
    BY <1>t, <1>1, <1>4, <2>1, MoveHead
  <2>3. f \in Maps /\ k \in Idents /\ <<f, k>> \in Slots
    BY <1>2, <2>1 DEF Maps, Slots
  <2>4. SettledBy(dealloc) = SettledBy(dealloc') \cup {<<f, k>>}
    BY <1>2, <2>2, <2>3
  <2>5. entry'[m][n] = IF m = f /\ n = k THEN NULL ELSE entry[m][n]
    BY <1>t, <2>1, <2>3 DEF TypeOK
  <2>6. Masked(m, n) <=> Masked(m, n)' \/ (m = f /\ n = k)
    BY <1>1, <2>4, MaskedMoves DEF Masked
  <2>. QED BY <2>5, <2>6, EnvAt, EnvAtPrime
<1>7. ASSUME DeallocDone, NEW m \in Maps, NEW n \in Idents PROVE Env'[m][n] = Env[m][n]
  <2>1. k = NULL /\ entry' = entry /\ dealloc' = Tail(dealloc)
    BY <1>7 DEF DeallocDone
  <2>2. SettledBy(dealloc') = SettledBy(dealloc)
    BY <1>2, <1>4, <2>1
  <2>3. Masked(m, n)' <=> Masked(m, n)
    BY <1>1, <2>2, MaskedMoves DEF Masked
  <2>. QED BY <2>1, <2>3, EnvAt, EnvAtPrime
<1>8. Env' = Env
  BY <1>5, <1>6, <1>7, SameTables
<1>. QED BY <1>3, <1>8 DEF Unseen

\* The names of the scope that is popped are out of sight.
LEMMA PopUnseen ==
  ASSUME ScopeInv, TypeOK', PopBinding \/ PopDone \/ \E n \in Idents : PopEntry(n)
  PROVE  Unseen
<1>t. TypeOK
  BY DEF ScopeInv, CarefulInv, CountInv, TypeInv
<1>1. op.kind = "pop" /\ op.scope \in Scopes /\ dealloc = <<>> /\ SettledBy(dealloc) = {}
  BY <1>t, OpFields, NoFrames DEF PopBinding, PopDone, PopEntry, Popping
<1>2. Val = value /\ Task = <<>>
  BY <1>t, <1>1, PlainVal DEF Task
<1>3. ASSUME NEW m \in Maps, NEW n \in Idents
      PROVE  Env[m][n] = IF m = op.scope THEN NULL ELSE entry[m][n]
  BY <1>1, EnvAt DEF Masked
<1>4. Env' \in MapTables /\ Env \in MapTables
  BY <1>t, EnvType, EnvTypePrime
<1>5. ASSUME NEW b, op' = PopOf(op.scope, b), UNCHANGED <<pool, held, value>>, SettledBy(dealloc') = {},
             \A m \in Maps, n \in Idents : m # op.scope => entry'[m][n] = entry[m][n]
      PROVE  Unseen
  <2>1. op'.kind = "pop" /\ op'.scope = op.scope
    BY <1>5 DEF PopOf
  <2>2. Chain' = Chain /\ Owned' = Owned
    BY <1>1, <1>5, <2>1 DEF Chain, Owned, Returning
  <2>3. Val' = Val /\ Task' = Task
    BY <1>2, <1>5, <2>1, PlainValPrime DEF Task
  <2>4. ASSUME NEW m \in Maps, NEW n \in Idents PROVE Env'[m][n] = Env[m][n]
    <3>1. Masked(m, n)' <=> m = op.scope
      BY <1>5, <2>1 DEF Masked
    <3>. QED BY <1>3, <1>5, <3>1, EnvAtPrime
  <2>5. Env' = Env
    BY <1>4, <2>4, SameTables
  <2>. QED BY <2>2, <2>3, <2>5 DEF Unseen
<1>6. ASSUME NEW n \in Idents, PopEntry(n) PROVE Unseen
  <2>. DEFINE b == entry[op.scope][n]
  <2>1. /\ entry' = [entry EXCEPT ![op.scope][n] = NULL] /\ op' = PopOf(op.scope, b)
        /\ Release(count, value[b], 1, dealloc) /\ UNCHANGED <<pool, value, held>>
    BY <1>6 DEF PopEntry
  <2>2. SettledBy(dealloc') = {}
    BY <1>t, <1>1, <2>1, ReleaseHides
  <2>3. \A m \in Maps, i \in Idents : m # op.scope => entry'[m][i] = entry[m][i]
    BY <1>t, <2>1 DEF TypeOK
  <2>. QED BY <1>5, <2>1, <2>2, <2>3
<1>7. ASSUME PopBinding PROVE Unseen
  BY <1>1, <1>5, <1>7 DEF PopBinding
<1>8. ASSUME PopDone PROVE Unseen
  <2>1. /\ op' = Idle /\ entry[op.scope] = EmptyMap /\ UNCHANGED <<entry, value, dealloc>>
        /\ pool' = (IF Head(pool) \in Funcs THEN Tail(pool) ELSE pool)
        /\ held' = (IF Head(pool) \in Funcs THEN [held EXCEPT ![Head(pool)] = @ + 1] ELSE held)
    BY <1>8 DEF PopDone
  <2>2. Env' = entry' /\ Chain' = pool' /\ Owned' = held' /\ Task' = <<>> /\ Val' = value'
    BY <1>1, <2>1, IdleView
  <2>3. Chain' = Chain /\ Owned' = Owned
    BY <1>1, <2>1, <2>2 DEF Chain, Owned, Returning
  <2>4. \A m \in Maps, n \in Idents : Env'[m][n] = Env[m][n]
    BY <1>3, <2>1, <2>2 DEF EmptyMap
  <2>5. Env' = Env
    BY <1>4, <2>4, SameTables
  <2>. QED BY <1>2, <2>1, <2>2, <2>3, <2>5 DEF Unseen
<1>. QED BY <1>6, <1>7, <1>8

\* The variable has its new value from the moment the old one is released.
LEMMA UpdateUnseen ==
  ASSUME ScopeInv, TypeOK', UpdateDone
  PROVE  Unseen
<1>t. TypeOK
  BY DEF ScopeInv, CarefulInv, CountInv, TypeInv
<1>1. /\ op.kind = "update" /\ dealloc = <<>> /\ op' = Idle
      /\ value' = [value EXCEPT ![op.binding] = op.obj] /\ UNCHANGED <<pool, entry, held, dealloc>>
  BY DEF UpdateDone
<1>2. SettledBy(dealloc) = {}
  BY <1>1, NoFrames
<1>3. Env = entry /\ Chain = pool /\ Owned = held /\ Task = <<>>
  BY <1>t, <1>1, <1>2, PlainView
<1>4. Env' = entry' /\ Chain' = pool' /\ Owned' = held' /\ Task' = <<>> /\ Val' = value'
  BY <1>1, <1>2, IdleView
<1>5. value' = Val
  BY <1>t, <1>1, OpFields DEF Val, Bound, TypeOK
<1>. QED BY <1>1, <1>3, <1>4, <1>5 DEF Unseen

LEMMA UnchangedUnseen ==
  ASSUME UNCHANGED <<pool, entry, value, held, op, dealloc>>
  PROVE  Unseen
BY SameRest DEF Unseen, Env, Hidden, SelfAlias, Resolvable

LEMMA ScopeStep ==
  ASSUME ScopeInv, TypeOK', [CarefulNext]_vars
  PROVE  Scope!Next \/ Unseen
<1>1. CASE UNCHANGED vars
  BY <1>1, UnchangedUnseen DEF vars
<1>2. CASE CarefulNext /\ Call
  <2>1. Careful
    BY <1>2 DEF CarefulNext
  <2>2. \A o \in Data \cup Tokens : o \in Objects \ Funcs
    BY ObjectsAssumption DEF Objects
  <2>. QED BY <1>2, <2>1, <2>2, CreateMaps, ClosureMaps, DropMaps, ReadMaps, OpenMaps, EnterMaps, LeaveMaps,
         BeginMaps, AssignMaps DEF Call
<1>3. CASE CarefulNext /\ Continue
  <2>1. ASSUME RegisterNull \/ RegisterWild \/ \E n \in Idents : DeallocRunaway(n) PROVE Unseen
    BY <2>1, UnchangedUnseen DEF RegisterNull, RegisterWild, DeallocRunaway
  <2>. QED BY <1>3, <2>1, ForgetMaps, DeallocUnseen, PopUnseen, UpdateUnseen, AliasMaps, DefineMaps DEF Continue
<1>. QED BY <1>1, <1>2, <1>3 DEF CarefulNext, Next

LEMMA ScopeInit == Init => Scope!Init
<1>. SUFFICES ASSUME Init PROVE Scope!Init
  OBVIOUS
<1>1. TypeOK /\ Ready
  BY InitType DEF Init, TypeInv, Ready
<1>2. Env = entry /\ Chain = pool /\ Owned = held /\ Task = <<>> /\ Val = value
  BY <1>1, ReadyView
<1>. QED BY <1>2 DEF Init, Scope!Init, Scope!Empty, EmptyMap, Maps

(* For a careful client variables are lexically scoped and shared, and what  *)
(* a name leads to is never freed or used again, however the library goes    *)
(* about counts, bindings and the destruction of closures (soltoken.h).      *)
THEOREM ImplementsScope == CarefulSpec => IsScope
<1>1. Init => ScopeInv
  BY InitCareful, NoFrames DEF ScopeInv, Init, DyingInv, Spent
<1>2. ScopeInv /\ [CarefulNext]_vars => ScopeInv'
  <2>1. [CarefulNext]_vars => [Next]_vars
    BY DEF CarefulNext
  <2>2. ScopeInv => TypeInv
    BY DEF ScopeInv, CarefulInv, CountInv
  <2>. QED BY <2>1, <2>2, CarefulStep, DyingStep DEF ScopeInv
<1>3. ScopeInv' => TypeOK'
  BY DEF ScopeInv, CarefulInv, CountInv, TypeInv
<1>4. ScopeInv /\ [CarefulNext]_vars => [Scope!Next]_<<Chain, Env, Val, Owned, Task>>
  BY <1>2, <1>3, ScopeStep DEF Unseen
<1>. QED BY <1>1, <1>2, <1>4, ScopeInit, PTL DEF CarefulSpec, IsScope, Scope!Spec

-----------------------------------------------------------------------------
(* Every step of an operation leaves less work. *)

Resting == {fr \in Frames : fr.ident = NULL}

LEMMA StackWorkType == ASSUME NEW st \in Seq(Frames) PROVE StackWork(st) \in Nat
<1>1. \A i \in DOMAIN st : st[i] \in Frames
  OBVIOUS
<1>2. {i \in DOMAIN st : st[i].ident = NULL} = Places(st, Resting)
  BY <1>1 DEF Places, Resting
<1>3. Cardinality(Places(st, Resting)) \in Nat
  BY PlacesType
<1>4. StackWork(st) = 2 * Len(st) + Cardinality(Places(st, Resting))
  BY <1>2 DEF StackWork
<1>. QED BY <1>3, <1>4, LenProperties

LEMMA StackWorkPush ==
  ASSUME NEW st \in Seq(Frames), NEW fr \in Frames
  PROVE  StackWork(<<fr>> \o st) = StackWork(st) + 2 + Ind(fr.ident = NULL)
<1>1. ASSUME NEW q \in Seq(Frames) PROVE {i \in DOMAIN q : q[i].ident = NULL} = Places(q, Resting)
  <2>1. \A i \in DOMAIN q : q[i] \in Frames
    BY <1>1
  <2>. QED BY <2>1 DEF Places, Resting
<1>2. /\ <<fr>> \o st \in Seq(Frames) /\ Len(<<fr>> \o st) = Len(st) + 1 /\ Len(st) \in Nat
  OBVIOUS
<1>3. Cardinality(Places(<<fr>> \o st, Resting)) = Cardinality(Places(st, Resting)) + Ind(fr \in Resting)
  BY PlacesPush
<1>4. Cardinality(Places(st, Resting)) \in Nat
  BY PlacesType
<1>5. Ind(fr \in Resting) = Ind(fr.ident = NULL) /\ Ind(fr.ident = NULL) \in Nat
  BY DEF Resting, Ind
<1>6. {i \in DOMAIN st : st[i].ident = NULL} = Places(st, Resting)
  BY <1>1
<1>7. {i \in DOMAIN (<<fr>> \o st) : (<<fr>> \o st)[i].ident = NULL} = Places(<<fr>> \o st, Resting)
  BY <1>1, <1>2
<1>8. StackWork(st) = 2 * Len(st) + Cardinality(Places(st, Resting))
  BY <1>6 DEF StackWork
<1>9. StackWork(<<fr>> \o st) = 2 * Len(<<fr>> \o st) + Cardinality(Places(<<fr>> \o st, Resting))
  BY <1>7 DEF StackWork
<1>. QED BY <1>2, <1>3, <1>4, <1>5, <1>8, <1>9

LEMMA LivingType ==
  ASSUME NEW c
  PROVE  IsFiniteSet(Living(c)) /\ Cardinality(Living(c)) \in Nat
BY MapsAssumption, FS_Subset, FS_CardinalityType DEF Living

LEMMA TakenType == Taken \subseteq Slots /\ Cardinality(Taken) \in Nat
BY SlotSets DEF Taken

LEMMA TakenTypePrime == Taken' \subseteq Slots /\ Cardinality(Taken') \in Nat
<1>1. Taken' \subseteq Slots
  BY DEF Taken
<1>. QED BY <1>1, SlotSets

\* The end of a function is paid for by its life.
LEMMA ReleaseWork ==
  ASSUME NEW c \in [Objects -> Int], NEW v, NEW st \in Seq(Frames), v \in Funcs => c[v] > 0
  PROVE  4 * Cardinality(Living(Decrease(c, v, 1))) + StackWork(Opened(c, v, 1, st))
           <= 4 * Cardinality(Living(c)) + StackWork(st)
<1>. DEFINE d == Decrease(c, v, 1)
            q == Opened(c, v, 1, st)
            A == Cardinality(Living(c))
            B == Cardinality(Living(d))
<1>1. A \in Nat /\ B \in Nat /\ StackWork(st) \in Nat
  BY LivingType, StackWorkType
<1>2. \A f \in Funcs : d[f] = c[f] - (IF v = f THEN 1 ELSE 0) /\ c[f] \in Int
  <2>. SUFFICES ASSUME NEW f \in Funcs PROVE d[f] = c[f] - (IF v = f THEN 1 ELSE 0) /\ c[f] \in Int
    OBVIOUS
  <2>1. f \in Objects
    BY Disjointness
  <2>. QED BY <2>1, DecreaseAt
<1>3. CASE v \in Funcs /\ c[v] <= 1
  <2>1. v \in Living(c) /\ Living(d) = Living(c) \ {v}
    BY <1>2, <1>3 DEF Living
  <2>2. B = A - 1
    BY <2>1, LivingType, FS_RemoveElement
  <2>3. q = <<Frame(v, NULL)>> \o st /\ Frame(v, NULL) \in Frames /\ Frame(v, NULL).ident = NULL
    BY <1>3 DEF Opened, Frame, Frames
  <2>4. StackWork(q) = StackWork(st) + 2 + Ind(Frame(v, NULL).ident = NULL)
    BY <2>3, StackWorkPush
  <2>5. Ind(Frame(v, NULL).ident = NULL) = 1
    BY <2>3 DEF Ind
  <2>. HIDE DEF A, B, q
  <2>6. 4 * B + StackWork(q) <= 4 * A + StackWork(st)
    BY <1>1, <2>2, <2>4, <2>5
  <2>. QED BY <2>6 DEF A, B, q, d
<1>4. CASE ~(v \in Funcs /\ c[v] <= 1)
  <2>1. q = st
    BY <1>4 DEF Opened
  <2>2. Living(d) = Living(c)
    BY <1>2, <1>4 DEF Living
  <2>. QED BY <1>1, <2>1, <2>2
<1>. QED BY <1>3, <1>4

\* The stack with another identifier in its innermost frame.
LEMMA DeadWork ==
  ASSUME TypeOK, Destroying
  PROVE  /\ StackWork(dealloc) = StackWork(Tail(dealloc)) + 2 + Ind(Dead.ident = NULL)
         /\ \A k \in Idents \cup {NULL} :
              StackWork(<<Frame(Dead.func, k)>> \o Tail(dealloc)) = StackWork(Tail(dealloc)) + 2 + Ind(k = NULL)
         /\ StackWork(Tail(dealloc)) \in Nat
<1>. DEFINE h == Dead
            tl == Tail(dealloc)
<1>1. h \in Frames /\ tl \in Seq(Frames) /\ h.func \in Funcs
  BY HeadFrame
<1>2. dealloc = <<h>> \o tl
  <2>1. dealloc \in Seq(Frames) /\ dealloc # <<>>
    BY HeadFrame
  <2>. QED BY <2>1, ConsTail DEF Dead
<1>3. ASSUME NEW k \in Idents \cup {NULL} PROVE Frame(h.func, k) \in Frames /\ Frame(h.func, k).ident = k
  BY <1>1 DEF Frame, Frames
<1>. HIDE DEF h, tl
<1>4. StackWork(<<h>> \o tl) = StackWork(tl) + 2 + Ind(h.ident = NULL)
  BY <1>1, StackWorkPush
<1>5. StackWork(dealloc) = StackWork(tl) + 2 + Ind(h.ident = NULL)
  BY <1>2, <1>4
<1>6. ASSUME NEW k \in Idents \cup {NULL}
      PROVE  StackWork(<<Frame(h.func, k)>> \o tl) = StackWork(tl) + 2 + Ind(k = NULL)
  BY <1>1, <1>3, StackWorkPush
<1>. QED BY <1>1, <1>5, <1>6, StackWorkType DEF h, tl

\* An entry that is written.
LEMMA EntryWork ==
  ASSUME TypeOK, NEW m \in Maps, NEW n \in Idents, NEW b \in Bindings \cup {NULL},
         entry' = [entry EXCEPT ![m][n] = b]
  PROVE  Cardinality(Taken') = Cardinality(Taken) - Ind(entry[m][n] # NULL) + Ind(b # NULL)
<1>. DEFINE x == <<m, n>>
<1>1. x \in Slots /\ At(x) = entry[m][n]
  BY DEF Slots, At
<1>2. \A k \in Maps, i \in Idents : entry'[k][i] = IF k = m /\ i = n THEN b ELSE entry[k][i]
  BY DEF TypeOK
<1>3. \A s \in Slots : s # x => (s \in Taken <=> s \in Taken')
  <2>. SUFFICES ASSUME NEW s \in Slots, s # x PROVE At(s)' = At(s)
    BY DEF Taken
  <2>1. PICK k \in Maps, i \in Idents : s = <<k, i>>
    BY DEF Slots
  <2>. QED BY <1>2, <2>1 DEF At
<1>4. x \in Taken <=> entry[m][n] # NULL
  BY <1>1 DEF Taken
<1>5. x \in Taken' <=> b # NULL
  BY <1>1, <1>2 DEF Taken, At
<1>. HIDE DEF x
<1>6. Cardinality(Taken') = Cardinality(Taken) - Ind(x \in Taken) + Ind(x \in Taken')
  BY <1>3, TakenType, TakenTypePrime, OneSlot
<1>. QED BY <1>4, <1>5, <1>6

\* What an entry still counts for is alive.
LEMMA OwnedLives ==
  ASSUME CountInv, NEW s \in Slots, At(s) # NULL, ~Settled(s), Bound(At(s)) \in Funcs
  PROVE  count[Bound(At(s))] > 0
<1>. DEFINE f == Bound(At(s))
<1>1. f \in Objects /\ count[f] \in Int
  BY Disjointness DEF CountInv, TypeInv, TypeOK
<1>2. s \in Owners(f)
  BY DEF Owners
<1>. QED BY <1>1, <1>2, NoReference

LEMMA WorkTypes ==
  ASSUME TypeOK, TypeOK'
  PROVE  /\ Cardinality(Taken) \in Nat /\ Cardinality(Taken') \in Nat
         /\ Cardinality(Living(count)) \in Nat /\ Cardinality(Living(count')) \in Nat
         /\ StackWork(dealloc) \in Nat /\ StackWork(dealloc') \in Nat
         /\ Work = 4 * (Cardinality(Taken) + Cardinality(Living(count))) + StackWork(dealloc) + OpWork
         /\ Work' = 4 * (Cardinality(Taken') + Cardinality(Living(count'))) + StackWork(dealloc') + OpWork'
<1>1. dealloc \in Seq(Frames) /\ dealloc' \in Seq(Frames)
  BY DEF TypeOK
<1>2. StackWork(dealloc) \in Nat /\ StackWork(dealloc') \in Nat
  BY <1>1, StackWorkType
<1>3. Living(count)' = Living(count') /\ StackWork(dealloc)' = StackWork(dealloc')
  BY DEF Living, StackWork
<1>. QED BY <1>2, <1>3, TakenType, TakenTypePrime, LivingType DEF Work

LEMMA PopEntryWork ==
  ASSUME CarefulInv, TypeOK', NEW n \in Idents, PopEntry(n)
  PROVE  Work' < Work
<1>t. TypeOK /\ CountInv
  BY DEF CarefulInv, CountInv, TypeInv
<1>. DEFINE b == entry[op.scope][n]
            v == value[b]
            s == <<op.scope, n>>
<1>1. /\ Popping /\ op.binding = NULL /\ b # NULL
      /\ entry' = [entry EXCEPT ![op.scope][n] = NULL] /\ op' = PopOf(op.scope, b)
      /\ count' = Decrease(count, v, 1) /\ dealloc' = Opened(count, v, 1, dealloc)
  BY DEF PopEntry, Release
<1>2. op.kind = "pop" /\ dealloc = <<>> /\ op.scope \in Maps /\ s \in Slots /\ At(s) = b
  BY <1>t, <1>1, OpFields DEF Popping, Maps, Slots, At
<1>3. v \in Funcs => count[v] > 0
  <2>1. ~Settled(s) /\ Bound(b) = v
    BY <1>2 DEF Settled, Bound
  <2>. HIDE DEF b, v
  <2>. QED BY <1>t, <1>1, <1>2, <2>1, OwnedLives
<1>4. 4 * Cardinality(Living(count')) + StackWork(dealloc') <= 4 * Cardinality(Living(count)) + StackWork(dealloc)
  <2>1. count \in [Objects -> Int] /\ dealloc \in Seq(Frames)
    BY <1>t DEF TypeOK
  <2>. HIDE DEF v
  <2>. QED BY <1>1, <1>3, <2>1, ReleaseWork
<1>5. Cardinality(Taken') = Cardinality(Taken) - 1
  <2>1. Cardinality(Taken') = Cardinality(Taken) - Ind(b # NULL) + Ind(NULL # NULL)
    BY <1>t, <1>1, <1>2, EntryWork
  <2>2. Ind(b # NULL) = 1 /\ Ind(NULL # NULL) = 0
    BY <1>1 DEF Ind
  <2>. QED BY <2>1, <2>2, TakenType
<1>6. OpWork = 1 /\ OpWork' = 2
  BY <1>1, <1>2 DEF OpWork, PopOf
<1>. HIDE DEF b, v, s
<1>. QED BY <1>t, <1>4, <1>5, <1>6, WorkTypes

LEMMA PopRestWork ==
  ASSUME CarefulInv, TypeOK', PopBinding \/ PopDone \/ UpdateDone
  PROVE  Work' < Work
<1>t. TypeOK
  BY DEF CarefulInv, CountInv, TypeInv
<1>1. Taken' = Taken
  <2>1. entry' = entry
    BY DEF PopBinding, PopDone, UpdateDone
  <2>. QED BY <2>1 DEF Taken, At
<1>2. count' = count /\ dealloc' = dealloc
  BY DEF PopBinding, PopDone, UpdateDone
<1>3. OpWork' = OpWork - 1 /\ OpWork \in Nat
  <2>1. CASE PopBinding
    BY <2>1 DEF PopBinding, Popping, OpWork, PopOf
  <2>2. CASE PopDone
    BY <2>2 DEF PopDone, Popping, OpWork, Idle
  <2>3. CASE UpdateDone
    BY <2>3 DEF UpdateDone, OpWork, Idle
  <2>. QED BY <2>1, <2>2, <2>3
<1>. QED BY <1>t, <1>1, <1>2, <1>3, WorkTypes

LEMMA DeallocEntryWork ==
  ASSUME CarefulInv, TypeOK', NEW n \in Idents, DeallocEntry(n)
  PROVE  Work' < Work
<1>t. TypeOK /\ CountInv /\ StackInv
  BY DEF CarefulInv, CountInv, TypeInv
<1>. DEFINE b == entry[Dead.func][n]
            v == value[b]
            s == <<Dead.func, n>>
            st == <<Frame(Dead.func, n)>> \o Tail(dealloc)
<1>1. /\ Destroying /\ Dead.ident = NULL /\ b # NULL /\ ~Dying(v) /\ UNCHANGED <<entry, op>>
      /\ count' = Decrease(count, v, 1) /\ dealloc' = Opened(count, v, 1, st)
  BY DEF DeallocEntry, Release
<1>2. Dead.func \in Funcs /\ Dead.func \in Maps /\ s \in Slots /\ At(s) = b
  BY <1>t, <1>1, HeadFrame DEF Maps, Slots, At
<1>3. v \in Funcs => count[v] > 0
  <2>1. ~Settled(s)
    <3>1. ~(op.kind = "register" /\ s = <<Head(pool), op.ident>>)
      <4>1. op.kind = "register" => Head(pool) \in Scopes
        BY <1>t DEF TypeOK
      <4>. QED BY <1>2, <4>1, Disjointness
    <3>2. s \notin SettledBy(dealloc)
      <4>1. s # <<Dead.func, Dead.ident>>
        BY <1>1, Disjointness
      <4>2. Tail(dealloc) \in Seq(Frames) /\ Dead.func \notin FuncsOf(Tail(dealloc))
        BY <1>t, <1>1, HeadFrame DEF StackInv
      <4>3. s \notin SettledBy(Tail(dealloc))
        BY <4>2, SettledFuncs
      <4>. QED BY <1>t, <1>1, <4>1, <4>3, HeadFrame
    <3>. QED BY <1>2, <3>1, <3>2, SettledSlots
  <2>2. Bound(b) = v
    <3>1. SUFFICES ASSUME op.kind = "update" /\ op.binding = b PROVE FALSE
      BY DEF Bound
    <3>2. Outermost(dealloc) = v /\ dealloc \in Seq(Frames) /\ dealloc # <<>>
      BY <1>t, <1>1, <3>1, HeadFrame DEF StackInv
    <3>3. v \in FuncsOf(dealloc)
      BY <3>2, OutermostDies
    <3>. QED BY <1>1, <3>3, DyingFuncs
  <2>. HIDE DEF b, v, s
  <2>. QED BY <1>t, <1>1, <1>2, <2>1, <2>2, OwnedLives
<1>4. 4 * Cardinality(Living(count')) + StackWork(dealloc') <= 4 * Cardinality(Living(count)) + StackWork(st)
  <2>1. count \in [Objects -> Int] /\ st \in Seq(Frames)
    BY <1>t, <1>1, MoveHead DEF TypeOK
  <2>. HIDE DEF v, st
  <2>. QED BY <1>1, <1>3, <2>1, ReleaseWork
<1>5. StackWork(st) = StackWork(dealloc) - 1
  <2>1. StackWork(dealloc) = StackWork(Tail(dealloc)) + 2 + Ind(Dead.ident = NULL)
        /\ StackWork(st) = StackWork(Tail(dealloc)) + 2 + Ind(n = NULL) /\ StackWork(Tail(dealloc)) \in Nat
    BY <1>t, <1>1, DeadWork
  <2>2. Ind(Dead.ident = NULL) = 1 /\ Ind(n = NULL) = 0
    BY <1>1, Disjointness DEF Ind
  <2>. HIDE DEF st
  <2>. QED BY <2>1, <2>2
<1>6. OpWork \in Nat /\ OpWork' = OpWork /\ Taken' = Taken
  BY <1>1 DEF OpWork, Taken, At
<1>. HIDE DEF b, v, s, st
<1>. QED BY <1>t, <1>4, <1>5, <1>6, WorkTypes

\* An entry whose value has been released is still in its map.
Unfinished == \A s \in SettledBy(dealloc) : At(s) # NULL

LEMMA UnfinishedStep == TypeInv /\ StackInv /\ Unfinished /\ [Next]_vars => Unfinished'
<1>. SUFFICES ASSUME TypeInv, StackInv, Unfinished, [Next]_vars PROVE Unfinished'
  OBVIOUS
<1>t. TypeOK
  BY DEF TypeInv
<1>1. CASE dealloc = <<>>
  <2>1. dealloc' = dealloc \/ \E c, v, k : dealloc' = Opened(c, v, k, dealloc)
    BY <1>1, StackMoves DEF DeallocEntry, DeallocBinding, DeallocDone, Destroying
  <2>2. SettledBy(dealloc) = {} /\ dealloc \in Seq(Frames)
    BY <1>t, <1>1, NoFrames DEF TypeOK
  <2>3. SettledBy(dealloc') = {}
    BY <2>1, <2>2, OpenedStack
  <2>. QED BY <2>3 DEF Unfinished
<1>2. CASE dealloc # <<>>
  <2>1. ASSUME Destroying, UNCHANGED entry, SettledBy(dealloc') \subseteq SettledBy(Tail(dealloc)) \cup {<<Dead.func, n>> : n \in {k \in Idents : entry[Dead.func][k] # NULL}}
        PROVE  Unfinished'
    <3>1. ASSUME NEW s \in SettledBy(dealloc') PROVE At(s)' # NULL
      <4>1. At(s)' = At(s)
        BY <2>1 DEF At
      <4>2. CASE s \in SettledBy(Tail(dealloc))
        BY <1>t, <2>1, <4>1, <4>2, HeadFrame DEF Unfinished
      <4>3. CASE s \in {<<Dead.func, n>> : n \in {k \in Idents : entry[Dead.func][k] # NULL}}
        BY <4>1, <4>3 DEF At
      <4>. QED BY <2>1, <3>1, <4>2, <4>3
    <3>. QED BY <3>1 DEF Unfinished
  <2>2. CASE dealloc' = dealloc
    <3>1. entry' = entry
      <4>1. CASE UNCHANGED vars
        BY <4>1 DEF vars
      <4>2. CASE Call
        BY <1>2, <4>2 DEF Call, ObjCreate, FuncCreate, ObjRelease, TokenResolve, TokenPoolPush, FuncEnter,
          TokenPoolPop, TokenRegister, TokenUpdate, Ready
      <4>3. CASE Continue
        <5>1. ASSUME DeallocBinding PROVE FALSE
          <6>1. dealloc' = <<Frame(Dead.func, NULL)>> \o Tail(dealloc) /\ Dead.ident # NULL
            BY <5>1 DEF DeallocBinding
          <6>2. dealloc'[1].ident = NULL
            BY <6>1 DEF Frame
          <6>. QED BY <2>2, <6>1, <6>2 DEF Dead
        <5>. QED BY <1>2, <4>3, <5>1 DEF Continue, PopEntry, PopBinding, PopDone, Popping, RegisterAlias,
               RegisterFresh, Registering, RegisterNull, RegisterWild, UpdateDone, DeallocEntry, DeallocRunaway, DeallocDone
      <4>. QED BY <4>1, <4>2, <4>3 DEF Next
    <3>. QED BY <2>2, <3>1 DEF Unfinished, At
  <2>3. ASSUME NEW n \in Idents, DeallocEntry(n) PROVE Unfinished'
    <3>. DEFINE st == <<Frame(Dead.func, n)>> \o Tail(dealloc)
                v == value[entry[Dead.func][n]]
    <3>1. Destroying /\ entry[Dead.func][n] # NULL /\ dealloc' = Opened(count, v, 1, st) /\ entry' = entry
      BY <2>3 DEF DeallocEntry, Release
    <3>2. st \in Seq(Frames) /\ SettledBy(st) = SettledBy(Tail(dealloc)) \cup ({<<Dead.func, n>>} \cap Slots)
      BY <1>t, <3>1, MoveHead
    <3>. HIDE DEF st, v
    <3>3. SettledBy(dealloc') = SettledBy(st)
      BY <3>1, <3>2, OpenedStack
    <3>. QED BY <2>1, <3>1, <3>2, <3>3
  <2>4. ASSUME DeallocBinding PROVE Unfinished'
    <3>1. /\ Destroying /\ dealloc' = <<Frame(Dead.func, NULL)>> \o Tail(dealloc)
          /\ entry' = [entry EXCEPT ![Dead.func][Dead.ident] = NULL]
      BY <2>4 DEF DeallocBinding
    <3>2. /\ SettledBy(dealloc) = SettledBy(Tail(dealloc)) \cup ({<<Dead.func, Dead.ident>>} \cap Slots)
          /\ Tail(dealloc) \in Seq(Frames) /\ Dead.func \notin FuncsOf(Tail(dealloc)) /\ Dead.func \in Maps
      BY <1>t, <3>1, HeadFrame DEF StackInv, Maps
    <3>3. SettledBy(dealloc') = SettledBy(Tail(dealloc))
      <4>1. SettledBy(dealloc') = SettledBy(Tail(dealloc)) \cup ({<<Dead.func, NULL>>} \cap Slots)
        BY <1>t, <3>1, MoveHead
      <4>. QED BY <4>1, Disjointness DEF Slots
    <3>4. ASSUME NEW s \in SettledBy(Tail(dealloc)) PROVE At(s)' # NULL
      <4>1. PICK m \in Maps, n \in Idents : s = <<m, n>>
        BY DEF SettledBy, Slots
      <4>2. m # Dead.func
        BY <3>2, <4>1, SettledFuncs
      <4>3. entry'[m][n] = entry[m][n]
        BY <1>t, <3>1, <4>2 DEF TypeOK
      <4>4. At(s) # NULL
        BY <3>2 DEF Unfinished
      <4>. QED BY <4>1, <4>3, <4>4 DEF At
    <3>. QED BY <3>3, <3>4 DEF Unfinished
  <2>5. ASSUME DeallocDone PROVE Unfinished'
    <3>1. Destroying /\ dealloc' = Tail(dealloc) /\ entry' = entry
      BY <2>5 DEF DeallocDone
    <3>. QED BY <2>1, <3>1
  <2>. QED BY <1>2, <2>2, <2>3, <2>4, <2>5, StackMoves
<1>. QED BY <1>1, <1>2

LEMMA DeallocRestWork ==
  ASSUME CarefulInv, Unfinished, TypeOK', DeallocBinding \/ DeallocDone
  PROVE  Work' < Work
<1>t. TypeOK
  BY DEF CarefulInv, CountInv, TypeInv
<1>1. Destroying /\ UNCHANGED <<count, op>>
  BY DEF DeallocBinding, DeallocDone
<1>2. OpWork \in Nat /\ OpWork' = OpWork
  BY <1>1 DEF OpWork
<1>3. /\ StackWork(dealloc) = StackWork(Tail(dealloc)) + 2 + Ind(Dead.ident = NULL)
      /\ StackWork(<<Frame(Dead.func, NULL)>> \o Tail(dealloc)) = StackWork(Tail(dealloc)) + 2 + Ind(NULL = NULL)
      /\ StackWork(Tail(dealloc)) \in Nat
  BY <1>t, <1>1, DeadWork
<1>4. Ind(NULL = NULL) = 1 /\ Ind(Dead.ident = NULL) \in Nat
  BY DEF Ind
<1>5. CASE DeallocBinding
  <2>1. /\ dealloc' = <<Frame(Dead.func, NULL)>> \o Tail(dealloc)
        /\ entry' = [entry EXCEPT ![Dead.func][Dead.ident] = NULL] /\ Dead.ident # NULL
    BY <1>5 DEF DeallocBinding
  <2>2. Dead.func \in Maps /\ Dead.ident \in Idents
    BY <1>t, <1>1, <2>1, HeadFrame DEF Maps
  <2>3. entry[Dead.func][Dead.ident] # NULL
    <3>1. <<Dead.func, Dead.ident>> \in SettledBy(dealloc)
      BY <1>t, <1>1, <2>2, HeadFrame DEF Slots
    <3>. QED BY <3>1 DEF Unfinished, At
  <2>4. Cardinality(Taken') = Cardinality(Taken) - Ind(entry[Dead.func][Dead.ident] # NULL) + Ind(NULL # NULL)
    BY <1>t, <2>1, <2>2, EntryWork
  <2>5. Ind(entry[Dead.func][Dead.ident] # NULL) = 1 /\ Ind(NULL # NULL) = 0
    BY <2>3 DEF Ind
  <2>6. StackWork(dealloc') <= StackWork(dealloc) + 1
    BY <1>3, <1>4, <2>1
  <2>7. Cardinality(Taken') = Cardinality(Taken) - 1
    BY <2>4, <2>5, TakenType
  <2>. QED BY <1>t, <1>1, <1>2, <2>6, <2>7, WorkTypes
<1>6. CASE DeallocDone
  <2>1. dealloc' = Tail(dealloc) /\ Dead.ident = NULL /\ entry' = entry
    BY <1>6 DEF DeallocDone
  <2>2. Taken' = Taken
    BY <2>1 DEF Taken, At
  <2>. QED BY <1>t, <1>1, <1>2, <1>3, <1>4, <2>1, <2>2, WorkTypes
<1>. QED BY <1>5, <1>6

\* The variable that a token means holds no function that is dead.
LEMMA MeantLives ==
  ASSUME CarefulInv, Registering, Resolvable(op.obj), Aliased(op.obj) # NULL, value[Aliased(op.obj)] \in Funcs
  PROVE  count[value[Aliased(op.obj)]] > 0
<1>. DEFINE v == op.obj
            b == Aliased(v)
            k == IdentOf[v]
            r == <<Head(pool), op.ident>>
<1>t. TypeOK /\ BindingCount /\ CountInv
  BY DEF CarefulInv, CountInv, TypeInv
<1>1. op.kind = "register" /\ SettledBy(dealloc) = {} /\ k \in Idents
  BY NoFrames, ObjectsAssumption DEF Registering, Resolvable
<1>2. PICK s \in Slots : At(s) = b /\ s # r
  <2>1. CASE SelfAlias(v)
    <3>1. b = OldBinding /\ retain[b] > 1
      BY <1>1, <2>1 DEF SelfAlias, Aliased, CarefulInv, RegisterSafe
    <3>2. b \in Bindings /\ Unlinked(b) = 0
      <4>1. Head(pool) \in Maps /\ op.ident \in Idents
        BY <1>t, <1>1, OpFields DEF TypeOK
      <4>. QED BY <1>t, <1>1, <3>1, <4>1 DEF OldBinding, TypeOK, Unlinked
    <3>. HIDE DEF b, r
    <3>. QED BY <1>t, <3>1, <3>2, OtherUser
  <2>2. CASE ~SelfAlias(v)
    <3>1. k # op.ident /\ b = Lookup(k) /\ Lookup(k) # NULL
      BY <2>2 DEF SelfAlias, Aliased
    <3>2. PICK i \in DOMAIN pool : Lookup(k) = entry[pool[i]][k]
      BY <3>1 DEF Lookup, FirstHit, Hits
    <3>3. pool[i] \in Maps
      BY <1>t DEF TypeOK
    <3>4. <<pool[i], k>> \in Slots /\ At(<<pool[i], k>>) = b /\ <<pool[i], k>> # r
      BY <1>1, <3>1, <3>2, <3>3 DEF Slots, At
    <3>. QED BY <3>4
  <2>. QED BY <2>1, <2>2
<1>3. ~Settled(s) /\ Bound(b) = value[b]
  BY <1>1, <1>2, SettledSlots DEF Bound
<1>. HIDE DEF b
<1>4. Bound(At(s)) \in Funcs /\ At(s) # NULL
  BY <1>2, <1>3 DEF b, v
<1>5. count[Bound(At(s))] > 0
  BY <1>t, <1>3, <1>4, OwnedLives
<1>. QED BY <1>2, <1>3, <1>5 DEF b, v

LEMMA RegisterWork ==
  ASSUME CarefulInv, TypeOK', RegisterAlias \/ RegisterFresh
  PROVE  Work' < Work
<1>t. TypeOK
  BY DEF CarefulInv, CountInv, TypeInv
<1>. DEFINE v == op.obj
<1>1. Registering /\ op' = Idle
  BY DEF RegisterAlias, RegisterFresh
<1>2. OpWork = 5 /\ OpWork' = 0
  BY <1>1 DEF Registering, OpWork, Idle
<1>3. Cardinality(Taken') <= Cardinality(Taken) + 1
  <2>1. Head(pool) \in Maps /\ op.ident \in Idents
    BY <1>t, <1>1, OpFields DEF TypeOK, Registering
  <2>2. \E b \in Bindings \cup {NULL} : entry' = [entry EXCEPT ![Head(pool)][op.ident] = b]
    <3>1. CASE RegisterAlias
      <4>1. Resolvable(v) /\ entry' = [entry EXCEPT ![Head(pool)][op.ident] = Aliased(v)]
        BY <3>1 DEF RegisterAlias
      <4>2. IdentOf[v] \in Idents
        BY <4>1, ObjectsAssumption DEF Resolvable
      <4>3. Aliased(v) \in Bindings \cup {NULL}
        BY <1>t, <2>1, <4>2, LookupType DEF Aliased, OldBinding, TypeOK
      <4>. QED BY <4>1, <4>3
    <3>2. CASE RegisterFresh
      BY <3>2 DEF RegisterFresh
    <3>. QED BY <3>1, <3>2
  <2>3. PICK b \in Bindings \cup {NULL} : entry' = [entry EXCEPT ![Head(pool)][op.ident] = b]
    BY <2>2
  <2>4. Cardinality(Taken') = Cardinality(Taken) - Ind(entry[Head(pool)][op.ident] # NULL) + Ind(b # NULL)
    BY <1>t, <2>1, <2>3, EntryWork
  <2>5. Ind(entry[Head(pool)][op.ident] # NULL) \in 0 .. 1 /\ Ind(b # NULL) \in 0 .. 1
    BY DEF Ind
  <2>. QED BY <2>4, <2>5, TakenType
<1>4. Living(count') = Living(count) /\ dealloc' = dealloc
  <2>1. \A c \in [Objects -> Int] :
          v \in Tokens => /\ Opened(c, v, 1, dealloc) = dealloc
                          /\ \A f \in Funcs : Decrease(c, v, 1)[f] = c[f]
    <3>. SUFFICES ASSUME NEW c \in [Objects -> Int], v \in Tokens
                  PROVE  /\ Opened(c, v, 1, dealloc) = dealloc
                         /\ \A f \in Funcs : Decrease(c, v, 1)[f] = c[f]
      OBVIOUS
    <3>1. v \notin Funcs
      BY ObjectsAssumption
    <3>2. ASSUME NEW f \in Funcs PROVE Decrease(c, v, 1)[f] = c[f]
      <4>1. f \in Objects /\ v # f
        BY <3>1, Disjointness
      <4>. QED BY <4>1 DEF Decrease
    <3>. QED BY <3>1, <3>2 DEF Opened
  <2>2. count \in [Objects -> Int]
    BY <1>t DEF TypeOK
  <2>3. CASE RegisterAlias
    <3>. DEFINE w == value[Aliased(v)]
                c == Retain(count, w, 1)
    <3>1. /\ v \in Tokens /\ Resolvable(v) /\ Aliased(v) # NULL
          /\ count' = Decrease(c, v, 1) /\ dealloc' = Opened(c, v, 1, dealloc)
      BY <2>3 DEF RegisterAlias, Release, Resolvable
    <3>2. w \in Funcs => count[w] > 0
      BY <1>1, <3>1, MeantLives
    <3>. HIDE DEF w
    <3>3. c \in [Objects -> Int] /\ \A f \in Funcs : c[f] = count[f] + (IF w = f THEN 1 ELSE 0)
      BY <2>2, Disjointness DEF Retain
    <3>4. \A f \in Funcs : count[f] \in Int
      BY <2>2, Disjointness
    <3>. HIDE DEF c
    <3>5. dealloc' = dealloc /\ \A f \in Funcs : count'[f] = c[f]
      BY <2>1, <3>1, <3>3
    <3>6. \A f \in Funcs : count'[f] > 0 <=> count[f] > 0
      BY <3>2, <3>3, <3>4, <3>5
    <3>. QED BY <3>5, <3>6 DEF Living
  <2>4. CASE RegisterFresh
    <3>1. CASE IsUndefined(v)
      <4>1. v \in Tokens /\ count' = Decrease(count, v, 1) /\ dealloc' = Opened(count, v, 1, dealloc)
        BY <2>4, <3>1 DEF RegisterFresh, Release, IsUndefined
      <4>. QED BY <2>1, <2>2, <4>1 DEF Living
    <3>2. CASE ~IsUndefined(v)
      BY <2>4, <3>2 DEF RegisterFresh
    <3>. QED BY <3>1, <3>2
  <2>. QED BY <2>3, <2>4
<1>. QED BY <1>t, <1>2, <1>3, <1>4, WorkTypes

(* For a careful client each step of an operation leaves less work, so that  *)
(* every operation ends after at most as many steps as there is work when it *)
(* begins, whatever cascade of releases through closures it starts           *)
(* (sol.c:62-122, soltoken.c:20-134).                                        *)
THEOREM EveryStepWorks == CarefulSpec => WorkFalls
<1>. DEFINE I == CarefulInv /\ Unfinished
<1>1. Init => I
  <2>1. Init => dealloc = <<>>
    BY DEF Init
  <2>. QED BY <2>1, InitCareful, NoFrames DEF Unfinished
<1>2. I /\ [CarefulNext]_vars => I'
  <2>1. [CarefulNext]_vars => [Next]_vars
    BY DEF CarefulNext
  <2>. QED BY <2>1, CarefulStep, UnfinishedStep DEF CarefulInv, CountInv
<1>3. I /\ I' /\ [CarefulNext]_vars => [~Ready => Work' < Work]_vars
  <2>. SUFFICES ASSUME I, I', CarefulNext, ~Ready PROVE Work' < Work
    OBVIOUS
  <2>1. TypeOK' /\ fault' = "none"
    BY DEF CarefulInv, CountInv, TypeInv
  <2>2. Continue
    BY DEF CarefulNext, Next, Call, ObjCreate, FuncCreate, ObjRelease, TokenResolve, TokenPoolPush, FuncEnter,
      TokenPoolPop, TokenRegister, TokenUpdate
  <2>3. ASSUME RegisterNull \/ RegisterWild \/ \E n \in Idents : DeallocRunaway(n) PROVE FALSE
    BY <2>1, <2>3 DEF RegisterNull, RegisterWild, DeallocRunaway
  <2>. QED BY <2>1, <2>2, <2>3, PopEntryWork, PopRestWork, DeallocEntryWork, DeallocRestWork, RegisterWork DEF Continue
<1>. QED BY <1>1, <1>2, <1>3, PTL DEF CarefulSpec, WorkFalls
=============================================================================
