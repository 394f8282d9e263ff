--------------------------- MODULE SolListProofs ----------------------------
(***************************************************************************)
(* Proofs about SolList: lists that are built by adding and slicing, and   *)
(* freed, stay linked, own the references they should, and are sequences,  *)
(* for any lists, nodes, objects and bound on the length.                  *)
(***************************************************************************)
EXTENDS SolList, Integers, FiniteSets, FiniteSetTheorems, WellFoundedInduction, TLAPS

-----------------------------------------------------------------------------
(* Induction over the natural numbers, as facts about sets of numbers. *)

(* A set of numbers that has 0, and with a number the next, has them all:  *)
(* the form in which the proofs about walks, scopes and handlers use it.   *)
LEMMA SetInduction ==
  ASSUME NEW S, 0 \in S, \A n \in Nat : n \in S => n + 1 \in S
  PROVE  Nat \subseteq S
<1>. DEFINE R == OpToRel(<, Nat)
            T == Nat \ S
<1>1. SUFFICES ASSUME T # {} PROVE FALSE
  OBVIOUS
<1>2. IsWellFoundedOn(R, Nat)
  BY NatLessThanWellFounded
<1>3. R = {ss \in Nat \X Nat : ss[1] < ss[2]}
  BY DEF OpToRel
<1>. HIDE DEF R
<1>4. PICK x \in T : \A y \in T : ~(<<y, x>> \in R)
  BY <1>1, <1>2, WFMin
<1>5. x \in Nat /\ x # 0 /\ x - 1 \in Nat /\ (x - 1) + 1 = x
  BY <1>4
<1>6. <<x - 1, x>> \in R
  BY <1>3, <1>5
<1>7. x - 1 \in S
  BY <1>4, <1>5, <1>6
<1>. QED BY <1>4, <1>5, <1>7

(* A set of numbers that is not empty has a least one.                     *)
LEMMA Least ==
  ASSUME NEW S \in SUBSET Nat, S # {}
  PROVE  \E n \in S : \A m \in S : n <= m
<1>. DEFINE R == OpToRel(<, Nat)
<1>1. IsWellFoundedOn(R, Nat)
  BY NatLessThanWellFounded
<1>2. R = {ss \in Nat \X Nat : ss[1] < ss[2]}
  BY DEF OpToRel
<1>. HIDE DEF R
<1>3. PICK n \in S : \A m \in S : ~(<<m, n>> \in R)
  BY <1>1, WFMin
<1>4. ASSUME NEW m \in S PROVE n <= m
  <2>1. m \in Nat /\ n \in Nat
    OBVIOUS
  <2>2. ~(m < n)
    BY <1>2, <1>3, <2>1
  <2>. QED BY <2>1, <2>2
<1>. QED BY <1>4

-----------------------------------------------------------------------------
(* Walks.                                                                  *)

\* The nodes that a walk meets, at[0] to at[k].
Walked(at, nd, f, n, k) ==
  at = [i \in 0 .. k |-> IF i = 0 THEN n ELSE IF at[i-1] = NULL THEN NULL ELSE nd[at[i-1]][f]]

LEMMA WalkExists == \A nd, f, n : \A k \in Nat : \E at : Walked(at, nd, f, n, k)
<1>. SUFFICES ASSUME NEW nd, NEW f, NEW n PROVE \A k \in Nat : \E at : Walked(at, nd, f, n, k)
  OBVIOUS
<1>. DEFINE S == {k \in Nat : \E at : Walked(at, nd, f, n, k)}
<1>1. 0 \in S
  <2>1. Walked([i \in 0 .. 0 |-> n], nd, f, n, 0)
    BY DEF Walked
  <2>. QED BY <2>1
<1>2. ASSUME NEW k \in Nat, k \in S PROVE k + 1 \in S
  <2>1. PICK at : Walked(at, nd, f, n, k)
    BY <1>2
  <2>. DEFINE step == IF at[k] = NULL THEN NULL ELSE nd[at[k]][f]
              on == [i \in 0 .. k + 1 |-> IF i <= k THEN at[i] ELSE step]
              next == [i \in 0 .. k + 1 |->
                         IF i = 0 THEN n ELSE IF on[i-1] = NULL THEN NULL ELSE nd[on[i-1]][f]]
  <2>2. ASSUME NEW i \in 0 .. k + 1 PROVE on[i] = next[i]
    <3>1. CASE i = k + 1
      <4>1. on[i] = step /\ on[i-1] = at[k] /\ i # 0
        BY <3>1
      <4>. QED BY <4>1
    <3>2. CASE i # k + 1 /\ i # 0
      <4>1. i \in 0 .. k /\ i - 1 \in 0 .. k /\ i - 1 \in 0 .. k + 1
        BY <3>2
      <4>2. on[i] = at[i] /\ on[i-1] = at[i-1]
        BY <4>1
      <4>3. at[i] = IF at[i-1] = NULL THEN NULL ELSE nd[at[i-1]][f]
        BY <2>1, <3>2, <4>1 DEF Walked
      <4>. QED BY <3>2, <4>2, <4>3
    <3>3. CASE i = 0
      <4>1. at[0] = n
        BY <2>1 DEF Walked
      <4>. QED BY <3>3, <4>1
    <3>. QED BY <3>1, <3>2, <3>3
  <2>3. on = next
    <3>. HIDE DEF step
    <3>1. DOMAIN on = DOMAIN next /\ \A i \in DOMAIN on : on[i] = next[i]
      BY <2>2
    <3>. QED BY <3>1
  <2>4. Walked(on, nd, f, n, k + 1)
    <3>. HIDE DEF on
    <3>. QED BY <2>3 DEF Walked
  <2>. QED BY <2>4
<1>. HIDE DEF S
<1>3. Nat \subseteq S
  BY <1>1, <1>2, SetInduction
<1>. QED BY <1>3 DEF S

LEMMA WalkSteps ==
  ASSUME NEW nd, NEW f, NEW n, NEW k \in Nat
  PROVE  \E at : /\ Walk(nd, f, n, k) = at[k] /\ at[0] = n
                 /\ \A i \in 0 .. k : i > 0 =>
                      at[i] = IF at[i-1] = NULL THEN NULL ELSE nd[at[i-1]][f]
<1>. DEFINE at == CHOOSE a : a = [i \in 0 .. k |->
                     IF i = 0 THEN n ELSE IF a[i-1] = NULL THEN NULL ELSE nd[a[i-1]][f]]
<1>1. Walk(nd, f, n, k) = at[k]
  BY Zenon DEF Walk
<1>2. \E a : a = [i \in 0 .. k |-> IF i = 0 THEN n ELSE IF a[i-1] = NULL THEN NULL ELSE nd[a[i-1]][f]]
  <2>1. PICK a : Walked(a, nd, f, n, k)
    BY WalkExists
  <2>2. a = [i \in 0 .. k |-> IF i = 0 THEN n ELSE IF a[i-1] = NULL THEN NULL ELSE nd[a[i-1]][f]]
    BY <2>1 DEF Walked
  <2>. QED BY <2>2, Zenon
<1>3. at = [i \in 0 .. k |-> IF i = 0 THEN n ELSE IF at[i-1] = NULL THEN NULL ELSE nd[at[i-1]][f]]
  BY <1>2, Zenon
<1>. HIDE DEF at
<1>4. /\ at[0] = n
      /\ \A i \in 0 .. k : i > 0 => at[i] = IF at[i-1] = NULL THEN NULL ELSE nd[at[i-1]][f]
  BY <1>3
<1>. QED BY <1>1, <1>4

-----------------------------------------------------------------------------
(* The nodes of a list in their order.                                     *)

\* The list with header s consists of the nodes p, in the memory nd.
Path(s, nd, p) ==
  /\ s \in Headers /\ p \in Seq(Nodes) /\ Len(p) = s.length
  /\ s.first = IF Len(p) = 0 THEN NULL ELSE p[1]
  /\ s.last = IF Len(p) = 0 THEN NULL ELSE p[Len(p)]
  /\ \A i \in 1 .. Len(p) :
       /\ nd[p[i]] \in Links
       /\ nd[p[i]].next = IF i = Len(p) THEN NULL ELSE p[i+1]
       /\ nd[p[i]].prev = IF i = 1 THEN NULL ELSE p[i-1]

LEMMA PathFromFirst ==
  ASSUME NEW s, NEW nd, NEW p, Path(s, nd, p), NEW k \in Nat
  PROVE  Walk(nd, "next", s.first, k) = IF k < Len(p) THEN p[k+1] ELSE NULL
<1>1. PICK at : /\ Walk(nd, "next", s.first, k) = at[k] /\ at[0] = s.first
                /\ \A i \in 0 .. k : i > 0 =>
                     at[i] = IF at[i-1] = NULL THEN NULL ELSE nd[at[i-1]]["next"]
  BY WalkSteps
<1>. DEFINE At(i) == IF i < Len(p) THEN p[i+1] ELSE NULL
<1>2. PICK S : S = {i \in Nat : i <= k => at[i] = At(i)}
  OBVIOUS
<1>t. Len(p) \in Nat /\ \A i \in 1 .. Len(p) : p[i] \in Nodes /\ p[i] # NULL
  BY AddressesAssumption DEF Path
<1>3. 0 \in S
  BY <1>1, <1>2, <1>t DEF Path
<1>4. ASSUME NEW i \in Nat, i \in S PROVE i + 1 \in S
  <2>1. SUFFICES ASSUME i + 1 <= k PROVE at[i+1] = At(i+1)
    BY <1>2
  <2>2. at[i] = At(i)
    BY <1>2, <1>4, <2>1
  <2>3. at[i+1] = IF at[i] = NULL THEN NULL ELSE nd[at[i]]["next"]
    BY <1>1, <2>1
  <2>4. CASE i < Len(p)
    <3>1. i + 1 \in 1 .. Len(p) /\ at[i] = p[i+1] /\ p[i+1] # NULL
      BY <1>t, <2>2, <2>4
    <3>2. nd[p[i+1]].next = IF i + 1 = Len(p) THEN NULL ELSE p[(i+1)+1]
      BY <3>1 DEF Path
    <3>. QED BY <1>t, <2>3, <3>1, <3>2
  <2>5. CASE ~(i < Len(p))
    BY <1>t, <2>2, <2>3, <2>5
  <2>. QED BY <2>4, <2>5
<1>5. Nat \subseteq S
  BY <1>3, <1>4, SetInduction
<1>. QED BY <1>1, <1>2, <1>5

LEMMA PathFromLast ==
  ASSUME NEW s, NEW nd, NEW p, Path(s, nd, p), NEW k \in Nat
  PROVE  Walk(nd, "prev", s.last, k) = IF k < Len(p) THEN p[Len(p) - k] ELSE NULL
<1>1. PICK at : /\ Walk(nd, "prev", s.last, k) = at[k] /\ at[0] = s.last
                /\ \A i \in 0 .. k : i > 0 =>
                     at[i] = IF at[i-1] = NULL THEN NULL ELSE nd[at[i-1]]["prev"]
  BY WalkSteps
<1>. DEFINE At(i) == IF i < Len(p) THEN p[Len(p) - i] ELSE NULL
<1>2. PICK S : S = {i \in Nat : i <= k => at[i] = At(i)}
  OBVIOUS
<1>t. Len(p) \in Nat /\ \A i \in 1 .. Len(p) : p[i] \in Nodes /\ p[i] # NULL
  BY AddressesAssumption DEF Path
<1>3. 0 \in S
  BY <1>1, <1>2, <1>t DEF Path
<1>4. ASSUME NEW i \in Nat, i \in S PROVE i + 1 \in S
  <2>1. SUFFICES ASSUME i + 1 <= k PROVE at[i+1] = At(i+1)
    BY <1>2
  <2>2. at[i] = At(i)
    BY <1>2, <1>4, <2>1
  <2>3. at[i+1] = IF at[i] = NULL THEN NULL ELSE nd[at[i]]["prev"]
    BY <1>1, <2>1
  <2>4. CASE i < Len(p)
    <3>1. Len(p) - i \in 1 .. Len(p) /\ at[i] = p[Len(p) - i] /\ p[Len(p) - i] # NULL
      BY <1>t, <2>2, <2>4
    <3>2. nd[p[Len(p) - i]].prev = IF Len(p) - i = 1 THEN NULL ELSE p[(Len(p) - i) - 1]
      BY <3>1 DEF Path
    <3>. QED BY <1>t, <2>3, <3>1, <3>2
  <2>5. CASE ~(i < Len(p))
    BY <1>t, <2>2, <2>3, <2>5
  <2>. QED BY <2>4, <2>5
<1>5. Nat \subseteq S
  BY <1>3, <1>4, SetInduction
<1>. QED BY <1>1, <1>2, <1>5

\* P[l] are the nodes of list l: every allocated node is in one place of one list.
Threads(ls, nd, P) ==
  /\ ls \in [Lists -> {Free} \cup Headers] /\ nd \in [Nodes -> {Free} \cup Links]
  /\ P \in [Lists -> Seq(Nodes)]
  /\ \A l \in Lists : IF ls[l] = Free THEN Len(P[l]) = 0 ELSE Path(ls[l], nd, P[l])
  /\ \A l, m \in Lists : \A i \in 1 .. Len(P[l]), j \in 1 .. Len(P[m]) :
       P[l][i] = P[m][j] => l = m /\ i = j
  /\ \A n \in Nodes : nd[n] # Free => \E l \in Lists : \E i \in 1 .. Len(P[l]) : P[l][i] = n

\* What a list that consists of the nodes p holds.
Held(nd, p) == [i \in 1 .. Len(p) |-> nd[p[i]].value]

LEMMA PathEnds ==
  ASSUME NEW s, NEW nd, NEW p, Path(s, nd, p)
  PROVE  /\ Len(p) \in Nat /\ \A i \in 1 .. Len(p) : p[i] \in Nodes /\ p[i] # NULL
         /\ s.first = NULL <=> Len(p) = 0
         /\ s.last = NULL <=> Len(p) = 0
BY AddressesAssumption DEF Path

LEMMA NodesAllocated ==
  ASSUME NEW ls, NEW nd, NEW P, Threads(ls, nd, P), NEW l \in Lists
  PROVE  /\ Len(P[l]) \in Nat
         /\ \A i \in 1 .. Len(P[l]) : P[l][i] \in Nodes /\ nd[P[l][i]] \in Links /\ nd[P[l][i]] # Free
<1>1. P[l] \in Seq(Nodes)
  BY DEF Threads
<1>2. Free \notin Links
  BY FreeAssumption
<1>3. CASE ls[l] = Free
  BY <1>1, <1>3 DEF Threads
<1>4. CASE ls[l] # Free
  <2>1. Path(ls[l], nd, P[l])
    BY <1>4 DEF Threads
  <2>. QED BY <1>1, <1>2, <2>1 DEF Path
<1>. QED BY <1>3, <1>4

-----------------------------------------------------------------------------
(* One element is added.                                                   *)

\* r is heap h after node n with value v was linked to list l, whose header was s.
Added(h, s, l, n, v, r) ==
  /\ r.list = [h.list EXCEPT ![l] = [first |-> IF s.first = NULL THEN n ELSE s.first,
                                     last |-> n, length |-> s.length + 1]]
  /\ DOMAIN r.node = Nodes /\ r.node = [x \in Nodes |-> r.node[x]]
  /\ r.node[n] = [next |-> NULL, prev |-> s.last, value |-> v]
  /\ s.last # NULL => r.node[s.last] = [h.node[s.last] EXCEPT !.next = n]
  /\ \A x \in Nodes : x # n /\ x # s.last => r.node[x] = h.node[x]

LEMMA AddShape ==
  ASSUME NEW h, NEW p, NEW l \in Lists, NEW n \in Nodes, NEW v \in Values,
         h.list \in [Lists -> {Free} \cup Headers], h.node \in [Nodes -> {Free} \cup Links],
         Path(h.list[l], h.node, p), h.node[n] = Free,
         NEW s, s = h.list[l], NEW r, r = Add(h, l, n, v)
  PROVE  Added(h, s, l, n, v, r)
<1>. USE DEF Added
<1>. DEFINE new == [h.node EXCEPT ![n] = [next |-> NULL, prev |-> NULL, value |-> v]]
<1>1. Len(p) \in Nat /\ (s.first = NULL <=> Len(p) = 0) /\ (s.last = NULL <=> Len(p) = 0)
  BY PathEnds
<1>2. s.last # NULL => s.last \in Nodes /\ h.node[s.last] \in Links /\ s.last # n
  <2>1. SUFFICES ASSUME s.last # NULL PROVE s.last \in Nodes /\ h.node[s.last] \in Links /\ s.last # n
    OBVIOUS
  <2>2. s.last = p[Len(p)] /\ Len(p) \in 1 .. Len(p)
    BY <1>1, <2>1 DEF Path
  <2>3. Free \notin Links
    BY FreeAssumption
  <2>. QED BY <1>1, <2>2, <2>3 DEF Path
<1>3. new \in [Nodes -> {Free} \cup Links \cup {[next |-> NULL, prev |-> NULL, value |-> v]}]
  OBVIOUS
<1>4. CASE s.first = NULL
  <2>1. r = [list |-> [h.list EXCEPT ![l] = [first |-> n, last |-> n, length |-> s.length + 1]],
             node |-> new]
    BY <1>4 DEF Add
  <2>. QED BY <1>1, <1>3, <1>4, <2>1
<1>5. CASE s.first # NULL
  <2>1. s.last # NULL
    BY <1>1, <1>5
  <2>2. r = [list |-> [h.list EXCEPT ![l] = [first |-> s.first, last |-> n, length |-> s.length + 1]],
             node |-> Chained(new, s.last, n)]
    BY <1>5, <2>1 DEF Add
  <2>3. r.node = [new EXCEPT ![s.last].next = n, ![n].prev = s.last]
    <3>1. r.node = Chained(new, s.last, n)
      BY ONLY <2>2
    <3>. QED BY ONLY <3>1 DEF Chained
  <2>4. new[s.last] = h.node[s.last] /\ new[n] = [next |-> NULL, prev |-> NULL, value |-> v]
    BY <1>2, <2>1
  <2>5. DOMAIN new = Nodes /\ \A x \in Nodes : x # n => new[x] = h.node[x]
    OBVIOUS
  <2>. HIDE DEF new
  <2>6. DOMAIN r.node = Nodes /\ r.node = [x \in Nodes |-> r.node[x]]
    BY <2>3, <2>5
  <2>7. r.node[n] = [next |-> NULL, prev |-> s.last, value |-> v]
    <3>1. r.node[n] = [new[n] EXCEPT !.prev = s.last]
      BY <1>2, <2>1, <2>3, <2>5
    <3>. QED BY <2>4, <3>1
  <2>8. r.node[s.last] = [h.node[s.last] EXCEPT !.next = n]
    <3>1. s.last \in DOMAIN new /\ s.last # n
      BY <1>2, <2>1, <2>5
    <3>2. r.node[s.last] = [new[s.last] EXCEPT !.next = n]
      BY ONLY <2>3, <3>1
    <3>. QED BY <2>4, <3>2, Zenon
  <2>9. \A x \in Nodes : x # n /\ x # s.last => r.node[x] = h.node[x]
    BY <1>2, <2>1, <2>3, <2>5
  <2>. QED BY <1>5, <2>2, <2>6, <2>7, <2>8, <2>9, SMTT(30)
<1>. QED BY <1>4, <1>5

\* The same, where the lists consist of the nodes Q.
Threaded(h, l, n, v, r, Q) ==
  /\ Threads(r.list, r.node, Q)
  /\ r.node[n] # Free /\ r.node[n].value = v
  /\ \A x \in Nodes : x # n => /\ r.node[x] = Free <=> h.node[x] = Free
                               /\ r.node[x] # Free => r.node[x].value = h.node[x].value
  /\ r.list[l] # Free /\ r.list[l].length = h.list[l].length + 1
  /\ \A m \in Lists : m # l => r.list[m] = h.list[m]

LEMMA AddThreads ==
  ASSUME NEW h, NEW P, Threads(h.list, h.node, P), NEW l \in Lists, h.list[l] # Free,
         h.list[l].length < MaxLength, NEW n \in Nodes, h.node[n] = Free, NEW v \in Values,
         NEW r, r = Add(h, l, n, v)
  PROVE  Threaded(h, l, n, v, r, [P EXCEPT ![l] = Append(@, n)])
<1>p. PICK p, s, q, Q : p = P[l] /\ s = h.list[l] /\ q = Append(p, n) /\ Q = [P EXCEPT ![l] = q]
  OBVIOUS
<1>1. /\ h.list \in [Lists -> {Free} \cup Headers] /\ h.node \in [Nodes -> {Free} \cup Links]
      /\ P \in [Lists -> Seq(Nodes)] /\ Path(s, h.node, p)
  BY <1>p DEF Threads
<1>f. Free \notin Links /\ Free \notin Headers
  BY FreeAssumption
<1>n. NULL \notin Nodes
  BY AddressesAssumption
<1>2. /\ r.list = [h.list EXCEPT ![l] = [first |-> IF s.first = NULL THEN n ELSE s.first,
                                         last |-> n, length |-> s.length + 1]]
      /\ DOMAIN r.node = Nodes /\ r.node = [x \in Nodes |-> r.node[x]]
      /\ r.node[n] = [next |-> NULL, prev |-> s.last, value |-> v]
      /\ s.last # NULL => r.node[s.last] = [h.node[s.last] EXCEPT !.next = n]
      /\ \A x \in Nodes : x # n /\ x # s.last => r.node[x] = h.node[x]
  <2>1. Path(h.list[l], h.node, p)
    BY <1>1, <1>p
  <2>2. Added(h, h.list[l], l, n, v, Add(h, l, n, v))
    BY <1>1, <2>1, AddShape
  <2>. QED BY <1>p, <2>2 DEF Added
<1>3. /\ Len(p) \in Nat /\ \A i \in 1 .. Len(p) : p[i] \in Nodes /\ p[i] # NULL
      /\ (s.first = NULL <=> Len(p) = 0) /\ (s.last = NULL <=> Len(p) = 0)
      /\ Len(p) # 0 => s.last = p[Len(p)] /\ s.first = p[1]
      /\ Len(p) = s.length /\ s \in Headers
  <2>1. Len(p) \in Nat /\ (\A i \in 1 .. Len(p) : p[i] \in Nodes /\ p[i] # NULL)
        /\ (s.first = NULL <=> Len(p) = 0) /\ (s.last = NULL <=> Len(p) = 0)
    BY <1>1, PathEnds
  <2>2. /\ Len(p) # 0 => s.last = p[Len(p)] /\ s.first = p[1]
        /\ Len(p) = s.length /\ s \in Headers
    BY <1>1 DEF Path
  <2>. QED BY <2>1, <2>2
<1>4. /\ q \in Seq(Nodes) /\ Len(q) = Len(p) + 1 /\ q[Len(p)+1] = n
      /\ \A i \in 1 .. Len(p) : q[i] = p[i]
  <2>1. p \in Seq(Nodes)
    BY <1>1, <1>p
  <2>. QED BY <1>p, <1>3, <2>1
<1>5. \A m \in Lists : Len(P[m]) \in Nat
                       /\ \A i \in 1 .. Len(P[m]) : P[m][i] \in Nodes /\ h.node[P[m][i]] \in Links /\ P[m][i] # n
  BY <1>f, NodesAllocated
<1>6. /\ s.last # NULL => /\ s.last \in Nodes /\ s.last # n /\ h.node[s.last] \in Links
                          /\ r.node[s.last] \in Links /\ r.node[s.last].next = n
                          /\ r.node[s.last].prev = h.node[s.last].prev
                          /\ r.node[s.last].value = h.node[s.last].value
      /\ s.last \in Nodes \cup {NULL}
  <2>1. SUFFICES ASSUME s.last # NULL
                 PROVE  /\ s.last \in Nodes /\ s.last # n /\ h.node[s.last] \in Links
                        /\ r.node[s.last] \in Links /\ r.node[s.last].next = n
                        /\ r.node[s.last].prev = h.node[s.last].prev
                        /\ r.node[s.last].value = h.node[s.last].value
    OBVIOUS
  <2>2. s.last = p[Len(p)] /\ Len(p) \in 1 .. Len(p)
    BY <1>3, <2>1
  <2>3. s.last \in Nodes /\ s.last # n /\ h.node[s.last] \in Links
    BY <1>5, <1>p, <2>2
  <2>4. r.node[s.last] = [h.node[s.last] EXCEPT !.next = n]
    BY <1>2, <2>1
  <2>. QED BY <2>3, <2>4 DEF Links
<1>7. r.node[n] \in Links /\ r.node[n].next = NULL /\ r.node[n].prev = s.last /\ r.node[n].value = v
  BY <1>2, <1>6 DEF Links
<1>8. r.node \in [Nodes -> {Free} \cup Links]
  <2>1. ASSUME NEW x \in Nodes PROVE r.node[x] \in {Free} \cup Links
    <3>1. CASE x = n
      BY <1>7, <3>1
    <3>2. CASE x # n /\ x = s.last
      <4>1. s.last # NULL
        BY <1>n, <3>2
      <4>. QED BY <1>6, <3>2, <4>1
    <3>3. CASE x # n /\ x # s.last
      <4>1. r.node[x] = h.node[x] /\ h.node[x] \in {Free} \cup Links
        BY <1>1, <1>2, <3>3
      <4>. QED BY <4>1
    <3>. QED BY <3>1, <3>2, <3>3
  <2>. QED BY <1>2, <2>1
<1>9. /\ DOMAIN r.list = Lists /\ \A m \in Lists : m # l => r.list[m] = h.list[m]
      /\ r.list[l] = [first |-> IF s.first = NULL THEN n ELSE s.first, last |-> n, length |-> s.length + 1]
      /\ r.list[l] \in Headers /\ r.list \in [Lists -> {Free} \cup Headers]
  <2>1. /\ DOMAIN r.list = Lists /\ \A m \in Lists : m # l => r.list[m] = h.list[m]
        /\ r.list[l] = [first |-> IF s.first = NULL THEN n ELSE s.first, last |-> n, length |-> s.length + 1]
        /\ r.list = [m \in Lists |-> r.list[m]]
    BY <1>1, <1>2
  <2>2. s.length + 1 \in 0 .. MaxLength /\ s.first \in Nodes \cup {NULL}
    BY <1>3, <1>p, MaxLengthAssumption DEF Headers
  <2>3. r.list[l] \in Headers
    BY <2>1, <2>2 DEF Headers
  <2>4. \A m \in Lists : r.list[m] \in {Free} \cup Headers
    BY <1>1, <2>1, <2>3
  <2>. QED BY <2>1, <2>3, <2>4
<1>10. Path(r.list[l], r.node, q)
  <2>1. ASSUME NEW i \in 1 .. Len(q)
        PROVE  /\ r.node[q[i]] \in Links
               /\ r.node[q[i]].next = IF i = Len(q) THEN NULL ELSE q[i+1]
               /\ r.node[q[i]].prev = IF i = 1 THEN NULL ELSE q[i-1]
    <3>1. CASE i = Len(p) + 1
      <4>1. q[i] = n /\ i = Len(q)
        BY <1>4, <3>1
      <4>2. s.last = IF i = 1 THEN NULL ELSE q[i-1]
        <5>1. CASE Len(p) = 0
          BY <1>3, <3>1, <5>1
        <5>2. CASE Len(p) # 0
          <6>1. i - 1 = Len(p) /\ i # 1 /\ q[Len(p)] = p[Len(p)]
            BY <1>3, <1>4, <3>1, <5>2
          <6>. QED BY <1>3, <5>2, <6>1
        <5>. QED BY <5>1, <5>2
      <4>. QED BY <1>7, <4>1, <4>2
    <3>2. CASE i # Len(p) + 1
      <4>1. i \in 1 .. Len(p) /\ q[i] = p[i] /\ q[i] \in Nodes /\ q[i] # n /\ i # Len(q)
        BY <1>3, <1>4, <1>5, <1>p, <3>2
      <4>2. /\ h.node[p[i]] \in Links
            /\ h.node[p[i]].next = IF i = Len(p) THEN NULL ELSE p[i+1]
            /\ h.node[p[i]].prev = IF i = 1 THEN NULL ELSE p[i-1]
        BY <1>1, <4>1 DEF Path
      <4>3. i # 1 => q[i-1] = p[i-1]
        BY <1>3, <1>4, <4>1
      <4>4. CASE i = Len(p)
        <5>1. q[i] = s.last /\ s.last # NULL /\ q[i+1] = n
          BY <1>3, <1>4, <4>1, <4>4
        <5>. QED BY <1>6, <4>1, <4>2, <4>3, <5>1
      <4>5. CASE i # Len(p)
        <5>1. q[i+1] = p[i+1]
          BY <1>3, <1>4, <4>1, <4>5
        <5>2. q[i] # s.last
          <6>1. s.last = p[Len(p)] /\ Len(p) \in 1 .. Len(p)
            BY <1>3, <4>1
          <6>2. p[i] # p[Len(p)]
            BY <1>p, <4>1, <4>5, <6>1, SMTT(30) DEF Threads
          <6>. QED BY <4>1, <6>1, <6>2
        <5>3. r.node[q[i]] = h.node[p[i]]
          BY <1>2, <4>1, <5>2
        <5>. QED BY <4>1, <4>2, <4>3, <4>5, <5>1, <5>3
      <4>. QED BY <4>4, <4>5
    <3>. QED BY <3>1, <3>2
  <2>2. Len(q) # 0 /\ Len(q) = r.list[l].length
    BY <1>3, <1>4, <1>9
  <2>3. r.list[l].first = q[1] /\ r.list[l].last = q[Len(q)]
    BY <1>3, <1>4, <1>9
  <2>. QED BY <1>4, <1>9, <2>1, <2>2, <2>3 DEF Path
<1>11. Q[l] = q /\ (\A m \in Lists : m # l => Q[m] = P[m]) /\ Q \in [Lists -> Seq(Nodes)]
  BY <1>1, <1>4, <1>p
<1>12. ASSUME NEW m \in Lists PROVE IF r.list[m] = Free THEN Len(Q[m]) = 0 ELSE Path(r.list[m], r.node, Q[m])
  <2>1. CASE m = l
    BY <1>f, <1>9, <1>10, <1>11, <2>1
  <2>2. CASE m # l
    <3>1. r.list[m] = h.list[m] /\ Q[m] = P[m]
      BY <1>9, <1>11, <2>2
    <3>2. CASE h.list[m] = Free
      BY <3>1, <3>2 DEF Threads
    <3>3. CASE h.list[m] # Free
      <4>1. Path(h.list[m], h.node, P[m])
        BY <3>3 DEF Threads
      <4>2. ASSUME NEW i \in 1 .. Len(P[m]) PROVE r.node[P[m][i]] = h.node[P[m][i]]
        <5>1. P[m][i] \in Nodes /\ P[m][i] # n
          BY <1>5
        <5>2. P[m][i] # s.last
          <6>1. SUFFICES ASSUME P[m][i] = s.last PROVE FALSE
            OBVIOUS
          <6>2. s.last # NULL
            BY <1>n, <5>1, <6>1
          <6>3. s.last = P[l][Len(p)] /\ Len(p) \in 1 .. Len(P[l])
            BY <1>3, <1>p, <6>2
          <6>. QED BY <2>2, <6>1, <6>3 DEF Threads
        <5>. QED BY <1>2, <5>1, <5>2
      <4>. QED BY <3>1, <3>3, <4>1, <4>2 DEF Path
    <3>. QED BY <3>2, <3>3
  <2>. QED BY <2>1, <2>2
<1>13. ASSUME NEW m1 \in Lists, NEW m2 \in Lists, NEW i \in 1 .. Len(Q[m1]), NEW j \in 1 .. Len(Q[m2]),
              Q[m1][i] = Q[m2][j]
       PROVE  m1 = m2 /\ i = j
  <2>1. ASSUME NEW m \in Lists, NEW k \in 1 .. Len(Q[m])
        PROVE  \/ m = l /\ k = Len(p) + 1 /\ Q[m][k] = n
               \/ k \in 1 .. Len(P[m]) /\ Q[m][k] = P[m][k] /\ Q[m][k] # n
    <3>1. CASE m = l
      <4>1. k \in 1 .. Len(p) + 1 /\ Q[m] = q
        BY <1>4, <1>11, <2>1, <3>1
      <4>. QED BY <1>3, <1>4, <1>5, <1>p, <3>1, <4>1
    <3>2. CASE m # l
      <4>1. Q[m] = P[m]
        BY <1>11, <3>2
      <4>. QED BY <1>5, <2>1, <4>1
    <3>. QED BY <3>1, <3>2
  <2>2. CASE Q[m1][i] = n
    BY <1>13, <2>1, <2>2, ZenonT(30)
  <2>3. CASE Q[m1][i] # n
    <3>1. i \in 1 .. Len(P[m1]) /\ j \in 1 .. Len(P[m2]) /\ P[m1][i] = P[m2][j]
      BY <1>13, <2>1, <2>3
    <3>. QED BY <3>1 DEF Threads
  <2>. QED BY <2>2, <2>3
<1>16. ASSUME NEW x \in Nodes, x # n
       PROVE  /\ r.node[x] = Free <=> h.node[x] = Free
              /\ r.node[x] # Free => r.node[x].value = h.node[x].value
  <2>1. CASE x = s.last
    <3>1. s.last # NULL
      BY <1>n, <2>1
    <3>. QED BY <1>6, <1>f, <2>1, <3>1
  <2>2. CASE x # s.last
    BY <1>2, <1>16, <2>2
  <2>. QED BY <2>1, <2>2
<1>14. ASSUME NEW x \in Nodes, r.node[x] # Free PROVE \E m \in Lists : \E i \in 1 .. Len(Q[m]) : Q[m][i] = x
  <2>1. CASE x = n
    <3>1. Len(p) + 1 \in 1 .. Len(Q[l]) /\ Q[l][Len(p)+1] = x
      BY <1>3, <1>4, <1>11, <2>1
    <3>. QED BY <3>1
  <2>2. CASE x # n
    <3>1. h.node[x] # Free
      BY <1>14, <1>16, <2>2
    <3>2. PICK m \in Lists : \E i \in 1 .. Len(P[m]) : P[m][i] = x
      BY <3>1 DEF Threads
    <3>3. PICK i \in 1 .. Len(P[m]) : P[m][i] = x
      BY <3>2
    <3>4. i \in 1 .. Len(Q[m]) /\ Q[m][i] = x
      BY <1>3, <1>4, <1>11, <1>p, <3>3
    <3>. QED BY <3>4
  <2>. QED BY <2>1, <2>2
<1>15. Threads(r.list, r.node, Q)
  BY <1>8, <1>9, <1>11, <1>12, <1>13, <1>14 DEF Threads
<1>17. r.node[n] # Free /\ r.list[l] # Free
  BY <1>7, <1>9, <1>f
<1>. QED BY <1>p, <1>7, <1>9, <1>15, <1>16, <1>17 DEF Threaded

-----------------------------------------------------------------------------
(* Several elements are added.                                             *)

\* grown are the heaps that adding the first of vs in the nodes ns passes through.
Growing(grown, h, l, ns, vs, k) ==
  grown = [i \in 0 .. k |-> IF i = 0 THEN h ELSE Add(grown[i-1], l, ns[i], vs[i])]

LEMMA GrowingExists == \A h, l, ns, vs : \A k \in Nat : \E grown : Growing(grown, h, l, ns, vs, k)
<1>. SUFFICES ASSUME NEW h, NEW l, NEW ns, NEW vs
              PROVE  \A k \in Nat : \E grown : Growing(grown, h, l, ns, vs, k)
  OBVIOUS
<1>. DEFINE S == {k \in Nat : \E grown : Growing(grown, h, l, ns, vs, k)}
<1>1. 0 \in S
  <2>1. Growing([i \in 0 .. 0 |-> h], h, l, ns, vs, 0)
    BY DEF Growing
  <2>. QED BY <2>1
<1>2. ASSUME NEW k \in Nat, k \in S PROVE k + 1 \in S
  <2>1. PICK g : Growing(g, h, l, ns, vs, k)
    BY <1>2
  <2>. DEFINE step == Add(g[k], l, ns[k+1], vs[k+1])
              on == [i \in 0 .. k + 1 |-> IF i <= k THEN g[i] ELSE step]
              next == [i \in 0 .. k + 1 |-> IF i = 0 THEN h ELSE Add(on[i-1], l, ns[i], vs[i])]
  <2>2. ASSUME NEW i \in 0 .. k + 1 PROVE on[i] = next[i]
    <3>1. CASE i = k + 1
      <4>1. on[i] = step /\ on[i-1] = g[k] /\ i # 0
        BY <3>1
      <4>. QED BY <3>1, <4>1
    <3>2. CASE i # k + 1 /\ i # 0
      <4>1. i \in 0 .. k /\ i - 1 \in 0 .. k /\ i - 1 \in 0 .. k + 1
        BY <3>2
      <4>2. on[i] = g[i] /\ on[i-1] = g[i-1]
        BY <4>1
      <4>3. g[i] = Add(g[i-1], l, ns[i], vs[i])
        BY <2>1, <3>2, <4>1 DEF Growing
      <4>. QED BY <3>2, <4>2, <4>3
    <3>3. CASE i = 0
      <4>1. g[0] = h
        BY <2>1 DEF Growing
      <4>. QED BY <3>3, <4>1
    <3>. QED BY <3>1, <3>2, <3>3
  <2>3. on = next
    <3>. HIDE DEF step
    <3>1. DOMAIN on = DOMAIN next /\ \A i \in DOMAIN on : on[i] = next[i]
      BY <2>2
    <3>. QED BY <3>1
  <2>4. Growing(on, h, l, ns, vs, k + 1)
    <3>. HIDE DEF on
    <3>. QED BY <2>3 DEF Growing
  <2>. QED BY <2>4
<1>. HIDE DEF S
<1>3. Nat \subseteq S
  BY <1>1, <1>2, SetInduction
<1>. QED BY <1>3 DEF S

\* g is h after the first k of vs, in the nodes ns, were added to l.
Grows(h, P, g, Q, l, ns, vs, k) ==
  /\ Threads(g.list, g.node, Q)
  /\ \A m \in Lists : m # l => Q[m] = P[m] /\ g.list[m] = h.list[m]
  /\ g.list[l] # Free /\ g.list[l].length = h.list[l].length + k
  /\ Len(Q[l]) = Len(P[l]) + k
  /\ \A i \in 1 .. Len(P[l]) : Q[l][i] = P[l][i]
  /\ \A i \in 1 .. k : Q[l][Len(P[l]) + i] = ns[i]
  /\ \A i \in 1 .. k : g.node[ns[i]] # Free /\ g.node[ns[i]].value = vs[i]
  /\ \A x \in Nodes : (\A i \in 1 .. k : x # ns[i]) =>
       /\ g.node[x] = Free <=> h.node[x] = Free
       /\ g.node[x] # Free => g.node[x].value = h.node[x].value

\* Different nodes for n elements, none of them allocated in the memory nd.
Fresh(ns, nd, n) ==
  /\ ns \in [1 .. n -> {x \in Nodes : nd[x] = Free}]
  /\ \A i, j \in 1 .. n : i # j => ns[i] # ns[j]

LEMMA GrowsOne ==
  ASSUME NEW h, NEW P, NEW g, NEW Q, NEW l \in Lists, NEW ns, NEW vs \in Seq(Values), NEW k \in Nat,
         Threads(h.list, h.node, P), h.list[l] # Free, h.list[l].length + Len(vs) <= MaxLength,
         Fresh(ns, h.node, Len(vs)), k + 1 <= Len(vs), Grows(h, P, g, Q, l, ns, vs, k)
  PROVE  Grows(h, P, Add(g, l, ns[k+1], vs[k+1]), [Q EXCEPT ![l] = Append(@, ns[k+1])], l, ns, vs, k + 1)
<1>1. PICK n, v, r, Q2 : /\ n = ns[k+1] /\ v = vs[k+1] /\ r = Add(g, l, n, v)
                         /\ Q2 = [Q EXCEPT ![l] = Append(@, n)]
  OBVIOUS
<1>2. k + 1 \in 1 .. Len(vs) /\ n \in Nodes /\ h.node[n] = Free /\ v \in Values
      /\ \A i \in 1 .. k : ns[i] # n
  BY <1>1 DEF Fresh
<1>3. Threads(g.list, g.node, Q) /\ g.list[l] # Free /\ g.node[n] = Free
  BY <1>2 DEF Grows
<1>4. g.list[l].length = h.list[l].length + k /\ h.list[l].length \in Nat /\ MaxLength \in Nat
  <2>1. h.list[l] \in Headers
    BY DEF Threads
  <2>. QED BY <2>1, MaxLengthAssumption DEF Headers, Grows
<1>5. g.list[l].length < MaxLength
  BY <1>2, <1>4
<1>6. /\ Threads(r.list, r.node, Q2)
      /\ r.node[n] # Free /\ r.node[n].value = v
      /\ \A x \in Nodes : x # n => /\ r.node[x] = Free <=> g.node[x] = Free
                                   /\ r.node[x] # Free => r.node[x].value = g.node[x].value
      /\ r.list[l] # Free /\ r.list[l].length = g.list[l].length + 1
      /\ \A m \in Lists : m # l => r.list[m] = g.list[m]
  <2>1. Threaded(g, l, n, v, Add(g, l, n, v), [Q EXCEPT ![l] = Append(@, n)])
    BY <1>2, <1>3, <1>5, AddThreads
  <2>. QED BY <1>1, <2>1 DEF Threaded
<1>7. Q \in [Lists -> Seq(Nodes)] /\ P[l] \in Seq(Nodes) /\ Len(P[l]) \in Nat
  BY <1>3 DEF Threads
<1>8. /\ \A m \in Lists : m # l => Q2[m] = Q[m]
      /\ Len(Q2[l]) = Len(Q[l]) + 1 /\ Q2[l][Len(Q[l])+1] = n
      /\ \A i \in 1 .. Len(Q[l]) : Q2[l][i] = Q[l][i]
  BY <1>1, <1>2, <1>7
<1>9. /\ Len(Q[l]) = Len(P[l]) + k
      /\ \A i \in 1 .. Len(P[l]) : Q[l][i] = P[l][i]
      /\ \A i \in 1 .. k : Q[l][Len(P[l]) + i] = ns[i]
  BY DEF Grows
<1>10. \A i \in 1 .. k + 1 : i \in 1 .. k \/ i = k + 1
  OBVIOUS
<1>11. \A i \in 1 .. k + 1 : Q2[l][Len(P[l]) + i] = ns[i]
  <2>1. ASSUME NEW i \in 1 .. k PROVE Q2[l][Len(P[l]) + i] = ns[i]
    <3>1. Len(P[l]) + i \in 1 .. Len(Q[l])
      BY <1>7, <1>9
    <3>. QED BY <1>8, <1>9, <3>1
  <2>2. Q2[l][Len(P[l]) + (k + 1)] = ns[k+1]
    <3>1. Len(P[l]) + (k + 1) = Len(Q[l]) + 1
      <4>1. \A c \in Nat : c + (k + 1) = (c + k) + 1
        OBVIOUS
      <4>. QED BY <1>7, <1>9, <4>1
    <3>. QED BY <1>1, <1>8, <3>1
  <2>. QED BY <1>10, <2>1, <2>2
<1>12. \A i \in 1 .. Len(P[l]) : Q2[l][i] = P[l][i]
  <2>1. ASSUME NEW i \in 1 .. Len(P[l]) PROVE i \in 1 .. Len(Q[l])
    BY <1>7, <1>9
  <2>. QED BY <1>8, <1>9, <2>1
<1>13. ASSUME NEW i \in 1 .. k + 1 PROVE r.node[ns[i]] # Free /\ r.node[ns[i]].value = vs[i]
  <2>1. CASE i = k + 1
    BY <1>1, <1>6, <2>1
  <2>2. CASE i \in 1 .. k
    <3>1. i \in 1 .. Len(vs) /\ ns[i] \in Nodes /\ ns[i] # n
      BY <1>2, <2>2 DEF Fresh
    <3>2. g.node[ns[i]] # Free /\ g.node[ns[i]].value = vs[i]
      BY <2>2 DEF Grows
    <3>. QED BY <1>6, <3>1, <3>2
  <2>. QED BY <1>10, <2>1, <2>2
<1>14. ASSUME NEW x \in Nodes, \A i \in 1 .. k + 1 : x # ns[i]
       PROVE  /\ r.node[x] = Free <=> h.node[x] = Free
              /\ r.node[x] # Free => r.node[x].value = h.node[x].value
  <2>1. x # n /\ \A i \in 1 .. k : x # ns[i]
    BY <1>1, <1>14
  <2>. QED BY <1>6, <2>1 DEF Grows
<1>15. /\ Len(Q2[l]) = Len(P[l]) + (k + 1)
       /\ r.list[l].length = h.list[l].length + (k + 1)
  <2>1. \A c \in Nat : (c + k) + 1 = c + (k + 1)
    OBVIOUS
  <2>2. Len(Q2[l]) = (Len(P[l]) + k) + 1 /\ r.list[l].length = (h.list[l].length + k) + 1
    BY <1>4, <1>6, <1>8, <1>9
  <2>. QED BY <1>4, <1>7, <2>1, <2>2
<1>16. \A m \in Lists : m # l => Q2[m] = P[m] /\ r.list[m] = h.list[m]
  BY <1>6, <1>8 DEF Grows
<1>17. Grows(h, P, r, Q2, l, ns, vs, k + 1)
  BY <1>6, <1>11, <1>12, <1>13, <1>14, <1>15, <1>16 DEF Grows
<1>. QED BY <1>1, <1>17

LEMMA AddAllGrows ==
  ASSUME NEW h, NEW P, NEW l \in Lists, NEW vs \in Seq(Values),
         Threads(h.list, h.node, P), h.node = node, h.list[l] # Free,
         h.list[l].length + Len(vs) <= MaxLength, AddAll(h, l, vs)
  PROVE  \E ns, Q, g : /\ Fresh(ns, node, Len(vs)) /\ Grows(h, P, g, Q, l, ns, vs, Len(vs))
                       /\ list' = g.list /\ node' = g.node
<1>. DEFINE all(ns) == CHOOSE a : a = [k \in 0 .. Len(vs) |-> IF k = 0 THEN h ELSE Add(a[k-1], l, ns[k], vs[k])]
<1>1. PICK ns \in [DOMAIN vs -> Unused] :
        /\ \A i, j \in DOMAIN vs : i # j => ns[i] # ns[j]
        /\ list' = all(ns)[Len(vs)].list /\ node' = all(ns)[Len(vs)].node
  BY Zenon DEF AddAll
<1>2. PICK a : a = all(ns)
  OBVIOUS
<1>3. a = [k \in 0 .. Len(vs) |-> IF k = 0 THEN h ELSE Add(a[k-1], l, ns[k], vs[k])]
  <2>1. PICK b : Growing(b, h, l, ns, vs, Len(vs))
    <3>1. Len(vs) \in Nat
      OBVIOUS
    <3>. QED BY <3>1, GrowingExists
  <2>2. b = [k \in 0 .. Len(vs) |-> IF k = 0 THEN h ELSE Add(b[k-1], l, ns[k], vs[k])]
    BY <2>1 DEF Growing
  <2>. QED BY <1>2, <2>2, Zenon
<1>. HIDE DEF all
<1>4. Len(vs) \in Nat /\ DOMAIN vs = 1 .. Len(vs)
  OBVIOUS
<1>5. Fresh(ns, node, Len(vs))
  BY <1>1, <1>4 DEF Fresh, Unused
<1>6. a[0] = h /\ \A k \in 0 .. Len(vs) : k > 0 => a[k] = Add(a[k-1], l, ns[k], vs[k])
  BY <1>3, <1>4
<1>7. PICK S : S = {k \in Nat : k <= Len(vs) => \E Q : Grows(h, P, a[k], Q, l, ns, vs, k)}
  OBVIOUS
<1>8. 0 \in S
  <2>1. h.list[l] \in Headers /\ P[l] \in Seq(Nodes)
    BY DEF Threads
  <2>2. h.list[l].length \in Nat /\ Len(P[l]) \in Nat
    BY <2>1, MaxLengthAssumption DEF Headers
  <2>3. Grows(h, P, h, P, l, ns, vs, 0)
    BY <2>2 DEF Grows
  <2>. QED BY <1>6, <1>7, <2>3
<1>9. ASSUME NEW k \in Nat, k \in S PROVE k + 1 \in S
  <2>1. SUFFICES ASSUME k + 1 <= Len(vs) PROVE \E Q : Grows(h, P, a[k+1], Q, l, ns, vs, k + 1)
    BY <1>7
  <2>2. PICK Q : Grows(h, P, a[k], Q, l, ns, vs, k)
    BY <1>4, <1>7, <1>9, <2>1
  <2>3. a[k+1] = Add(a[k], l, ns[k+1], vs[k+1])
    BY <1>4, <1>6, <2>1
  <2>4. Grows(h, P, Add(a[k], l, ns[k+1], vs[k+1]), [Q EXCEPT ![l] = Append(@, ns[k+1])], l, ns, vs, k + 1)
    BY <1>5, <2>1, <2>2, GrowsOne
  <2>. QED BY <2>3, <2>4
<1>10. Nat \subseteq S
  BY <1>8, <1>9, SetInduction
<1>11. PICK Q : Grows(h, P, a[Len(vs)], Q, l, ns, vs, Len(vs))
  BY <1>4, <1>7, <1>10
<1>. QED BY <1>1, <1>2, <1>5, <1>11

-----------------------------------------------------------------------------
(* Cardinalities.                                                          *)

LEMMA ImageCount ==
  ASSUME NEW I, IsFiniteSet(I), NEW f, \A i, j \in I : f[i] = f[j] => i = j
  PROVE  /\ IsFiniteSet({f[i] : i \in I})
         /\ Cardinality({f[i] : i \in I}) = Cardinality(I)
<1>. DEFINE T == {f[i] : i \in I}
            g == [i \in I |-> f[i]]
<1>1. g \in Bijection(I, T)
  BY DEF Bijection, Injection, Surjection, IsInjective
<1>2. ExistsBijection(I, T)
  BY <1>1 DEF ExistsBijection
<1>. HIDE DEF T
<1>3. IsFiniteSet(T) /\ Cardinality(T) = Cardinality(I)
  BY <1>2, FS_Bijection
<1>. QED BY <1>3 DEF T

LEMMA NodeSets ==
  ASSUME NEW S, S \subseteq Nodes PROVE IsFiniteSet(S) /\ Cardinality(S) \in Nat
BY AddressesAssumption, FS_Subset, FS_CardinalityType

\* The nodes that hold object o.
Holders(nd, o) == {n \in Nodes : nd[n] # Free /\ nd[n].value = o}

HeldMore(h, g, vs, o) ==
  Cardinality(Holders(g.node, o)) = Cardinality(Holders(h.node, o)) + Cardinality({i \in DOMAIN vs : vs[i] = o})

LEMMA HoldersGrow ==
  ASSUME NEW h, NEW P, NEW g, NEW Q, NEW l, NEW ns, NEW vs \in Seq(Values), NEW o,
         Fresh(ns, h.node, Len(vs)), Grows(h, P, g, Q, l, ns, vs, Len(vs))
  PROVE  HeldMore(h, g, vs, o)
<1>. DEFINE I == {i \in DOMAIN vs : vs[i] = o}
            N == {ns[i] : i \in I}
            H == Holders(h.node, o)
<1>1. Len(vs) \in Nat /\ DOMAIN vs = 1 .. Len(vs)
  OBVIOUS
<1>2. IsFiniteSet(I) /\ Cardinality(I) \in Nat
  <2>1. IsFiniteSet(1 .. Len(vs))
    BY <1>1, FS_Interval
  <2>2. I \in SUBSET (1 .. Len(vs))
    BY <1>1
  <2>. HIDE DEF I
  <2>. QED BY <2>1, <2>2, FS_Subset, FS_CardinalityType
<1>3. \A i, j \in I : ns[i] = ns[j] => i = j
  BY <1>1 DEF Fresh
<1>4. IsFiniteSet(N) /\ Cardinality(N) = Cardinality(I)
  <2>. HIDE DEF I
  <2>. QED BY <1>2, <1>3, ImageCount
<1>5. \A i \in 1 .. Len(vs) : /\ ns[i] \in Nodes /\ h.node[ns[i]] = Free
                              /\ g.node[ns[i]] # Free /\ g.node[ns[i]].value = vs[i]
  BY DEF Fresh, Grows
<1>6. H \cap N = {}
  BY <1>1, <1>5 DEF Holders
<1>7. Holders(g.node, o) = H \cup N
  <2>1. ASSUME NEW x \in Nodes PROVE x \in Holders(g.node, o) <=> x \in H \cup N
    <3>1. CASE \E i \in 1 .. Len(vs) : x = ns[i]
      <4>1. PICK i \in 1 .. Len(vs) : x = ns[i]
        BY <3>1
      <4>2. x \notin H /\ (x \in Holders(g.node, o) <=> vs[i] = o)
        BY <1>5, <4>1 DEF Holders
      <4>3. x \in N <=> vs[i] = o
        <5>1. \A j \in 1 .. Len(vs) : ns[j] = ns[i] => j = i
          BY DEF Fresh
        <5>. QED BY <1>1, <4>1, <5>1
      <4>. QED BY <4>2, <4>3
    <3>2. CASE ~\E i \in 1 .. Len(vs) : x = ns[i]
      <4>1. x \notin N
        BY <1>1, <3>2
      <4>2. x \in Holders(g.node, o) <=> x \in H
        BY <3>2 DEF Grows, Holders
      <4>. QED BY <4>1, <4>2
    <3>. QED BY <3>1, <3>2
  <2>2. Holders(g.node, o) \subseteq Nodes /\ H \cup N \subseteq Nodes
    BY <1>1, <1>5 DEF Holders
  <2>. HIDE DEF H, N
  <2>. QED BY <2>1, <2>2
<1>8. IsFiniteSet(H) /\ Cardinality(H) \in Nat
  BY NodeSets DEF Holders
<1>. HIDE DEF I, N, H
<1>9. Cardinality(H \cup N) = Cardinality(H) + Cardinality(N) - Cardinality(H \cap N)
  BY <1>4, <1>8, FS_Union
<1>10. Cardinality(H \cap N) = 0
  BY <1>6, FS_EmptySet
<1>11. Cardinality(Holders(g.node, o)) = Cardinality(H) + Cardinality(I)
  BY <1>2, <1>4, <1>7, <1>8, <1>9, <1>10
<1>. QED BY <1>11 DEF H, I, HeldMore

-----------------------------------------------------------------------------
(* What an iteration over a list meets.                                    *)

\* Elements, and the sequences of IsSequence, for any lists and memory.
ElementsOf(s, nd) ==
  [i \in 1 .. Cardinality({j \in 0 .. s.length - 1 : Walk(nd, "next", s.first, j) # NULL})
     |-> nd[Walk(nd, "next", s.first, i - 1)].value]

Content(ls, nd) == [l \in Lists |-> IF ls[l] = Free THEN Free ELSE ElementsOf(ls[l], nd)]

\* At most k steps meet the nodes of a list and no more.
Reaches(s, nd, p, k) ==
  LET R == {i \in 0 .. k - 1 : Walk(nd, "next", s.first, i) # NULL}
      m == IF k <= Len(p) THEN k ELSE Len(p)
  IN  R = 0 .. m - 1 /\ Cardinality(R) = m /\ m \in Nat

LEMMA ReachedPath ==
  ASSUME NEW s, NEW nd, NEW p, Path(s, nd, p), NEW k \in Nat
  PROVE  Reaches(s, nd, p, k)
<1>. DEFINE R == {i \in 0 .. k - 1 : Walk(nd, "next", s.first, i) # NULL}
            m == IF k <= Len(p) THEN k ELSE Len(p)
<1>1. Len(p) \in Nat /\ \A i \in 1 .. Len(p) : p[i] # NULL
  BY PathEnds
<1>2. ASSUME NEW i \in 0 .. k - 1 PROVE Walk(nd, "next", s.first, i) # NULL <=> i < Len(p)
  <2>1. Walk(nd, "next", s.first, i) = IF i < Len(p) THEN p[i+1] ELSE NULL
    BY PathFromFirst
  <2>. QED BY <1>1, <2>1
<1>3. R = 0 .. m - 1
  BY <1>1, <1>2
<1>4. m \in Nat
  BY <1>1
<1>. HIDE DEF m
<1>5. Cardinality(0 .. m - 1) = m
  <2>1. m - 1 \in Int /\ (IF 0 > m - 1 THEN 0 ELSE (m - 1) - 0 + 1) = m
    BY <1>4
  <2>. QED BY <2>1, FS_Interval
<1>. QED BY <1>3, <1>4, <1>5 DEF m, Reaches

LEMMA ElementsHeld ==
  ASSUME NEW s, NEW nd, NEW p, Path(s, nd, p)
  PROVE  ElementsOf(s, nd) = Held(nd, p)
<1>1. s.length = Len(p) /\ Len(p) \in Nat
  BY PathEnds DEF Path
<1>2. Cardinality({j \in 0 .. s.length - 1 : Walk(nd, "next", s.first, j) # NULL}) = Len(p)
  BY <1>1, ReachedPath DEF Reaches
<1>3. ASSUME NEW i \in 1 .. Len(p) PROVE Walk(nd, "next", s.first, i - 1) = p[i]
  BY <1>1, PathFromFirst
<1>4. ElementsOf(s, nd) = [i \in 1 .. Len(p) |-> nd[Walk(nd, "next", s.first, i - 1)].value]
  BY <1>2, Zenon DEF ElementsOf
<1>. QED BY <1>3, <1>4 DEF Held

LEMMA HeldSeq ==
  ASSUME NEW s, NEW nd, NEW p, Path(s, nd, p)
  PROVE  Held(nd, p) \in Seq(Values) /\ Len(Held(nd, p)) = Len(p)
<1>1. Len(p) \in Nat /\ \A i \in 1 .. Len(p) : nd[p[i]].value \in Values
  BY PathEnds DEF Path, Links
<1>. QED BY <1>1 DEF Held

Shows(ls, nd, P) ==
  Content(ls, nd) = [l \in Lists |-> IF ls[l] = Free THEN Free ELSE Held(nd, P[l])]

LEMMA ContentHeld ==
  ASSUME NEW ls, NEW nd, NEW P, Threads(ls, nd, P)
  PROVE  Shows(ls, nd, P)
<1>1. ASSUME NEW l \in Lists, ls[l] # Free
      PROVE  ElementsOf(ls[l], nd) = Held(nd, P[l]) /\ Held(nd, P[l]) # Free
  <2>1. Path(ls[l], nd, P[l])
    BY <1>1 DEF Threads
  <2>. QED BY <2>1, ElementsHeld, HeldSeq, FreeAssumption
<1>. QED BY <1>1 DEF Content, Shows

\* The elements of list l of heap h, the nodes P[l], and after them vs.
GrewBy(h, P, g, l, vs) ==
  Content(g.list, g.node) = [Content(h.list, h.node) EXCEPT ![l] = Held(h.node, P[l]) \o vs]

LEMMA GrowContent ==
  ASSUME NEW h, NEW P, NEW g, NEW Q, NEW l \in Lists, NEW ns, NEW vs \in Seq(Values),
         Threads(h.list, h.node, P), h.list[l] # Free,
         Fresh(ns, h.node, Len(vs)), Grows(h, P, g, Q, l, ns, vs, Len(vs))
  PROVE  GrewBy(h, P, g, l, vs)
<1>1. Threads(g.list, g.node, Q)
  BY DEF Grows
<1>2. PICK c, d : c = Content(h.list, h.node) /\ d = Content(g.list, g.node)
  OBVIOUS
<1>3. /\ c = [m \in Lists |-> IF h.list[m] = Free THEN Free ELSE Held(h.node, P[m])]
      /\ d = [m \in Lists |-> IF g.list[m] = Free THEN Free ELSE Held(g.node, Q[m])]
  BY <1>1, <1>2, ContentHeld DEF Shows
<1>4. \A m \in Lists : Len(P[m]) \in Nat /\ \A i \in 1 .. Len(P[m]) :
        P[m][i] \in Nodes /\ h.node[P[m][i]] # Free
  BY NodesAllocated
<1>5. \A i \in 1 .. Len(vs) : ns[i] \in Nodes /\ h.node[ns[i]] = Free
  BY DEF Fresh
<1>6. ASSUME NEW m \in Lists, NEW i \in 1 .. Len(P[m])
      PROVE  g.node[P[m][i]].value = h.node[P[m][i]].value
  <2>1. P[m][i] \in Nodes /\ h.node[P[m][i]] # Free /\ \A j \in 1 .. Len(vs) : P[m][i] # ns[j]
    BY <1>4, <1>5
  <2>. QED BY <2>1 DEF Grows
<1>7. ASSUME NEW m \in Lists, m # l PROVE d[m] = c[m]
  <2>1. Q[m] = P[m] /\ g.list[m] = h.list[m]
    BY <1>7 DEF Grows
  <2>2. Held(g.node, P[m]) = Held(h.node, P[m])
    BY <1>6 DEF Held
  <2>. QED BY <1>3, <2>1, <2>2
<1>8. d[l] = Held(h.node, P[l]) \o vs
  <2>1. d[l] = Held(g.node, Q[l])
    BY <1>3 DEF Grows
  <2>2. PICK n, k : n = Len(P[l]) /\ k = Len(vs)
    OBVIOUS
  <2>3. n \in Nat /\ k \in Nat
    BY <1>4, <2>2
  <2>4. /\ Len(Q[l]) = n + k
        /\ \A i \in 1 .. n : Q[l][i] = P[l][i]
        /\ \A i \in 1 .. k : Q[l][n + i] = ns[i] /\ g.node[ns[i]].value = vs[i]
    BY <2>2 DEF Grows
  <2>5. Held(g.node, Q[l]) = [i \in 1 .. n + k |-> g.node[Q[l][i]].value]
    BY <2>4 DEF Held
  <2>6. Held(h.node, P[l]) \in Seq(Values) /\ Len(Held(h.node, P[l])) = n
        /\ \A i \in 1 .. n : Held(h.node, P[l])[i] = h.node[P[l][i]].value
    <3>1. Path(h.list[l], h.node, P[l])
      BY DEF Threads
    <3>. QED BY <2>2, <3>1, HeldSeq DEF Held
  <2>7. PICK u : u = Held(h.node, P[l])
    OBVIOUS
  <2>8. /\ DOMAIN (u \o vs) = 1 .. n + k
        /\ u \o vs = [i \in 1 .. n + k |-> (u \o vs)[i]]
        /\ \A i \in 1 .. n + k : (u \o vs)[i] = IF i <= n THEN u[i] ELSE vs[i - n]
    <3>1. u \in Seq(Values) /\ Len(u) = n /\ Len(vs) = k
      BY <2>2, <2>6, <2>7
    <3>2. u \o vs \in Seq(Values) /\ Len(u \o vs) = Len(u) + Len(vs)
      BY <3>1
    <3>3. \A i \in 1 .. Len(u) + Len(vs) : (u \o vs)[i] = IF i <= Len(u) THEN u[i] ELSE vs[i - Len(u)]
      BY <3>1
    <3>4. DOMAIN (u \o vs) = 1 .. n + k
      BY <3>1, <3>2
    <3>5. u \o vs = [i \in 1 .. n + k |-> (u \o vs)[i]]
      <4>1. \A w \in Seq(Values) : w = [i \in 1 .. Len(w) |-> w[i]]
        OBVIOUS
      <4>2. Len(u \o vs) = n + k
        BY <3>1, <3>2
      <4>. QED BY <3>2, <4>1, <4>2
    <3>. QED BY <3>1, <3>3, <3>4, <3>5
  <2>9. ASSUME NEW i \in 1 .. n + k PROVE g.node[Q[l][i]].value = (u \o vs)[i]
    <3>1. CASE i <= n
      <4>1. i \in 1 .. n
        BY <2>3, <3>1
      <4>. QED BY <1>6, <2>2, <2>4, <2>6, <2>7, <2>8, <3>1, <4>1
    <3>2. CASE ~(i <= n)
      <4>1. i - n \in 1 .. k /\ n + (i - n) = i
        BY <2>3, <3>2
      <4>2. Q[l][i] = ns[i - n] /\ g.node[ns[i - n]].value = vs[i - n]
        BY <2>4, <4>1
      <4>. QED BY <2>8, <3>2, <4>2
    <3>. QED BY <3>1, <3>2
  <2>10. Held(g.node, Q[l]) = u \o vs
    BY <2>5, <2>8, <2>9
  <2>. QED BY <2>1, <2>7, <2>10
<1>. QED BY <1>2, <1>3, <1>7, <1>8 DEF GrewBy

-----------------------------------------------------------------------------
(* A list is created, and freed.                                           *)

LEMMA CreateThreads ==
  ASSUME NEW ls, NEW nd, NEW P, Threads(ls, nd, P), NEW l \in Lists, ls[l] = Free
  PROVE  /\ Threads([ls EXCEPT ![l] = Empty], nd, P)
         /\ Content([ls EXCEPT ![l] = Empty], nd) = [Content(ls, nd) EXCEPT ![l] = <<>>]
         /\ Held(nd, P[l]) = <<>>
<1>. DEFINE ls2 == [ls EXCEPT ![l] = Empty]
<1>1. Empty \in Headers /\ Empty # Free /\ Empty.first = NULL /\ Empty.last = NULL /\ Empty.length = 0
  <2>1. Empty \in Headers
    BY MaxLengthAssumption DEF Empty, Headers
  <2>. QED BY <2>1, FreeAssumption DEF Empty
<1>2. /\ ls \in [Lists -> {Free} \cup Headers] /\ P \in [Lists -> Seq(Nodes)] /\ Len(P[l]) = 0
  BY DEF Threads
<1>3. ls2 \in [Lists -> {Free} \cup Headers] /\ ls2[l] = Empty /\ \A m \in Lists : m # l => ls2[m] = ls[m]
  BY <1>1, <1>2
<1>4. Path(Empty, nd, P[l])
  BY <1>1, <1>2 DEF Path
<1>. HIDE DEF ls2
<1>5. ASSUME NEW m \in Lists PROVE IF ls2[m] = Free THEN Len(P[m]) = 0 ELSE Path(ls2[m], nd, P[m])
  <2>1. CASE m = l
    BY <1>1, <1>3, <1>4, <2>1
  <2>2. CASE m # l
    BY <1>3, <2>2 DEF Threads
  <2>. QED BY <2>1, <2>2
<1>6. Threads(ls2, nd, P)
  BY <1>2, <1>3, <1>5 DEF Threads
<1>7. Held(nd, P[l]) = <<>>
  BY <1>2 DEF Held
<1>8. Content(ls2, nd) = [Content(ls, nd) EXCEPT ![l] = <<>>]
  <2>1. PICK c, d : c = Content(ls, nd) /\ d = Content(ls2, nd)
    OBVIOUS
  <2>2. /\ c = [m \in Lists |-> IF ls[m] = Free THEN Free ELSE Held(nd, P[m])]
        /\ d = [m \in Lists |-> IF ls2[m] = Free THEN Free ELSE Held(nd, P[m])]
    BY <1>6, <2>1, ContentHeld DEF Shows
  <2>3. d[l] = <<>> /\ \A m \in Lists : m # l => d[m] = c[m]
    BY <1>1, <1>3, <1>7, <2>2
  <2>. QED BY <2>1, <2>2, <2>3
<1>. QED BY <1>6, <1>7, <1>8 DEF ls2

\* The walk that frees a list visits its nodes.
Visits(ls, nd, P, l) ==
  {Walk(nd, "next", ls[l].first, k) : k \in 0 .. Cardinality(Nodes)} \ {NULL} = {P[l][i] : i \in 1 .. Len(P[l])}

LEMMA ChainNodes ==
  ASSUME NEW ls, NEW nd, NEW P, Threads(ls, nd, P), NEW l \in Lists, ls[l] # Free
  PROVE  Visits(ls, nd, P, l)
<1>1. PICK p, N : p = P[l] /\ N = Cardinality(Nodes)
  OBVIOUS
<1>2. Path(ls[l], nd, p)
  BY <1>1 DEF Threads
<1>3. Len(p) \in Nat /\ \A i \in 1 .. Len(p) : p[i] \in Nodes /\ p[i] # NULL
  BY <1>2, PathEnds
<1>4. N \in Nat /\ Len(p) <= N
  <2>1. p \in [1 .. Len(p) -> Nodes]
    BY <1>2 DEF Path
  <2>2. IsInjective(p)
    BY <1>1, <2>1 DEF Threads, IsInjective
  <2>3. p \in Injection(1 .. Len(p), Nodes)
    BY <2>1, <2>2 DEF Injection
  <2>4. Cardinality(1 .. Len(p)) <= Cardinality(Nodes)
    BY <2>3, FS_Injection, AddressesAssumption
  <2>5. Cardinality(1 .. Len(p)) = Len(p)
    <3>1. IF 1 > Len(p) THEN 0 = Len(p) ELSE Len(p) - 1 + 1 = Len(p)
      BY <1>3
    <3>. QED BY <1>3, <3>1, FS_Interval
  <2>. QED BY <1>1, <2>4, <2>5, AddressesAssumption, FS_CardinalityType
<1>5. ASSUME NEW k \in 0 .. N PROVE Walk(nd, "next", ls[l].first, k) = IF k < Len(p) THEN p[k+1] ELSE NULL
  BY <1>2, <1>4, PathFromFirst
<1>6. PICK w : w = [k \in 0 .. N |-> Walk(nd, "next", ls[l].first, k)]
  OBVIOUS
<1>7. {Walk(nd, "next", ls[l].first, k) : k \in 0 .. N} = {w[k] : k \in 0 .. N}
      /\ \A k \in 0 .. N : w[k] = IF k < Len(p) THEN p[k+1] ELSE NULL
  BY <1>5, <1>6
<1>8. {w[k] : k \in 0 .. N} \ {NULL} = {p[i] : i \in 1 .. Len(p)}
  <2>1. ASSUME NEW x \in {w[k] : k \in 0 .. N}, x # NULL PROVE x \in {p[i] : i \in 1 .. Len(p)}
    <3>1. PICK k \in 0 .. N : x = w[k]
      BY <2>1
    <3>2. k < Len(p) /\ x = p[k+1] /\ k + 1 \in 1 .. Len(p)
      BY <1>3, <1>4, <1>7, <2>1, <3>1
    <3>. QED BY <3>2
  <2>2. ASSUME NEW i \in 1 .. Len(p) PROVE p[i] \in {w[k] : k \in 0 .. N} /\ p[i] # NULL
    <3>1. i - 1 \in 0 .. N /\ i - 1 < Len(p) /\ (i - 1) + 1 = i
      BY <1>3, <1>4
    <3>2. w[i-1] = p[i]
      BY <1>7, <3>1
    <3>. QED BY <1>3, <3>1, <3>2
  <2>. QED BY <2>1, <2>2
<1>9. {Walk(nd, "next", ls[l].first, k) : k \in 0 .. N} \ {NULL} = {p[i] : i \in 1 .. Len(p)}
  BY <1>7, <1>8
<1>10. {Walk(nd, "next", ls[l].first, k) : k \in 0 .. Cardinality(Nodes)} \ {NULL}
         = {P[l][i] : i \in 1 .. Len(P[l])}
  BY <1>1, <1>9, Zenon
<1>. QED BY <1>10 DEF Visits

\* What is left when list l is freed.
Destroyed(ls, nd, P, l, ls2, nd2) ==
  /\ Threads(ls2, nd2, [P EXCEPT ![l] = <<>>])
  /\ Content(ls2, nd2) = [Content(ls, nd) EXCEPT ![l] = Free]

LEMMA DestroyThreads ==
  ASSUME NEW ls, NEW nd, NEW P, Threads(ls, nd, P), NEW l \in Lists, ls[l] # Free,
         NEW F, F = {P[l][i] : i \in 1 .. Len(P[l])},
         NEW ls2, ls2 = [ls EXCEPT ![l] = Free],
         NEW nd2, nd2 = [n \in Nodes |-> IF n \in F THEN Free ELSE nd[n]]
  PROVE  Destroyed(ls, nd, P, l, ls2, nd2)
<1>1. PICK Q : Q = [P EXCEPT ![l] = <<>>]
  OBVIOUS
<1>2. /\ ls \in [Lists -> {Free} \cup Headers] /\ nd \in [Nodes -> {Free} \cup Links]
      /\ P \in [Lists -> Seq(Nodes)]
  BY DEF Threads
<1>3. /\ Q \in [Lists -> Seq(Nodes)] /\ Len(Q[l]) = 0 /\ \A m \in Lists : m # l => Q[m] = P[m]
      /\ ls2 \in [Lists -> {Free} \cup Headers] /\ ls2[l] = Free /\ \A m \in Lists : m # l => ls2[m] = ls[m]
      /\ nd2 \in [Nodes -> {Free} \cup Links]
  <2>1. <<>> \in Seq(Nodes) /\ Len(<<>>) = 0
    OBVIOUS
  <2>. QED BY <1>1, <1>2, <2>1
<1>4. ASSUME NEW m \in Lists, m # l, NEW i \in 1 .. Len(P[m]) PROVE nd2[P[m][i]] = nd[P[m][i]]
  <2>1. P[m][i] \in Nodes
    BY NodesAllocated
  <2>2. P[m][i] \notin F
    BY <1>4 DEF Threads
  <2>. QED BY <2>1, <2>2
<1>5. ASSUME NEW m \in Lists PROVE IF ls2[m] = Free THEN Len(Q[m]) = 0 ELSE Path(ls2[m], nd2, Q[m])
  <2>1. CASE m = l
    BY <1>3, <2>1
  <2>2. CASE m # l
    <3>1. IF ls[m] = Free THEN Len(P[m]) = 0 ELSE Path(ls[m], nd, P[m])
      BY DEF Threads
    <3>2. Path(ls[m], nd, P[m]) => Path(ls[m], nd2, P[m])
      <4>1. \A i \in 1 .. Len(P[m]) : nd2[P[m][i]] = nd[P[m][i]]
        BY <1>4, <2>2
      <4>. QED BY ONLY <4>1 DEF Path
    <3>. QED BY <1>3, <2>2, <3>1, <3>2
  <2>. QED BY <2>1, <2>2
<1>6. ASSUME NEW m1 \in Lists, NEW m2 \in Lists, NEW i \in 1 .. Len(Q[m1]), NEW j \in 1 .. Len(Q[m2]),
             Q[m1][i] = Q[m2][j]
      PROVE  m1 = m2 /\ i = j
  <2>1. m1 # l /\ m2 # l
    BY <1>3
  <2>. QED BY <1>3, <1>6, <2>1 DEF Threads
<1>7. ASSUME NEW x \in Nodes, nd2[x] # Free PROVE \E m \in Lists : \E i \in 1 .. Len(Q[m]) : Q[m][i] = x
  <2>1. nd[x] # Free /\ x \notin F
    BY <1>7
  <2>2. PICK m \in Lists : \E i \in 1 .. Len(P[m]) : P[m][i] = x
    BY <2>1 DEF Threads
  <2>3. m # l
    BY <2>1, <2>2
  <2>. QED BY <1>3, <2>2, <2>3
<1>8. Threads(ls2, nd2, Q)
  BY <1>3, <1>5, <1>6, <1>7 DEF Threads
<1>9. PICK c, d : c = Content(ls, nd) /\ d = Content(ls2, nd2)
  OBVIOUS
<1>10. /\ c = [m \in Lists |-> IF ls[m] = Free THEN Free ELSE Held(nd, P[m])]
       /\ d = [m \in Lists |-> IF ls2[m] = Free THEN Free ELSE Held(nd2, Q[m])]
  <2>1. c = [m \in Lists |-> IF ls[m] = Free THEN Free ELSE Held(nd, P[m])]
    BY <1>9, ContentHeld DEF Shows
  <2>2. Content(ls2, nd2) = [m \in Lists |-> IF ls2[m] = Free THEN Free ELSE Held(nd2, Q[m])]
    <3>1. Shows(ls2, nd2, Q)
      BY <1>8, ContentHeld
    <3>. QED BY <3>1 DEF Shows
  <2>. QED BY <1>9, <2>1, <2>2
<1>11. ASSUME NEW m \in Lists, m # l PROVE d[m] = c[m]
  <2>1. Held(nd2, P[m]) = Held(nd, P[m])
    BY <1>4, <1>11 DEF Held
  <2>. QED BY <1>3, <1>10, <1>11, <2>1
<1>12. d = [c EXCEPT ![l] = Free]
  BY <1>3, <1>10, <1>11
<1>. QED BY <1>1, <1>8, <1>9, <1>12 DEF Destroyed

-----------------------------------------------------------------------------
(* The inductive invariant.                                                *)

\* The lists ls in memory nd are linked, and ct counts what the nodes hold.
Sound(ls, nd, ct) ==
  /\ \E P : Threads(ls, nd, P)
  /\ ct \in [Objects -> Nat]
  /\ \A o \in Objects : ct[o] = Cardinality(Holders(nd, o))

Inv ==
  /\ Sound(list, node, count)
  /\ result \in Values \cup {None} \cup -1 .. MaxLength - 1
  /\ fault = FALSE

LEMMA InitInv == Init => Inv /\ \A l \in Lists : Content(list, node)[l] = Free
<1>. SUFFICES ASSUME Init PROVE Inv /\ \A l \in Lists : Content(list, node)[l] = Free
  OBVIOUS
<1>1. PICK P : P = [l \in Lists |-> <<>>]
  OBVIOUS
<1>2. P \in [Lists -> Seq(Nodes)] /\ \A l \in Lists : Len(P[l]) = 0
  BY <1>1
<1>3. /\ list \in [Lists -> {Free} \cup Headers] /\ \A l \in Lists : list[l] = Free
      /\ node \in [Nodes -> {Free} \cup Links] /\ \A n \in Nodes : node[n] = Free
  BY DEF Init
<1>4. Threads(list, node, P)
  BY <1>2, <1>3 DEF Threads
<1>5. ASSUME NEW o \in Objects PROVE count[o] = Cardinality(Holders(node, o))
  <2>1. Holders(node, o) = {}
    BY <1>3 DEF Holders
  <2>. QED BY <2>1, FS_EmptySet DEF Init
<1>6. Sound(list, node, count)
  BY <1>4, <1>5 DEF Sound, Init
<1>7. \A l \in Lists : Content(list, node)[l] = Free
  BY <1>3 DEF Content
<1>. QED BY <1>6, <1>7 DEF Inv, Init

\* The values vs were added to list l of heap h.
Built(h, l, vs) ==
  /\ Sound(list', node', count')
  /\ Content(list', node') = [Content(h.list, h.node) EXCEPT ![l] = @ \o vs]

LEMMA Building ==
  ASSUME NEW h, NEW l \in Lists, NEW vs \in Seq(Values), Sound(h.list, h.node, count),
         h.node = node, h.list[l] # Free, h.list[l].length + Len(vs) <= MaxLength, AddAll(h, l, vs)
  PROVE  Built(h, l, vs)
<1>1. PICK P : Threads(h.list, h.node, P)
  BY DEF Sound
<1>2. PICK ns, Q, g : /\ Fresh(ns, node, Len(vs)) /\ Grows(h, P, g, Q, l, ns, vs, Len(vs))
                      /\ list' = g.list /\ node' = g.node
  BY <1>1, AddAllGrows
<1>3. Fresh(ns, h.node, Len(vs))
  BY <1>2
<1>4. Content(g.list, g.node) = [Content(h.list, h.node) EXCEPT ![l] = Held(h.node, P[l]) \o vs]
  <2>1. GrewBy(h, P, g, l, vs)
    BY <1>1, <1>2, <1>3, GrowContent
  <2>. QED BY <2>1 DEF GrewBy
<1>5. Content(h.list, h.node)[l] = Held(h.node, P[l])
  <2>1. Content(h.list, h.node) = [m \in Lists |-> IF h.list[m] = Free THEN Free ELSE Held(h.node, P[m])]
    BY <1>1, ContentHeld DEF Shows
  <2>. QED BY <2>1
<1>6. Threads(list', node', Q)
  BY <1>2 DEF Grows
<1>7. count' = Retained(vs)
  BY DEF AddAll
<1>8. ASSUME NEW o \in Objects PROVE count'[o] = Cardinality(Holders(node', o)) /\ count'[o] \in Nat
  <2>1. Cardinality(Holders(g.node, o)) =
           Cardinality(Holders(h.node, o)) + Cardinality({i \in DOMAIN vs : vs[i] = o})
    <3>1. HeldMore(h, g, vs, o)
      BY <1>2, <1>3, HoldersGrow
    <3>. QED BY <3>1 DEF HeldMore
  <2>2. count'[o] = count[o] + Cardinality({i \in DOMAIN vs : vs[i] = o})
    BY <1>7 DEF Retained
  <2>3. count[o] = Cardinality(Holders(h.node, o))
    BY DEF Sound
  <2>4. Cardinality(Holders(g.node, o)) \in Nat
    BY NodeSets DEF Holders
  <2>. QED BY <1>2, <2>1, <2>2, <2>3, <2>4
<1>9. count' \in [Objects -> Nat]
  BY <1>7, <1>8 DEF Retained
<1>. QED BY <1>2, <1>4, <1>5, <1>6, <1>8, <1>9 DEF Built, Sound

-----------------------------------------------------------------------------
(* Every action keeps the invariant, and does to the contents what the     *)
(* action of SolSequences does.                                            *)

LEMMA CreateStep ==
  ASSUME Inv, NEW l \in Lists, ListCreate(l)
  PROVE  Inv' /\ Content(list', node') = [Content(list, node) EXCEPT ![l] = <<>>]
<1>1. PICK P : Threads(list, node, P)
  BY DEF Inv, Sound
<1>2. list[l] = Free /\ list' = [list EXCEPT ![l] = Empty] /\ UNCHANGED <<node, count, fault>> /\ result' = None
  BY DEF ListCreate
<1>3. Threads(list', node', P) /\ Content(list', node') = [Content(list, node) EXCEPT ![l] = <<>>]
  BY <1>1, <1>2, CreateThreads
<1>. QED BY <1>2, <1>3 DEF Inv, Sound

LEMMA AddStep ==
  ASSUME Inv, NEW l \in Live, NEW v \in Values, ListAdd(l, v)
  PROVE  Inv' /\ Content(list', node') = [Content(list, node) EXCEPT ![l] = @ \o <<v>>]
<1>1. PICK h, vs : h = Heap /\ vs = <<v>>
  OBVIOUS
<1>2. h.list = list /\ h.node = node
  BY <1>1 DEF Heap
<1>3. vs \in Seq(Values) /\ Len(vs) = 1
  BY <1>1
<1>4. l \in Lists /\ list[l] # Free /\ list[l].length + 1 <= MaxLength
  <2>1. PICK P : Threads(list, node, P)
    BY DEF Inv, Sound
  <2>2. list[l] \in Headers /\ l \in Lists /\ list[l] # Free
    BY <2>1 DEF Threads, Live
  <2>. QED BY <2>2, MaxLengthAssumption DEF ListAdd, Headers
<1>5. AddAll(h, l, vs) /\ result' = None /\ fault' = fault
  BY <1>1 DEF ListAdd
<1>6. Built(h, l, vs)
  BY <1>2, <1>3, <1>4, <1>5, Building DEF Inv
<1>. QED BY <1>1, <1>2, <1>5, <1>6 DEF Built, Inv

LEMMA CopiedPart ==
  ASSUME NEW P, Threads(list, node, P), NEW l \in Live, NEW i \in Nat, NEW j \in Nat, i <= j, j <= Len(P[l])
  PROVE  /\ Copied(l, i, j) = SubSeq(Content(list, node)[l], i + 1, j)
         /\ Copied(l, i, j) \in Seq(Values) /\ Len(Copied(l, i, j)) = j - i
<1>1. PICK p, u, c : p = P[l] /\ u = Content(list, node)[l] /\ c = Copied(l, i, j)
  OBVIOUS
<1>2. l \in Lists /\ list[l] # Free /\ Path(list[l], node, p)
  BY <1>1 DEF Threads, Live
<1>3. Len(p) \in Nat /\ j <= Len(p)
  BY <1>1, <1>2, PathEnds
<1>4. u = Held(node, p)
  <2>1. Content(list, node) = [m \in Lists |-> IF list[m] = Free THEN Free ELSE Held(node, P[m])]
    BY ContentHeld DEF Shows
  <2>. QED BY <1>1, <1>2, <2>1
<1>5. u \in Seq(Values) /\ Len(u) = Len(p) /\ \A k \in 1 .. Len(p) : u[k] = node[p[k]].value /\ u[k] \in Values
  BY <1>2, <1>3, <1>4, HeldSeq DEF Held
<1>6. ASSUME NEW k \in 1 .. j - i
      PROVE  node[Walk(node, "next", list[l].first, i + k - 1)].value = u[i+k]
  <2>1. i + k - 1 \in Nat /\ i + k - 1 < Len(p) /\ (i + k - 1) + 1 = i + k /\ i + k \in 1 .. Len(p)
    BY <1>3
  <2>2. Walk(node, "next", list[l].first, i + k - 1) = p[i+k]
    BY <1>2, <2>1, PathFromFirst
  <2>. QED BY <1>5, <2>1, <2>2
<1>7. c = [k \in 1 .. j - i |-> u[i+k]]
  BY <1>1, <1>6 DEF Copied
<1>8. j - i \in Nat /\ \A k \in 1 .. j - i : u[i+k] \in Values
  BY <1>3, <1>5
<1>9. c \in Seq(Values) /\ Len(c) = j - i
  BY <1>7, <1>8
<1>10. SubSeq(u, i + 1, j) = c
  BY <1>3, <1>5, <1>7, <1>8
<1>. QED BY <1>1, <1>9, <1>10

LEMMA SliceStep ==
  ASSUME Inv, NEW P, Threads(list, node, P), NEW l \in Live, NEW m \in Lists, NEW i \in Nat, NEW j \in Nat,
         i <= j, j <= Len(P[l]), ~fault, SliceInto(l, m, i, j)
  PROVE  /\ Inv' /\ result' = None
         /\ Content(list', node') = [Content(list, node) EXCEPT ![m] = SubSeq(Content(list, node)[l], i + 1, j)]
<1>1. PICK h, vs, c : h = [Heap EXCEPT !.list[m] = Empty] /\ vs = Copied(l, i, j) /\ c = Content(list, node)
  OBVIOUS
<1>2. h.list = [list EXCEPT ![m] = Empty] /\ h.node = node
  BY <1>1 DEF Heap
<1>3. list[m] = Free /\ AddAll(h, m, vs) /\ result' = None /\ fault' = fault
  BY <1>1 DEF SliceInto
<1>4. Threads(h.list, h.node, P) /\ Content(h.list, h.node) = [c EXCEPT ![m] = <<>>]
  BY <1>1, <1>2, <1>3, CreateThreads
<1>5. vs = SubSeq(c[l], i + 1, j) /\ vs \in Seq(Values) /\ Len(vs) = j - i
  BY <1>1, CopiedPart
<1>6. h.list[m] = Empty /\ h.list[m] # Free /\ h.list[m].length = 0
  <2>1. DOMAIN list = Lists
    BY DEF Threads
  <2>2. Empty \in Headers /\ Empty.length = 0
    BY MaxLengthAssumption DEF Empty, Headers
  <2>. QED BY <1>2, <2>1, <2>2, FreeAssumption
<1>7. h.list[m].length + Len(vs) <= MaxLength
  <2>1. Path(list[l], node, P[l])
    BY DEF Threads, Live
  <2>2. Len(P[l]) \in Nat /\ Len(P[l]) = list[l].length /\ list[l] \in Headers
    BY <2>1 DEF Path
  <2>. QED BY <1>5, <1>6, <2>2, MaxLengthAssumption DEF Headers
<1>8. Sound(h.list, h.node, count)
  BY <1>2, <1>4 DEF Inv, Sound
<1>9. Built(h, m, vs)
  BY <1>2, <1>3, <1>5, <1>6, <1>7, <1>8, Building
<1>10. Content(list', node') = [c EXCEPT ![m] = vs]
  <2>1. DOMAIN c = Lists
    BY <1>1 DEF Content
  <2>2. <<>> \o vs = vs
    BY <1>5
  <2>3. Content(list', node') = [Content(h.list, h.node) EXCEPT ![m] = @ \o vs]
    BY <1>9 DEF Built
  <2>4. [c EXCEPT ![m] = <<>>][m] = <<>>
    BY <2>1
  <2>. QED BY <1>4, <2>1, <2>2, <2>3, <2>4
<1>. QED BY <1>1, <1>3, <1>5, <1>9, <1>10 DEF Built, Inv

\* What the guards of the slices give.
LEMMA SliceBounds ==
  ASSUME NEW P, Threads(list, node, P), NEW l \in Live, NEW k \in Nat
  PROVE  /\ Cardinality(Reached(l, k)) = IF k <= Len(P[l]) THEN k ELSE Len(P[l])
         /\ Len(P[l]) \in Nat /\ Len(P[l]) <= MaxLength /\ Len(P[l]) = list[l].length
<1>1. Path(list[l], node, P[l])
  BY DEF Threads, Live
<1>2. Len(P[l]) \in Nat /\ Len(P[l]) <= MaxLength /\ Len(P[l]) = list[l].length
  BY <1>1, MaxLengthAssumption DEF Path, Headers
<1>3. Cardinality(Reached(l, k)) = IF k <= Len(P[l]) THEN k ELSE Len(P[l])
  <2>1. Reaches(list[l], node, P[l], k)
    BY <1>1, ReachedPath
  <2>. QED BY <2>1 DEF Reached, Reaches
<1>. QED BY <1>2, <1>3

LEMMA GetStep ==
  ASSUME Inv, NEW l \in Live, NEW i \in 0 .. MaxLength, ListGet(l, i)
  PROVE  /\ Inv' /\ UNCHANGED <<list, node>>
         /\ i < Len(Content(list, node)[l]) /\ result' = Content(list, node)[l][i+1]
<1>1. PICK P : Threads(list, node, P)
  BY DEF Inv, Sound
<1>2. PICK p, u : p = P[l] /\ u = Content(list, node)[l]
  OBVIOUS
<1>3. l \in Lists /\ list[l] # Free /\ Path(list[l], node, p)
  BY <1>1, <1>2 DEF Threads, Live
<1>4. Len(p) \in Nat /\ Len(p) = list[l].length /\ i < Len(p) /\ i \in Nat
  BY <1>3, PathEnds, MaxLengthAssumption DEF Path, ListGet
<1>5. Position(l, i) = p[i+1]
  <2>1. CASE i < list[l].length \div 2
    <3>1. Walk(node, "next", list[l].first, i) = p[i+1]
      BY <1>3, <1>4, PathFromFirst
    <3>. QED BY <2>1, <3>1 DEF Position
  <2>2. CASE ~(i < list[l].length \div 2)
    <3>1. Len(p) - 1 - i \in Nat /\ Len(p) - 1 - i < Len(p) /\ Len(p) - (Len(p) - 1 - i) = i + 1
      BY <1>4
    <3>2. Walk(node, "prev", list[l].last, Len(p) - 1 - i) = p[i+1]
      BY <1>3, <3>1, PathFromLast
    <3>. QED BY <1>4, <2>2, <3>2 DEF Position
  <2>. QED BY <2>1, <2>2
<1>6. i + 1 \in 1 .. Len(p) /\ p[i+1] # NULL /\ node[p[i+1]].value \in Values
  <2>1. i + 1 \in 1 .. Len(p)
    BY <1>4
  <2>2. p[i+1] # NULL
    BY <1>3, <2>1, PathEnds
  <2>3. node[p[i+1]] \in Links
    BY <1>3, <2>1 DEF Path
  <2>. QED BY <2>1, <2>2, <2>3 DEF Links
<1>7. u = Held(node, p)
  <2>1. Content(list, node) = [m \in Lists |-> IF list[m] = Free THEN Free ELSE Held(node, P[m])]
    BY <1>1, ContentHeld DEF Shows
  <2>. QED BY <1>2, <1>3, <2>1
<1>8. Len(u) = Len(p) /\ u[i+1] = node[p[i+1]].value
  BY <1>3, <1>6, <1>7, HeldSeq DEF Held
<1>9. result' = node[p[i+1]].value /\ UNCHANGED <<list, node, count, fault>>
  BY <1>5, <1>6 DEF ListGet
<1>. QED BY <1>2, <1>4, <1>6, <1>8, <1>9 DEF Inv

LEMMA IndexOfStep ==
  ASSUME Inv, NEW l \in Live, NEW v \in Objects, AllDefined(l), ListIndexOf(l, v)
  PROVE  Inv' /\ UNCHANGED <<list, node>> /\ result' = Seqs!IndexIn(Content(list, node)[l], v)
<1>1. PICK P : Threads(list, node, P)
  BY DEF Inv, Sound
<1>2. PICK p, u : p = P[l] /\ u = Content(list, node)[l]
  OBVIOUS
<1>3. l \in Lists /\ list[l] # Free /\ Path(list[l], node, p)
  BY <1>1, <1>2 DEF Threads, Live
<1>4. Len(p) \in Nat /\ Len(p) = list[l].length /\ Len(p) <= MaxLength
  BY <1>3, PathEnds, MaxLengthAssumption DEF Path, Headers
<1>5. u = Held(node, p)
  <2>1. Content(list, node) = [m \in Lists |-> IF list[m] = Free THEN Free ELSE Held(node, P[m])]
    BY <1>1, ContentHeld DEF Shows
  <2>. QED BY <1>2, <1>3, <2>1
<1>6. u \in Seq(Values) /\ Len(u) = Len(p) /\ \A k \in 1 .. Len(p) : u[k] = node[p[k]].value
  BY <1>3, <1>5, HeldSeq DEF Held
<1>7. Iterated(l) = 0 .. Len(p) - 1
  <2>1. PICK k \in Nat : k = Len(p)
    BY <1>4
  <2>2. {i \in 0 .. k - 1 : Walk(node, "next", list[l].first, i) # NULL} = 0 .. k - 1
    <3>1. Reaches(list[l], node, p, k)
      BY <1>3, ReachedPath
    <3>. QED BY <2>1, <3>1 DEF Reaches
  <2>. QED BY <1>4, <2>1, <2>2 DEF Iterated, Reached
<1>8. ASSUME NEW i \in 0 .. Len(p) - 1 PROVE ElementAt(l, i) = u[i+1]
  <2>1. i \in Nat /\ i < Len(p) /\ i + 1 \in 1 .. Len(p)
    BY <1>4
  <2>2. Walk(node, "next", list[l].first, i) = p[i+1]
    BY <1>3, <2>1, PathFromFirst
  <2>. QED BY <1>6, <2>1, <2>2 DEF ElementAt
<1>9. PICK M : M = {i \in 0 .. Len(p) - 1 : u[i+1] = v}
  OBVIOUS
<1>10. Matches(l, v) = M
  BY <1>7, <1>8, <1>9 DEF Matches
<1>11. /\ result' = IF M = {} THEN -1 ELSE CHOOSE i \in FirstMatch(l, v) : TRUE
       /\ UNCHANGED <<list, node, count, fault>>
  <2>1. v # NULL /\ \A i \in Iterated(l) : ElementAt(l, i) # NULL
    BY ValuesAssumption DEF AllDefined
  <2>. QED BY <1>10, <2>1 DEF ListIndexOf
<1>12. CASE M = {}
  <2>1. ASSUME NEW k \in DOMAIN u PROVE u[k] # v
    <3>1. k - 1 \in 0 .. Len(p) - 1 /\ (k - 1) + 1 = k
      BY <1>4, <1>6
    <3>. QED BY <1>9, <1>12, <3>1
  <2>2. Seqs!IndexIn(u, v) = -1
    BY <2>1 DEF Seqs!IndexIn
  <2>3. result' = -1 /\ -1 \in -1 .. MaxLength - 1
    BY <1>11, <1>12, MaxLengthAssumption
  <2>. QED BY <1>2, <1>11, <2>2, <2>3 DEF Inv
<1>13. CASE M # {}
  <2>1. M \in SUBSET Nat
    BY <1>4, <1>9
  <2>2. PICK n \in M : \A m \in M : n <= m
    BY <1>13, <2>1, Least
  <2>3. FirstMatch(l, v) = {n}
    <3>1. \A i \in M : (\A m \in M : i <= m) <=> i = n
      BY <2>1, <2>2
    <3>. QED BY <1>10, <3>1 DEF FirstMatch
  <2>4. result' = n
    BY <1>11, <1>13, <2>3
  <2>5. n \in 0 .. Len(u) - 1 /\ u[n+1] = v /\ n \in -1 .. MaxLength - 1 /\ n + 1 \in DOMAIN u
    BY <1>4, <1>6, <1>9, <2>2, MaxLengthAssumption
  <2>6. ASSUME NEW i \in 0 .. Len(u) - 1 PROVE (u[i+1] = v /\ \A j \in 1 .. i : u[j] # v) <=> i = n
    <3>1. ASSUME NEW j \in 1 .. n PROVE u[j] # v
      <4>1. j - 1 \in 0 .. Len(p) - 1 /\ (j - 1) + 1 = j /\ ~(n <= j - 1)
        BY <1>6, <2>5
      <4>. QED BY <1>9, <2>2, <4>1
    <3>2. ASSUME u[i+1] = v, \A j \in 1 .. i : u[j] # v PROVE i = n
      <4>1. i \in M /\ n <= i
        BY <1>6, <1>9, <2>2, <3>2
      <4>2. n < i => n + 1 \in 1 .. i
        BY <2>5
      <4>. QED BY <2>5, <3>2, <4>1, <4>2
    <3>. QED BY <2>5, <3>1, <3>2
  <2>7. Seqs!IndexIn(u, v) = CHOOSE i \in 0 .. Len(u) - 1 : u[i+1] = v /\ \A j \in 1 .. i : u[j] # v
    BY <2>5 DEF Seqs!IndexIn
  <2>8. Seqs!IndexIn(u, v) = n
    BY <2>5, <2>6, <2>7
  <2>. QED BY <1>2, <1>11, <2>4, <2>5, <2>8 DEF Inv
<1>. QED BY <1>12, <1>13

LEMMA DestroyStep ==
  ASSUME Inv, NEW l \in Live, ListDestroy(l)
  PROVE  Inv' /\ result' = None /\ Content(list', node') = [Content(list, node) EXCEPT ![l] = Free]
<1>1. PICK P : Threads(list, node, P)
  BY DEF Inv, Sound
<1>2. PICK F : F = {P[l][i] : i \in 1 .. Len(P[l])}
  OBVIOUS
<1>3. l \in Lists /\ list[l] # Free
  BY DEF Live
<1>4. Freed(l) = F
  <2>1. Visits(list, node, P, l)
    BY <1>1, <1>3, ChainNodes
  <2>. QED BY <1>2, <2>1 DEF Freed, Chain, Visits
<1>5. /\ list' = [list EXCEPT ![l] = Free]
      /\ node' = [n \in Nodes |-> IF n \in F THEN Free ELSE node[n]]
      /\ count' = Dropped(F) /\ result' = None /\ fault' = fault
  BY <1>4 DEF ListDestroy
<1>6. /\ Threads(list', node', [P EXCEPT ![l] = <<>>])
      /\ Content(list', node') = [Content(list, node) EXCEPT ![l] = Free]
  <2>1. Destroyed(list, node, P, l, list', node')
    BY <1>1, <1>2, <1>3, <1>5, DestroyThreads
  <2>. QED BY <2>1 DEF Destroyed
<1>7. \A n \in F : n \in Nodes /\ node[n] # Free
  BY <1>1, <1>2, <1>3, NodesAllocated
<1>8. ASSUME NEW o \in Objects PROVE count'[o] = Cardinality(Holders(node', o)) /\ count'[o] \in Nat
  <2>1. PICK H, D : H = Holders(node, o) /\ D = {n \in F : node[n].value = o}
    OBVIOUS
  <2>2. D \subseteq H /\ H \subseteq Nodes
    BY <1>7, <2>1 DEF Holders
  <2>3. Holders(node', o) = H \ D
    BY <1>5, <1>7, <2>1 DEF Holders
  <2>4. count'[o] = count[o] - Cardinality(D)
    BY <1>5, <2>1 DEF Dropped
  <2>5. count[o] = Cardinality(H)
    BY <2>1 DEF Inv, Sound
  <2>6. IsFiniteSet(H) /\ Cardinality(H) \in Nat /\ IsFiniteSet(D) /\ Cardinality(D) \in Nat
        /\ Cardinality(H \ D) \in Nat
    BY <2>2, NodeSets
  <2>7. H \cap D = D
    BY <2>2
  <2>8. Cardinality(H \ D) = Cardinality(H) - Cardinality(H \cap D)
    BY <2>6, FS_Difference
  <2>. QED BY <2>3, <2>4, <2>5, <2>6, <2>7, <2>8
<1>9. count' \in [Objects -> Nat]
  BY <1>5, <1>8 DEF Dropped
<1>. QED BY <1>5, <1>6, <1>8, <1>9 DEF Inv, Sound

-----------------------------------------------------------------------------
(* The refinement.  Bar stands for what SolSequences calls contents.       *)

Bar == [l \in Lists |-> IF list[l] = Free THEN Free ELSE Elements(l)]

LEMMA BarContent == Bar = Content(list, node)
BY DEF Bar, Content, Elements, ElementsOf, Iterated, Reached, ElementAt

\* The contents cs become ds, and the result r, as a call of SolSequences does it.
Called(cs, ds, r) ==
  \/ \E l \in Lists : cs[l] = Free /\ ds = [cs EXCEPT ![l] = <<>>] /\ r = None
  \/ \E l \in {m \in Lists : cs[m] # Free} :
       \/ \E v \in Values : r = Seqs!IndexIn(cs[l], v) /\ ds = cs
       \/ \E i \in 0 .. Len(cs[l]) :
            \/ \E v \in Values :
                 /\ ds = [cs EXCEPT ![l] = SubSeq(cs[l], 1, i) \o <<v>> \o SubSeq(cs[l], i + 1, Len(cs[l]))]
                 /\ r = None
            \/ i < Len(cs[l]) /\ r = cs[l][i+1] /\ ds = cs
            \/ \E m \in Lists, j \in 0 .. Len(cs[l]) :
                 /\ cs[m] = Free /\ i <= j /\ j <= Len(cs[l])
                 /\ ds = [cs EXCEPT ![m] = SubSeq(cs[l], i + 1, j)] /\ r = None
       \/ ds = [cs EXCEPT ![l] = Free] /\ r = None

LEMMA ContentSeq ==
  ASSUME Inv, NEW l \in Live
  PROVE  /\ Content(list, node)[l] \in Seq(Values) /\ Content(list, node)[l] # Free
         /\ Len(Content(list, node)[l]) = list[l].length /\ list[l].length \in 0 .. MaxLength
<1>1. PICK P : Threads(list, node, P)
  BY DEF Inv, Sound
<1>2. l \in Lists /\ list[l] # Free /\ Path(list[l], node, P[l])
  BY <1>1 DEF Threads, Live
<1>3. Content(list, node) = [m \in Lists |-> IF list[m] = Free THEN Free ELSE Held(node, P[m])]
  BY <1>1, ContentHeld DEF Shows
<1>4. Content(list, node)[l] = Held(node, P[l])
  BY <1>2, <1>3
<1>. QED BY <1>2, <1>4, HeldSeq, FreeAssumption DEF Path, Headers

LEMMA AddCalls ==
  ASSUME Inv, NEW l \in Live, NEW v \in Values, ListAdd(l, v)
  PROVE  Inv' /\ Called(Content(list, node), Content(list', node'), result')
<1>1. Inv' /\ Content(list', node') = [Content(list, node) EXCEPT ![l] = @ \o <<v>>]
  BY AddStep
<1>2. PICK cs, u : cs = Content(list, node) /\ u = cs[l]
  OBVIOUS
<1>3. u \in Seq(Values) /\ u # Free /\ l \in Lists
  BY <1>2, ContentSeq DEF Live
<1>4. SubSeq(u, 1, Len(u)) = u /\ SubSeq(u, Len(u) + 1, Len(u)) = <<>>
  BY <1>3
<1>5. SubSeq(u, 1, Len(u)) \o <<v>> \o SubSeq(u, Len(u) + 1, Len(u)) = u \o <<v>>
  <2>1. u \o <<v>> \in Seq(Values)
    BY <1>3
  <2>2. (u \o <<v>>) \o <<>> = u \o <<v>>
    BY <2>1
  <2>. QED BY <1>4, <2>2
<1>6. Len(u) \in 0 .. Len(u)
  BY <1>3
<1>7. result' = None
  BY DEF ListAdd
<1>8. Content(list', node') = [cs EXCEPT ![l] = SubSeq(u, 1, Len(u)) \o <<v>> \o SubSeq(u, Len(u) + 1, Len(u))]
  <2>1. Content(list', node') = [cs EXCEPT ![l] = u \o <<v>>]
    BY <1>1, <1>2
  <2>. QED BY <1>5, <2>1
<1>9. Called(cs, Content(list', node'), result')
  <2>1. PICK ds, i : ds = Content(list', node') /\ i = Len(u)
    OBVIOUS
  <2>2. /\ i \in 0 .. Len(cs[l]) /\ cs[l] # Free
        /\ ds = [cs EXCEPT ![l] = SubSeq(cs[l], 1, i) \o <<v>> \o SubSeq(cs[l], i + 1, Len(cs[l]))]
    BY <1>2, <1>3, <1>6, <1>8, <2>1
  <2>3. Called(cs, ds, None)
    BY <1>3, <2>2 DEF Called
  <2>. QED BY <1>7, <2>1, <2>3
<1>. QED BY <1>1, <1>2, <1>9

LEMMA SliceCalls ==
  ASSUME Inv, NEW l \in Live, NEW m \in Lists, NEW i \in 0 .. MaxLength, NEW j \in 0 .. MaxLength,
         Slice(l, m, i, j) \/ SliceFrom(l, m, i)
  PROVE  Inv' /\ Called(Content(list, node), Content(list', node'), result')
<1>1. PICK P : Threads(list, node, P)
  BY DEF Inv, Sound
<1>2. /\ i \in Nat /\ j \in Nat /\ MaxLength \in Nat
      /\ \A k \in Nat : Cardinality(Reached(l, k)) = IF k <= Len(P[l]) THEN k ELSE Len(P[l])
      /\ Len(P[l]) \in Nat /\ Len(P[l]) <= MaxLength /\ Len(P[l]) = list[l].length
  BY <1>1, SliceBounds, MaxLengthAssumption
<1>3. PICK e \in Nat : i <= e /\ e <= Len(P[l]) /\ ~fault /\ SliceInto(l, m, i, e)
  <2>1. CASE Slice(l, m, i, j)
    <3>1. Cardinality(Reached(l, j)) = j /\ i <= j /\ ~fault /\ SliceInto(l, m, i, j)
      BY <2>1 DEF Slice
    <3>2. j <= Len(P[l])
      BY <1>2, <3>1
    <3>. QED BY <1>2, <3>1, <3>2
  <2>2. CASE SliceFrom(l, m, i)
    <3>1. /\ Cardinality(Reached(l, i)) = i /\ ~fault
          /\ SliceInto(l, m, i, Cardinality(Reached(l, MaxLength)))
      BY <2>2 DEF SliceFrom
    <3>2. i <= Len(P[l]) /\ Cardinality(Reached(l, MaxLength)) = Len(P[l])
      BY <1>2, <3>1
    <3>. QED BY <1>2, <3>1, <3>2
  <2>. QED BY <2>1, <2>2
<1>4. PICK cs : cs = Content(list, node)
  OBVIOUS
<1>5. /\ Inv' /\ result' = None
      /\ Content(list', node') = [cs EXCEPT ![m] = SubSeq(cs[l], i + 1, e)]
  BY <1>1, <1>2, <1>3, <1>4, SliceStep
<1>6. l \in Lists /\ cs[l] # Free /\ Len(cs[l]) = Len(P[l])
  BY <1>2, <1>4, ContentSeq DEF Live
<1>7. cs[m] = Free
  <2>1. list[m] = Free
    BY <1>3 DEF SliceInto
  <2>. QED BY <1>4, <2>1 DEF Content
<1>8. i \in 0 .. Len(cs[l]) /\ e \in 0 .. Len(cs[l])
  BY <1>2, <1>3, <1>6
<1>9. e <= Len(cs[l])
  BY <1>3, <1>6
<1>10. Called(cs, Content(list', node'), result')
  BY <1>3, <1>5, <1>6, <1>7, <1>8, <1>9 DEF Called
<1>. QED BY <1>4, <1>5, <1>10

LEMMA NextCalls ==
  ASSUME Inv, Next
  PROVE  Inv' /\ Called(Content(list, node), Content(list', node'), result')
<1>1. PICK cs : cs = Content(list, node)
  OBVIOUS
<1>2. \A l \in Live : l \in Lists /\ cs[l] # Free /\ Len(cs[l]) = list[l].length /\ list[l].length \in Nat
  BY <1>1, ContentSeq, MaxLengthAssumption DEF Live
<1>3. CASE \E l \in Lists : ListCreate(l)
  <2>1. PICK l \in Lists : ListCreate(l)
    BY <1>3
  <2>2. Inv' /\ Content(list', node') = [cs EXCEPT ![l] = <<>>]
    BY <1>1, <2>1, CreateStep
  <2>3. cs[l] = Free /\ result' = None
    BY <1>1, <2>1 DEF ListCreate, Content
  <2>. QED BY <1>1, <2>2, <2>3 DEF Called
<1>4. ASSUME NEW l \in Live,
             \/ \E v \in Values : ListAdd(l, v)
             \/ \E v \in Values, i \in 0 .. MaxLength : InsertLast(l, v, i)
      PROVE  Inv' /\ Called(cs, Content(list', node'), result')
  <2>1. PICK v \in Values : ListAdd(l, v)
    BY <1>4 DEF InsertLast
  <2>. QED BY <1>1, <2>1, AddCalls
<1>5. ASSUME NEW l \in Live,
             \/ \E m \in Lists, i, j \in 0 .. MaxLength : Slice(l, m, i, j)
             \/ \E m \in Lists, i \in 0 .. MaxLength : SliceFrom(l, m, i)
      PROVE  Inv' /\ Called(cs, Content(list', node'), result')
  <2>1. PICK m \in Lists, i \in 0 .. MaxLength, j \in 0 .. MaxLength : Slice(l, m, i, j) \/ SliceFrom(l, m, i)
    BY <1>5
  <2>. QED BY <1>1, <2>1, SliceCalls
<1>6. ASSUME NEW l \in Live, NEW i \in 0 .. MaxLength, ListGet(l, i)
      PROVE  Inv' /\ Called(cs, Content(list', node'), result')
  <2>1. /\ Inv' /\ UNCHANGED <<list, node>>
        /\ i < Len(cs[l]) /\ result' = cs[l][i+1]
    BY <1>1, <1>6, GetStep
  <2>2. Content(list', node') = cs
    BY <1>1, <2>1
  <2>3. i \in 0 .. Len(cs[l])
    BY <1>2, <2>1, MaxLengthAssumption
  <2>. QED BY <1>2, <2>1, <2>2, <2>3 DEF Called
<1>7. ASSUME NEW l \in Live, NEW v \in Objects, AllDefined(l), ListIndexOf(l, v)
      PROVE  Inv' /\ Called(cs, Content(list', node'), result')
  <2>1. Inv' /\ UNCHANGED <<list, node>> /\ result' = Seqs!IndexIn(cs[l], v)
    BY <1>1, <1>7, IndexOfStep
  <2>2. Content(list', node') = cs /\ v \in Values
    BY <1>1, <2>1 DEF Values
  <2>. QED BY <1>2, <2>1, <2>2 DEF Called
<1>8. ASSUME NEW l \in Live, ListDestroy(l)
      PROVE  Inv' /\ Called(cs, Content(list', node'), result')
  <2>1. Inv' /\ result' = None /\ Content(list', node') = [cs EXCEPT ![l] = Free]
    BY <1>1, <1>8, DestroyStep
  <2>. QED BY <1>2, <2>1 DEF Called
<1>. QED BY <1>1, <1>3, <1>4, <1>5, <1>6, <1>7, <1>8 DEF Next

LEMMA StutterStep == Inv /\ UNCHANGED vars => Inv'
BY DEF Inv, vars

LEMMA InvStep == Inv /\ [Next]_vars => Inv'
BY NextCalls, StutterStep

-----------------------------------------------------------------------------
(* What the invariant gives.                                               *)

LEMMA InvType == Inv => TypeOK
<1>. SUFFICES ASSUME Inv PROVE TypeOK
  OBVIOUS
<1>1. PICK P : Threads(list, node, P)
  BY DEF Inv, Sound
<1>. QED BY <1>1 DEF Inv, Sound, Threads, TypeOK

LEMMA InvLinked == Inv => WellLinked
<1>. SUFFICES ASSUME Inv PROVE WellLinked
  OBVIOUS
<1>1. PICK P : Threads(list, node, P)
  BY DEF Inv, Sound
<1>2. ASSUME NEW l \in Live
      PROVE  /\ FromFirst(l, list[l].length) = NULL
             /\ \A k \in 0 .. list[l].length - 1 :
                  /\ FromFirst(l, k) \in Nodes /\ node[FromFirst(l, k)] # Free
                  /\ FromFirst(l, k) = FromLast(l, list[l].length - 1 - k)
  <2>1. PICK p : p = P[l]
    OBVIOUS
  <2>2. Path(list[l], node, p)
    BY <1>1, <2>1 DEF Threads, Live
  <2>3. Len(p) \in Nat /\ Len(p) = list[l].length
    BY <2>2, PathEnds DEF Path
  <2>4. \A i \in 1 .. Len(p) : p[i] \in Nodes /\ node[p[i]] # Free
    BY <1>1, <2>1, NodesAllocated DEF Live
  <2>5. FromFirst(l, list[l].length) = NULL
    BY <2>2, <2>3, PathFromFirst DEF FromFirst
  <2>6. ASSUME NEW k \in 0 .. list[l].length - 1
        PROVE  /\ FromFirst(l, k) \in Nodes /\ node[FromFirst(l, k)] # Free
               /\ FromFirst(l, k) = FromLast(l, list[l].length - 1 - k)
    <3>1. /\ k \in Nat /\ k < Len(p) /\ k + 1 \in 1 .. Len(p)
          /\ Len(p) - 1 - k \in Nat /\ Len(p) - 1 - k < Len(p) /\ Len(p) - (Len(p) - 1 - k) = k + 1
      BY <2>3
    <3>2. Walk(node, "next", list[l].first, k) = p[k+1]
      BY <2>2, <3>1, PathFromFirst
    <3>3. Walk(node, "prev", list[l].last, Len(p) - 1 - k) = p[k+1]
      BY <2>2, <3>1, PathFromLast
    <3>. QED BY <2>3, <2>4, <3>1, <3>2, <3>3 DEF FromFirst, FromLast
  <2>. QED BY <2>5, <2>6
<1>3. ASSUME NEW m \in Live PROVE Chain(list[m].first) = {P[m][i] : i \in 1 .. Len(P[m])}
  <2>1. Visits(list, node, P, m)
    BY <1>1, ChainNodes DEF Live
  <2>. QED BY <2>1 DEF Chain, Visits
<1>4. ASSUME NEW n \in Nodes \ Unused
      PROVE  \E l \in Live : n \in Chain(list[l].first) /\ \A m \in Live \ {l} : n \notin Chain(list[m].first)
  <2>1. n \in Nodes /\ node[n] # Free
    BY DEF Unused
  <2>2. PICK l \in Lists : \E i \in 1 .. Len(P[l]) : P[l][i] = n
    BY <1>1, <2>1 DEF Threads
  <2>3. PICK i \in 1 .. Len(P[l]) : P[l][i] = n
    BY <2>2
  <2>4. l \in Live
    <3>1. list[l] = Free => Len(P[l]) = 0
      BY <1>1 DEF Threads
    <3>. QED BY <2>3, <3>1 DEF Live
  <2>5. n \in Chain(list[l].first)
    BY <1>3, <2>3, <2>4
  <2>6. ASSUME NEW m \in Live \ {l} PROVE n \notin Chain(list[m].first)
    <3>1. m \in Lists /\ m \in Live /\ m # l
      BY DEF Live
    <3>2. ASSUME NEW j \in 1 .. Len(P[m]) PROVE P[m][j] # n
      BY <1>1, <2>3, <3>1 DEF Threads
    <3>. QED BY <1>3, <3>1, <3>2, SMTT(30)
  <2>. QED BY <2>4, <2>5, <2>6
<1>. QED BY <1>2, <1>4 DEF WellLinked

LEMMA InvRefs == Inv => RefsMatch
<1>1. \A o : {n \in Nodes \ Unused : node[n].value = o} = Holders(node, o)
  BY DEF Unused, Holders
<1>. QED BY <1>1 DEF Inv, Sound, RefsMatch

(* Lists and nodes are allocated or free, no reference count is below zero, *)
(* and the calls return what they should.                                   *)
THEOREM TypeCorrect == Spec => []TypeOK
<1>1. Init => Inv
  BY InitInv
<1>. QED BY <1>1, InvStep, InvType, PTL DEF Spec

(* Both directions of every list visit the same nodes, as many as its       *)
(* length, and every allocated node is on exactly one list.                 *)
THEOREM StaysLinked == Spec => []WellLinked
<1>1. Init => Inv
  BY InitInv
<1>. QED BY <1>1, InvStep, InvLinked, PTL DEF Spec

(* An object has one reference for every node that holds it.                *)
THEOREM ReferencesCounted == Spec => []RefsMatch
<1>1. Init => Inv
  BY InitInv
<1>. QED BY <1>1, InvStep, InvRefs, PTL DEF Spec

(* A list is a sequence: every operation of sollist.c changes the elements   *)
(* and returns what the comments of sollist.h say, and follows no NULL       *)
(* pointer, when indexes are within the list and the elements searched are   *)
(* defined.                                                                  *)
THEOREM ListIsSequence == Spec => IsSequence
<1>1. Init => Inv /\ Seqs!Init
  <2>1. SUFFICES ASSUME Init PROVE Inv /\ Seqs!Init
    OBVIOUS
  <2>2. Inv /\ \A l \in Lists : Content(list, node)[l] = Free
    BY <2>1, InitInv
  <2>3. Bar = [l \in Lists |-> Free]
    BY <2>2, BarContent DEF Content
  <2>4. (IF fault THEN Free ELSE result) = None
    BY <2>1 DEF Init
  <2>. QED BY <2>2, <2>3, <2>4 DEF Seqs!Init, Bar
<1>2. (Bar = Content(list, node))'
  BY BarContent, PTL
<1>3. ASSUME Inv, Next PROVE Seqs!Next
  <2>1. PICK cs, ds, r : cs = Bar /\ ds = Bar' /\ r = result'
    OBVIOUS
  <2>2. Called(cs, ds, r) /\ Inv'
    BY <1>2, <1>3, <2>1, BarContent, NextCalls
  <2>3. fault = FALSE /\ fault' = FALSE
    BY <1>3, <2>2 DEF Inv
  <2>4. /\ cs = [l \in Lists |-> IF list[l] = Free THEN Free ELSE Elements(l)]
        /\ ds = [l \in Lists |-> IF list[l] = Free THEN Free ELSE Elements(l)]'
        /\ r = (IF fault THEN Free ELSE result)'
    BY <2>1, <2>3 DEF Bar
  <2>5. CASE \E l \in Lists : cs[l] = Free /\ ds = [cs EXCEPT ![l] = <<>>] /\ r = None
    BY <2>4, <2>5 DEF Seqs!Next, Seqs!Create, Seqs!Set
  <2>6. ASSUME NEW l \in {m \in Lists : cs[m] # Free}, NEW v \in Values, r = Seqs!IndexIn(cs[l], v), ds = cs
        PROVE  Seqs!Next
    BY <2>4, <2>6 DEF Seqs!Next, Seqs!Existing, Seqs!IndexOf
  <2>7. ASSUME NEW l \in {m \in Lists : cs[m] # Free}, NEW i \in 0 .. Len(cs[l]), NEW v \in Values, r = None,
               ds = [cs EXCEPT ![l] = SubSeq(cs[l], 1, i) \o <<v>> \o SubSeq(cs[l], i + 1, Len(cs[l]))]
        PROVE  Seqs!Next
    <3>1. Seqs!Insert(l, v, i)
      BY <2>4, <2>7 DEF Seqs!Insert, Seqs!Set
    <3>. QED BY <2>4, <3>1 DEF Seqs!Next, Seqs!Existing
  <2>8. ASSUME NEW l \in {m \in Lists : cs[m] # Free}, NEW i \in 0 .. Len(cs[l]),
               i < Len(cs[l]), r = cs[l][i+1], ds = cs
        PROVE  Seqs!Next
    BY <2>4, <2>8 DEF Seqs!Next, Seqs!Existing, Seqs!Get
  <2>9. ASSUME NEW l \in {m \in Lists : cs[m] # Free}, NEW i \in 0 .. Len(cs[l]),
               NEW m \in Lists, NEW j \in 0 .. Len(cs[l]), cs[m] = Free, i <= j, j <= Len(cs[l]),
               ds = [cs EXCEPT ![m] = SubSeq(cs[l], i + 1, j)], r = None
        PROVE  Seqs!Next
    BY <2>4, <2>9 DEF Seqs!Next, Seqs!Existing, Seqs!Slice, Seqs!Set
  <2>10. ASSUME NEW l \in {m \in Lists : cs[m] # Free}, ds = [cs EXCEPT ![l] = Free], r = None
         PROVE  Seqs!Next
    BY <2>4, <2>10 DEF Seqs!Next, Seqs!Existing, Seqs!Destroy, Seqs!Set
  <2>. QED BY <2>2, <2>5, <2>6, <2>7, <2>8, <2>9, <2>10 DEF Called
<1>4. ASSUME UNCHANGED vars PROVE UNCHANGED Seqs!vars
  <2>1. Bar' = Bar
    BY <1>2, <1>4, BarContent DEF vars
  <2>. QED BY <1>4, <2>1 DEF vars, Seqs!vars, Bar
<1>5. Inv /\ [Next]_vars => [Seqs!Next]_(Seqs!vars)
  BY <1>3, <1>4
<1>. QED BY <1>1, <1>5, InvStep, PTL DEF Spec, IsSequence, Seqs!Spec
=============================================================================
