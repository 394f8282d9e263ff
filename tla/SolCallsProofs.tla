--------------------------- MODULE SolCallsProofs ---------------------------
(***************************************************************************)
(* Proofs about SolCalls, for any functions, any types of errors and any   *)
(* bound on the calls.                                                     *)
(***************************************************************************)
EXTENDS SolCalls, Integers, FiniteSets, FiniteSetTheorems, WellFoundedInduction, TLAPS

-----------------------------------------------------------------------------
(* Induction over the natural numbers, as facts about sets of numbers. *)

(* A set of numbers that has 0, and with a number the next, has them all:  *)
(* the form in which the proofs about walks, scopes and handlers use it.   *)
LEMMA SetInduction ==
  ASSUME NEW S, 0 \in S, \A n \in Nat : n \in S => n + 1 \in S
  PROVE  Nat \subseteq S
<1>. DEFINE R == OpToRel(<, Nat)
            T == Nat \ S
<1>1. SUFFICES ASSUME T # {} PROVE FALSE
  OBVIOUS
<1>2. IsWellFoundedOn(R, Nat)
  BY NatLessThanWellFounded
<1>3. R = {ss \in Nat \X Nat : ss[1] < ss[2]}
  BY DEF OpToRel
<1>. HIDE DEF R
<1>4. PICK x \in T : \A y \in T : ~(<<y, x>> \in R)
  BY <1>1, <1>2, WFMin
<1>5. x \in Nat /\ x # 0 /\ x - 1 \in Nat /\ (x - 1) + 1 = x
  BY <1>4
<1>6. <<x - 1, x>> \in R
  BY <1>3, <1>5
<1>7. x - 1 \in S
  BY <1>4, <1>5, <1>6
<1>. QED BY <1>4, <1>5, <1>7

-----------------------------------------------------------------------------
(* The recursive function PoolOf.                                          *)

\* f puts one sequence of s after another on top of a base.
Joins(f, base, s) ==
  /\ f = [n \in Nat |-> f[n]]
  /\ \A n \in Nat : f[n] = IF n = 0 THEN base ELSE s[n] \o f[n-1]

\* There is such a function.
LEMMA JoinExists == \A base, s : \E f : Joins(f, base, s)
<1>. SUFFICES ASSUME NEW base, NEW s PROVE \E f : Joins(f, base, s)
  OBVIOUS
<1>. DEFINE Step(g, n) == IF n = 0 THEN base ELSE s[n] \o g[n-1]
            Starts(g, n) == \A i \in 0 .. n : g[i] = Step(g, i)
            Some == {n \in Nat : \E g : Starts(g, n)}
            One == {n \in Nat : \A g, h : Starts(g, n) /\ Starts(h, n) => g[n] = h[n]}
<1>1. Nat \subseteq Some
  <2>1. 0 \in Some
    <3>1. Starts([i \in {0} |-> base], 0)
      OBVIOUS
    <3>. QED BY <3>1
  <2>2. ASSUME NEW n \in Nat, n \in Some PROVE n + 1 \in Some
    <3>1. PICK g : Starts(g, n)
      BY <2>2
    <3>. DEFINE h == [i \in 0 .. n + 1 |-> IF i <= n THEN g[i] ELSE s[n+1] \o g[n]]
    <3>2. ASSUME NEW i \in 0 .. n + 1 PROVE h[i] = Step(h, i)
      <4>1. CASE i = n + 1
        <5>1. h[i] = s[n+1] \o g[n] /\ h[n] = g[n] /\ i # 0 /\ i - 1 = n
          BY <4>1
        <5>. QED BY <5>1, <4>1
      <4>2. CASE i # n + 1 /\ i # 0
        <5>1. i \in 0 .. n /\ i - 1 \in 0 .. n /\ h[i] = g[i] /\ h[i-1] = g[i-1]
          BY <4>2
        <5>. QED BY <5>1, <3>1, <4>2
      <4>3. CASE i # n + 1 /\ i = 0
        <5>1. i \in 0 .. n /\ h[i] = g[i]
          BY <4>3
        <5>. QED BY <5>1, <3>1, <4>3
      <4>. QED BY <4>1, <4>2, <4>3
    <3>3. Starts(h, n + 1)
      BY <3>2
    <3>. HIDE DEF h, Starts
    <3>. QED BY <3>3
  <2>. HIDE DEF Some
  <2>. QED BY <2>1, <2>2, SetInduction
<1>2. Nat \subseteq One
  <2>1. 0 \in One
    OBVIOUS
  <2>2. ASSUME NEW n \in Nat, n \in One PROVE n + 1 \in One
    <3>1. SUFFICES ASSUME NEW g, NEW h, Starts(g, n + 1), Starts(h, n + 1)
                   PROVE  g[n+1] = h[n+1]
      OBVIOUS
    <3>2. Starts(g, n) /\ Starts(h, n)
      BY <3>1
    <3>3. g[n] = h[n]
      BY <2>2, <3>2
    <3>4. n + 1 \in 0 .. n + 1 /\ n + 1 # 0 /\ (n + 1) - 1 = n
      OBVIOUS
    <3>. QED BY <3>1, <3>3, <3>4
  <2>. HIDE DEF One
  <2>. QED BY <2>1, <2>2, SetInduction
<1>. DEFINE G(n) == CHOOSE g : Starts(g, n)
            f == [n \in Nat |-> G(n)[n]]
<1>3. ASSUME NEW n \in Nat PROVE Starts(G(n), n)
  <2>1. \E g : Starts(g, n)
    BY <1>1
  <2>. HIDE DEF Starts
  <2>. QED BY <2>1
<1>4. ASSUME NEW n \in Nat PROVE f[n] = Step(f, n)
  <2>1. G(n)[n] = Step(G(n), n)
    BY <1>3
  <2>. HIDE DEF G
  <2>2. CASE n = 0
    BY <2>1, <2>2
  <2>3. CASE n # 0
    <3>1. n - 1 \in Nat
      BY <2>3
    <3>2. Starts(G(n), n - 1) /\ Starts(G(n-1), n - 1)
      BY <1>3, <3>1
    <3>3. G(n)[n-1] = G(n-1)[n-1]
      BY <1>2, <3>1, <3>2
    <3>. QED BY <2>1, <2>3, <3>1, <3>3
  <2>. QED BY <2>2, <2>3
<1>5. f = [n \in Nat |-> f[n]]
  OBVIOUS
<1>. HIDE DEF f
<1>. QED BY <1>4, <1>5 DEF Joins

\* The recursion of PoolOf means what it says.
LEMMA PoolOfDef ==
  PoolOf[0] = <<Global>> /\ \A n \in Nat : PoolOf[n+1] = ScopesOf(n+1) \o PoolOf[n]
<1>0. PICK s, base : base = <<Global>> /\ \A n \in Nat : s[n] = ScopesOf(n)
  <2>1. \A n \in Nat : [d \in Nat |-> ScopesOf(d)][n] = ScopesOf(n)
    OBVIOUS
  <2>. QED BY <2>1
<1>1. PICK f : Joins(f, base, s)
  BY JoinExists
<1>2. f = [n \in Nat |-> IF n = 0 THEN <<Global>> ELSE ScopesOf(n) \o f[n-1]]
  BY <1>0, <1>1 DEF Joins
<1>3. PoolOf = [n \in Nat |-> IF n = 0 THEN <<Global>> ELSE ScopesOf(n) \o PoolOf[n-1]]
  BY <1>2 DEF PoolOf
<1>4. PoolOf[0] = <<Global>>
  BY <1>3
<1>5. ASSUME NEW n \in Nat PROVE PoolOf[n+1] = ScopesOf(n+1) \o PoolOf[n]
  <2>1. n + 1 \in Nat /\ n + 1 # 0 /\ (n + 1) - 1 = n
    OBVIOUS
  <2>2. PoolOf[n+1] = IF n + 1 = 0 THEN <<Global>> ELSE ScopesOf(n+1) \o PoolOf[(n+1)-1]
    BY <1>3, <2>1
  <2>. QED BY <2>1, <2>2
<1>. QED BY <1>4, <1>5

-----------------------------------------------------------------------------
(* The pool that the calls in progress account for. *)

Entries == {Global} \cup {Scope(d) : d \in 1 .. MaxDepth} \cup {ClosureOf(f) : f \in Funcs}

LEMMA StackFacts ==
  ASSUME TypeOK
  PROVE  /\ Depth \in Nat /\ Depth \in 0 .. MaxDepth /\ MaxDepth \in Nat /\ DOMAIN stack = 1 .. Depth
         /\ stack = <<>> <=> Depth = 0
         /\ \A d \in 1 .. Depth : /\ stack[d] \in Calls
                                  /\ stack[d].caller \in Executes \cup Funcs
                                  /\ stack[d].code \in {Trying, Done, Raised}
                                  /\ stack[d].expanding \in BOOLEAN
<1>1. stack \in Seq(Calls) /\ Depth <= MaxDepth /\ MaxDepth \in Nat
  BY DepthAssumption DEF TypeOK
<1>2. Depth \in Nat /\ DOMAIN stack = 1 .. Depth /\ (stack = <<>> <=> Depth = 0)
  BY <1>1 DEF Depth
<1>3. \A d \in 1 .. Depth : stack[d] \in Calls
  BY <1>1, <1>2
<1>. QED BY <1>1, <1>2, <1>3 DEF Calls

LEMMA ShortSeqs ==
  ASSUME NEW S, NEW x \in S, NEW y \in S, NEW s \in Seq(S)
  PROVE  <<x>> \in Seq(S) /\ <<x, y>> \in Seq(S) /\ <<>> \o s = s
OBVIOUS

\* What ScopesOf is, case by case.
LEMMA ScopesCases ==
  ASSUME NEW d
  PROVE  /\ stack[d].caller \in Funcs /\ ~stack[d].expanding
              => ScopesOf(d) = <<Scope(d), ClosureOf(stack[d].caller)>>
         /\ stack[d].caller = Binary => ScopesOf(d) = <<Scope(d)>>
         /\ stack[d].caller # Binary /\ ~(stack[d].caller \in Funcs /\ ~stack[d].expanding)
              => ScopesOf(d) = <<>>
<1>. Binary \notin Funcs
  BY FuncsAssumption DEF Executes
<1>. QED BY DEF ScopesOf

LEMMA ScopesType == \A d \in 1 .. MaxDepth : ScopesOf(d) \in Seq(Entries)
<1>1. SUFFICES ASSUME NEW d \in 1 .. MaxDepth PROVE ScopesOf(d) \in Seq(Entries)
  OBVIOUS
<1>2. Scope(d) \in Entries /\ \A f \in Funcs : ClosureOf(f) \in Entries
  BY DEF Entries
<1>3. CASE stack[d].caller \in Funcs /\ ~stack[d].expanding
  <2>1. ClosureOf(stack[d].caller) \in Entries
    BY <1>2, <1>3
  <2>2. <<Scope(d), ClosureOf(stack[d].caller)>> \in Seq(Entries)
    BY <1>2, <2>1, ShortSeqs
  <2>. QED BY <1>3, <2>2, ScopesCases
<1>4. CASE stack[d].caller = Binary
  <2>1. <<Scope(d)>> \in Seq(Entries)
    BY <1>2, ShortSeqs
  <2>. QED BY <1>4, <2>1, ScopesCases
<1>5. CASE stack[d].caller # Binary /\ ~(stack[d].caller \in Funcs /\ ~stack[d].expanding)
  <2>1. ScopesOf(d) = <<>>
    BY <1>5, ScopesCases
  <2>. QED BY <2>1
<1>. QED BY <1>3, <1>4, <1>5

LEMMA PoolType ==
  ASSUME TypeOK
  PROVE  \A d \in 0 .. Depth : PoolOf[d] \in Seq(Entries)
<1>1. PICK S : S = {n \in Nat : n <= Depth => PoolOf[n] \in Seq(Entries)}
  OBVIOUS
<1>2. 0 \in S
  <2>1. PoolOf[0] = <<Global>>
    BY PoolOfDef
  <2>2. <<Global>> \in Seq(Entries)
    BY DEF Entries
  <2>. QED BY <1>1, <2>1, <2>2
<1>3. ASSUME NEW n \in Nat, n \in S PROVE n + 1 \in S
  <2>1. SUFFICES ASSUME n + 1 <= Depth PROVE PoolOf[n+1] \in Seq(Entries)
    BY <1>1
  <2>2. PoolOf[n] \in Seq(Entries)
    BY <1>1, <1>3, <2>1, StackFacts
  <2>3. ScopesOf(n+1) \in Seq(Entries)
    BY <2>1, StackFacts, ScopesType
  <2>4. PoolOf[n+1] = ScopesOf(n+1) \o PoolOf[n]
    BY PoolOfDef
  <2>. QED BY <2>2, <2>3, <2>4
<1>4. Nat \subseteq S
  BY <1>2, <1>3, SetInduction
<1>. QED BY <1>1, <1>4

\* The same facts about the next state.
LEMMA PoolOfDefNext ==
  (PoolOf[0] = <<Global>> /\ \A n \in Nat : PoolOf[n+1] = ScopesOf(n+1) \o PoolOf[n])'
BY PoolOfDef, PTL

LEMMA ScopesTypeNext == (\A d \in 1 .. MaxDepth : ScopesOf(d) \in Seq(Entries))'
BY ScopesType, PTL

\* Calls without scopes do not change the pool.
LEMMA PoolSkip ==
  ASSUME TypeOK, NEW k \in Nat, NEW m \in Nat, k <= m, m <= Depth,
         \A d \in k + 1 .. m : ScopesOf(d) = <<>>
  PROVE  PoolOf[m] = PoolOf[k]
<1>1. PICK S : S = {n \in Nat : k <= n /\ n <= m => PoolOf[n] = PoolOf[k]}
  OBVIOUS
<1>2. 0 \in S
  BY <1>1
<1>3. ASSUME NEW n \in Nat, n \in S PROVE n + 1 \in S
  <2>1. SUFFICES ASSUME k <= n, n + 1 <= m PROVE PoolOf[n+1] = PoolOf[k]
    BY <1>1
  <2>2. PoolOf[n] = PoolOf[k] /\ ScopesOf(n+1) = <<>>
    BY <1>1, <1>3, <2>1
  <2>3. PoolOf[n] \in Seq(Entries)
    BY <2>1, StackFacts, PoolType
  <2>4. PoolOf[n+1] = ScopesOf(n+1) \o PoolOf[n]
    BY PoolOfDef
  <2>5. <<>> \o PoolOf[n] = PoolOf[n]
    BY <2>3
  <2>. QED BY <2>2, <2>4, <2>5
<1>4. m \in S
  BY <1>2, <1>3, SetInduction
<1>. QED BY <1>1, <1>4

\* The pool depends only on who was called and what is expanding.
LEMMA PoolSame ==
  ASSUME NEW k \in Nat,
         \A d \in 1 .. k : /\ stack'[d].caller = stack[d].caller
                           /\ stack'[d].expanding = stack[d].expanding
  PROVE  PoolOf'[k] = PoolOf[k]
<1>1. PICK S : S = {n \in Nat : n <= k => PoolOf'[n] = PoolOf[n]}
  OBVIOUS
<1>2. 0 \in S
  <2>1. PoolOf[0] = <<Global>> /\ PoolOf'[0] = <<Global>>
    BY PoolOfDef, PoolOfDefNext
  <2>. QED BY <1>1, <2>1
<1>3. ASSUME NEW n \in Nat, n \in S PROVE n + 1 \in S
  <2>1. SUFFICES ASSUME n + 1 <= k PROVE PoolOf'[n+1] = PoolOf[n+1]
    BY <1>1
  <2>2. PoolOf'[n] = PoolOf[n]
    BY <1>1, <1>3, <2>1
  <2>3. ScopesOf(n+1)' = ScopesOf(n+1)
    BY <2>1 DEF ScopesOf
  <2>4. PoolOf[n+1] = ScopesOf(n+1) \o PoolOf[n]
    BY PoolOfDef
  <2>5. PoolOf'[n+1] = ScopesOf(n+1)' \o PoolOf'[n]
    BY PoolOfDefNext
  <2>. QED BY <2>2, <2>3, <2>4, <2>5
<1>4. k \in S
  BY <1>2, <1>3, SetInduction
<1>. QED BY <1>1, <1>4

-----------------------------------------------------------------------------
(* The inductive invariant. *)

\* Only macros expand, and only the innermost call can have landed.
CallsInv ==
  /\ \A d \in 1 .. Depth : stack[d].expanding => stack[d].caller \in Macros
  /\ \A d \in 1 .. Depth - 1 : stack[d].expanding \/ stack[d].code = Trying

\* FrameStack, and the depth of a call is greater than its slot: while there
\* is room for a call there is a slot for its try.
SlotsInv ==
  /\ \A i \in 0 .. top : frames[i] \in Tries /\ i < frames[i]
  /\ \A d \in Tries : \E i \in 0 .. top : frames[i] = d
  /\ \A i, j \in 0 .. top : i < j => frames[i] < frames[j]

PoolInv == pool = PoolOf[Depth] /\ \A f \in Funcs : closure[f] = ClosureOf(f)

PendingInv == error # NULL <=> Landed /\ Innermost.code = Raised

Inv == TypeOK /\ (~exited => CallsInv /\ SlotsInv /\ PoolInv /\ PendingInv)

\* A call inside its try has the slot on top when it is the innermost.
LEMMA TopSlot ==
  ASSUME TypeOK, SlotsInv, stack # <<>>, ~Innermost.expanding
  PROVE  top \in Nat /\ top \in 0 .. top /\ frames[top] = Depth
<1>1. Depth \in Nat /\ Depth > 0 /\ top \in Int
  BY StackFacts DEF TypeOK
<1>2. Depth \in Tries
  BY <1>1 DEF Tries, Innermost
<1>3. PICK i \in 0 .. top : frames[i] = Depth
  BY <1>2 DEF SlotsInv
<1>4. top \in Nat /\ top \in 0 .. top
  BY <1>1, <1>3
<1>5. frames[top] \in Tries
  BY <1>4 DEF SlotsInv
<1>6. frames[top] \in Nat /\ frames[top] <= Depth
  BY <1>1, <1>5 DEF Tries
<1>7. i # top => frames[i] < frames[top]
  BY <1>1, <1>3, <1>4 DEF SlotsInv
<1>. QED BY <1>1, <1>3, <1>4, <1>6, <1>7

\* Above the call of a slot are calls of later slots, and expansions.
LEMMA AboveSlot ==
  ASSUME TypeOK, SlotsInv, NEW t \in 0 .. top
  PROVE  /\ frames[t] \in 1 .. Depth /\ ~stack[frames[t]].expanding
         /\ \A d \in frames[t] + 1 .. Depth :
              stack[d].expanding \/ \E i \in t + 1 .. top : frames[i] = d
<1>1. frames[t] \in 1 .. Depth /\ ~stack[frames[t]].expanding /\ Depth \in Nat /\ top \in Int
  <2>1. frames[t] \in Tries
    BY DEF SlotsInv
  <2>2. frames[t] \in 1 .. Depth /\ ~stack[frames[t]].expanding
    BY <2>1 DEF Tries
  <2>3. Depth \in Nat
    BY StackFacts
  <2>4. top \in -1 .. MaxDepth - 1 /\ MaxDepth \in Nat
    BY DepthAssumption DEF TypeOK
  <2>5. top \in Int
    BY <2>4
  <2>. QED BY <2>2, <2>3, <2>5
<1>2. ASSUME NEW d \in frames[t] + 1 .. Depth, ~stack[d].expanding
      PROVE  \E i \in t + 1 .. top : frames[i] = d
  <2>1. d \in Tries
    BY <1>1, <1>2 DEF Tries
  <2>2. PICK i \in 0 .. top : frames[i] = d
    BY <2>1 DEF SlotsInv
  <2>3. i < t => frames[i] < frames[t]
    BY <1>1 DEF SlotsInv
  <2>4. i # t /\ ~(i < t)
    BY <1>1, <2>2, <2>3
  <2>. QED BY <1>1, <2>2, <2>4
<1>3. \A d \in frames[t] + 1 .. Depth :
        stack[d].expanding \/ \E i \in t + 1 .. top : frames[i] = d
  <2>. SUFFICES ASSUME NEW d \in frames[t] + 1 .. Depth, ~stack[d].expanding
                PROVE  \E i \in t + 1 .. top : frames[i] = d
    OBVIOUS
  <2>. QED BY <1>2
<1>. QED BY <1>1, <1>3

LEMMA NoScopes ==
  ASSUME TypeOK, CallsInv, NEW d \in 1 .. Depth, stack[d].expanding
  PROVE  ScopesOf(d) = <<>>
<1>1. stack[d].caller \in Funcs /\ Binary \notin Funcs
  BY FuncsAssumption DEF CallsInv, Executes
<1>. QED BY <1>1, ScopesCases

-----------------------------------------------------------------------------
(* What the actions do to the C stack. *)

Enters(c) ==
  /\ stack' \in Seq(Calls) /\ Len(stack') = Depth + 1
  /\ \A d \in 1 .. Depth : stack'[d] = stack[d]
  /\ stack'[Depth+1].caller = c /\ stack'[Depth+1].code = Trying /\ ~stack'[Depth+1].expanding

Lands(k, code) ==
  /\ stack' \in Seq(Calls) /\ Len(stack') = k
  /\ \A d \in 1 .. k : /\ stack'[d].caller = stack[d].caller
                       /\ stack'[d].expanding = stack[d].expanding
                       /\ stack'[d].code = IF d = k THEN code ELSE stack[d].code

Leaves ==
  /\ stack' \in Seq(Calls) /\ Len(stack') = Depth - 1
  /\ \A d \in 1 .. Depth - 1 : stack'[d] = stack[d]

Expands ==
  /\ stack' \in Seq(Calls) /\ Len(stack') = Depth
  /\ \A d \in 1 .. Depth - 1 : stack'[d] = stack[d]
  /\ stack'[Depth].caller = Innermost.caller /\ stack'[Depth].code = Innermost.code
  /\ stack'[Depth].expanding

LEMMA EnterShape ==
  ASSUME TypeOK, NEW c \in Executes \cup Funcs, EnterTry(c)
  PROVE  Enters(c)
<1>. DEFINE r == [caller |-> c, code |-> Trying, expanding |-> FALSE]
<1>1. r \in Calls /\ r.caller = c /\ r.code = Trying /\ r.expanding = FALSE
  BY DEF Calls
<1>2. stack \in Seq(Calls) /\ stack' = Append(stack, r)
  BY DEF TypeOK, EnterTry
<1>. HIDE DEF r
<1>3. stack' \in Seq(Calls) /\ Len(stack') = Len(stack) + 1
      /\ (\A d \in 1 .. Len(stack) : stack'[d] = stack[d]) /\ stack'[Len(stack)+1] = r
  BY <1>1, <1>2
<1>. QED BY <1>1, <1>3 DEF Enters, Depth

LEMMA ExceptShape ==
  ASSUME NEW S, NEW s \in Seq(S), NEW k \in 1 .. Len(s), NEW r \in S,
         NEW t, t = [s EXCEPT ![k] = r]
  PROVE  /\ t \in Seq(S) /\ Len(t) = Len(s)
         /\ \A d \in 1 .. Len(s) : t[d] = IF d = k THEN r ELSE s[d]
OBVIOUS

\* A call with one field changed.
LEMMA CodeExcept ==
  ASSUME NEW r \in Calls, NEW x \in {Trying, Done, Raised}, NEW q, q = [r EXCEPT !.code = x]
  PROVE  q \in Calls /\ q.caller = r.caller /\ q.code = x /\ q.expanding = r.expanding
BY DEF Calls

LEMMA ExpandingExcept ==
  ASSUME NEW r \in Calls, NEW q, q = [r EXCEPT !.expanding = TRUE]
  PROVE  q \in Calls /\ q.caller = r.caller /\ q.code = r.code /\ q.expanding = TRUE
BY DEF Calls

LEMMA LandShape ==
  ASSUME TypeOK, NEW t \in 0 .. top, NEW code \in {Done, Raised},
         frames[t] \in 1 .. Depth, Jump(t, code)
  PROVE  Lands(frames[t], code)
<1>1. PICK k : k = frames[t]
  OBVIOUS
<1>2. PICK s : s = SubSeq(stack, 1, k)
  OBVIOUS
<1>3. k \in Nat /\ k \in 1 .. Depth /\ stack \in Seq(Calls) /\ Depth = Len(stack) /\ Depth \in Nat
  BY <1>1, StackFacts DEF TypeOK, Depth
<1>4. s \in Seq(Calls) /\ Len(s) = k /\ \A d \in 1 .. k : s[d] = stack[d]
  BY <1>2, <1>3
<1>5. stack' = [s EXCEPT ![k] = [s[k] EXCEPT !.code = code]]
  BY <1>1, <1>2 DEF Jump
<1>6. PICK r : r = [s[k] EXCEPT !.code = code]
  OBVIOUS
<1>7. s[k] \in Calls /\ k \in 1 .. k
  BY <1>3, <1>4
<1>8. r \in Calls /\ r.caller = s[k].caller /\ r.code = code /\ r.expanding = s[k].expanding
  <2>1. code \in {Trying, Done, Raised}
    OBVIOUS
  <2>. QED BY <1>6, <1>7, <2>1, CodeExcept
<1>9. stack' = [s EXCEPT ![k] = r]
  BY <1>5, <1>6
<1>10. stack' \in Seq(Calls) /\ Len(stack') = k /\ \A d \in 1 .. k : stack'[d] = IF d = k THEN r ELSE s[d]
  BY <1>3, <1>4, <1>8, <1>9, ExceptShape
<1>. QED BY <1>1, <1>3, <1>4, <1>7, <1>8, <1>10 DEF Lands

LEMMA LeaveShape ==
  ASSUME TypeOK, stack # <<>>, stack' = SubSeq(stack, 1, Depth - 1)
  PROVE  Leaves
<1>1. stack \in Seq(Calls) /\ Depth = Len(stack) /\ Depth \in Nat /\ Depth > 0
  BY StackFacts DEF TypeOK, Depth
<1>. QED BY <1>1 DEF Leaves

LEMMA ExpandShape ==
  ASSUME TypeOK, stack # <<>>, stack' = [stack EXCEPT ![Depth].expanding = TRUE]
  PROVE  Expands
<1>1. PICK s, k : s = stack /\ k = Depth
  OBVIOUS
<1>2. s \in Seq(Calls) /\ k = Len(s) /\ k \in Nat /\ k \in 1 .. Len(s) /\ s[k] \in Calls
  BY <1>1, StackFacts DEF TypeOK, Depth
<1>3. PICK r : r = [s[k] EXCEPT !.expanding = TRUE]
  OBVIOUS
<1>4. r \in Calls /\ r.caller = s[k].caller /\ r.code = s[k].code /\ r.expanding = TRUE
  BY <1>2, <1>3, ExpandingExcept
<1>5. PICK t : t = [s EXCEPT ![k] = r] /\ stack' = t
  BY <1>1, <1>3
<1>e. k \in 1 .. Len(s)
  BY <1>2
<1>6. t \in Seq(Calls) /\ Len(t) = Len(s) /\ \A d \in 1 .. Len(s) : t[d] = IF d = k THEN r ELSE s[d]
  BY <1>2, <1>e, <1>4, <1>5, ExceptShape
<1>7. t[k] = r /\ r.expanding /\ \A d \in 1 .. k - 1 : t[d] = s[d]
  BY <1>2, <1>4, <1>6
<1>. QED BY <1>1, <1>2, <1>4, <1>5, <1>6, <1>7 DEF Expands, Innermost

-----------------------------------------------------------------------------
(* What each shape of step keeps of the invariant. *)

\* A call, with the scopes it pushes.
LEMMA EnterKeeps ==
  ASSUME Inv, ~exited, Running, Depth < MaxDepth, NEW c \in Executes \cup Funcs, EnterTry(c),
         NEW m, m = Depth + 1, pool' = ScopesOf(m)' \o pool, UNCHANGED <<error, closure, exited>>
  PROVE  Inv'
<1>1. TypeOK /\ CallsInv /\ SlotsInv /\ PoolInv /\ PendingInv
  BY DEF Inv
<1>2. Enters(c) /\ Depth \in Nat /\ MaxDepth \in Nat /\ Depth' = Depth + 1
  BY <1>1, EnterShape, StackFacts DEF Enters, Depth
<1>3. top \in Int /\ top >= -1 /\ frames \in [0 .. MaxDepth - 1 -> 0 .. MaxDepth]
  BY <1>1 DEF TypeOK
<1>4. top + 1 <= Depth
  <2>1. CASE top = -1
    BY <1>2, <2>1
  <2>2. CASE top # -1
    <3>1. top \in 0 .. top
      BY <1>3, <2>2
    <3>2. frames[top] \in Tries /\ top < frames[top]
      BY <1>1, <3>1 DEF SlotsInv
    <3>3. frames[top] \in Nat /\ frames[top] <= Depth
      BY <1>2, <3>2 DEF Tries
    <3>. QED BY <1>2, <1>3, <3>2, <3>3
  <2>. QED BY <2>1, <2>2
<1>5. top' = top + 1 /\ top + 1 \in 0 .. MaxDepth - 1 /\ frames' = [frames EXCEPT ![top + 1] = Depth + 1]
  BY <1>2, <1>3, <1>4 DEF EnterTry
<1>6. /\ frames' \in [0 .. MaxDepth - 1 -> 0 .. MaxDepth] /\ frames'[top + 1] = Depth + 1
      /\ \A i \in 0 .. top : frames'[i] = frames[i]
  BY <1>2, <1>3, <1>4, <1>5
<1>7. \A d \in 1 .. Depth : stack'[d] = stack[d]
  BY <1>2 DEF Enters
<1>8. Tries' = Tries \cup {Depth + 1} /\ \A d \in Tries : d \in Nat /\ d <= Depth
  <2>1. ~stack'[Depth+1].expanding
    BY <1>2 DEF Enters
  <2>2. \A d \in 1 .. Depth : stack'[d].expanding = stack[d].expanding
    BY <1>7
  <2>. QED BY <1>2, <2>1, <2>2 DEF Tries
<1>9. SlotsInv'
  <2>1. ASSUME NEW i \in 0 .. top + 1 PROVE frames'[i] \in Tries' /\ i < frames'[i]
    <3>1. CASE i = top + 1
      BY <1>2, <1>3, <1>4, <1>6, <1>8, <3>1
    <3>2. CASE i # top + 1
      <4>1. i \in 0 .. top
        BY <1>3, <3>2
      <4>. QED BY <1>1, <1>6, <1>8, <4>1 DEF SlotsInv
    <3>. QED BY <3>1, <3>2
  <2>2. ASSUME NEW d \in Tries' PROVE \E i \in 0 .. top + 1 : frames'[i] = d
    <3>1. CASE d = Depth + 1
      BY <1>3, <1>6, <3>1
    <3>2. CASE d # Depth + 1
      <4>1. PICK i \in 0 .. top : frames[i] = d
        BY <1>1, <1>8, <3>2 DEF SlotsInv
      <4>. QED BY <1>3, <1>6, <4>1
    <3>. QED BY <3>1, <3>2
  <2>3. ASSUME NEW i \in 0 .. top + 1, NEW j \in 0 .. top + 1, i < j PROVE frames'[i] < frames'[j]
    <3>1. CASE j = top + 1
      <4>1. i \in 0 .. top /\ frames[i] \in Tries
        BY <1>1, <1>3, <2>3, <3>1 DEF SlotsInv
      <4>. QED BY <1>2, <1>6, <1>8, <3>1, <4>1
    <3>2. CASE j # top + 1
      <4>1. i \in 0 .. top /\ j \in 0 .. top
        BY <1>3, <2>3, <3>2
      <4>. QED BY <1>1, <1>6, <2>3, <4>1 DEF SlotsInv
    <3>. QED BY <3>1, <3>2
  <2>. QED BY <1>5, <2>1, <2>2, <2>3 DEF SlotsInv
<1>10. CallsInv'
  <2>1. \A d \in 1 .. Depth : stack[d].expanding \/ stack[d].code = Trying
    BY <1>1, <1>2, StackFacts DEF CallsInv, Running, Innermost
  <2>2. \A d \in 1 .. Depth + 1 : stack'[d].expanding => stack'[d].caller \in Macros
    BY <1>1, <1>2 DEF CallsInv, Enters
  <2>3. \A d \in 1 .. (Depth + 1) - 1 : stack'[d].expanding \/ stack'[d].code = Trying
    BY <1>2, <1>7, <2>1
  <2>. QED BY <1>2, <2>2, <2>3 DEF CallsInv
<1>11. PoolInv' /\ pool' \in Seq(Entries)
  <2>1. PoolOf'[Depth] = PoolOf[Depth]
    BY <1>2, <1>7, PoolSame
  <2>3. PoolOf'[m] = ScopesOf(m)' \o PoolOf'[Depth]
    BY <1>2, PoolOfDefNext
  <2>4. pool' = PoolOf'[m]
    BY <1>1, <2>1, <2>3 DEF PoolInv
  <2>6. ScopesOf(m)' \in Seq(Entries)
    BY <1>2, ScopesTypeNext
  <2>7. PoolOf[Depth] \in Seq(Entries)
    BY <1>1, <1>2, PoolType
  <2>8. pool' \in Seq(Entries)
    <3>1. PICK a, b : a = ScopesOf(m)' /\ b = PoolOf[Depth]
      OBVIOUS
    <3>2. a \o b \in Seq(Entries)
      BY <2>6, <2>7, <3>1
    <3>. QED BY <2>1, <2>3, <2>4, <3>1, <3>2
  <2>. QED BY <1>1, <1>2, <2>4, <2>8 DEF PoolInv
<1>12. PendingInv'
  <2>1. error = NULL
    BY <1>1, <1>2, StackFacts DEF PendingInv, Landed, Running
  <2>2. stack'[Depth'].code = Trying
    BY <1>2 DEF Enters
  <2>. QED BY <2>1, <2>2 DEF PendingInv, Landed, Innermost
<1>13. TypeOK'
  <2>1. stack' \in Seq(Calls) /\ Depth' <= MaxDepth
    BY <1>2 DEF Enters
  <2>. QED BY <1>1, <1>5, <1>6, <1>11, <2>1 DEF TypeOK, Entries
<1>. QED BY <1>9, <1>10, <1>11, <1>12, <1>13 DEF Inv

\* A jump to slot t, which gives up the slots above it.
LEMMA LandKeeps ==
  ASSUME Inv, ~exited, NEW t \in 0 .. top, NEW code \in {Done, Raised}, Jump(t, code),
         error' \in ErrorTypes \cup {NULL}, error' # NULL <=> code = Raised,
         top' = t, pool' = PoolOf[frames[t]], closure' = closure,
         UNCHANGED <<frames, exited>>
  PROVE  Inv'
<1>1. TypeOK /\ CallsInv /\ SlotsInv /\ PoolInv
  BY DEF Inv
<1>2. PICK k : k = frames[t]
  OBVIOUS
<1>3. k \in 1 .. Depth /\ ~stack[k].expanding /\ Depth \in Nat /\ k \in Nat
  BY <1>1, <1>2, AboveSlot, StackFacts
<1>4. Lands(k, code)
  BY <1>1, <1>2, <1>3, LandShape
<1>5. Depth' = k /\ \A d \in 1 .. k : /\ stack'[d].caller = stack[d].caller
                                      /\ stack'[d].expanding = stack[d].expanding
  BY <1>4 DEF Lands, Depth
<1>6. Tries' = {d \in Tries : d <= k}
  BY <1>3, <1>5 DEF Tries
<1>7. SlotsInv'
  <2>1. top \in Int /\ t \in Nat /\ t <= top
    BY <1>1 DEF TypeOK
  <2>2. ASSUME NEW i \in 0 .. t PROVE frames[i] \in Tries' /\ i < frames[i]
    <3>1. i \in 0 .. top /\ frames[i] \in Tries /\ i < frames[i]
      BY <1>1, <2>1 DEF SlotsInv
    <3>2. frames[i] <= k
      <4>1. CASE i = t
        BY <1>2, <1>3, <4>1
      <4>2. CASE i # t
        <5>1. frames[i] < k
          BY <1>1, <1>2, <2>1, <3>1, <4>2 DEF SlotsInv
        <5>2. frames[i] \in Nat
          BY <3>1, <1>3 DEF Tries
        <5>. QED BY <1>3, <5>1, <5>2
      <4>. QED BY <4>1, <4>2
    <3>. QED BY <1>6, <3>1, <3>2
  <2>3. ASSUME NEW d \in Tries' PROVE \E i \in 0 .. t : frames[i] = d
    <3>1. d \in Tries /\ d <= k /\ d \in Nat
      BY <1>3, <1>6 DEF Tries
    <3>2. PICK i \in 0 .. top : frames[i] = d
      BY <1>1, <3>1 DEF SlotsInv
    <3>3. t < i => k < d
      BY <1>1, <1>2, <2>1, <3>2 DEF SlotsInv
    <3>4. ~(t < i)
      BY <1>3, <3>1, <3>3
    <3>. QED BY <2>1, <3>2, <3>4
  <2>4. \A i, j \in 0 .. t : i < j => frames[i] < frames[j]
    BY <1>1, <2>1 DEF SlotsInv
  <2>. QED BY <2>2, <2>3, <2>4 DEF SlotsInv
<1>8. CallsInv'
  <2>1. \A d \in 1 .. k - 1 : stack'[d].code = stack[d].code
    BY <1>3, <1>4 DEF Lands
  <2>. QED BY <1>1, <1>3, <1>5, <2>1 DEF CallsInv
<1>9. PoolInv' /\ pool' \in Seq(Entries)
  <2>1. PoolOf'[k] = PoolOf[k]
    BY <1>3, <1>5, PoolSame
  <2>2. PoolOf[k] \in Seq(Entries)
    BY <1>1, <1>3, PoolType
  <2>. QED BY <1>1, <1>2, <1>5, <2>1, <2>2 DEF PoolInv
<1>10. PendingInv'
  <2>1. stack'[k].code = code /\ ~stack'[k].expanding /\ Len(stack') = k /\ k # 0
    BY <1>3, <1>4 DEF Lands
  <2>2. stack' # <<>>
    BY <2>1
  <2>3. Trying # Raised /\ Done # Raised
    BY DEF Trying, Done, Raised
  <2>. QED BY <1>5, <2>1, <2>2, <2>3 DEF PendingInv, Landed, Innermost
<1>11. TypeOK'
  <2>1. stack' \in Seq(Calls) /\ Depth' <= MaxDepth
    BY <1>1, <1>3, <1>4, <1>5, StackFacts DEF Lands
  <2>2. top' \in -1 .. MaxDepth - 1
    <3>1. top \in -1 .. MaxDepth - 1 /\ MaxDepth \in Nat
      BY <1>1, StackFacts DEF TypeOK
    <3>. QED BY <3>1
  <2>. QED BY <1>1, <1>9, <2>1, <2>2 DEF TypeOK, Entries
<1>. QED BY <1>7, <1>8, <1>9, <1>10, <1>11 DEF Inv

\* The innermost call is gone, with its slot if it was still inside its try.
LEMMA LeaveKeeps ==
  ASSUME Inv, ~exited, stack # <<>>, stack' = SubSeq(stack, 1, Depth - 1), error = NULL,
         top' = IF Innermost.expanding THEN top ELSE top - 1,
         pool' = PoolOf[Depth - 1], closure' = closure, UNCHANGED <<frames, error, exited>>
  PROVE  Inv'
<1>1. TypeOK /\ CallsInv /\ SlotsInv /\ PoolInv
  BY DEF Inv
<1>2. Leaves /\ Depth \in Nat /\ Depth > 0 /\ top \in Int /\ top >= -1
  BY <1>1, LeaveShape, StackFacts DEF TypeOK
<1>3. Depth' = Depth - 1 /\ \A d \in 1 .. Depth - 1 : stack'[d] = stack[d]
  BY <1>2 DEF Leaves, Depth
<1>4. Tries' = {d \in Tries : d < Depth}
  BY <1>2, <1>3 DEF Tries
<1>5. SlotsInv'
  <2>1. CASE Innermost.expanding
    <3>1. \A d \in Tries : d < Depth
      BY <1>2, <2>1 DEF Tries, Innermost
    <3>2. Tries' = Tries
      BY <1>4, <3>1
    <3>. QED BY <1>1, <2>1, <3>2 DEF SlotsInv
  <2>2. CASE ~Innermost.expanding
    <3>1. top \in Nat /\ frames[top] = Depth
      BY <1>1, <2>2, TopSlot
    <3>2. ASSUME NEW i \in 0 .. top - 1 PROVE frames[i] \in Tries' /\ i < frames[i]
      <4>1. i \in 0 .. top /\ top \in 0 .. top /\ i < top
        BY <1>2, <3>1
      <4>2. frames[i] \in Tries /\ i < frames[i] /\ frames[i] < frames[top]
        BY <1>1, <4>1 DEF SlotsInv
      <4>. QED BY <1>4, <3>1, <4>2
    <3>3. ASSUME NEW d \in Tries' PROVE \E i \in 0 .. top - 1 : frames[i] = d
      <4>1. PICK i \in 0 .. top : frames[i] = d
        BY <1>1, <1>4 DEF SlotsInv
      <4>2. d < Depth /\ d \in Nat
        <5>1. d \in Tries /\ d < Depth
          BY <1>4
        <5>. QED BY <1>2, <5>1 DEF Tries
      <4>3. i # top
        BY <3>1, <4>1, <4>2, <1>2
      <4>. QED BY <3>1, <4>1, <4>3
    <3>4. \A i, j \in 0 .. top - 1 : i < j => frames[i] < frames[j]
      BY <1>1, <3>1 DEF SlotsInv
    <3>. QED BY <2>2, <3>2, <3>3, <3>4 DEF SlotsInv
  <2>. QED BY <2>1, <2>2
<1>6. CallsInv'
  BY <1>1, <1>2, <1>3 DEF CallsInv
<1>7. PoolInv' /\ pool' \in Seq(Entries)
  <2>1. PoolOf'[Depth - 1] = PoolOf[Depth - 1]
    BY <1>2, <1>3, PoolSame
  <2>2. PoolOf[Depth - 1] \in Seq(Entries)
    BY <1>1, <1>2, PoolType
  <2>. QED BY <1>1, <1>3, <2>1, <2>2 DEF PoolInv
<1>8. PendingInv'
  <2>1. CASE Depth = 1
    <3>1. stack' = <<>>
      BY <1>2, <2>1 DEF Leaves
    <3>. QED BY <3>1 DEF PendingInv, Landed
  <2>2. CASE Depth # 1
    <3>1. stack[Depth-1].expanding \/ stack[Depth-1].code = Trying
      BY <1>1, <1>2, <2>2 DEF CallsInv
    <3>2. stack'[Depth-1] = stack[Depth-1]
      BY <1>2, <1>3, <2>2
    <3>. QED BY <1>3, <3>1, <3>2 DEF PendingInv, Landed, Innermost
  <2>. QED BY <2>1, <2>2
<1>9. TypeOK'
  <2>1. stack' \in Seq(Calls) /\ Depth' <= MaxDepth
    BY <1>1, <1>2, <1>3, StackFacts DEF Leaves
  <2>2. top' \in -1 .. MaxDepth - 1
    <3>1. ~Innermost.expanding => top \in Nat
      BY <1>1, TopSlot
    <3>. QED BY <1>1, <3>1, StackFacts DEF TypeOK
  <2>. QED BY <1>1, <1>7, <2>1, <2>2 DEF TypeOK, Entries
<1>. QED BY <1>5, <1>6, <1>7, <1>8, <1>9 DEF Inv

\* The innermost call, a macro whose clauses are done, gives up its slot and
\* stays to expand.
LEMMA ExpandKeeps ==
  ASSUME Inv, ~exited, stack # <<>>, ~Innermost.expanding, Innermost.caller \in Macros,
         stack' = [stack EXCEPT ![Depth].expanding = TRUE], error = NULL, top' = top - 1,
         pool' = PoolOf[Depth - 1], closure' = closure, UNCHANGED <<frames, error, exited>>
  PROVE  Inv'
<1>1. TypeOK /\ CallsInv /\ SlotsInv /\ PoolInv
  BY DEF Inv
<1>e. Expands
  BY <1>1, ExpandShape
<1>2. Depth \in Nat /\ Depth > 0 /\ top \in Int /\ top >= -1
  BY <1>1, StackFacts DEF TypeOK
<1>3. /\ Depth' = Depth /\ \A d \in 1 .. Depth - 1 : stack'[d] = stack[d]
      /\ stack'[Depth].caller \in Macros /\ stack'[Depth].expanding
  BY <1>e DEF Expands, Depth
<1>4. Tries' = {d \in Tries : d < Depth} /\ \A d \in Tries : d \in Nat
  <2>1. ASSUME NEW d \in 1 .. Depth PROVE ~stack'[d].expanding <=> ~stack[d].expanding /\ d < Depth
    <3>1. CASE d = Depth
      BY <1>2, <1>3, <3>1
    <3>2. CASE d # Depth
      BY <1>2, <1>3, <3>2
    <3>. QED BY <3>1, <3>2
  <2>2. Tries' = {d \in 1 .. Depth : ~stack'[d].expanding}
    BY <1>3 DEF Tries
  <2>. QED BY <1>2, <2>1, <2>2 DEF Tries
<1>5. top \in Nat /\ frames[top] = Depth
  BY <1>1, TopSlot
<1>6. SlotsInv'
  <2>1. ASSUME NEW i \in 0 .. top - 1 PROVE frames[i] \in Tries' /\ i < frames[i]
    <3>1. i \in 0 .. top /\ top \in 0 .. top /\ i < top
      BY <1>2, <1>5
    <3>2. frames[i] \in Tries /\ i < frames[i] /\ frames[i] < frames[top]
      BY <1>1, <3>1 DEF SlotsInv
    <3>. QED BY <1>4, <1>5, <3>2
  <2>2. ASSUME NEW d \in Tries' PROVE \E i \in 0 .. top - 1 : frames[i] = d
    <3>1. d \in Tries /\ d < Depth /\ d \in Nat
      BY <1>4
    <3>2. PICK i \in 0 .. top : frames[i] = d
      BY <1>1, <3>1 DEF SlotsInv
    <3>3. i # top
      BY <1>2, <1>5, <3>1, <3>2
    <3>. QED BY <1>5, <3>2, <3>3
  <2>3. \A i, j \in 0 .. top - 1 : i < j => frames[i] < frames[j]
    BY <1>1, <1>5 DEF SlotsInv
  <2>. QED BY <2>1, <2>2, <2>3 DEF SlotsInv
<1>7. CallsInv'
  <2>1. \A d \in 1 .. Depth : stack'[d].expanding => stack'[d].caller \in Macros
    BY <1>1, <1>2, <1>3 DEF CallsInv
  <2>2. \A d \in 1 .. Depth - 1 : stack'[d].expanding \/ stack'[d].code = Trying
    BY <1>1, <1>2, <1>3 DEF CallsInv
  <2>. QED BY <1>3, <2>1, <2>2 DEF CallsInv
<1>8. PoolInv' /\ pool' \in Seq(Entries)
  <2>1. PoolOf'[Depth - 1] = PoolOf[Depth - 1]
    <3>1. PICK k \in Nat : k = Depth - 1
      BY <1>2
    <3>2. \A d \in 1 .. k : stack'[d].caller = stack[d].caller /\ stack'[d].expanding = stack[d].expanding
      BY <1>3, <3>1
    <3>3. PoolOf'[k] = PoolOf[k]
      BY <3>2, PoolSame
    <3>. QED BY <3>1, <3>3
  <2>2. PoolOf[Depth - 1] \in Seq(Entries)
    BY <1>1, <1>2, PoolType
  <2>3. PoolOf'[Depth] = ScopesOf(Depth)' \o PoolOf'[Depth - 1]
    <3>1. PICK n \in Nat : n + 1 = Depth /\ n = Depth - 1
      <4>1. Depth - 1 \in Nat /\ (Depth - 1) + 1 = Depth
        BY <1>2
      <4>. QED BY <4>1
    <3>2. PoolOf'[n+1] = ScopesOf(n+1)' \o PoolOf'[n]
      BY PoolOfDefNext
    <3>. QED BY <1>3, <3>1, <3>2
  <2>4. ScopesOf(Depth)' = <<>>
    <3>1. stack'[Depth].caller \in Funcs /\ stack'[Depth].expanding /\ Binary \notin Funcs
      BY <1>3, FuncsAssumption DEF Executes
    <3>. QED BY <1>3, <3>1 DEF ScopesOf
  <2>. QED BY <1>1, <1>3, <2>1, <2>2, <2>3, <2>4 DEF PoolInv
<1>9. PendingInv'
  <2>1. stack'[Depth].expanding
    BY <1>2, <1>3
  <2>. QED BY <1>3, <2>1 DEF PendingInv, Landed, Innermost
<1>10. TypeOK'
  <2>1. stack' \in Seq(Calls) /\ Depth' <= MaxDepth
    BY <1>1, <1>e, <1>3, StackFacts DEF Expands
  <2>2. top' \in -1 .. MaxDepth - 1
    BY <1>1, <1>5, StackFacts DEF TypeOK
  <2>. QED BY <1>1, <1>8, <2>1, <2>2 DEF TypeOK, Entries
<1>. QED BY <1>6, <1>7, <1>8, <1>9, <1>10 DEF Inv

-----------------------------------------------------------------------------
(* The scopes of a call, and what its finally clause does to them. *)

LEMMA FirstTwo ==
  ASSUME NEW S, NEW x \in S, NEW y \in S, NEW s \in Seq(S)
  PROVE  LET p == <<x, y>> \o s IN SubSeq(p, 3, Len(p)) = s /\ p[2] = y
OBVIOUS

LEMMA FirstOne ==
  ASSUME NEW S, NEW x \in S, NEW s \in Seq(S)
  PROVE  Tail(<<x>> \o s) = s
OBVIOUS

LEMMA PoolOfInnermost ==
  ASSUME TypeOK, PoolInv, stack # <<>>
  PROVE  /\ pool = ScopesOf(Depth) \o PoolOf[Depth - 1]
         /\ PoolOf[Depth - 1] \in Seq(Entries) /\ Depth \in 1 .. MaxDepth
<1>1. Depth \in Nat /\ Depth > 0 /\ Depth <= MaxDepth /\ MaxDepth \in Nat
  BY StackFacts
<1>2. PICK n \in Nat : Depth = n + 1 /\ n = Depth - 1
  <2>1. Depth - 1 \in Nat /\ Depth = (Depth - 1) + 1
    BY <1>1
  <2>. QED BY <2>1
<1>3. PoolOf[Depth - 1] \in Seq(Entries)
  BY <1>1, PoolType
<1>4. PoolOf[n+1] = ScopesOf(n+1) \o PoolOf[n]
  BY PoolOfDef
<1>5. pool = ScopesOf(Depth) \o PoolOf[Depth - 1]
  BY <1>2, <1>4 DEF PoolInv
<1>. QED BY <1>1, <1>3, <1>5

LEMMA ReleaseShape ==
  ASSUME TypeOK, PoolInv, stack # <<>>, ~Innermost.expanding, Release(Innermost.caller),
         Innermost.caller = Binary => Innermost.code = Done
  PROVE  pool' = PoolOf[Depth - 1] /\ closure' = closure
<1>1. PICK s, c : s = PoolOf[Depth - 1] /\ c = Innermost.caller
  OBVIOUS
<1>2. pool = ScopesOf(Depth) \o s /\ s \in Seq(Entries) /\ Depth \in 1 .. MaxDepth
  BY <1>1, PoolOfInnermost
<1>3. Binary \notin Funcs /\ c = stack[Depth].caller /\ ~stack[Depth].expanding
  BY <1>1, FuncsAssumption DEF Executes, Innermost
<1>4. CASE c \in Funcs
  <2>1. pool' = SubSeq(pool, 3, Len(pool)) /\ closure' = [closure EXCEPT ![c] = pool[2]]
    BY <1>1, <1>3, <1>4 DEF Release
  <2>2. pool = <<Scope(Depth), ClosureOf(c)>> \o s
    BY <1>2, <1>3, <1>4, ScopesCases
  <2>3. Scope(Depth) \in Entries /\ ClosureOf(c) \in Entries
    BY <1>2, <1>4 DEF Entries
  <2>4. SubSeq(pool, 3, Len(pool)) = s /\ pool[2] = ClosureOf(c)
    BY <1>2, <2>2, <2>3, FirstTwo
  <2>5. closure[c] = ClosureOf(c) /\ closure = [f \in Funcs |-> closure[f]]
    BY <1>4 DEF PoolInv, TypeOK
  <2>6. closure' = closure
    BY <2>1, <2>4, <2>5
  <2>. QED BY <1>1, <2>1, <2>4, <2>6
<1>5. CASE c = Binary
  <2>1. pool' = Tail(pool) /\ closure' = closure
    BY <1>1, <1>3, <1>5 DEF Release
  <2>2. pool = <<Scope(Depth)>> \o s
    BY <1>2, <1>3, <1>5, ScopesCases
  <2>3. Scope(Depth) \in Entries
    BY <1>2 DEF Entries
  <2>. QED BY <1>1, <1>2, <2>1, <2>2, <2>3, FirstOne
<1>6. CASE c \notin Funcs /\ c # Binary
  <2>1. pool' = pool /\ closure' = closure
    BY <1>1, <1>6 DEF Release
  <2>2. pool = <<>> \o s
    BY <1>2, <1>3, <1>6, ScopesCases
  <2>. QED BY <1>1, <1>2, <2>1, <2>2
<1>. QED BY <1>4, <1>5, <1>6

-----------------------------------------------------------------------------
(* Every step keeps the invariant. *)

LEMMA InitInv == Init => Inv
<1>. SUFFICES ASSUME Init PROVE Inv
  OBVIOUS
<1>1. Depth = 0 /\ MaxDepth \in Nat /\ MaxDepth > 0
  BY DepthAssumption DEF Init, Depth
<1>2. pool = PoolOf[0] /\ pool = <<Global>>
  BY PoolOfDef DEF Init
<1>3. pool \in Seq(Entries)
  BY <1>2 DEF Entries
<1>4. TypeOK
  <2>1. stack \in Seq(Calls) /\ Depth <= MaxDepth
    BY <1>1 DEF Init
  <2>2. frames \in [0 .. MaxDepth - 1 -> 0 .. MaxDepth] /\ top \in -1 .. MaxDepth - 1
    BY <1>1 DEF Init
  <2>3. closure \in [Funcs -> {Scope(d) : d \in 1 .. MaxDepth} \cup {ClosureOf(f) : f \in Funcs}]
    BY DEF Init
  <2>. QED BY <1>3, <2>1, <2>2, <2>3 DEF Init, TypeOK, Entries
<1>5. Tries = {} /\ top = -1
  BY <1>1 DEF Tries, Init
<1>6. CallsInv /\ SlotsInv
  BY <1>1, <1>5 DEF CallsInv, SlotsInv
<1>7. PoolInv /\ PendingInv
  BY <1>1, <1>2 DEF PoolInv, PendingInv, Landed, Init
<1>. QED BY <1>4, <1>6, <1>7 DEF Inv

\* An error in Sol code, or with t = top - 1 after a finally clause.
LEMMA ThrowKeeps ==
  ASSUME Inv, ~exited, NEW e \in ErrorTypes, NEW t, Throw(e, t), top' = t, frames' = frames,
         closure' = closure, t \in -1 .. top, t >= 0 => pool' = PoolOf[frames[t]],
         pool' \in Seq(Entries)
  PROVE  Inv'
<1>1. TypeOK /\ top \in -1 .. MaxDepth - 1 /\ MaxDepth \in Nat
  BY StackFacts DEF Inv, TypeOK
<1>2. CASE t < 0
  <2>1. exited' = TRUE /\ stack' = stack /\ error' = error
    BY <1>2 DEF Throw
  <2>2. top' \in -1 .. MaxDepth - 1
    BY <1>1
  <2>3. Depth' = Depth
    BY <2>1 DEF Depth
  <2>4. TypeOK'
    BY <1>1, <2>1, <2>2, <2>3 DEF TypeOK, Entries
  <2>. QED BY <2>1, <2>4 DEF Inv
<1>3. CASE ~(t < 0)
  <2>1. exited' = exited /\ error' = e /\ Jump(t, Raised)
    BY <1>3 DEF Throw
  <2>2. t \in 0 .. top /\ pool' = PoolOf[frames[t]]
    BY <1>1, <1>3
  <2>3. e # NULL
    BY ErrorsAssumption
  <2>. QED BY <2>1, <2>2, <2>3, LandKeeps
<1>. QED BY <1>2, <1>3

LEMMA Step == Inv /\ [Next]_vars => Inv'
<1>. SUFFICES ASSUME Inv, [Next]_vars PROVE Inv'
  OBVIOUS
<1>t. TypeOK /\ (~exited => CallsInv /\ SlotsInv /\ PoolInv /\ PendingInv)
  BY DEF Inv
<1>1. ASSUME NEW f \in Funcs, FuncExecute(f) PROVE Inv'
  <2>1. ~exited /\ EnterTry(f) /\ pool' = <<Scope(Depth + 1), closure[f]>> \o pool
    BY <1>1 DEF FuncExecute, Running
  <2>2. PICK m : m = Depth + 1
    OBVIOUS
  <2>3. Enters(f)
    BY <1>t, <2>1, EnterShape
  <2>4. ScopesOf(m)' = <<Scope(m), ClosureOf(f)>>
    <3>1. stack'[m].caller = f /\ ~stack'[m].expanding /\ Binary \notin Funcs
      BY <2>2, <2>3, FuncsAssumption DEF Enters, Executes
    <3>. QED BY <3>1 DEF ScopesOf
  <2>5. closure[f] = ClosureOf(f)
    BY <1>t, <2>1 DEF PoolInv
  <2>. QED BY <1>1, <2>1, <2>2, <2>4, <2>5, EnterKeeps DEF FuncExecute
<1>2. ASSUME RuntimeExecute PROVE Inv'
  <2>1. ~exited /\ EnterTry(Program) /\ pool' = pool /\ stack = <<>>
    BY <1>2 DEF RuntimeExecute
  <2>2. PICK m : m = Depth + 1
    OBVIOUS
  <2>3. Program \in Executes /\ Program \notin Funcs /\ Program # Binary
    BY FuncsAssumption DEF Executes
  <2>4. Enters(Program)
    BY <1>t, <2>1, <2>3, EnterShape
  <2>5. ScopesOf(m)' = <<>>
    BY <2>2, <2>3, <2>4 DEF Enters, ScopesOf
  <2>6. <<>> \o pool = pool
    BY <1>t DEF TypeOK
  <2>7. Running /\ Depth < MaxDepth
    BY <1>t, <2>1, StackFacts, DepthAssumption DEF Running
  <2>. QED BY <1>2, <2>1, <2>2, <2>3, <2>5, <2>6, <2>7, EnterKeeps DEF RuntimeExecute
<1>3. ASSUME LoadBinary PROVE Inv'
  <2>1. ~exited /\ EnterTry(Binary) /\ pool' = <<Scope(Depth + 1)>> \o pool
    BY <1>3 DEF LoadBinary, Running
  <2>2. PICK m : m = Depth + 1
    OBVIOUS
  <2>3. Binary \in Executes /\ Binary \notin Funcs
    BY FuncsAssumption DEF Executes
  <2>4. Enters(Binary)
    BY <1>t, <2>1, <2>3, EnterShape
  <2>5. ScopesOf(m)' = <<Scope(m)>>
    BY <2>2, <2>3, <2>4 DEF Enters, ScopesOf
  <2>. QED BY <1>3, <2>1, <2>2, <2>3, <2>5, EnterKeeps DEF LoadBinary
<1>4. ASSUME BodyEnds PROVE Inv'
  <2>1. ~exited /\ stack # <<>> /\ ~Innermost.expanding /\ Innermost.code = Trying
    BY <1>4 DEF BodyEnds, Running
  <2>2. top \in 0 .. top /\ frames[top] = Depth
    BY <1>t, <2>1, TopSlot
  <2>3. error = NULL
    BY <1>t, <2>1 DEF PendingInv, Landed
  <2>4. pool = PoolOf[frames[top]]
    BY <1>t, <2>1, <2>2 DEF PoolInv
  <2>5. Done # Raised
    BY DEF Done, Raised
  <2>. QED BY <1>4, <2>1, <2>2, <2>3, <2>4, <2>5, LandKeeps DEF BodyEnds
<1>5. ASSUME ExpansionEnds PROVE Inv'
  <2>1. ~exited /\ stack # <<>> /\ Innermost.expanding
    BY <1>5 DEF ExpansionEnds, Running
  <2>2. error = NULL
    BY <1>t, <2>1 DEF PendingInv, Landed
  <2>3. pool = PoolOf[Depth - 1]
    <3>1. Depth \in 1 .. Depth
      BY <1>t, <2>1, StackFacts
    <3>2. ScopesOf(Depth) = <<>>
      BY <1>t, <2>1, <3>1, NoScopes DEF Innermost
    <3>3. pool = ScopesOf(Depth) \o PoolOf[Depth - 1] /\ PoolOf[Depth - 1] \in Seq(Entries)
      BY <1>t, <2>1, PoolOfInnermost
    <3>. QED BY <3>2, <3>3
  <2>. QED BY <1>5, <2>1, <2>2, <2>3, LeaveKeeps DEF ExpansionEnds
<1>6. ASSUME NEW e \in ErrorTypes, ThrowError(e) PROVE Inv'
  <2>1. ~exited /\ Throw(e, top) /\ UNCHANGED <<frames, top, pool, closure>>
    BY <1>6 DEF ThrowError, Running
  <2>2. top \in -1 .. top /\ pool \in Seq(Entries)
    BY <1>t DEF TypeOK, Entries
  <2>3. top >= 0 => pool = PoolOf[frames[top]]
    <3>1. SUFFICES ASSUME top >= 0 PROVE pool = PoolOf[frames[top]]
      OBVIOUS
    <3>2. top \in 0 .. top
      BY <2>2, <3>1
    <3>3. /\ frames[top] \in 1 .. Depth
          /\ \A d \in frames[top] + 1 .. Depth : stack[d].expanding \/ \E i \in top + 1 .. top : frames[i] = d
      BY <1>t, <2>1, <3>2, AboveSlot
    <3>4. \A d \in frames[top] + 1 .. Depth : ScopesOf(d) = <<>>
      BY <1>t, <2>1, <2>2, <3>3, NoScopes
    <3>5. PoolOf[Depth] = PoolOf[frames[top]]
      <4>1. PICK k, m : k = frames[top] /\ m = Depth
        OBVIOUS
      <4>2. k \in Nat /\ m \in Nat /\ k <= m /\ m <= Depth /\ \A d \in k + 1 .. m : ScopesOf(d) = <<>>
        BY <1>t, <3>3, <3>4, <4>1, StackFacts
      <4>. QED BY <1>t, <4>1, <4>2, PoolSkip
    <3>. QED BY <1>t, <2>1, <3>5 DEF PoolInv
  <2>. QED BY <2>1, <2>2, <2>3, ThrowKeeps
<1>7. ASSUME Catch PROVE Inv'
  <2>1. ~exited /\ stack # <<>> /\ ~Innermost.expanding
    BY <1>7 DEF Catch, Landed
  <2>2. top \in 0 .. top /\ frames[top] = Depth
    BY <1>t, <2>1, TopSlot
  <2>3. pool = PoolOf[frames[top]]
    BY <1>t, <2>1, <2>2 DEF PoolInv
  <2>4. Done # Raised
    BY DEF Done, Raised
  <2>. QED BY <1>7, <2>1, <2>2, <2>3, <2>4, LandKeeps DEF Catch
<1>8. ASSUME NEW c \in Executes \cup Funcs, Finally(c) PROVE Inv'
  <2>1. /\ ~exited /\ stack # <<>> /\ ~Innermost.expanding /\ Innermost.code # Trying
        /\ Innermost.caller = c /\ ~Caught /\ Release(c) /\ frames' = frames
    BY <1>8 DEF Finally, Landed
  <2>2. top \in Nat /\ frames[top] = Depth
    BY <1>t, <2>1, TopSlot
  <2>3. Done # Raised
    BY DEF Done, Raised
  <2>4. CASE Innermost.code = Done /\ Return(c)
    <3>1. pool' = PoolOf[Depth - 1] /\ closure' = closure
      BY <1>t, <2>1, <2>4, ReleaseShape
    <3>2. error = NULL
      BY <1>t, <2>1, <2>3, <2>4 DEF PendingInv
    <3>3. CASE c \in Macros
      BY <2>1, <2>4, <3>1, <3>2, <3>3, ExpandKeeps DEF Return
    <3>4. CASE c \notin Macros
      BY <2>1, <2>4, <3>1, <3>2, <3>4, LeaveKeeps DEF Return
    <3>. QED BY <3>3, <3>4
  <2>5. CASE Innermost.code = Raised /\ Rethrow(c)
    <3>1. error # NULL
      BY <1>t, <2>1, <2>5 DEF PendingInv, Landed
    <3>2. error \in ErrorTypes
      BY <1>t, <3>1 DEF TypeOK
    <3>3. c \notin Executes
      BY <2>1, <3>1, <3>2, HierarchyAssumption DEF Caught
    <3>4. pool' = PoolOf[Depth - 1] /\ closure' = closure
      BY <1>t, <2>1, <3>3, ReleaseShape DEF Executes
    <3>5. pool' \in Seq(Entries)
      BY <1>t, <2>1, <3>4, PoolOfInnermost
    <3>6. top - 1 >= 0 => pool' = PoolOf[frames[top-1]]
      <4>1. SUFFICES ASSUME top - 1 >= 0 PROVE PoolOf[Depth - 1] = PoolOf[frames[top-1]]
        BY <3>4
      <4>2. PICK t \in 0 .. top : t = top - 1
        BY <2>2, <4>1
      <4>3. /\ frames[t] \in 1 .. Depth
            /\ \A d \in frames[t] + 1 .. Depth : stack[d].expanding \/ \E i \in t + 1 .. top : frames[i] = d
        BY <1>t, <2>1, AboveSlot
      <4>4. frames[t] < Depth
        <5>1. top \in 0 .. top /\ t < top
          BY <2>2, <4>2
        <5>. QED BY <1>t, <2>1, <2>2, <5>1 DEF SlotsInv
      <4>5. Depth \in Nat
        BY <1>t, StackFacts
      <4>6. ASSUME NEW d \in frames[t] + 1 .. Depth - 1 PROVE ScopesOf(d) = <<>>
        <5>1. d \in frames[t] + 1 .. Depth /\ d # Depth /\ d \in 1 .. Depth
          BY <4>3, <4>5
        <5>2. \A i \in t + 1 .. top : i = top
          BY <2>2, <4>2
        <5>3. stack[d].expanding
          BY <2>2, <4>3, <5>1, <5>2
        <5>. QED BY <1>t, <2>1, <5>1, <5>3, NoScopes
      <4>7. PoolOf[Depth - 1] = PoolOf[frames[t]]
        <5>1. PICK k, m : k = frames[t] /\ m = Depth - 1
          OBVIOUS
        <5>2. k \in Nat /\ m \in Nat /\ k <= m /\ m <= Depth /\ \A d \in k + 1 .. m : ScopesOf(d) = <<>>
          BY <4>3, <4>4, <4>5, <4>6, <5>1
        <5>. QED BY <1>t, <5>1, <5>2, PoolSkip
      <4>. QED BY <4>2, <4>7
    <3>7. top - 1 \in -1 .. top
      BY <2>2
    <3>8. Throw(error, top - 1) /\ top' = top - 1
      BY <2>5 DEF Rethrow
    <3>. QED BY <2>1, <3>2, <3>4, <3>5, <3>6, <3>7, <3>8, ThrowKeeps
  <2>. QED BY <1>8, <2>4, <2>5 DEF Finally
<1>9. CASE UNCHANGED vars
  <2>1. stack' = stack /\ frames' = frames /\ top' = top /\ error' = error /\ pool' = pool
        /\ closure' = closure /\ exited' = exited
    BY <1>9 DEF vars
  <2>2. PoolOf'[Depth] = PoolOf[Depth]
    BY <1>t, <2>1, PoolSame, StackFacts
  <2>. QED BY <1>t, <2>1, <2>2
       DEF Inv, TypeOK, CallsInv, SlotsInv, PoolInv, PendingInv, Landed, Tries, Depth, Innermost
<1>. QED BY <1>1, <1>2, <1>3, <1>4, <1>5, <1>6, <1>7, <1>8, <1>9 DEF Next, Call, Handle

THEOREM Invariance == Spec => []Inv
BY InitInv, Step, PTL DEF Spec

-----------------------------------------------------------------------------
(* Every jump buffer belongs to a call on the C stack, every error to a    *)
(* type, and there is a slot for each call that may be made.               *)
THEOREM TypeCorrect == Spec => []TypeOK
<1>1. Inv => TypeOK
  BY DEF Inv
<1>. QED BY <1>1, Invariance, PTL

(* The jump buffers in use are those of the calls inside a try, in order.  *)
THEOREM SlotsFollowCalls == Spec => []FrameStack
<1>1. Inv => FrameStack
  <2>1. SUFFICES ASSUME Inv, ~exited PROVE FrameStack
    BY DEF FrameStack
  <2>2. SlotsInv
    BY <2>1 DEF Inv
  <2>. QED BY <2>2 DEF SlotsInv, FrameStack
<1>. QED BY <1>1, Invariance, PTL

(* The scopes are those of the calls in progress, in their order, and each *)
(* function has its own closure map, however calls ended.                  *)
THEOREM ScopesFollowCalls == Spec => []ScopesMatch
<1>1. Inv => ScopesMatch
  BY DEF Inv, PoolInv, ScopesMatch
<1>. QED BY <1>1, Invariance, PTL

(* An error is current exactly while a throw is being handled.             *)
THEOREM ErrorsHandled == Spec => []ErrorPending
<1>1. Inv => ErrorPending
  BY DEF Inv, PendingInv, ErrorPending
<1>. QED BY <1>1, Invariance, PTL
-----------------------------------------------------------------------------
(***************************************************************************)
(* The proof that SolCalls implements SolTry: buffers, jumps and clauses   *)
(* that run one at a time do what exceptions promise.                      *)
(***************************************************************************)

-----------------------------------------------------------------------------
(* The handler of an error thrown now. *)

\* h is the innermost call of sol_runtime_execute, or 0.
IsHandler(h) ==
  /\ h \in 0 .. Depth
  /\ h > 0 => stack[h].caller \in Executes
  /\ \A c \in h + 1 .. Depth : stack[c].caller \notin Executes

LEMMA HandlerExists == TypeOK => IsHandler(Handler)
<1>. SUFFICES ASSUME TypeOK PROVE IsHandler(Handler)
  OBVIOUS
<1>1. PICK S : S = {n \in Nat : n <= Depth =>
                      \E d \in 0 .. n : /\ d > 0 => stack[d].caller \in Executes
                                        /\ \A c \in d + 1 .. n : stack[c].caller \notin Executes}
  OBVIOUS
<1>2. 0 \in S
  BY <1>1
<1>3. ASSUME NEW n \in Nat, n \in S PROVE n + 1 \in S
  <2>1. SUFFICES ASSUME n + 1 <= Depth
                 PROVE  \E d \in 0 .. n + 1 : /\ d > 0 => stack[d].caller \in Executes
                                              /\ \A c \in d + 1 .. n + 1 : stack[c].caller \notin Executes
    BY <1>1
  <2>2. CASE stack[n+1].caller \in Executes
    BY <2>2
  <2>3. CASE stack[n+1].caller \notin Executes
    <3>1. PICK d \in 0 .. n : /\ d > 0 => stack[d].caller \in Executes
                              /\ \A c \in d + 1 .. n : stack[c].caller \notin Executes
      BY <1>1, <1>3, <2>1, StackFacts
    <3>2. \A c \in d + 1 .. n + 1 : c \in d + 1 .. n \/ c = n + 1
      OBVIOUS
    <3>. QED BY <2>3, <3>1, <3>2
  <2>. QED BY <2>2, <2>3
<1>4. Depth \in S
  BY <1>2, <1>3, SetInduction, StackFacts
<1>5. \E d \in 0 .. Depth : /\ d > 0 => stack[d].caller \in Executes
                            /\ \A c \in d + 1 .. Depth : stack[c].caller \notin Executes
  BY <1>1, <1>4, StackFacts
<1>. QED BY <1>5 DEF Handler, IsHandler

LEMMA HandlerUnique == TypeOK => \A h : IsHandler(h) => Handler = h
<1>. SUFFICES ASSUME TypeOK, NEW h, IsHandler(h) PROVE Handler = h
  OBVIOUS
<1>1. PICK i : i = Handler /\ IsHandler(i)
  BY HandlerExists
<1>2. i \in 0 .. Depth /\ h \in 0 .. Depth /\ Depth \in Nat
  BY <1>1, StackFacts DEF IsHandler
<1>3. ~(i < h)
  <2>1. SUFFICES ASSUME i < h PROVE FALSE
    OBVIOUS
  <2>2. h \in i + 1 .. Depth /\ h > 0
    BY <1>2, <2>1
  <2>. QED BY <1>1, <2>2 DEF IsHandler
<1>4. ~(h < i)
  <2>1. SUFFICES ASSUME h < i PROVE FALSE
    OBVIOUS
  <2>2. i \in h + 1 .. Depth /\ i > 0
    BY <1>2, <2>1
  <2>. QED BY <1>1, <2>2 DEF IsHandler
<1>. QED BY <1>1, <1>2, <1>3, <1>4

LEMMA HandlerNext == (TypeOK => \A h : IsHandler(h) => Handler = h)'
BY HandlerUnique, PTL

-----------------------------------------------------------------------------
(* What is seen of the calls, while no error is pending and while one is. *)

SeenType == [caller : Executes \cup Funcs, stage : {"body", "ended", "expansion"}]

SeenAll ==
  /\ ~Doomed /\ SeenCalls \in Seq(SeenType) /\ Len(SeenCalls) = Depth
  /\ \A d \in 1 .. Depth : /\ SeenCalls[d].caller = stack[d].caller
                           /\ SeenCalls[d].stage = StageOf(stack[d])

SeenBelow(h) ==
  /\ Doomed <=> h = 0
  /\ SeenCalls \in Seq(SeenType) /\ Len(SeenCalls) = h
  /\ \A d \in 1 .. h : /\ SeenCalls[d].caller = stack[d].caller
                       /\ SeenCalls[d].stage = IF d = h THEN "ended" ELSE StageOf(stack[d])

LEMMA SeenEqual ==
  ASSUME NEW s \in Seq(SeenType), NEW t \in Seq(SeenType), Len(s) = Len(t),
         \A d \in 1 .. Len(s) : s[d].caller = t[d].caller /\ s[d].stage = t[d].stage
  PROVE  s = t
<1>1. ASSUME NEW d \in 1 .. Len(s) PROVE s[d] = t[d]
  <2>1. s[d] \in SeenType /\ t[d] \in SeenType
    OBVIOUS
  <2>2. s[d].caller = t[d].caller /\ s[d].stage = t[d].stage
    OBVIOUS
  <2>. QED BY <2>1, <2>2 DEF SeenType
<1>. QED BY <1>1

LEMMA StageType == \A d : StageOf(stack[d]) \in {"body", "ended", "expansion"}
BY DEF StageOf

\* The sequence s of n calls has callers c and stages st.
Lists(s, n, c, st) == s = [d \in 1 .. n |-> [caller |-> c[d], stage |-> st[d]]]

LEMMA SeenShape ==
  ASSUME NEW n \in Nat, NEW c, NEW st,
         \A d \in 1 .. n : c[d] \in Executes \cup Funcs /\ st[d] \in {"body", "ended", "expansion"},
         NEW s, Lists(s, n, c, st)
  PROVE  /\ s \in Seq(SeenType) /\ Len(s) = n
         /\ \A d \in 1 .. n : s[d].caller = c[d] /\ s[d].stage = st[d]
<1>1. \A d \in 1 .. n : [caller |-> c[d], stage |-> st[d]] \in SeenType
  BY DEF SeenType
<1>2. s \in [1 .. n -> SeenType]
  BY <1>1 DEF Lists
<1>3. s \in Seq(SeenType) /\ Len(s) = n
  BY <1>2
<1>. QED BY <1>3 DEF Lists

LEMMA SeenRunning == TypeOK /\ ~exited /\ error = NULL => SeenAll
<1>. SUFFICES ASSUME TypeOK, ~exited, error = NULL PROVE SeenAll
  OBVIOUS
<1>1. Depth \in Nat /\ ~Doomed
  BY StackFacts DEF Doomed
<1>2. PICK n, c, st : /\ n = Depth /\ c = [d \in 1 .. n |-> stack[d].caller]
                      /\ st = [d \in 1 .. n |-> StageOf(stack[d])]
  OBVIOUS
<1>3. SeenCalls = [d \in 1 .. n |-> [caller |-> c[d], stage |-> st[d]]]
  BY <1>1, <1>2 DEF SeenCalls
<1>4. \A d \in 1 .. n : c[d] \in Executes \cup Funcs /\ st[d] \in {"body", "ended", "expansion"}
  BY <1>2, StackFacts, StageType
<1>5. PICK s : s = SeenCalls /\ Lists(s, n, c, st)
  BY <1>3 DEF Lists
<1>n. n \in Nat
  BY <1>1, <1>2
<1>6. s \in Seq(SeenType) /\ Len(s) = n /\ \A d \in 1 .. n : s[d].caller = c[d] /\ s[d].stage = st[d]
  BY <1>n, <1>4, <1>5, SeenShape
<1>. QED BY <1>1, <1>2, <1>5, <1>6 DEF SeenAll

LEMMA SeenHandling == TypeOK /\ ~exited /\ error # NULL => SeenBelow(Handler)
<1>. SUFFICES ASSUME TypeOK, ~exited, error # NULL PROVE SeenBelow(Handler)
  OBVIOUS
<1>1. PICK n : n = Handler /\ n \in 0 .. Depth /\ n \in Nat
  BY HandlerExists, StackFacts DEF IsHandler
<1>2. Doomed <=> n = 0
  BY <1>1 DEF Doomed
<1>3. PICK c, st : /\ c = [d \in 1 .. n |-> stack[d].caller]
                   /\ st = [d \in 1 .. n |-> IF d = n THEN "ended" ELSE StageOf(stack[d])]
  OBVIOUS
<1>4. SeenCalls = [d \in 1 .. n |-> [caller |-> c[d], stage |-> st[d]]]
  <2>1. CASE n = 0
    BY <1>2, <1>3, <2>1 DEF SeenCalls
  <2>2. CASE n # 0
    <3>1. SeenCalls = [d \in 1 .. n |-> [caller |-> stack[d].caller,
                                         stage |-> IF d = n THEN "ended" ELSE StageOf(stack[d])]]
      BY <1>1, <1>2, <2>2 DEF SeenCalls
    <3>. QED BY <1>3, <3>1
  <2>. QED BY <2>1, <2>2
<1>5. \A d \in 1 .. n : c[d] \in Executes \cup Funcs /\ st[d] \in {"body", "ended", "expansion"}
  BY <1>1, <1>3, StackFacts, StageType
<1>6. PICK s : s = SeenCalls /\ Lists(s, n, c, st)
  BY <1>4 DEF Lists
<1>7. s \in Seq(SeenType) /\ Len(s) = n /\ \A d \in 1 .. n : s[d].caller = c[d] /\ s[d].stage = st[d]
  BY <1>1, <1>5, <1>6, SeenShape
<1>. QED BY <1>1, <1>2, <1>3, <1>6, <1>7 DEF SeenBelow

LEMMA SeenDead == exited => Doomed /\ SeenCalls = <<>>
BY DEF Doomed, SeenCalls

\* The same facts about the next state.
LEMMA SeenNext ==
  /\ (TypeOK /\ ~exited /\ error = NULL => SeenAll)'
  /\ (TypeOK /\ ~exited /\ error # NULL => SeenBelow(Handler))'
  /\ (exited => Doomed /\ SeenCalls = <<>>)'
BY SeenRunning, SeenHandling, SeenDead, PTL

-----------------------------------------------------------------------------
(* The sequences of SolTry, point by point. *)

LEMMA AppendSeen ==
  ASSUME NEW s \in Seq(SeenType), NEW u \in Seq(SeenType), NEW c \in Executes \cup Funcs,
         Len(u) = Len(s) + 1, \A d \in 1 .. Len(s) : u[d].caller = s[d].caller /\ u[d].stage = s[d].stage,
         u[Len(u)].caller = c, u[Len(u)].stage = "body"
  PROVE  u = Append(s, [caller |-> c, stage |-> "body"])
<1>1. PICK r : r = [caller |-> c, stage |-> "body"]
  OBVIOUS
<1>2. r \in SeenType /\ r.caller = c /\ r.stage = "body"
  BY <1>1 DEF SeenType
<1>3. PICK t : t = Append(s, r)
  OBVIOUS
<1>4. t \in Seq(SeenType) /\ Len(t) = Len(s) + 1 /\ t[Len(t)] = r /\ \A d \in 1 .. Len(s) : t[d] = s[d]
  BY <1>2, <1>3
<1>5. ASSUME NEW d \in 1 .. Len(u) PROVE u[d].caller = t[d].caller /\ u[d].stage = t[d].stage
  <2>1. CASE d = Len(u)
    BY <1>2, <1>4, <2>1
  <2>2. CASE d # Len(u)
    BY <1>4, <2>2
  <2>. QED BY <2>1, <2>2
<1>6. Len(u) = Len(t)
  BY <1>4
<1>7. u = t
  BY <1>4, <1>5, <1>6, SeenEqual
<1>. QED BY <1>1, <1>3, <1>7

\* u has the first n calls of s, the last of them with stage st.
Restaged(s, u, n, st) ==
  /\ s \in Seq(SeenType) /\ u \in Seq(SeenType) /\ n \in 1 .. Len(s) /\ Len(u) = n
  /\ \A d \in 1 .. n : /\ u[d].caller = s[d].caller
                       /\ u[d].stage = IF d = n THEN st ELSE s[d].stage

LEMMA RestageSeen ==
  ASSUME NEW s, NEW u, NEW n, n = Len(s), NEW st \in {"body", "ended", "expansion"}, Restaged(s, u, n, st)
  PROVE  u = [s EXCEPT ![n].stage = st]
<1>. USE DEF Restaged
<1>1. PICK r : r = [s[n] EXCEPT !.stage = st]
  OBVIOUS
<1>2. s[n] \in SeenType
  OBVIOUS
<1>3. r \in SeenType /\ r.caller = s[n].caller /\ r.stage = st
  BY <1>1, <1>2 DEF SeenType
<1>4. PICK t : t = [s EXCEPT ![n] = r]
  OBVIOUS
<1>5. t \in Seq(SeenType) /\ Len(t) = Len(s) /\ \A d \in 1 .. Len(s) : t[d] = IF d = n THEN r ELSE s[d]
  BY <1>3, <1>4, ExceptShape
<1>6. ASSUME NEW d \in 1 .. Len(u) PROVE u[d].caller = t[d].caller /\ u[d].stage = t[d].stage
  <2>1. CASE d = n
    BY <1>3, <1>5, <2>1
  <2>2. CASE d # n
    BY <1>5, <2>2
  <2>. QED BY <2>1, <2>2
<1>7. Len(u) = Len(t)
  BY <1>5
<1>8. u = t
  BY <1>5, <1>6, <1>7, SeenEqual
<1>. QED BY <1>1, <1>4, <1>8

LEMMA FrontSeen ==
  ASSUME NEW s \in Seq(SeenType), NEW u \in Seq(SeenType), NEW n \in 0 .. Len(s), Len(u) = n,
         \A d \in 1 .. n : u[d].caller = s[d].caller /\ u[d].stage = s[d].stage
  PROVE  u = SubSeq(s, 1, n)
<1>1. PICK t : t = SubSeq(s, 1, n)
  OBVIOUS
<1>2. t \in Seq(SeenType) /\ Len(t) = n /\ \A d \in 1 .. n : t[d] = s[d]
  BY <1>1
<1>3. \A d \in 1 .. Len(u) : u[d].caller = t[d].caller /\ u[d].stage = t[d].stage
  BY <1>2
<1>4. u = t
  BY <1>2, <1>3, SeenEqual
<1>. QED BY <1>1, <1>4

\* The calls above the handler are gone, and its body has ended.
LEMMA RaiseSeen ==
  ASSUME NEW s, NEW u, NEW h, Restaged(s, u, h, "ended")
  PROVE  u = [SubSeq(s, 1, h) EXCEPT ![h].stage = "ended"]
<1>1. PICK t : t = SubSeq(s, 1, h)
  OBVIOUS
<1>2. t \in Seq(SeenType) /\ Len(t) = h /\ \A d \in 1 .. h : t[d] = s[d]
  BY <1>1 DEF Restaged
<1>3. Restaged(t, u, h, "ended")
  BY <1>2 DEF Restaged
<1>4. "ended" \in {"body", "ended", "expansion"}
  OBVIOUS
<1>5. u = [t EXCEPT ![h].stage = "ended"]
  BY <1>2, <1>3, <1>4, RestageSeen
<1>. QED BY <1>1, <1>5

-----------------------------------------------------------------------------
(* Each step of SolCalls is a step of SolTry, or changes nothing seen. *)

LEMMA InitMaps == Init => Try!Init
<1>. SUFFICES ASSUME Init PROVE Try!Init
  OBVIOUS
<1>1. SeenAll /\ Depth = 0
  BY InitInv, SeenRunning DEF Inv, Init, Depth
<1>2. SeenCalls = <<>> /\ ~Doomed
  BY <1>1 DEF SeenAll
<1>. QED BY <1>2 DEF Try!Init, Doomed

LEMMA BusyMaps == TypeOK /\ SeenAll /\ Running => Try!Busy
<1>. SUFFICES ASSUME TypeOK, SeenAll, Running, SeenCalls # <<>>
              PROVE  SeenCalls[Len(SeenCalls)].stage # "ended"
  BY DEF Try!Busy, Try!Innermost, SeenAll
<1>1. Depth \in 1 .. Depth /\ Len(SeenCalls) = Depth /\ stack # <<>>
  BY StackFacts DEF SeenAll
<1>2. SeenCalls[Depth].stage = StageOf(Innermost)
  BY <1>1 DEF SeenAll, Innermost
<1>3. Innermost.expanding \/ Innermost.code = Trying
  BY <1>1 DEF Running
<1>. QED BY <1>1, <1>2, <1>3 DEF StageOf

LEMMA NotDoomed == ~Doomed /\ ~Doomed' => UNCHANGED Doomed
BY DEF Doomed

LEMMA EnterMaps ==
  ASSUME TypeOK, SeenAll, SeenAll', Running, Depth < MaxDepth,
         NEW c \in Executes \cup Funcs, Enters(c)
  PROVE  \E x \in Try!Callers : Try!Enter(x)
<1>1. PICK s, u : s = SeenCalls /\ u = SeenCalls'
  OBVIOUS
<1>2. Depth \in Nat /\ Depth' = Depth + 1
  BY StackFacts DEF Enters, Depth
<1>3. /\ s \in Seq(SeenType) /\ Len(s) = Depth
      /\ \A d \in 1 .. Depth : s[d].caller = stack[d].caller /\ s[d].stage = StageOf(stack[d])
  BY <1>1 DEF SeenAll
<1>4. /\ u \in Seq(SeenType) /\ Len(u) = Depth + 1
      /\ \A d \in 1 .. Depth + 1 : u[d].caller = stack'[d].caller /\ u[d].stage = StageOf(stack'[d])
  BY <1>1, <1>2 DEF SeenAll, StageOf
<1>5. \A d \in 1 .. Len(s) : u[d].caller = s[d].caller /\ u[d].stage = s[d].stage
  BY <1>2, <1>3, <1>4 DEF Enters
<1>6. u[Len(u)].caller = c /\ u[Len(u)].stage = "body"
  <2>1. StageOf(stack'[Depth + 1]) = "body"
    BY DEF Enters, StageOf
  <2>. QED BY <1>2, <1>4, <2>1 DEF Enters
<1>7. u = Append(s, [caller |-> c, stage |-> "body"])
  BY <1>3, <1>4, <1>5, <1>6, AppendSeen
<1>8. Try!Busy /\ Len(SeenCalls) < MaxDepth /\ UNCHANGED Doomed
  BY <1>1, <1>3, BusyMaps, NotDoomed DEF SeenAll
<1>9. c \in Try!Callers
  BY DEF Try!Callers
<1>. QED BY <1>1, <1>7, <1>8, <1>9 DEF Try!Enter

\* A jump within the innermost call that ends its body.
LEMMA EndMaps ==
  ASSUME TypeOK, SeenAll, SeenAll', stack # <<>>, ~Innermost.expanding, Innermost.code = Trying,
         Lands(Depth, Done)
  PROVE  Try!End
<1>1. PICK s, u, n : s = SeenCalls /\ u = SeenCalls' /\ n = Depth
  OBVIOUS
<1>2. n \in Nat /\ n \in 1 .. n /\ Depth' = n
  BY <1>1, StackFacts DEF Lands, Depth
<1>3. /\ s \in Seq(SeenType) /\ Len(s) = n
      /\ \A d \in 1 .. n : s[d].caller = stack[d].caller /\ s[d].stage = StageOf(stack[d])
  BY <1>1 DEF SeenAll
<1>4. /\ u \in Seq(SeenType) /\ Len(u) = n
      /\ \A d \in 1 .. n : u[d].caller = stack'[d].caller /\ u[d].stage = StageOf(stack'[d])
  BY <1>1, <1>2 DEF SeenAll, StageOf
<1>5. \A d \in 1 .. n : /\ stack'[d].caller = stack[d].caller
                        /\ StageOf(stack'[d]) = IF d = n THEN "ended" ELSE StageOf(stack[d])
  <2>1. Done # Trying /\ ~stack[n].expanding
    BY <1>1 DEF Done, Trying, Innermost
  <2>. QED BY <1>1, <1>2, <2>1 DEF Lands, StageOf
<1>6. Restaged(s, u, n, "ended")
  BY <1>2, <1>3, <1>4, <1>5 DEF Restaged
<1>7. u = [s EXCEPT ![n].stage = "ended"]
  BY <1>3, <1>6, RestageSeen
<1>8. s # <<>> /\ s[n].stage = "body"
  BY <1>1, <1>2, <1>3 DEF Innermost, StageOf
<1>9. ~Doomed /\ UNCHANGED Doomed
  BY NotDoomed DEF SeenAll
<1>. QED BY <1>1, <1>3, <1>7, <1>8, <1>9 DEF Try!End, Try!WithStage, Try!Innermost

LEMMA ExpandMaps ==
  ASSUME TypeOK, SeenAll, SeenAll', stack # <<>>, ~Innermost.expanding, Innermost.code = Done,
         Innermost.caller \in Macros, Expands
  PROVE  Try!Expand
<1>1. PICK s, u, n : s = SeenCalls /\ u = SeenCalls' /\ n = Depth
  OBVIOUS
<1>2. n \in Nat /\ n \in 1 .. n /\ Depth' = n
  BY <1>1, StackFacts DEF Expands, Depth
<1>3. /\ s \in Seq(SeenType) /\ Len(s) = n
      /\ \A d \in 1 .. n : s[d].caller = stack[d].caller /\ s[d].stage = StageOf(stack[d])
  BY <1>1 DEF SeenAll
<1>4. /\ u \in Seq(SeenType) /\ Len(u) = n
      /\ \A d \in 1 .. n : u[d].caller = stack'[d].caller /\ u[d].stage = StageOf(stack'[d])
  BY <1>1, <1>2 DEF SeenAll, StageOf
<1>5. ASSUME NEW d \in 1 .. n
      PROVE  /\ stack'[d].caller = stack[d].caller
             /\ StageOf(stack'[d]) = IF d = n THEN "expansion" ELSE StageOf(stack[d])
  <2>1. CASE d = n
    BY <1>1, <2>1 DEF Expands, StageOf, Innermost
  <2>2. CASE d # n
    <3>1. stack'[d] = stack[d]
      BY <1>1, <1>2, <2>2 DEF Expands
    <3>. QED BY <2>2, <3>1
  <2>. QED BY <2>1, <2>2
<1>6. Restaged(s, u, n, "expansion")
  BY <1>2, <1>3, <1>4, <1>5 DEF Restaged
<1>7. u = [s EXCEPT ![n].stage = "expansion"]
  BY <1>3, <1>6, RestageSeen
<1>8. s # <<>> /\ s[n].stage = "ended" /\ s[n].caller \in Macros
  BY <1>1, <1>2, <1>3 DEF Innermost, StageOf, Done, Trying
<1>9. ~Doomed /\ UNCHANGED Doomed
  BY NotDoomed DEF SeenAll
<1>. QED BY <1>1, <1>3, <1>7, <1>8, <1>9 DEF Try!Expand, Try!WithStage, Try!Innermost

\* The innermost call returns: after its expansion if it is a macro.
LEMMA LeaveMaps ==
  ASSUME TypeOK, SeenAll, SeenAll', stack # <<>>, Leaves,
         IF Innermost.caller \in Macros THEN Innermost.expanding
                                        ELSE ~Innermost.expanding /\ Innermost.code = Done
  PROVE  Try!Leave
<1>1. PICK s, u, n : s = SeenCalls /\ u = SeenCalls' /\ n = Depth
  OBVIOUS
<1>2. n \in Nat /\ n \in 1 .. n /\ Depth' = n - 1
  BY <1>1, StackFacts DEF Leaves, Depth
<1>3. /\ s \in Seq(SeenType) /\ Len(s) = n
      /\ \A d \in 1 .. n : s[d].caller = stack[d].caller /\ s[d].stage = StageOf(stack[d])
  BY <1>1 DEF SeenAll
<1>4. /\ u \in Seq(SeenType) /\ Len(u) = n - 1
      /\ \A d \in 1 .. n - 1 : u[d].caller = stack'[d].caller /\ u[d].stage = StageOf(stack'[d])
  BY <1>1, <1>2 DEF SeenAll, StageOf
<1>5. \A d \in 1 .. n - 1 : u[d].caller = s[d].caller /\ u[d].stage = s[d].stage
  BY <1>1, <1>2, <1>3, <1>4 DEF Leaves
<1>6. u = SubSeq(s, 1, n - 1)
  <2>1. PICK k : k = n - 1
    OBVIOUS
  <2>2. k \in 0 .. Len(s) /\ Len(u) = k /\ \A d \in 1 .. k : u[d].caller = s[d].caller /\ u[d].stage = s[d].stage
    BY <1>2, <1>3, <1>4, <1>5, <2>1
  <2>3. u = SubSeq(s, 1, k)
    BY <1>3, <1>4, <2>2, FrontSeen
  <2>. QED BY <2>1, <2>3
<1>7. s # <<>> /\ s[n].stage = IF s[n].caller \in Macros THEN "expansion" ELSE "ended"
  BY <1>1, <1>2, <1>3 DEF Innermost, StageOf, Done, Trying
<1>8. ~Doomed /\ UNCHANGED Doomed
  BY NotDoomed DEF SeenAll
<1>. QED BY <1>1, <1>3, <1>6, <1>7, <1>8 DEF Try!Leave, Try!Innermost

\* No handler lies above the call that an error is thrown to, when the calls
\* of the slots above are none.
LEMMA AboveCallers ==
  ASSUME TypeOK, CallsInv, SlotsInv, NEW t \in -1 .. top, NEW k, k = IF t < 0 THEN 0 ELSE frames[t],
         \A i \in t + 1 .. top : stack[frames[i]].caller \notin Executes
  PROVE  k \in 0 .. Depth /\ \A d \in k + 1 .. Depth : stack[d].caller \notin Executes
<1>1. Depth \in Nat /\ top \in Int
  BY StackFacts DEF TypeOK
<1>2. k \in 0 .. Depth
  <2>1. CASE t < 0
    BY <1>1, <2>1
  <2>2. CASE ~(t < 0)
    <3>1. t \in 0 .. top
      BY <1>1, <2>2
    <3>. QED BY <1>1, <2>2, <3>1, AboveSlot
  <2>. QED BY <2>1, <2>2
<1>3. ASSUME NEW d \in k + 1 .. Depth PROVE stack[d].caller \notin Executes
  <2>1. d \in 1 .. Depth
    BY <1>1, <1>2
  <2>2. CASE stack[d].expanding
    BY <2>1, <2>2, FuncsAssumption DEF CallsInv
  <2>3. CASE ~stack[d].expanding
    <3>1. PICK i \in 0 .. top : frames[i] = d
      BY <2>1, <2>3 DEF SlotsInv, Tries
    <3>2. t < i
      <4>1. CASE t < 0
        BY <1>1, <4>1
      <4>2. CASE ~(t < 0)
        <5>1. t \in 0 .. top /\ frames[t] = k
          BY <1>1, <4>2
        <5>2. i < t => frames[i] < frames[t]
          BY <5>1 DEF SlotsInv
        <5>. QED BY <1>1, <1>2, <3>1, <5>1, <5>2
      <4>. QED BY <4>1, <4>2
    <3>3. i \in t + 1 .. top
      BY <1>1, <3>2
    <3>. QED BY <3>1, <3>3
  <2>. QED BY <2>2, <2>3
<1>. QED BY <1>2, <1>3

LEMMA HandlingMaps ==
  ASSUME SeenAll
  PROVE  \A i : i \in Try!Handling <=> i \in 1 .. Depth /\ stack[i].caller \in Executes
<1>1. PICK s : s = SeenCalls
  OBVIOUS
<1>2. s \in Seq(SeenType) /\ Len(s) = Depth /\ \A d \in 1 .. Depth : s[d].caller = stack[d].caller
  BY <1>1 DEF SeenAll
<1>3. DOMAIN s = 1 .. Depth
  BY <1>2
<1>. QED BY <1>1, <1>2, <1>3 DEF Try!Handling

LEMMA ThrowMaps ==
  ASSUME Inv, Inv', NEW e \in ErrorTypes, ThrowError(e)
  PROVE  Try!Raise \/ Try!Die
<1>1. Running /\ ~exited /\ Throw(e, top) /\ TypeOK /\ CallsInv /\ SlotsInv /\ PendingInv /\ TypeOK'
  BY DEF Inv, ThrowError, Running
<1>2. error = NULL
  BY <1>1 DEF PendingInv, Landed, Running
<1>3. SeenAll /\ Try!Busy
  BY <1>1, <1>2, SeenRunning, BusyMaps
<1>4. top \in -1 .. top
  BY <1>1 DEF TypeOK
<1>5. PICK k : k = IF top < 0 THEN 0 ELSE frames[top]
  OBVIOUS
<1>6. k \in 0 .. Depth /\ \A d \in k + 1 .. Depth : stack[d].caller \notin Executes
  <2>1. \A i \in top + 1 .. top : stack[frames[i]].caller \notin Executes
    BY <1>4
  <2>. QED BY <1>1, <1>4, <1>5, <2>1, AboveCallers
<1>7. CASE top < 0
  <2>1. exited' /\ Doomed' /\ SeenCalls' = <<>>
    BY <1>1, <1>7, SeenNext DEF Throw
  <2>2. Try!Handling = {}
    BY <1>3, <1>5, <1>6, <1>7, HandlingMaps
  <2>. QED BY <1>3, <2>1, <2>2 DEF Try!Die, Doomed
<1>8. CASE ~(top < 0)
  <2>1. /\ ~exited' /\ error' = e /\ error' # NULL /\ Jump(top, Raised)
        /\ top \in 0 .. top /\ k = frames[top]
    BY <1>1, <1>4, <1>5, <1>8, ErrorsAssumption DEF Throw
  <2>2. k \in 1 .. Depth /\ Depth \in Nat
    BY <1>1, <2>1, AboveSlot, StackFacts
  <2>3. Lands(k, Raised)
    BY <1>1, <2>1, <2>2, LandShape
  <2>4. Depth' = k /\ \A d \in 1 .. k : stack'[d].caller = stack[d].caller
    BY <2>3 DEF Lands, Depth
  <2>5. PICK h : h = Handler'
    OBVIOUS
  <2>6. h \in 0 .. k /\ (h > 0 => stack'[h].caller \in Executes)
        /\ \A c \in h + 1 .. k : stack'[c].caller \notin Executes
    <3>1. (TypeOK => IsHandler(Handler))'
      BY HandlerExists, PTL
    <3>. QED BY <1>1, <2>4, <2>5, <3>1 DEF IsHandler
  <2>7. /\ Doomed' <=> h = 0
        /\ SeenCalls' \in Seq(SeenType) /\ Len(SeenCalls') = h
        /\ \A d \in 1 .. h : /\ SeenCalls'[d].caller = stack'[d].caller
                             /\ SeenCalls'[d].stage = IF d = h THEN "ended" ELSE StageOf(stack'[d])
    BY <1>1, <2>1, <2>5, SeenNext DEF SeenBelow, StageOf
  <2>8. \A i : i \in Try!Handling => i <= h /\ i \in 1 .. h
    BY <1>3, <1>6, <2>2, <2>4, <2>6, HandlingMaps
  <2>9. CASE h = 0
    <3>1. Try!Handling = {}
      BY <2>8, <2>9
    <3>2. SeenCalls' = <<>> /\ Doomed'
      BY <2>7, <2>9
    <3>. QED BY <1>3, <3>1, <3>2 DEF Try!Die, Doomed
  <2>10. CASE h # 0
    <3>1. h \in 1 .. k /\ h \in 1 .. Depth /\ stack[h].caller \in Executes
      BY <2>2, <2>4, <2>6, <2>10
    <3>2. h \in Try!Handling
      BY <1>3, <3>1, HandlingMaps
    <3>3. PICK s, u : s = SeenCalls /\ u = SeenCalls'
      OBVIOUS
    <3>4. ASSUME NEW d \in 1 .. h
          PROVE  u[d].caller = s[d].caller /\ u[d].stage = IF d = h THEN "ended" ELSE s[d].stage
      <4>1. d \in 1 .. k /\ d \in 1 .. Depth
        BY <2>2, <3>1
      <4>2. s[d].caller = stack[d].caller /\ s[d].stage = StageOf(stack[d])
        BY <1>3, <3>3, <4>1 DEF SeenAll
      <4>3. d # h => StageOf(stack'[d]) = StageOf(stack[d])
        BY <2>2, <2>3, <3>1, <4>1 DEF Lands, StageOf
      <4>. QED BY <2>4, <2>7, <3>3, <4>1, <4>2, <4>3
    <3>5. s \in Seq(SeenType) /\ Len(s) = Depth /\ u \in Seq(SeenType) /\ Len(u) = h
      BY <1>3, <2>7, <3>3 DEF SeenAll
    <3>6. Restaged(s, u, h, "ended")
      BY <3>1, <3>4, <3>5 DEF Restaged
    <3>7. u = [SubSeq(s, 1, h) EXCEPT ![h].stage = "ended"]
      BY <3>6, RaiseSeen
    <3>8. UNCHANGED Doomed
      BY <1>3, <2>7, <2>10, NotDoomed DEF SeenAll
    <3>. QED BY <1>3, <2>8, <3>2, <3>3, <3>7, <3>8 DEF Try!Raise
  <2>. QED BY <2>9, <2>10
<1>. QED BY <1>7, <1>8

\* sol_runtime_execute has caught the error: its body was already seen to end.
LEMMA CatchMaps ==
  ASSUME Inv, Inv', Catch
  PROVE  UNCHANGED <<SeenCalls, Doomed>>
<1>1. /\ ~exited /\ ~exited' /\ TypeOK /\ SlotsInv /\ TypeOK' /\ stack # <<>> /\ ~Innermost.expanding
      /\ error # NULL /\ error' = NULL /\ Innermost.caller \in Executes /\ Jump(top, Done)
  BY DEF Inv, Catch, Landed, Caught
<1>2. top \in 0 .. top /\ frames[top] = Depth
  BY <1>1, TopSlot
<1>3. PICK n : n = Depth
  OBVIOUS
<1>4. n \in Nat /\ n \in 1 .. n
  BY <1>1, <1>3, StackFacts
<1>5. Lands(n, Done)
  BY <1>1, <1>2, <1>3, <1>4, LandShape
<1>6. Depth' = n
  BY <1>5 DEF Lands, Depth
<1>7. Handler = n
  <2>1. IsHandler(n)
    BY <1>1, <1>3, <1>4 DEF IsHandler, Innermost
  <2>. QED BY <1>1, <2>1, HandlerUnique
<1>8. SeenBelow(n)
  BY <1>1, <1>7, SeenHandling
<1>9. SeenAll'
  BY <1>1, SeenNext
<1>10. PICK s, u : s = SeenCalls /\ u = SeenCalls'
  OBVIOUS
<1>11. s \in Seq(SeenType) /\ u \in Seq(SeenType) /\ Len(s) = n /\ Len(u) = n
  BY <1>6, <1>8, <1>9, <1>10 DEF SeenBelow, SeenAll
<1>12. ASSUME NEW d \in 1 .. n PROVE u[d].caller = s[d].caller /\ u[d].stage = s[d].stage
  <2>1. u[d].caller = stack'[d].caller /\ u[d].stage = StageOf(stack'[d])
    BY <1>6, <1>9, <1>10 DEF SeenAll, StageOf
  <2>2. s[d].caller = stack[d].caller /\ s[d].stage = IF d = n THEN "ended" ELSE StageOf(stack[d])
    BY <1>8, <1>10 DEF SeenBelow
  <2>3. CASE d = n
    <3>1. stack'[d].code = Done /\ ~stack'[d].expanding /\ stack'[d].caller = stack[d].caller
      BY <1>1, <1>3, <1>4, <1>5, <2>3 DEF Lands, Innermost
    <3>. QED BY <2>1, <2>2, <2>3, <3>1 DEF StageOf, Done, Trying
  <2>4. CASE d # n
    <3>1. StageOf(stack'[d]) = StageOf(stack[d]) /\ stack'[d].caller = stack[d].caller
      BY <1>5, <2>4 DEF Lands, StageOf
    <3>. QED BY <2>1, <2>2, <2>4, <3>1
  <2>. QED BY <2>3, <2>4
<1>13. u = s
  BY <1>11, <1>12, SeenEqual
<1>14. ~Doomed /\ ~Doomed'
  BY <1>4, <1>8, <1>9 DEF SeenBelow, SeenAll
<1>. QED BY <1>10, <1>13, <1>14, NotDoomed

\* A finally clause throws the error on: it was seen to leave the call before.
LEMMA RethrowMaps ==
  ASSUME Inv, Inv', NEW c \in Executes \cup Funcs, Finally(c), Innermost.code = Raised, Rethrow(c)
  PROVE  UNCHANGED <<SeenCalls, Doomed>>
<1>1. /\ ~exited /\ TypeOK /\ CallsInv /\ SlotsInv /\ PendingInv /\ TypeOK' /\ stack # <<>>
      /\ ~Innermost.expanding /\ Innermost.caller = c /\ ~Caught /\ Throw(error, top - 1)
      /\ frames' = frames /\ Landed
  BY DEF Inv, Finally, Landed, Rethrow
<1>2. top \in Nat /\ frames[top] = Depth
  BY <1>1, TopSlot
<1>3. error \in ErrorTypes /\ error # NULL
  BY <1>1 DEF PendingInv, TypeOK
<1>4. stack[Depth].caller \notin Executes
  BY <1>1, <1>3, HierarchyAssumption DEF Caught, Innermost
<1>5. PICK t \in -1 .. top : t = top - 1
  BY <1>2
<1>6. PICK k : k = IF t < 0 THEN 0 ELSE frames[t]
  OBVIOUS
<1>7. k \in 0 .. Depth /\ \A d \in k + 1 .. Depth : stack[d].caller \notin Executes
  <2>1. \A i \in t + 1 .. top : i = top
    BY <1>2, <1>5
  <2>2. \A i \in t + 1 .. top : stack[frames[i]].caller \notin Executes
    BY <1>2, <1>4, <2>1
  <2>. QED BY <1>1, <1>6, <2>2, AboveCallers
<1>8. PICK h : h = Handler
  OBVIOUS
<1>9. h \in 0 .. Depth /\ (h > 0 => stack[h].caller \in Executes)
      /\ \A d \in h + 1 .. Depth : stack[d].caller \notin Executes
  BY <1>1, <1>8, HandlerExists DEF IsHandler
<1>10. SeenBelow(h) /\ Depth \in Nat
  BY <1>1, <1>3, <1>8, SeenHandling, StackFacts
<1>11. h \in 0 .. k
  <2>1. k < h => h \in k + 1 .. Depth /\ h > 0
    BY <1>7, <1>9, <1>10
  <2>2. ~(k < h)
    BY <1>7, <1>9, <2>1
  <2>. QED BY <1>7, <1>9, <1>10, <2>2
<1>12. CASE t < 0
  <2>1. exited' /\ Doomed' /\ SeenCalls' = <<>>
    BY <1>1, <1>5, <1>12, SeenNext DEF Throw
  <2>2. h = 0
    BY <1>6, <1>11, <1>12
  <2>3. Doomed /\ SeenCalls = <<>>
    BY <1>10, <2>2 DEF SeenBelow
  <2>. QED BY <2>1, <2>3 DEF Doomed
<1>13. CASE ~(t < 0)
  <2>1. ~exited' /\ error' = error /\ Jump(t, Raised) /\ t \in 0 .. top /\ k = frames[t]
    BY <1>1, <1>2, <1>5, <1>6, <1>13 DEF Throw
  <2>2. k \in 1 .. Depth
    BY <1>1, <2>1, AboveSlot
  <2>3. Lands(k, Raised)
    BY <1>1, <2>1, <2>2, LandShape
  <2>4. Depth' = k /\ \A d \in 1 .. k : stack'[d].caller = stack[d].caller
    BY <2>3 DEF Lands, Depth
  <2>5. IsHandler(h)'
    <3>1. \A d \in h + 1 .. k : d \in 1 .. k /\ d \in h + 1 .. Depth
      BY <1>7, <1>10, <1>11, <2>2
    <3>. QED BY <1>9, <1>11, <2>4, <3>1 DEF IsHandler
  <2>6. Handler' = h
    BY <1>1, <2>5, HandlerNext
  <2>7. /\ Doomed' <=> h = 0
        /\ SeenCalls' \in Seq(SeenType) /\ Len(SeenCalls') = h
        /\ \A d \in 1 .. h : /\ SeenCalls'[d].caller = stack'[d].caller
                             /\ SeenCalls'[d].stage = IF d = h THEN "ended" ELSE StageOf(stack'[d])
    BY <1>1, <1>3, <2>1, <2>6, SeenNext DEF SeenBelow, StageOf
  <2>8. PICK s, u : s = SeenCalls /\ u = SeenCalls'
    OBVIOUS
  <2>9. s \in Seq(SeenType) /\ u \in Seq(SeenType) /\ Len(s) = h /\ Len(u) = h
    BY <1>10, <2>7, <2>8 DEF SeenBelow
  <2>10. ASSUME NEW d \in 1 .. h PROVE u[d].caller = s[d].caller /\ u[d].stage = s[d].stage
    <3>1. d \in 1 .. k /\ (d # h => d # k)
      BY <1>10, <1>11, <2>2
    <3>2. d # h => StageOf(stack'[d]) = StageOf(stack[d])
      BY <2>3, <3>1 DEF Lands, StageOf
    <3>3. s[d].caller = stack[d].caller /\ s[d].stage = IF d = h THEN "ended" ELSE StageOf(stack[d])
      BY <1>10, <2>8 DEF SeenBelow
    <3>. QED BY <2>4, <2>7, <2>8, <3>1, <3>2, <3>3
  <2>11. u = s
    BY <2>9, <2>10, SeenEqual
  <2>12. Doomed' = Doomed
    BY <1>10, <2>7 DEF SeenBelow, Doomed
  <2>. QED BY <2>8, <2>11, <2>12
<1>. QED BY <1>12, <1>13

LEMMA StepMaps == Inv /\ Inv' /\ [Next]_vars => [Try!Next]_<<SeenCalls, Doomed>>
<1>. SUFFICES ASSUME Inv, Inv', [Next]_vars PROVE [Try!Next]_<<SeenCalls, Doomed>>
  OBVIOUS
<1>t. TypeOK /\ TypeOK' /\ (~exited => CallsInv /\ SlotsInv /\ PendingInv)
  BY DEF Inv
<1>1. ASSUME NEW c \in Executes \cup Funcs, Running, Depth < MaxDepth, EnterTry(c),
             UNCHANGED <<error, exited>>
      PROVE  Try!Next
  <2>1. ~exited /\ ~exited' /\ error = NULL /\ error' = NULL
    BY <1>t, <1>1 DEF PendingInv, Landed, Running
  <2>2. SeenAll /\ SeenAll'
    BY <1>t, <2>1, SeenRunning, SeenNext
  <2>3. Enters(c)
    BY <1>t, <1>1, EnterShape
  <2>. QED BY <1>t, <1>1, <2>2, <2>3, EnterMaps DEF Try!Next
<1>2. ASSUME NEW f \in Funcs, FuncExecute(f) PROVE Try!Next
  BY <1>1, <1>2 DEF FuncExecute
<1>3. ASSUME RuntimeExecute PROVE Try!Next
  <2>1. Running /\ Depth < MaxDepth
    BY <1>t, <1>3, StackFacts, DepthAssumption DEF RuntimeExecute, Running
  <2>. QED BY <1>1, <1>3, <2>1 DEF RuntimeExecute, Executes
<1>4. ASSUME LoadBinary PROVE Try!Next
  BY <1>1, <1>4 DEF LoadBinary, Executes
<1>5. ASSUME BodyEnds PROVE Try!Next
  <2>1. /\ ~exited /\ ~exited' /\ stack # <<>> /\ ~Innermost.expanding /\ Innermost.code = Trying
        /\ error' = error /\ Jump(top, Done)
    BY <1>5 DEF BodyEnds, Running
  <2>2. error = NULL
    BY <1>t, <2>1 DEF PendingInv, Landed
  <2>3. top \in 0 .. top /\ frames[top] = Depth /\ Depth \in 1 .. Depth
    BY <1>t, <2>1, TopSlot, StackFacts
  <2>4. Lands(frames[top], Done)
    BY <1>t, <2>1, <2>3, LandShape
  <2>5. SeenAll /\ SeenAll'
    BY <1>t, <2>1, <2>2, SeenRunning, SeenNext
  <2>. QED BY <1>t, <2>1, <2>3, <2>4, <2>5, EndMaps DEF Try!Next
<1>6. ASSUME ExpansionEnds PROVE Try!Next
  <2>1. ~exited /\ ~exited' /\ stack # <<>> /\ Innermost.expanding /\ error' = error
    BY <1>6 DEF ExpansionEnds, Running
  <2>2. error = NULL
    BY <1>t, <2>1 DEF PendingInv, Landed
  <2>3. SeenAll /\ SeenAll'
    BY <1>t, <2>1, <2>2, SeenRunning, SeenNext
  <2>4. Leaves
    BY <1>t, <1>6, <2>1, LeaveShape DEF ExpansionEnds
  <2>5. Innermost.caller \in Macros
    <3>1. Depth \in 1 .. Depth
      BY <1>t, <2>1, StackFacts
    <3>. QED BY <1>t, <2>1, <3>1 DEF CallsInv, Innermost
  <2>. QED BY <1>t, <2>1, <2>3, <2>4, <2>5, LeaveMaps DEF Try!Next
<1>7. ASSUME NEW e \in ErrorTypes, ThrowError(e) PROVE Try!Next
  BY <1>7, ThrowMaps DEF Try!Next
<1>8. ASSUME Catch PROVE UNCHANGED <<SeenCalls, Doomed>>
  BY <1>8, CatchMaps
<1>9. ASSUME NEW c \in Executes \cup Funcs, Finally(c) PROVE [Try!Next]_<<SeenCalls, Doomed>>
  <2>1. ~exited /\ stack # <<>> /\ ~Innermost.expanding /\ Innermost.caller = c
    BY <1>9 DEF Finally, Landed
  <2>2. CASE Innermost.code = Raised /\ Rethrow(c)
    BY <1>9, <2>2, RethrowMaps
  <2>3. CASE Innermost.code = Done /\ Return(c)
    <3>1. ~exited' /\ error' = error
      BY <2>1, <2>3 DEF Return
    <3>2. error = NULL
      BY <1>t, <2>1, <2>3 DEF PendingInv, Done, Raised
    <3>3. SeenAll /\ SeenAll'
      BY <1>t, <2>1, <3>1, <3>2, SeenRunning, SeenNext
    <3>4. CASE c \in Macros
      <4>1. Expands
        BY <1>t, <2>1, <2>3, <3>4, ExpandShape DEF Return
      <4>. QED BY <1>t, <2>1, <2>3, <3>3, <3>4, <4>1, ExpandMaps DEF Try!Next
    <3>5. CASE c \notin Macros
      <4>1. Leaves
        BY <1>t, <2>1, <2>3, <3>5, LeaveShape DEF Return
      <4>. QED BY <1>t, <2>1, <2>3, <3>3, <3>5, <4>1, LeaveMaps DEF Try!Next
    <3>. QED BY <3>4, <3>5
  <2>. QED BY <1>9, <2>2, <2>3 DEF Finally
<1>10. CASE UNCHANGED vars
  BY <1>10 DEF vars, SeenCalls, Doomed, Handler, StageOf, Depth
<1>. QED BY <1>2, <1>3, <1>4, <1>5, <1>6, <1>7, <1>8, <1>9, <1>10 DEF Next, Call, Handle

(* The jump buffers, jumps and clauses of libsol implement structured      *)
(* exceptions: whatever handles the error on its way, a throw abandons the *)
(* calls above the innermost handler and no other, and an error that       *)
(* nobody handles ends the program.                                        *)
THEOREM ImplementsTry == Spec => Structured
BY InitMaps, StepMaps, Invariance, PTL DEF Spec, Structured, Try!Spec
=============================================================================
