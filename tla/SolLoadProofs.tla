--------------------------- MODULE SolLoadProofs ---------------------------
(***************************************************************************)
(* Proofs about SolLoad, for any modules and any bound on the calls.       *)
(***************************************************************************)
EXTENDS SolLoad, SequenceTheorems, TLAPS

-----------------------------------------------------------------------------
(* Sequences that change at their head. *)

LEMMA PushShape ==
  ASSUME NEW S, NEW s \in Seq(S), NEW c \in S, NEW t, t = <<c>> \o s
  PROVE  /\ t \in Seq(S) /\ Len(t) = Len(s) + 1 /\ t[1] = c
         /\ \A i \in 1 .. Len(t) : i # 1 => t[i] = s[i-1]
<1>1. <<c>> \in Seq(S) /\ Len(<<c>>) = 1
  OBVIOUS
<1>2. t \in Seq(S) /\ Len(t) = Len(s) + 1 /\ t[1] = c
  BY <1>1
<1>3. ASSUME NEW i \in 1 .. Len(t), i # 1 PROVE t[i] = s[i-1]
  BY <1>1, <1>2, <1>3
<1>. QED BY <1>2, <1>3

LEMMA PopShape ==
  ASSUME NEW S, NEW s \in Seq(S), s # <<>>
  PROVE  /\ Tail(s) \in Seq(S) /\ Len(s) \in Nat \ {0} /\ Len(Tail(s)) = Len(s) - 1
         /\ Head(s) = s[1] /\ s[1] \in S
         /\ \A i \in 1 .. Len(s) - 1 : Tail(s)[i] = s[i+1]
OBVIOUS

LEMMA RetopShape ==
  ASSUME NEW S, NEW s \in Seq(S), s # <<>>, NEW c \in S, NEW t, t = <<c>> \o Tail(s)
  PROVE  /\ t \in Seq(S) /\ Len(t) = Len(s) /\ t[1] = c
         /\ \A i \in 1 .. Len(t) : i # 1 => t[i] = s[i]
<1>1. Tail(s) \in Seq(S) /\ Len(s) \in Nat \ {0} /\ Len(Tail(s)) = Len(s) - 1
  BY PopShape
<1>2. \A i \in 1 .. Len(s) - 1 : Tail(s)[i] = s[i+1]
  BY PopShape
<1>3. /\ t \in Seq(S) /\ Len(t) = Len(Tail(s)) + 1 /\ t[1] = c
      /\ \A i \in 1 .. Len(t) : i # 1 => t[i] = Tail(s)[i-1]
  BY <1>1, PushShape
<1>4. ASSUME NEW i \in 1 .. Len(t), i # 1 PROVE t[i] = s[i]
  <2>1. i - 1 \in 1 .. Len(s) - 1 /\ (i - 1) + 1 = i
    BY <1>1, <1>3, <1>4
  <2>. QED BY <2>1, <1>2, <1>3, <1>4
<1>. QED BY <1>1, <1>3, <1>4

-----------------------------------------------------------------------------
(* What the actions do to the calls in progress. *)

\* A call for d is added; the caller, if it is solar_load, ticks d off.
Pushes(d) ==
  /\ ~Known(d) /\ (stack # <<>> => d \in Needs(stack[1].module))
  /\ Len(stack') = Len(stack) + 1
  /\ stack'[1] = Loading(d)
  /\ \A i \in 1 .. Len(stack') : i # 1 =>
       /\ stack'[i].module = stack[i-1].module
       /\ stack'[i].stage = stack[i-1].stage
       /\ stack'[i].todo = stack[i-1].todo \/ (i = 2 /\ stack'[i].todo = stack[1].todo \ {d})

\* The caller ticks d off.
Ticks(d) ==
  /\ stack # <<>> /\ (Known(d) \/ d = stack[1].module)
  /\ Len(stack') = Len(stack)
  /\ \A i \in 1 .. Len(stack) :
       /\ stack'[i].module = stack[i].module
       /\ stack'[i].stage = stack[i].stage
       /\ stack'[i].todo = IF i = 1 THEN stack[i].todo \ {d} ELSE stack[i].todo

\* The binaries of the module on top start.
Starts ==
  /\ stack # <<>> /\ stack[1].stage = "requires" /\ stack[1].todo = {}
  /\ Len(stack') = Len(stack)
  /\ begun' = [begun EXCEPT ![stack[1].module] = @ + 1]
  /\ \A i \in 1 .. Len(stack) :
       /\ stack'[i].module = stack[i].module
       /\ stack'[i].stage = IF i = 1 THEN "binaries" ELSE stack[i].stage
       /\ stack'[i].todo = stack[i].todo

\* The module on top is loaded.
Pops ==
  /\ stack # <<>> /\ stack[1].stage = "binaries"
  /\ Len(stack') = Len(stack) - 1
  /\ table' = [table EXCEPT ![stack[1].module] = @ + 1]
  /\ \A i \in 1 .. Len(stack) - 1 : stack'[i] = stack[i+1]

LEMMA StackFacts ==
  ASSUME TypeOK
  PROVE  /\ Len(stack) \in Nat /\ DOMAIN stack = 1 .. Len(stack)
         /\ stack # <<>> => Len(stack) > 0
         /\ \A i \in 1 .. Len(stack) : stack[i] \in Calls
BY DEF TypeOK

LEMMA LoadingType == TypeOK => \A d \in Modules : Loading(d) \in Calls
BY DEF TypeOK, Loading, Calls

LEMMA TopType ==
  ASSUME TypeOK, stack # <<>>
  PROVE  /\ Top \in Calls /\ Top = stack[1] /\ Top.module \in Modules
         /\ Top.stage \in {"requires", "binaries"} /\ Top.todo \in SUBSET Modules
         /\ Top.todo \subseteq requires[Top.module]
         /\ Top = [module |-> Top.module, stage |-> Top.stage, todo |-> Top.todo]
<1>1. Head(stack) = stack[1] /\ stack[1] \in Calls /\ 1 \in DOMAIN stack
  BY StackFacts, PopShape DEF TypeOK
<1>. QED BY <1>1 DEF TypeOK, Top, Calls

\* A call with one field changed.
LEMMA CallExcept ==
  ASSUME NEW r \in Calls, NEW x
  PROVE  /\ [r EXCEPT !.todo = x] = [module |-> r.module, stage |-> r.stage, todo |-> x]
         /\ [r EXCEPT !.stage = x] = [module |-> r.module, stage |-> x, todo |-> r.todo]
BY DEF Calls

\* The call on top, with another stage or less to do.
LEMMA RestShape ==
  ASSUME TypeOK, stack # <<>>, NEW d \in Modules
  PROVE  /\ Rest(d) \in Seq(Calls) /\ Len(Rest(d)) = Len(stack)
         /\ Rest(d)[1] = [module |-> Top.module, stage |-> Top.stage, todo |-> Top.todo \ {d}]
         /\ \A i \in 1 .. Len(stack) : i # 1 => Rest(d)[i] = stack[i]
<1>. DEFINE c == [module |-> Top.module, stage |-> Top.stage, todo |-> Top.todo \ {d}]
<1>1. [Top EXCEPT !.todo = @ \ {d}] = c
  <2>1. [Top EXCEPT !.todo = @ \ {d}] = [Top EXCEPT !.todo = Top.todo \ {d}]
    OBVIOUS
  <2>. QED BY <2>1, TopType, CallExcept
<1>2. c \in Calls
  BY TopType DEF Calls
<1>3. Rest(d) = <<c>> \o Tail(stack) /\ stack \in Seq(Calls)
  BY <1>1 DEF Rest, TypeOK
<1>. HIDE DEF c
<1>4. /\ Rest(d) \in Seq(Calls) /\ Len(Rest(d)) = Len(stack) /\ Rest(d)[1] = c
      /\ \A i \in 1 .. Len(Rest(d)) : i # 1 => Rest(d)[i] = stack[i]
  BY <1>2, <1>3, RetopShape
<1>. QED BY <1>4 DEF c

LEMMA RequireMoves ==
  ASSUME TypeOK, NEW m \in Modules, Require(m)
  PROVE  stack' \in Seq(Calls) /\ (stack' = stack \/ Pushes(m))
<1>1. CASE Known(m)
  BY <1>1 DEF Require, Load, TypeOK
<1>2. CASE ~Known(m)
  <2>1. stack' = <<Loading(m)>> \o stack /\ stack \in Seq(Calls) /\ Loading(m) \in Calls
    BY <1>2, LoadingType DEF Require, Load, TypeOK
  <2>2. /\ stack' \in Seq(Calls) /\ Len(stack') = Len(stack) + 1 /\ stack'[1] = Loading(m)
        /\ \A i \in 1 .. Len(stack') : i # 1 => stack'[i] = stack[i-1]
    BY <2>1, PushShape
  <2>3. stack # <<>> => m \in Needs(stack[1].module)
    BY TopType DEF Require, Needs
  <2>. QED BY <1>2, <2>2, <2>3 DEF Pushes
<1>. QED BY <1>1, <1>2

LEMMA DependencyMoves ==
  ASSUME TypeOK, NEW d \in Modules, Dependency(d)
  PROVE  stack' \in Seq(Calls) /\ (Ticks(d) \/ Pushes(d))
<1>1. stack # <<>> /\ d \in Top.todo /\ Top = stack[1] /\ Top.todo \subseteq requires[Top.module]
  BY TopType DEF Dependency, At
<1>2. /\ Rest(d) \in Seq(Calls) /\ Len(Rest(d)) = Len(stack)
      /\ Rest(d)[1] = [module |-> Top.module, stage |-> Top.stage, todo |-> Top.todo \ {d}]
      /\ \A i \in 1 .. Len(stack) : i # 1 => Rest(d)[i] = stack[i]
  BY <1>1, RestShape
<1>3. CASE Own(d) \/ Known(d)
  <2>1. stack' = Rest(d)
    BY <1>3 DEF Dependency, Load
  <2>2. \A i \in 1 .. Len(stack) :
          /\ stack'[i].module = stack[i].module
          /\ stack'[i].stage = stack[i].stage
          /\ stack'[i].todo = IF i = 1 THEN stack[i].todo \ {d} ELSE stack[i].todo
    <3>. TAKE i \in 1 .. Len(stack)
    <3>1. CASE i = 1
      BY <1>1, <1>2, <2>1, <3>1
    <3>2. CASE i # 1
      BY <1>2, <2>1, <3>2
    <3>. QED BY <3>1, <3>2
  <2>. QED BY <1>1, <1>2, <1>3, <2>1, <2>2 DEF Ticks, Own
<1>4. CASE ~Own(d) /\ ~Known(d)
  <2>1. stack' = <<Loading(d)>> \o Rest(d) /\ Loading(d) \in Calls
    BY <1>4, LoadingType DEF Dependency, Load
  <2>2. /\ stack' \in Seq(Calls) /\ Len(stack') = Len(Rest(d)) + 1 /\ stack'[1] = Loading(d)
        /\ \A i \in 1 .. Len(stack') : i # 1 => stack'[i] = Rest(d)[i-1]
    BY <1>2, <2>1, PushShape
  <2>3. d \in Needs(stack[1].module)
    BY <1>1, <1>4 DEF Needs, Own
  <2>4. ASSUME NEW i \in 1 .. Len(stack'), i # 1
        PROVE  /\ stack'[i].module = stack[i-1].module
               /\ stack'[i].stage = stack[i-1].stage
               /\ stack'[i].todo = stack[i-1].todo \/ (i = 2 /\ stack'[i].todo = stack[1].todo \ {d})
    <3>1. i - 1 \in 1 .. Len(stack) /\ stack'[i] = Rest(d)[i-1]
      BY <1>2, <2>2, <2>4, StackFacts
    <3>2. CASE i = 2
      BY <1>1, <1>2, <3>1, <3>2
    <3>3. CASE i # 2
      BY <1>2, <3>1, <3>3
    <3>. QED BY <3>2, <3>3
  <2>. QED BY <1>2, <1>4, <2>2, <2>3, <2>4 DEF Pushes
<1>. QED BY <1>3, <1>4

LEMMA StartMoves ==
  ASSUME TypeOK, Start
  PROVE  stack' \in Seq(Calls) /\ Starts
<1>. DEFINE c == [module |-> Top.module, stage |-> "binaries", todo |-> Top.todo]
<1>1. stack # <<>> /\ Top = stack[1] /\ Top.stage = "requires" /\ Top.todo = {}
  BY TopType DEF Start, At, Resolved
<1>2. c \in Calls /\ [Top EXCEPT !.stage = "binaries"] = c
  <2>1. c \in Calls
    BY <1>1, TopType DEF Calls
  <2>. QED BY <1>1, <2>1, TopType, CallExcept
<1>3. stack' = <<c>> \o Tail(stack) /\ stack \in Seq(Calls)
  BY <1>2 DEF Start, TypeOK
<1>c. c.module = Top.module /\ c.stage = "binaries" /\ c.todo = Top.todo
  OBVIOUS
<1>. HIDE DEF c
<1>4. /\ stack' \in Seq(Calls) /\ Len(stack') = Len(stack) /\ stack'[1] = c
      /\ \A i \in 1 .. Len(stack') : i # 1 => stack'[i] = stack[i]
  BY <1>1, <1>2, <1>3, RetopShape
<1>5. \A i \in 1 .. Len(stack) :
        /\ stack'[i].module = stack[i].module
        /\ stack'[i].stage = IF i = 1 THEN "binaries" ELSE stack[i].stage
        /\ stack'[i].todo = stack[i].todo
  BY <1>1, <1>4, <1>c
<1>. QED BY <1>1, <1>4, <1>5 DEF Starts, Start

LEMMA FinishMoves ==
  ASSUME TypeOK, Finish
  PROVE  stack' \in Seq(Calls) /\ Pops
<1>1. stack # <<>> /\ Top = stack[1] /\ Top.stage = "binaries"
  BY TopType DEF Finish, At
<1>2. stack' = Tail(stack) /\ stack \in Seq(Calls)
  BY DEF Finish, TypeOK
<1>. QED BY <1>1, <1>2, PopShape DEF Pops, Finish, Entered

\* What an action leaves alone.
LEMMA Unchanging ==
  /\ \A m \in Modules : Require(m) \/ Dependency(m) => UNCHANGED <<requires, uses, table, begun, exited>>
  /\ Start => UNCHANGED <<requires, uses, table, exited>>
  /\ Finish => UNCHANGED <<requires, uses, begun, exited>>
  /\ InitFails => UNCHANGED <<requires, uses, table, begun, stack>> /\ exited' = TRUE
BY DEF Require, Dependency, Start, Finish, InitFails, files

LEMMA FilesFixed == [Next]_vars => UNCHANGED <<requires, uses>>
BY Unchanging DEF Next, Continue, vars, files

-----------------------------------------------------------------------------
(* Type correctness. *)

\* The part of TypeOK about what is left to do.
Ticked ==
  \A i \in DOMAIN stack :
    /\ stack[i].todo \subseteq requires[stack[i].module]
    /\ stack[i].stage = "binaries" => stack[i].todo = {}

LEMMA TypeInit == Init => TypeOK
<1>. SUFFICES ASSUME Init PROVE TypeOK
  OBVIOUS
<1>1. stack = <<>> /\ stack \in Seq(Calls) /\ DOMAIN stack = {}
  BY DEF Init
<1>2. table \in [Modules -> Nat] /\ begun \in [Modules -> Nat]
  BY DEF Init
<1>. QED BY <1>1, <1>2 DEF Init, TypeOK

LEMMA TickedPush ==
  ASSUME TypeOK, NEW d \in Modules, Pushes(d), stack' \in Seq(Calls), UNCHANGED requires
  PROVE  Ticked'
<1>. SUFFICES ASSUME NEW i \in DOMAIN stack'
              PROVE  /\ stack'[i].todo \subseteq requires[stack'[i].module]
                     /\ stack'[i].stage = "binaries" => stack'[i].todo = {}
  BY DEF Ticked
<1>1. i \in 1 .. Len(stack') /\ Len(stack') = Len(stack) + 1 /\ Len(stack) \in Nat
  BY StackFacts DEF Pushes
<1>2. CASE i = 1
  BY <1>2 DEF Pushes, Loading
<1>3. CASE i # 1
  <2>1. i - 1 \in DOMAIN stack
    BY <1>1, <1>3, StackFacts
  <2>2. /\ stack[i-1].todo \subseteq requires[stack[i-1].module]
        /\ stack[i-1].stage = "binaries" => stack[i-1].todo = {}
    BY <2>1 DEF TypeOK
  <2>3. /\ stack'[i].module = stack[i-1].module /\ stack'[i].stage = stack[i-1].stage
        /\ stack'[i].todo \subseteq stack[i-1].todo
    BY <1>1, <1>3 DEF Pushes
  <2>. QED BY <2>2, <2>3
<1>. QED BY <1>2, <1>3

LEMMA TypeStep == TypeOK /\ [Next]_vars => TypeOK'
<1>. SUFFICES ASSUME TypeOK, [Next]_vars PROVE TypeOK'
  OBVIOUS
<1>t. Ticked
  BY DEF TypeOK, Ticked
<1>s. stack \in Seq(Calls) /\ table \in [Modules -> Nat] /\ begun \in [Modules -> Nat] /\ exited \in BOOLEAN
  BY DEF TypeOK
<1>r. requires \in [Modules -> SUBSET Modules] /\ uses \in [Modules -> SUBSET Modules]
  BY DEF TypeOK
<1>1. ASSUME NEW m \in Modules, Require(m) PROVE TypeOK'
  <2>1. stack' \in Seq(Calls) /\ (stack' = stack \/ Pushes(m))
    BY <1>1, RequireMoves
  <2>2. UNCHANGED <<requires, uses, table, begun, exited>>
    BY <1>1, Unchanging
  <2>3. Ticked'
    <3>1. CASE stack' = stack
      BY <1>t, <2>2, <3>1 DEF Ticked
    <3>2. CASE Pushes(m)
      BY <2>1, <2>2, <3>2, TickedPush
    <3>. QED BY <2>1, <3>1, <3>2
  <2>. QED BY <1>s, <1>r, <2>1, <2>2, <2>3 DEF TypeOK, Ticked
<1>2. ASSUME NEW d \in Modules, Dependency(d) PROVE TypeOK'
  <2>1. stack' \in Seq(Calls) /\ (Ticks(d) \/ Pushes(d))
    BY <1>2, DependencyMoves
  <2>2. UNCHANGED <<requires, uses, table, begun, exited>>
    BY <1>2, Unchanging
  <2>3. Ticked'
    <3>1. CASE Ticks(d)
      <4>1. DOMAIN stack' = 1 .. Len(stack) /\ DOMAIN stack = 1 .. Len(stack)
        BY <1>s, <2>1, <3>1 DEF Ticks
      <4>. QED BY <1>t, <2>2, <3>1, <4>1 DEF Ticked, Ticks
    <3>2. CASE Pushes(d)
      BY <2>1, <2>2, <3>2, TickedPush
    <3>. QED BY <2>1, <3>1, <3>2
  <2>. QED BY <1>s, <1>r, <2>1, <2>2, <2>3 DEF TypeOK, Ticked
<1>3. ASSUME Start PROVE TypeOK'
  <2>1. stack' \in Seq(Calls) /\ Starts
    BY <1>3, StartMoves
  <2>2. UNCHANGED <<requires, uses, table, exited>>
    BY <1>3, Unchanging
  <2>3. begun' \in [Modules -> Nat]
    BY <1>s, <2>1, TopType DEF Starts
  <2>4. Ticked'
    <3>1. DOMAIN stack' = 1 .. Len(stack) /\ DOMAIN stack = 1 .. Len(stack)
      BY <1>s, <2>1 DEF Starts
    <3>. QED BY <1>t, <2>1, <2>2, <3>1 DEF Ticked, Starts
  <2>. QED BY <1>s, <1>r, <2>1, <2>2, <2>3, <2>4 DEF TypeOK, Ticked
<1>4. ASSUME Finish PROVE TypeOK'
  <2>1. stack' \in Seq(Calls) /\ Pops
    BY <1>4, FinishMoves
  <2>2. UNCHANGED <<requires, uses, begun, exited>>
    BY <1>4, Unchanging
  <2>3. table' \in [Modules -> Nat]
    BY <1>s, <2>1, TopType DEF Pops
  <2>4. Ticked'
    <3>1. DOMAIN stack' = 1 .. Len(stack) - 1 /\ DOMAIN stack = 1 .. Len(stack) /\ Len(stack) \in Nat
      BY <1>s, <2>1 DEF Pops
    <3>2. \A i \in DOMAIN stack' : i + 1 \in DOMAIN stack /\ stack'[i] = stack[i+1]
      BY <2>1, <3>1 DEF Pops
    <3>. QED BY <1>t, <2>2, <3>2 DEF Ticked
  <2>. QED BY <1>s, <1>r, <2>1, <2>2, <2>3, <2>4 DEF TypeOK, Ticked
<1>5. ASSUME InitFails PROVE TypeOK'
  BY <1>5, Unchanging DEF TypeOK
<1>6. CASE UNCHANGED vars
  BY <1>6 DEF vars, files, TypeOK
<1>. QED BY <1>1, <1>2, <1>3, <1>4, <1>5, <1>6 DEF Next, Continue

(* Every variable of SolLoad keeps its type, and of a "require" list nothing *)
(* is left when the binaries run (solar.c:54-157).                           *)
THEOREM TypeCorrect == Spec => []TypeOK
BY TypeInit, TypeStep, PTL DEF Spec

-----------------------------------------------------------------------------
(* Modules that do not require each other in a circle. *)

\* An order in which each module comes after those it needs.
Order(rank) ==
  rank \in [Modules -> Int] /\ \A m \in Modules : \A d \in Needs(m) : rank[d] < rank[m]

\* The calls in progress follow that order.
Sorted ==
  \E rank : Order(rank) /\ \A i, j \in DOMAIN stack :
                             i < j => rank[stack[i].module] < rank[stack[j].module]

\* How far a module has come shows in the table, in begun and in its stage.
Progress ==
  /\ \A m \in Modules : /\ Known(m) => begun[m] = 1
                        /\ ~Known(m) /\ ~InProgress(m) => begun[m] = 0
  /\ \A i \in DOMAIN stack : /\ ~Known(stack[i].module)
                             /\ begun[stack[i].module] = IF stack[i].stage = "binaries" THEN 1 ELSE 0

\* A dependency that was ticked off is loaded, or is being loaded just above.
DependenciesKnown ==
  \A i \in DOMAIN stack : stack[i].stage = "requires" =>
    \A d \in requires[stack[i].module] \ {stack[i].module} :
      d \in stack[i].todo \/ Known(d) \/ (i > 1 /\ d = stack[i-1].module)

LoadInv == TypeOK /\ Sorted /\ Progress /\ DependenciesKnown

LEMMA SortedDistinct == TypeOK /\ Sorted => Distinct
<1>. SUFFICES ASSUME TypeOK, Sorted, NEW i \in DOMAIN stack, NEW j \in DOMAIN stack,
                     stack[i].module = stack[j].module
              PROVE  i = j
  BY DEF Distinct
<1>1. PICK rank : Order(rank) /\ \A x, y \in DOMAIN stack :
                                   x < y => rank[stack[x].module] < rank[stack[y].module]
  BY DEF Sorted
<1>2. stack[i].module \in Modules /\ rank[stack[i].module] \in Int /\ i \in Int /\ j \in Int
  BY <1>1, StackFacts DEF Order, Calls
<1>3. ~(rank[stack[i].module] < rank[stack[j].module]) /\ ~(rank[stack[j].module] < rank[stack[i].module])
  BY <1>2
<1>4. ~(i < j) /\ ~(j < i)
  BY <1>1, <1>3
<1>. QED BY <1>2, <1>4

(* Progress says of each module what LoadedOnce says. *)
LEMMA InvLoadedOnce == LoadInv => LoadedOnce
<1>. SUFFICES ASSUME LoadInv PROVE LoadedOnce
  OBVIOUS
<1>1. Distinct
  BY SortedDistinct DEF LoadInv
<1>2. ASSUME NEW m \in Modules, InProgress(m) PROVE ~Known(m) /\ begun[m] \in {0, 1}
  BY <1>2 DEF LoadInv, Progress, InProgress
<1>3. ASSUME NEW m \in Modules PROVE begun[m] <= 1 /\ (Known(m) <=> begun[m] = 1 /\ ~InProgress(m))
  BY <1>2 DEF LoadInv, Progress
<1>. QED BY <1>1, <1>3 DEF LoadedOnce

LEMMA LoadInit == AcyclicInit => LoadInv
<1>. SUFFICES ASSUME Init, Acyclic PROVE LoadInv
  BY DEF AcyclicInit
<1>1. stack = <<>> /\ DOMAIN stack = {} /\ \A m \in Modules : ~Known(m) /\ begun[m] = 0
  BY DEF Init, Known
<1>2. PICK rank \in [Modules -> 0 .. Cardinality(Modules)] :
        \A m \in Modules : \A d \in Needs(m) : rank[d] < rank[m]
  BY DEF Acyclic
<1>3. Order(rank)
  BY <1>2 DEF Order
<1>4. Sorted
  BY <1>1, <1>3 DEF Sorted
<1>5. Progress /\ DependenciesKnown
  BY <1>1 DEF Progress, DependenciesKnown
<1>. QED BY <1>4, <1>5, TypeInit DEF LoadInv

(* The order of the calls. *)
LEMMA SortedStep == TypeOK /\ TypeOK' /\ Sorted /\ [Next]_vars => Sorted'
<1>. SUFFICES ASSUME TypeOK, TypeOK', Sorted, [Next]_vars PROVE Sorted'
  OBVIOUS
<1>1. PICK rank : Order(rank) /\ \A i, j \in DOMAIN stack :
                                   i < j => rank[stack[i].module] < rank[stack[j].module]
  BY DEF Sorted
<1>2. UNCHANGED <<requires, uses>>
  BY FilesFixed
<1>3. Order(rank)'
  BY <1>1, <1>2 DEF Order, Needs
<1>. SUFFICES ASSUME NEW i \in DOMAIN stack', NEW j \in DOMAIN stack', i < j
              PROVE  rank[stack'[i].module] < rank[stack'[j].module]
  BY <1>3 DEF Sorted
<1>n. /\ DOMAIN stack = 1 .. Len(stack) /\ Len(stack) \in Nat
      /\ i \in 1 .. Len(stack') /\ j \in 1 .. Len(stack') /\ Len(stack') \in Nat
  <2>1. stack \in Seq(Calls) /\ stack' \in Seq(Calls)
    BY DEF TypeOK
  <2>. QED BY <2>1
<1>m. \A k \in 1 .. Len(stack) : stack[k].module \in Modules
  BY StackFacts DEF Calls
<1>4. ASSUME NEW d \in Modules, Pushes(d) PROVE rank[stack'[i].module] < rank[stack'[j].module]
  <2>1. Len(stack') = Len(stack) + 1 /\ j # 1 /\ j - 1 \in 1 .. Len(stack)
    BY <1>4, <1>n DEF Pushes
  <2>2. stack'[j].module = stack[j-1].module
    BY <1>4, <1>n, <2>1 DEF Pushes
  <2>3. CASE i # 1
    <3>1. i - 1 \in 1 .. Len(stack) /\ i - 1 < j - 1
      BY <1>n, <2>1, <2>3
    <3>2. stack'[i].module = stack[i-1].module
      BY <1>4, <1>n, <2>3 DEF Pushes
    <3>. QED BY <1>1, <1>n, <2>1, <2>2, <3>1, <3>2
  <2>4. CASE i = 1
    <3>1. stack'[i].module = d /\ 1 \in 1 .. Len(stack)
      BY <1>4, <1>n, <2>1, <2>4 DEF Pushes, Loading
    <3>2. d \in Needs(stack[1].module) /\ stack[1].module \in Modules
      BY <1>4, <1>m, <3>1 DEF Pushes
    <3>3. rank[d] < rank[stack[1].module]
      BY <1>1, <3>2 DEF Order
    <3>4. CASE j = 2
      BY <2>2, <3>1, <3>3, <3>4
    <3>5. CASE j # 2
      <4>1. 1 < j - 1 /\ stack[j-1].module \in Modules
        BY <1>m, <1>n, <2>1, <3>5
      <4>2. rank[stack[1].module] < rank[stack[j-1].module]
        BY <1>1, <1>n, <2>1, <3>1, <4>1
      <4>3. rank[d] \in Int /\ rank[stack[1].module] \in Int /\ rank[stack[j-1].module] \in Int
        BY <1>1, <3>2, <4>1 DEF Order
      <4>. QED BY <2>2, <3>1, <3>3, <4>2, <4>3
    <3>. QED BY <3>4, <3>5
  <2>. QED BY <2>3, <2>4
<1>5. ASSUME Len(stack') = Len(stack), \A k \in 1 .. Len(stack) : stack'[k].module = stack[k].module
      PROVE  rank[stack'[i].module] < rank[stack'[j].module]
  BY <1>1, <1>5, <1>n
<1>6. ASSUME NEW m \in Modules, Require(m) PROVE rank[stack'[i].module] < rank[stack'[j].module]
  BY <1>4, <1>5, <1>6, RequireMoves
<1>7. ASSUME NEW d \in Modules, Dependency(d) PROVE rank[stack'[i].module] < rank[stack'[j].module]
  <2>1. Ticks(d) \/ Pushes(d)
    BY <1>7, DependencyMoves
  <2>. QED BY <1>4, <1>5, <2>1 DEF Ticks
<1>8. ASSUME Start PROVE rank[stack'[i].module] < rank[stack'[j].module]
  BY <1>5, <1>8, StartMoves DEF Starts
<1>9. ASSUME Finish PROVE rank[stack'[i].module] < rank[stack'[j].module]
  <2>1. Pops
    BY <1>9, FinishMoves
  <2>2. /\ i + 1 \in 1 .. Len(stack) /\ j + 1 \in 1 .. Len(stack) /\ i + 1 < j + 1
        /\ i \in 1 .. Len(stack) - 1 /\ j \in 1 .. Len(stack) - 1
    BY <1>n, <2>1 DEF Pops
  <2>3. stack'[i] = stack[i+1] /\ stack'[j] = stack[j+1]
    BY <2>1, <2>2 DEF Pops
  <2>. QED BY <1>1, <1>n, <2>2, <2>3
<1>10. ASSUME InitFails \/ UNCHANGED vars PROVE rank[stack'[i].module] < rank[stack'[j].module]
  BY <1>5, <1>10, Unchanging DEF vars
<1>. QED BY <1>6, <1>7, <1>8, <1>9, <1>10 DEF Next, Continue

(* Nothing but the calls in progress changes, and these keep their modules   *)
(* and stages.                                                               *)
LEMMA ProgressStutter ==
  ASSUME TypeOK, TypeOK', Progress, UNCHANGED <<table, begun>>, Len(stack') = Len(stack),
         \A i \in 1 .. Len(stack) : stack'[i].module = stack[i].module /\ stack'[i].stage = stack[i].stage
  PROVE  Progress'
<1>1. DOMAIN stack = 1 .. Len(stack) /\ DOMAIN stack' = 1 .. Len(stack)
  BY DEF TypeOK
<1>2. \A m : InProgress(m)' <=> InProgress(m)
  BY <1>1 DEF InProgress
<1>. QED BY <1>1, <1>2 DEF Progress, Known

LEMMA ProgressPush ==
  ASSUME TypeOK, TypeOK', Distinct', Progress, UNCHANGED <<table, begun>>, NEW d \in Modules, Pushes(d)
  PROVE  Progress'
<1>1. /\ DOMAIN stack = 1 .. Len(stack) /\ DOMAIN stack' = 1 .. Len(stack')
      /\ Len(stack') = Len(stack) + 1 /\ Len(stack) \in Nat
  BY StackFacts DEF TypeOK, Pushes
<1>2. stack'[1].module = d /\ stack'[1].stage = "requires" /\ 1 \in DOMAIN stack'
  BY <1>1 DEF Pushes, Loading
<1>3. \A i \in DOMAIN stack' : i # 1 =>
        i - 1 \in DOMAIN stack /\ stack'[i].module = stack[i-1].module /\ stack'[i].stage = stack[i-1].stage
  BY <1>1 DEF Pushes
<1>4. \A i \in DOMAIN stack : i + 1 \in DOMAIN stack' /\ stack'[i+1].module = stack[i].module /\ i + 1 # 1
  <2>. TAKE i \in DOMAIN stack
  <2>1. i + 1 \in DOMAIN stack' /\ i + 1 # 1 /\ (i + 1) - 1 = i
    BY <1>1
  <2>. QED BY <1>3, <2>1
<1>5. ~InProgress(d)
  BY <1>2, <1>4 DEF InProgress, Distinct
<1>6. ~Known(d) /\ begun[d] = 0
  BY <1>5 DEF Pushes, Progress
<1>7. \A m : InProgress(m) => InProgress(m)'
  BY <1>4 DEF InProgress
<1>8. ASSUME NEW i \in DOMAIN stack'
      PROVE  /\ ~Known(stack'[i].module)
             /\ begun[stack'[i].module] = IF stack'[i].stage = "binaries" THEN 1 ELSE 0
  BY <1>2, <1>3, <1>6 DEF Progress
<1>. QED BY <1>7, <1>8 DEF Progress, Known

LEMMA ProgressStart ==
  ASSUME TypeOK, TypeOK', Distinct, Progress, UNCHANGED table, Starts
  PROVE  Progress'
<1>t. PICK top \in Modules : top = stack[1].module
  BY TopType DEF Starts
<1>1. /\ DOMAIN stack = 1 .. Len(stack) /\ DOMAIN stack' = 1 .. Len(stack)
      /\ 1 \in DOMAIN stack
  BY StackFacts DEF TypeOK, Starts
<1>2. \A i \in DOMAIN stack : stack'[i].module = stack[i].module
                            /\ stack'[i].stage = IF i = 1 THEN "binaries" ELSE stack[i].stage
  BY <1>1 DEF Starts
<1>3. \A m : InProgress(m)' <=> InProgress(m)
  BY <1>1, <1>2 DEF InProgress
<1>4. begun[top] = 0 /\ ~Known(top) /\ InProgress(top)
  BY <1>1, <1>t DEF Progress, InProgress, Starts
<1>5. begun'[top] = 1 /\ \A m \in Modules : m # top => begun'[m] = begun[m]
  BY <1>4, <1>t DEF TypeOK, Starts
<1>6. \A i \in DOMAIN stack : i # 1 => stack[i].module # top /\ stack[i].module \in Modules
  BY <1>1, <1>t, StackFacts DEF Distinct, Calls
<1>7. ASSUME NEW i \in DOMAIN stack
      PROVE  /\ ~Known(stack'[i].module)
             /\ begun'[stack'[i].module] = IF stack'[i].stage = "binaries" THEN 1 ELSE 0
  <2>1. CASE i = 1
    BY <1>2, <1>4, <1>5, <1>t, <2>1
  <2>2. CASE i # 1
    BY <1>2, <1>5, <1>6, <2>2 DEF Progress
  <2>. QED BY <2>1, <2>2
<1>8. ASSUME NEW m \in Modules
      PROVE  (Known(m) => begun'[m] = 1) /\ (~Known(m) /\ ~InProgress(m) => begun'[m] = 0)
  BY <1>4, <1>5 DEF Progress
<1>. QED BY <1>1, <1>3, <1>7, <1>8 DEF Progress, Known

LEMMA ProgressPop ==
  ASSUME TypeOK, TypeOK', Distinct, Progress, UNCHANGED begun, Pops
  PROVE  Progress'
<1>t. PICK top \in Modules : top = stack[1].module
  BY TopType DEF Pops
<1>1. /\ DOMAIN stack = 1 .. Len(stack) /\ DOMAIN stack' = 1 .. Len(stack) - 1 /\ Len(stack) \in Nat
      /\ 1 \in DOMAIN stack
  BY StackFacts DEF TypeOK, Pops
<1>2. \A i \in DOMAIN stack' : i + 1 \in DOMAIN stack /\ stack'[i] = stack[i+1] /\ i + 1 # 1
  BY <1>1 DEF Pops
<1>3. \A i \in DOMAIN stack : i # 1 => i - 1 \in DOMAIN stack' /\ stack'[i-1] = stack[i]
  <2>. SUFFICES ASSUME NEW i \in DOMAIN stack, i # 1
                PROVE  i - 1 \in DOMAIN stack' /\ stack'[i-1] = stack[i]
    OBVIOUS
  <2>1. i - 1 \in DOMAIN stack' /\ (i - 1) + 1 = i
    BY <1>1
  <2>. QED BY <1>2, <2>1
<1>4. Known(top)' /\ \A m \in Modules : m # top => (Known(m)' <=> Known(m))
  BY <1>t DEF TypeOK, Pops, Known
<1>5. \A m \in Modules : m # top /\ InProgress(m) => InProgress(m)'
  BY <1>1, <1>3, <1>t DEF InProgress
<1>6. begun[top] = 1
  BY <1>1, <1>t DEF Progress, Pops
<1>7. \A i \in DOMAIN stack : i # 1 => stack[i].module # top /\ stack[i].module \in Modules
  BY <1>1, <1>t, StackFacts DEF Distinct, Calls
<1>8. ASSUME NEW i \in DOMAIN stack'
      PROVE  /\ ~Known(stack[i].module)'
             /\ begun[stack'[i].module] = IF stack'[i].stage = "binaries" THEN 1 ELSE 0
  <2>1. stack'[i] = stack[i+1] /\ i + 1 \in DOMAIN stack /\ stack[i+1].module # top /\ stack[i+1].module \in Modules
    BY <1>2, <1>7
  <2>2. ~Known(stack[i+1].module) /\ begun[stack[i+1].module] = IF stack[i+1].stage = "binaries" THEN 1 ELSE 0
    BY <2>1 DEF Progress
  <2>3. ~Known(stack[i].module)'
    BY <1>4, <2>1, <2>2 DEF Known
  <2>. QED BY <2>1, <2>2, <2>3
<1>9. ASSUME NEW m \in Modules
      PROVE  (Known(m)' => begun[m] = 1) /\ (~Known(m)' /\ ~InProgress(m)' => begun[m] = 0)
  BY <1>4, <1>5, <1>6 DEF Progress
<1>. QED BY <1>8, <1>9 DEF Progress

(* The natives of a module start once, and its entry is made once. *)
LEMMA ProgressStep ==
  TypeOK /\ TypeOK' /\ Distinct /\ Distinct' /\ Progress /\ [Next]_vars => Progress'
<1>. SUFFICES ASSUME TypeOK, TypeOK', Distinct, Distinct', Progress, [Next]_vars PROVE Progress'
  OBVIOUS
<1>1. ASSUME NEW m \in Modules, Require(m) PROVE Progress'
  <2>1. UNCHANGED <<table, begun>> /\ (stack' = stack \/ Pushes(m))
    BY <1>1, RequireMoves, Unchanging
  <2>. QED BY <2>1, ProgressStutter, ProgressPush
<1>2. ASSUME NEW d \in Modules, Dependency(d) PROVE Progress'
  <2>1. UNCHANGED <<table, begun>> /\ (Ticks(d) \/ Pushes(d))
    BY <1>2, DependencyMoves, Unchanging
  <2>2. CASE Ticks(d)
    BY <2>1, <2>2, ProgressStutter DEF Ticks
  <2>. QED BY <2>1, <2>2, ProgressPush
<1>3. ASSUME Start PROVE Progress'
  BY <1>3, StartMoves, Unchanging, ProgressStart
<1>4. ASSUME Finish PROVE Progress'
  BY <1>4, FinishMoves, Unchanging, ProgressPop
<1>5. ASSUME InitFails \/ UNCHANGED vars PROVE Progress'
  <2>1. UNCHANGED <<table, begun, stack>>
    BY <1>5, Unchanging DEF vars
  <2>. QED BY <2>1, ProgressStutter
<1>. QED BY <1>1, <1>2, <1>3, <1>4, <1>5 DEF Next, Continue

\* DependenciesKnown for the call at place i.
KnownAt(i) ==
  stack[i].stage = "requires" =>
    \A d \in requires[stack[i].module] \ {stack[i].module} :
      d \in stack[i].todo \/ Known(d) \/ (i > 1 /\ d = stack[i-1].module)

LEMMA DependenciesPush ==
  ASSUME TypeOK, TypeOK', DependenciesKnown, UNCHANGED <<requires, table>>, NEW x \in Modules, Pushes(x),
         NEW i \in DOMAIN stack'
  PROVE  KnownAt(i)'
<1>1. /\ DOMAIN stack = 1 .. Len(stack) /\ i \in 1 .. Len(stack')
      /\ Len(stack') = Len(stack) + 1 /\ Len(stack) \in Nat
  BY StackFacts DEF TypeOK, Pushes
<1>2. CASE i = 1
  BY <1>2 DEF KnownAt, Pushes, Loading
<1>3. CASE i # 1
  <2>1. i - 1 \in DOMAIN stack
    BY <1>1, <1>3
  <2>2. /\ stack'[i].module = stack[i-1].module /\ stack'[i].stage = stack[i-1].stage
        /\ stack'[i].todo = stack[i-1].todo \/ (i = 2 /\ stack'[i].todo = stack[1].todo \ {x})
    BY <1>1, <1>3 DEF Pushes
  <2>3. SUFFICES ASSUME stack'[i].stage = "requires",
                        NEW d \in requires[stack[i-1].module] \ {stack[i-1].module}
                 PROVE  d \in stack'[i].todo \/ Known(d) \/ (i > 1 /\ d = stack'[i-1].module)
    BY <2>2 DEF KnownAt, Known
  <2>4. d \in stack[i-1].todo \/ Known(d) \/ (i - 1 > 1 /\ d = stack[(i-1)-1].module)
    BY <2>1, <2>2, <2>3 DEF DependenciesKnown
  <2>5. CASE d \in stack[i-1].todo
    <3>1. d \in stack'[i].todo \/ (i = 2 /\ d = x)
      BY <2>2, <2>5
    <3>2. stack'[1].module = x
      BY DEF Pushes, Loading
    <3>. QED BY <3>1, <3>2
  <2>6. CASE i - 1 > 1 /\ d = stack[(i-1)-1].module
    <3>1. i > 1 /\ i - 1 \in 1 .. Len(stack') /\ i - 1 # 1
      BY <1>1, <2>6
    <3>2. stack'[i-1].module = stack[(i-1)-1].module
      BY <3>1 DEF Pushes
    <3>. QED BY <2>6, <3>1, <3>2
  <2>. QED BY <2>4, <2>5, <2>6
<1>. QED BY <1>2, <1>3

LEMMA DependenciesTick ==
  ASSUME TypeOK, TypeOK', DependenciesKnown, UNCHANGED <<requires, table>>, NEW x, Ticks(x),
         NEW i \in DOMAIN stack'
  PROVE  KnownAt(i)'
<1>1. i \in 1 .. Len(stack) /\ i \in DOMAIN stack /\ Len(stack) \in Nat
  BY StackFacts DEF TypeOK, Ticks
<1>2. /\ stack'[i].module = stack[i].module /\ stack'[i].stage = stack[i].stage
      /\ stack'[i].todo = IF i = 1 THEN stack[i].todo \ {x} ELSE stack[i].todo
  BY <1>1 DEF Ticks
<1>3. i > 1 => stack'[i-1].module = stack[i-1].module
  <2>. SUFFICES ASSUME i > 1 PROVE stack'[i-1].module = stack[i-1].module
    OBVIOUS
  <2>1. i - 1 \in 1 .. Len(stack)
    BY <1>1
  <2>. QED BY <2>1 DEF Ticks
<1>4. i = 1 => Known(x) \/ x = stack[i].module
  BY DEF Ticks
<1>5. SUFFICES ASSUME stack[i].stage = "requires",
                      NEW d \in requires[stack[i].module] \ {stack[i].module}
               PROVE  d \in stack'[i].todo \/ Known(d) \/ (i > 1 /\ d = stack'[i-1].module)
  BY <1>2 DEF KnownAt, Known
<1>6. d \in stack[i].todo \/ Known(d) \/ (i > 1 /\ d = stack[i-1].module)
  BY <1>1, <1>5 DEF DependenciesKnown
<1>. QED BY <1>2, <1>3, <1>4, <1>6

LEMMA DependenciesStart ==
  ASSUME TypeOK, TypeOK', DependenciesKnown, UNCHANGED <<requires, table>>, Starts,
         NEW i \in DOMAIN stack'
  PROVE  KnownAt(i)'
<1>1. i \in 1 .. Len(stack) /\ i \in DOMAIN stack /\ Len(stack) \in Nat
  BY StackFacts DEF TypeOK, Starts
<1>2. /\ stack'[i].module = stack[i].module
      /\ stack'[i].stage = IF i = 1 THEN "binaries" ELSE stack[i].stage
      /\ stack'[i].todo = stack[i].todo
  BY <1>1 DEF Starts
<1>3. i > 1 => stack'[i-1].module = stack[i-1].module
  <2>. SUFFICES ASSUME i > 1 PROVE stack'[i-1].module = stack[i-1].module
    OBVIOUS
  <2>1. i - 1 \in 1 .. Len(stack)
    BY <1>1
  <2>. QED BY <2>1 DEF Starts
<1>. QED BY <1>1, <1>2, <1>3 DEF KnownAt, Known, DependenciesKnown

LEMMA DependenciesPop ==
  ASSUME TypeOK, TypeOK', DependenciesKnown, UNCHANGED <<requires>>, Pops,
         NEW i \in DOMAIN stack'
  PROVE  KnownAt(i)'
<1>t. PICK top \in Modules : top = stack[1].module
  BY TopType DEF Pops
<1>1. /\ i \in 1 .. Len(stack) - 1 /\ i + 1 \in DOMAIN stack /\ Len(stack) \in Nat /\ i \in Nat
      /\ stack'[i] = stack[i+1]
  BY SMTT(30), StackFacts DEF TypeOK, Pops
<1>2. Known(top)' /\ \A m \in Modules : Known(m) => Known(m)'
  BY <1>t DEF TypeOK, Pops, Known
<1>3. i > 1 => stack'[i-1] = stack[i]
  <2>. SUFFICES ASSUME i > 1 PROVE stack'[i-1] = stack[i]
    OBVIOUS
  <2>1. i - 1 \in 1 .. Len(stack) - 1 /\ (i - 1) + 1 = i
    BY <1>1
  <2>. QED BY <2>1 DEF Pops
<1>4. ASSUME stack[i+1].stage = "requires",
             NEW d \in requires[stack[i+1].module] \ {stack[i+1].module}
      PROVE  d \in stack[i+1].todo \/ Known(d)' \/ (i > 1 /\ d = stack'[i-1].module)
  <2>1. d \in stack[i+1].todo \/ Known(d) \/ (i + 1 > 1 /\ d = stack[(i+1)-1].module)
    BY <1>1, <1>4 DEF DependenciesKnown
  <2>2. (i + 1) - 1 = i /\ (i = 1 \/ i > 1)
    BY <1>1
  <2>3. d \in Modules
    BY <1>1, StackFacts DEF TypeOK, Calls
  <2>. QED BY <1>2, <1>3, <1>t, <2>1, <2>2, <2>3
<1>. QED BY <1>1, <1>4 DEF KnownAt

LEMMA DependenciesStep == TypeOK /\ TypeOK' /\ DependenciesKnown /\ [Next]_vars => DependenciesKnown'
<1>. SUFFICES ASSUME TypeOK, TypeOK', DependenciesKnown, [Next]_vars PROVE DependenciesKnown'
  OBVIOUS
<1>0. (\A i \in DOMAIN stack' : KnownAt(i)') => DependenciesKnown'
  BY DEF DependenciesKnown, KnownAt
<1>1. ASSUME UNCHANGED <<requires, table, stack>> PROVE DependenciesKnown'
  BY <1>1 DEF DependenciesKnown, Known
<1>2. ASSUME NEW m \in Modules, Require(m) PROVE DependenciesKnown'
  <2>1. UNCHANGED <<requires, table>> /\ (stack' = stack \/ Pushes(m))
    BY <1>2, RequireMoves, Unchanging
  <2>. QED BY <1>0, <1>1, <2>1, DependenciesPush
<1>3. ASSUME NEW d \in Modules, Dependency(d) PROVE DependenciesKnown'
  <2>1. UNCHANGED <<requires, table>> /\ (Ticks(d) \/ Pushes(d))
    BY <1>3, DependencyMoves, Unchanging
  <2>. QED BY <1>0, <2>1, DependenciesPush, DependenciesTick
<1>4. ASSUME Start PROVE DependenciesKnown'
  <2>1. UNCHANGED <<requires, table>> /\ Starts
    BY <1>4, StartMoves, Unchanging
  <2>. QED BY <1>0, <2>1, DependenciesStart
<1>5. ASSUME Finish PROVE DependenciesKnown'
  <2>1. UNCHANGED <<requires>> /\ Pops
    BY <1>5, FinishMoves, Unchanging
  <2>. QED BY <1>0, <2>1, DependenciesPop
<1>6. ASSUME InitFails \/ UNCHANGED vars PROVE DependenciesKnown'
  BY <1>1, <1>6, Unchanging DEF vars, files
<1>. QED BY <1>2, <1>3, <1>4, <1>5, <1>6 DEF Next, Continue

-----------------------------------------------------------------------------

LEMMA LoadStep == LoadInv /\ [Next]_vars => LoadInv'
<1>. SUFFICES ASSUME LoadInv, [Next]_vars PROVE LoadInv'
  OBVIOUS
<1>1. TypeOK' /\ Sorted'
  BY TypeStep, SortedStep DEF LoadInv
<1>2. (TypeOK /\ Sorted => Distinct)'
  BY SortedDistinct, PTL
<1>3. Distinct /\ Distinct'
  BY <1>1, <1>2, SortedDistinct DEF LoadInv
<1>. QED BY <1>1, <1>3, ProgressStep, DependenciesStep DEF LoadInv

(* When modules do not require each other in a circle, the natives and       *)
(* binaries of each run at most once, and it is in the table of loaded       *)
(* modules from their end on (solar.c:28-33, 167-173).                       *)
THEOREM LoadsOnce == AcyclicSpec => []LoadedOnce
<1>1. LoadInv /\ [Next]_vars => LoadInv'
  BY LoadStep
<1>2. AcyclicInit => LoadInv
  BY LoadInit
<1>3. LoadInv => LoadedOnce
  BY InvLoadedOnce
<1>. QED BY <1>1, <1>2, <1>3, PTL DEF AcyclicSpec

(* And they run only after all the modules of its "require" list are loaded  *)
(* (solar.c:54-69).                                                          *)
THEOREM LoadsInOrder == AcyclicSpec => DependenciesFirst
<1>. DEFINE Step == \A m \in Modules : begun'[m] > begun[m] => \A d \in requires[m] \ {m} : Known(d)
<1>1. LoadInv /\ [Next]_vars => [Step]_vars
  <2>. SUFFICES ASSUME LoadInv, [Next]_vars, NEW m \in Modules, begun'[m] > begun[m],
                       NEW d \in requires[m] \ {m}
                PROVE  Known(d)
    OBVIOUS
  <2>1. begun' # begun
    BY DEF LoadInv, TypeOK
  <2>2. Start
    BY <2>1, Unchanging DEF Next, Continue, vars
  <2>3. Starts /\ stack[1].module \in Modules
    BY <2>2, StartMoves, TopType DEF LoadInv, Starts
  <2>4. m = stack[1].module
    BY <2>3 DEF LoadInv, TypeOK, Starts
  <2>5. 1 \in DOMAIN stack
    BY <2>3, StackFacts DEF LoadInv, Starts
  <2>. QED BY <2>3, <2>4, <2>5 DEF LoadInv, DependenciesKnown, Starts
<1>2. LoadInv /\ [Next]_vars => LoadInv'
  BY LoadStep
<1>3. AcyclicInit => LoadInv
  BY LoadInit
<1>. QED BY <1>1, <1>2, <1>3, PTL DEF AcyclicSpec, DependenciesFirst
=============================================================================
