------------------------------ MODULE SolLoad ------------------------------
(***************************************************************************)
(* Loading modules (solar_load in solar.c).                                *)
(*                                                                         *)
(* A module names the modules it requires in its descriptor; they are      *)
(* loaded first.  Then its natives are initialised and its binaries run,   *)
(* which are Sol code and may require modules themselves (OP_REQUIRE).     *)
(* Only when all is done is the module entered in the table of loaded      *)
(* modules.                                                                *)
(*                                                                         *)
(* X_Y is X with the mistake Y: no specification uses it, and a property   *)
(* must fail when it stands for X.                                         *)
(***************************************************************************)
EXTENDS Integers, Sequences, FiniteSets

CONSTANTS
  Modules,  \* names of modules
  MaxDepth  \* bound: calls of solar_load inside each other

ASSUME ModulesAssumption == IsFiniteSet(Modules)
ASSUME MaxDepthAssumption == MaxDepth \in Nat \ {0}

VARIABLES
  requires,  \* requires[m]: the modules in the "require" list of m's descriptor
  uses,      \* uses[m]: the modules that the binaries of m require
  table,     \* loaded_modules: the number of entries for each module
  begun,     \* begun[m]: how often the natives and binaries of m were started
  stack,     \* the calls of solar_load in progress, innermost first
  exited     \* the program has called exit

files == <<requires, uses>>
vars == <<requires, uses, table, begun, stack, exited>>

Loading(m) == [module |-> m, stage |-> "requires", todo |-> requires[m]]
Top == Head(stack)
Known(m) == table[m] > 0

\* solar_load(m) called with the calls in rest in progress; a module in the
\* table is not loaded again.
Load(m, rest) ==
  IF Known(m) THEN stack' = rest
  ELSE Len(rest) < MaxDepth /\ stack' = <<Loading(m)>> \o rest

\* Sol code runs: the program, or the binaries of a module.
Running == ~exited /\ (stack # <<>> => Top.stage = "binaries")

Require(m) ==
  /\ Running
  /\ stack # <<>> => m \in uses[Top.module]
  /\ Load(m, stack)
  /\ UNCHANGED <<files, table, begun, exited>>

At(stage) == ~exited /\ stack # <<>> /\ Top.stage = stage

Rest_Again(d) == stack
Rest(d) == <<[Top EXCEPT !.todo = @ \ {d}]>> \o Tail(stack)

Own(d) == d = Top.module

\* The next module of the "require" list; the module itself is skipped.
Dependency(d) ==
  /\ At("requires") /\ d \in Top.todo
  /\ IF Own(d) THEN stack' = Rest(d) ELSE Load(d, Rest(d))
  /\ UNCHANGED <<files, table, begun, exited>>

Resolved_Early == TRUE
Resolved == Top.todo = {}

\* solar_init of each native, then the binaries one after the other.
Start ==
  /\ At("requires") /\ Resolved
  /\ begun' = [begun EXCEPT ![Top.module] = @ + 1]
  /\ stack' = <<[Top EXCEPT !.stage = "binaries"]>> \o Tail(stack)
  /\ UNCHANGED <<files, table, exited>>

\* A native that cannot be initialised ends the program.
InitFails ==
  /\ At("requires") /\ Resolved
  /\ exited' = TRUE
  /\ UNCHANGED <<files, table, begun, stack>>

Entered_Never(m) == table
Entered(m) == [table EXCEPT ![m] = @ + 1]

\* The last binary has ended, normally or by an error that sol_runtime_execute
\* caught: the module is loaded all the same.
Finish ==
  /\ At("binaries")
  /\ table' = Entered(Top.module)
  /\ stack' = Tail(stack)
  /\ UNCHANGED <<files, begun, exited>>

Init ==
  /\ requires \in [Modules -> SUBSET Modules]
  /\ uses \in [Modules -> SUBSET Modules]
  /\ table = [m \in Modules |-> 0]
  /\ begun = [m \in Modules |-> 0]
  /\ stack = <<>>
  /\ exited = FALSE

\* What solar_load does by itself; Sol code may run for ever.
Continue == Start \/ InitFails \/ \E d \in Modules : Dependency(d)

Next == Finish \/ Continue \/ \E m \in Modules : Require(m)

Spec == Init /\ [][Next]_vars /\ WF_vars(Continue)

-----------------------------------------------------------------------------
(* Modules that do not require each other in a circle.  A descriptor may   *)
(* name its own module.                                                    *)

Needs(m) == (requires[m] \ {m}) \cup uses[m]

\* Modules can be put in an order in which each comes after what it needs.
Acyclic ==
  \E rank \in [Modules -> 0 .. Cardinality(Modules)] :
    \A m \in Modules : \A d \in Needs(m) : rank[d] < rank[m]

AcyclicInit == Init /\ Acyclic

AcyclicSpec == AcyclicInit /\ [][Next]_vars /\ WF_vars(Continue)

Calls == [module : Modules, stage : {"requires", "binaries"}, todo : SUBSET Modules]

(* Types: what is left of a "require" list is part of it, and a module whose *)
(* binaries run has nothing left.                                            *)
TypeOK ==
  /\ requires \in [Modules -> SUBSET Modules]
  /\ uses \in [Modules -> SUBSET Modules]
  /\ table \in [Modules -> Nat]
  /\ begun \in [Modules -> Nat]
  /\ stack \in Seq(Calls)
  /\ \A i \in DOMAIN stack :
       /\ stack[i].todo \subseteq requires[stack[i].module]
       /\ stack[i].stage = "binaries" => stack[i].todo = {}
  /\ exited \in BOOLEAN

InProgress(m) == \E i \in DOMAIN stack : stack[i].module = m

\* No module is being loaded twice.
Distinct == \A i, j \in DOMAIN stack : stack[i].module = stack[j].module => i = j

(* However the modules are required, a module's natives and binaries run at  *)
(* most once, and it is in the table from their end on: solar.c:28-33 takes  *)
(* a module that is not in the table for one that was not loaded.            *)
LoadedOnce ==
  /\ Distinct
  /\ \A m \in Modules :
       /\ begun[m] <= 1
       /\ Known(m) <=> begun[m] = 1 /\ ~InProgress(m)

(* The natives and binaries of a module find every module of its "require"   *)
(* list loaded and complete.                                                 *)
DependenciesFirst ==
  [][\A m \in Modules : begun'[m] > begun[m] => \A d \in requires[m] \ {m} : Known(d)]_vars

(* Loading comes back to Sol code, or ends the program.                      *)
Returns == []<>(Running \/ exited)

-----------------------------------------------------------------------------
(* What the library promises of any modules, and does not keep. *)

(* solar.c warns of a "recursive module dependency" and goes on without it:  *)
(* whatever descriptors say, a module that is being loaded is not loaded     *)
(* again because one that it requires requires it.                           *)
RecursionStops ==
  (\A m \in Modules : uses[m] = {}) => Distinct
=============================================================================
