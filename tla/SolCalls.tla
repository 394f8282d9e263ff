------------------------------ MODULE SolCalls ------------------------------
(***************************************************************************)
(* Calls and errors: the try, catch and finally macros of solerror.h, and  *)
(* the two functions that use them, sol_func_execute (solfunc.c) and       *)
(* sol_runtime_execute (runtime.c), with the scopes they push and pop.     *)
(*                                                                         *)
(* A try takes the next slot of a fixed array of jump buffers; a body that *)
(* ends, a handler that ends and a throw all jump to the buffer on top of  *)
(* the array, and the code the jump delivers selects what runs there: the  *)
(* catch clause while an error is pending, otherwise the finally clause,   *)
(* which gives up the slot and either goes on or throws the error again.   *)
(* Nothing ties the array to the C stack: that each jump lands in the call *)
(* it is meant for, and that the scopes match the calls, is what is        *)
(* checked.                                                                *)
(*                                                                         *)
(* X_Y is X with the mistake Y: no specification uses it, and a property   *)
(* must fail when it stands for X.                                         *)
(***************************************************************************)
EXTENDS Integers, Sequences

CONSTANTS
  Funcs,      \* functions; each stands for its closure map too
  Macros,     \* those created by sol_macro_create
  Program,    \* sol_runtime_execute called by the program that embeds the library
  Binary,     \* sol_runtime_execute called by solar_load, inside a scope of its own
  ErrorTypes, \* types of errors
  Error,      \* the root type
  Parent,     \* the type each type extends, or NULL
  Global,     \* the global scope
  NULL,
  MaxDepth    \* bound: calls that nest

Executes == {Program, Binary}

ASSUME FuncsAssumption == Macros \subseteq Funcs /\ Executes \cap Funcs = {} /\ Program # Binary
ASSUME ErrorsAssumption ==
  /\ Error \in ErrorTypes /\ Parent \in [ErrorTypes -> ErrorTypes \cup {NULL}]
  /\ NULL \notin ErrorTypes
ASSUME DepthAssumption == MaxDepth \in Nat \ {0}

VARIABLES
  stack,    \* calls in progress on the C stack, outermost first
  frames,   \* _sol_error_try_frames: the call that set each jump buffer, 0 for none
  top,      \* _sol_error_try_frame_top
  error,    \* current_error, or NULL
  pool,     \* local_token_pool, the most local scope first
  closure,  \* closure[f]: closure_scope of function f
  exited    \* the program was terminated by an uncaught error

vars == <<stack, frames, top, error, pool, closure, exited>>

\* What setjmp returned last in a call (_sol_error_jmp_code).
Trying == "0"
Done   == "-1"
Raised == "error code"

Calls == [caller : Executes \cup Funcs, code : {Trying, Done, Raised}, expanding : BOOLEAN]

Scope(d) == <<"scope", d>>        \* the scope made for the call at depth d
ClosureOf(f) == <<"closure", f>>

Depth == Len(stack)
Innermost == stack[Depth]

\* A body, the expansion of a macro or the embedding program is running.
Running == ~exited /\ (stack # <<>> => Innermost.expanding \/ Innermost.code = Trying)

\* A jump has landed and the catch or finally clause is next.
Landed == ~exited /\ stack # <<>> /\ ~Innermost.expanding /\ Innermost.code # Trying

\* sol_error_type_extends_type: the walk up the parents.
Extends(type) ==
  LET up[t \in ErrorTypes] == t = Error \/ (Parent[t] # NULL /\ up[Parent[t]])
  IN up[type]

\* The types of solerror.c, all defined with a parent that leads up to Error.
ASSUME HierarchyAssumption == \A type \in ErrorTypes : Extends(type)

Caught_Exact == Innermost.caller \in Executes /\ error = Error

Caught == Innermost.caller \in Executes /\ error # NULL /\ Extends(error)

\* longjmp to buffer i: the calls above the one that set it are gone.
Jump(i, code) == stack' = [SubSeq(stack, 1, frames[i]) EXCEPT ![frames[i]].code = code]

Init ==
  /\ stack = <<>>
  /\ frames = [i \in 0 .. MaxDepth - 1 |-> 0]
  /\ top = -1
  /\ error = NULL
  /\ pool = <<Global>>
  /\ closure = [f \in Funcs |-> ClosureOf(f)]
  /\ exited = FALSE

-----------------------------------------------------------------------------
(* Calls. *)

\* A try: setjmp on the next buffer, which returns 0.
EnterTry(c) ==
  /\ top' = top + 1
  /\ frames' = [frames EXCEPT ![top + 1] = Depth + 1]
  /\ stack' = Append(stack, [caller |-> c, code |-> Trying, expanding |-> FALSE])

\* The code never checks the size of the array of buffers.
FuncExecute(f) ==
  /\ Running /\ Depth < MaxDepth
  /\ EnterTry(f)
  /\ pool' = <<Scope(Depth + 1), closure[f]>> \o pool
  /\ UNCHANGED <<error, closure, exited>>

RuntimeExecute ==
  /\ stack = <<>> /\ ~exited
  /\ EnterTry(Program)
  /\ UNCHANGED <<pool, error, closure, exited>>

\* solar_load runs a bytecode file of a module in a scope of its own.
LoadBinary ==
  /\ Running /\ Depth < MaxDepth
  /\ EnterTry(Binary)
  /\ pool' = <<Scope(Depth + 1)>> \o pool
  /\ UNCHANGED <<error, closure, exited>>

\* The body has ended: a jump to the buffer on top.
BodyEnds ==
  /\ Running /\ stack # <<>> /\ ~Innermost.expanding
  /\ Jump(top, Done)
  /\ UNCHANGED <<frames, top, error, pool, closure, exited>>

\* The expansion of a macro has ended.
ExpansionEnds ==
  /\ Running /\ stack # <<>> /\ Innermost.expanding
  /\ stack' = SubSeq(stack, 1, Depth - 1)
  /\ UNCHANGED <<frames, top, error, pool, closure, exited>>

-----------------------------------------------------------------------------
(* Errors. *)

\* sol_error_throw_error with t frames in use above the first.
Throw(e, t) ==
  IF t < 0
    THEN exited' = TRUE /\ UNCHANGED <<stack, error>>
    ELSE exited' = exited /\ error' = e /\ Jump(t, Raised)

ThrowError(e) ==
  /\ Running
  /\ Throw(e, top)
  /\ UNCHANGED <<frames, top, pool, closure>>

Catch_KeepsError ==
  /\ Landed /\ Caught
  /\ Jump(top, Done)
  /\ UNCHANGED <<frames, top, error, pool, closure, exited>>

Catch_EndsTry ==
  /\ Landed /\ Caught
  /\ error' = NULL
  /\ top' = top - 1
  /\ Jump(top, Done)
  /\ UNCHANGED <<frames, pool, closure, exited>>

\* The handler of sol_runtime_execute reports the error and frees it.
Catch ==
  /\ Landed /\ Caught
  /\ error' = NULL
  /\ Jump(top, Done)
  /\ UNCHANGED <<frames, top, pool, closure, exited>>

Release_AtReturn(c) ==
  CASE c \in Funcs /\ Innermost.code = Done ->
         pool' = SubSeq(pool, 3, Len(pool)) /\ closure' = [closure EXCEPT ![c] = pool[2]]
    [] c = Binary /\ Innermost.code = Done -> pool' = Tail(pool) /\ closure' = closure
    [] OTHER -> UNCHANGED <<pool, closure>>

\* What the call leaves when its finally clause runs: a function its scope
\* and its closure.  solar_load pops a binary's scope once it has returned.
Release(c) ==
  CASE c \in Funcs ->
         pool' = SubSeq(pool, 3, Len(pool)) /\ closure' = [closure EXCEPT ![c] = pool[2]]
    [] c = Binary /\ Innermost.code = Done -> pool' = Tail(pool) /\ closure' = closure
    [] OTHER -> UNCHANGED <<pool, closure>>

Rethrow(c) == top' = top - 1 /\ Throw(error, top - 1)

\* A macro stays on the stack to evaluate its result.
Return(c) ==
  /\ top' = top - 1
  /\ stack' = IF c \in Macros
                THEN [stack EXCEPT ![Depth].expanding = TRUE]
                ELSE SubSeq(stack, 1, Depth - 1)
  /\ UNCHANGED <<error, exited>>

Finally(c) ==
  /\ Landed /\ Innermost.caller = c /\ ~Caught
  /\ Release(c)
  /\ \/ Innermost.code = Done /\ Return(c)
     \/ Innermost.code = Raised /\ Rethrow(c)
  /\ UNCHANGED frames

-----------------------------------------------------------------------------
Call ==
  \/ \E f \in Funcs : FuncExecute(f)
  \/ RuntimeExecute
  \/ LoadBinary
  \/ BodyEnds
  \/ ExpansionEnds
  \/ \E e \in ErrorTypes : ThrowError(e)

Handle == Catch \/ \E c \in Executes \cup Funcs : Finally(c)

Next == Call \/ Handle

\* The clauses after a jump are straight-line C code and do run.
Spec == Init /\ [][Next]_vars /\ WF_vars(Handle)

-----------------------------------------------------------------------------
(* Properties. *)

\* Every jump buffer belongs to a call, and every error to a type.
TypeOK ==
  /\ stack \in Seq(Calls) /\ Depth <= MaxDepth
  /\ frames \in [0 .. MaxDepth - 1 -> 0 .. MaxDepth]
  /\ top \in -1 .. MaxDepth - 1
  /\ error \in ErrorTypes \cup {NULL}
  /\ pool \in Seq({Global} \cup {Scope(d) : d \in 1 .. MaxDepth} \cup {ClosureOf(f) : f \in Funcs})
  /\ closure \in [Funcs -> {Scope(d) : d \in 1 .. MaxDepth} \cup {ClosureOf(f) : f \in Funcs}]
  /\ exited \in BOOLEAN

\* The calls that are inside their try statement.
Tries == {d \in 1 .. Depth : ~stack[d].expanding}

(* The jump buffers in use belong to exactly the calls that are inside a   *)
(* try, in the order of the calls: however errors were thrown and caught   *)
(* before, no buffer leads into a function that has returned, and none is  *)
(* lost (solerror.h takes one at a try and gives one up in each finally    *)
(* and each rethrow).                                                      *)
FrameStack == ~exited =>
  /\ {frames[i] : i \in 0 .. top} = Tries
  /\ \A i, j \in 0 .. top : i < j => frames[i] < frames[j]

\* The scopes made for the call at depth d that are in the pool while it runs.
ScopesOf(d) ==
  LET c == stack[d].caller
  IN  CASE c \in Funcs /\ ~stack[d].expanding -> <<Scope(d), ClosureOf(c)>>
        [] c = Binary -> <<Scope(d)>>
        [] OTHER -> <<>>

PoolOf[d \in Nat] == IF d = 0 THEN <<Global>> ELSE ScopesOf(d) \o PoolOf[d - 1]

(* The scopes are those of the calls in progress, whether calls returned   *)
(* or were abandoned by an error, and each function gets back the closure  *)
(* map that was its own (solfunc.c:37-60, solar.c:154-157).                *)
ScopesMatch == ~exited => pool = PoolOf[Depth] /\ \A f \in Funcs : closure[f] = ClosureOf(f)

(* An error is pending exactly while a throw is being handled.  The catch  *)
(* macro asks only whether there is an error, so one that stayed pending   *)
(* would be caught by the next body that ends without any.                 *)
ErrorPending == ~exited => (error # NULL <=> Landed /\ Innermost.code = Raised)

\* The innermost call of sol_runtime_execute, or 0.
Handler == CHOOSE d \in 0 .. Depth :
  /\ d > 0 => stack[d].caller \in Executes
  /\ \A c \in d + 1 .. Depth : stack[c].caller \notin Executes

Doomed == exited \/ (error # NULL /\ Handler = 0)

StageOf(c) ==
  IF c.expanding THEN "expansion" ELSE IF c.code = Trying THEN "body" ELSE "ended"

\* The calls as their users see them: those an error will abandon are gone.
SeenCalls ==
  IF Doomed THEN <<>>
  ELSE [d \in 1 .. (IF error = NULL THEN Depth ELSE Handler) |->
          [caller |-> stack[d].caller,
           stage  |-> IF error # NULL /\ d = Handler THEN "ended" ELSE StageOf(stack[d])]]

Try == INSTANCE SolTry WITH
  Handlers <- Executes, Plain <- Funcs \ Macros, calls <- SeenCalls, dead <- Doomed

(* The jumps implement exceptions: a throw abandons exactly the calls      *)
(* above the innermost sol_runtime_execute, whatever clauses run on the    *)
(* way, and ends the program only if there is none.                        *)
Structured == Try!Spec

(* After a jump the clauses come to an end: the program goes on, or exits. *)
HandlingEnds == Landed ~> ~Landed
=============================================================================
