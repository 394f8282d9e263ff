------------------------------- MODULE SolTry -------------------------------
(***************************************************************************)
(* What the exceptions of libsol promise to the code that uses them: calls *)
(* nest, an error abandons every call above the innermost handler at once, *)
(* and an error without a handler ends the program.  Nothing is said of    *)
(* how this is done: no jump buffers, no clean-up, no pending error.       *)
(***************************************************************************)
EXTENDS Integers, Sequences

CONSTANTS
  Handlers,   \* callers that handle every error (sol_runtime_execute)
  Macros,     \* functions whose result is evaluated after their body
  Plain,      \* other functions
  MaxDepth    \* bound: calls that nest

Callers == Handlers \cup Macros \cup Plain

VARIABLES
  calls,   \* the calls in progress, outermost first
  dead     \* the program was ended by an error nobody handled

Stages == {"body", "ended", "expansion"}
Calls == [caller : Callers, stage : Stages]

Innermost == calls[Len(calls)]
WithStage(st) == [calls EXCEPT ![Len(calls)].stage = st]

\* The program is in a body or an expansion, and may call and throw.
Busy == ~dead /\ (calls # <<>> => Innermost.stage # "ended")

Init == calls = <<>> /\ dead = FALSE

Enter(c) ==
  /\ Busy /\ Len(calls) < MaxDepth
  /\ calls' = Append(calls, [caller |-> c, stage |-> "body"])
  /\ UNCHANGED dead

End ==
  /\ ~dead /\ calls # <<>> /\ Innermost.stage = "body"
  /\ calls' = WithStage("ended")
  /\ UNCHANGED dead

Expand ==
  /\ ~dead /\ calls # <<>> /\ Innermost.stage = "ended" /\ Innermost.caller \in Macros
  /\ calls' = WithStage("expansion")
  /\ UNCHANGED dead

Leave ==
  /\ ~dead /\ calls # <<>>
  /\ Innermost.stage = (IF Innermost.caller \in Macros THEN "expansion" ELSE "ended")
  /\ calls' = SubSeq(calls, 1, Len(calls) - 1)
  /\ UNCHANGED dead

\* The calls that would handle an error thrown now.
Handling == {i \in DOMAIN calls : calls[i].caller \in Handlers}

Raise ==
  /\ Busy /\ Handling # {}
  /\ \E h \in Handling :
       /\ \A i \in Handling : i <= h
       /\ calls' = [SubSeq(calls, 1, h) EXCEPT ![h].stage = "ended"]
  /\ UNCHANGED dead

Die == Busy /\ Handling = {} /\ dead' = TRUE /\ calls' = <<>>

Next == (\E c \in Callers : Enter(c)) \/ End \/ Expand \/ Leave \/ Raise \/ Die

Spec == Init /\ [][Next]_<<calls, dead>>
=============================================================================
