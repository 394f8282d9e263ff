------------------------------ MODULE SolEval ------------------------------
(***************************************************************************)
(* Running bytecode: the decoder and the loop over the objects of a        *)
(* program (sol_runtime_execute), sol_obj_evaluate, sol_func_execute and   *)
(* the operators of solop.c, with the references that their C locals own.  *)
(*                                                                         *)
(* The C functions in progress are the frames, the program's first.  A     *)
(* frame waits for a value or is resumed; at says what is done now.  An    *)
(* operator that calls no Sol code is one step.  Errors leave the frames   *)
(* up to the program's, and what these own is lost.                        *)
(*                                                                         *)
(* A program that makes the code follow NULL ends as "null", and one that  *)
(* makes it use memory that it does not own, or objects as what they are   *)
(* not, ends as "stray": what happens next is left open.                   *)
(*                                                                         *)
(* X_Y is X with the mistake Y: no specification uses it, and a property   *)
(* must fail when it stands for X.                                         *)
(***************************************************************************)
EXTENDS SolMemory, SolDecode

CONSTANTS
  Sources,   \* programs: source.tree, the objects as trees, and source.bytes, their bytecode
  MaxHeap    \* bound: objects created

\* A program is a file of bytes.
ASSUME SourcesAssumption == \A s \in Sources : s.bytes \in Seq(Byte)

VARIABLES
  source,  \* the program that runs
  input,   \* its bytes that have not been read
  frames,  \* the C functions in progress, innermost last
  at,      \* what is done now
  mem      \* see SolMemory

vars == <<source, input, frames, at, mem>>

Frame(fn) ==
  [fn |-> fn, i |-> 0, types |-> {},                              \* types: evaluated as arguments
   code |-> NULL, func |-> NULL,                                  \* borrowed
   self |-> Nil, first |-> NULL, slice |-> NULL, args |-> NULL, ans |-> Nil]  \* owned
Locals(f) == <<f.self, f.first, f.slice, f.args, f.ans>>

Resume == [do |-> "resume"]
Read == [do |-> "read"]
Throw == [do |-> "throw"]
End(how) == [do |-> "end", how |-> how]
Evaluate(a) == [do |-> "evaluate", obj |-> a]
Call(func, args, self) == [do |-> "call", func |-> func, args |-> args, self |-> self]
Return(a) == [do |-> "return", obj |-> a]

Top == frames[Len(frames)]
Push(f) == Append(frames, f)
With(f) == [frames EXCEPT ![Len(frames)] = f]
Pop == Front(frames)
Resumed(fn) == at = Resume /\ Top.fn = fn
Returned(fn) == at.do = "return" /\ Top.fn = fn

Stop(how) == at' = End(how) /\ UNCHANGED <<source, input, mem, frames>>
Die == Stop("null")
Stray == Stop("stray")
Go(m, fs, next) ==
  \/ ~m.stray /\ mem' = m /\ frames' = fs /\ at' = next /\ UNCHANGED <<source, input>>
  \/ m.stray /\ Stray

Magic == <<83, 79, 76, 66, 73, 78>>

Init ==
  /\ source \in Sources /\ input = source.bytes
  /\ frames = <<Frame("program")>> /\ at = [do |-> "start"]
  /\ mem = Start

-----------------------------------------------------------------------------
(* sol_runtime_execute. *)

Begin ==
  /\ at.do = "start"
  /\ \/ Len(input) < 6 /\ Stray
     \/ Len(input) >= 6 /\ SubSeq(input, 1, 6) # Magic /\ Stop("exit")
     \/ /\ Len(input) >= 6 /\ SubSeq(input, 1, 6) = Magic
        /\ input' = SubSeq(input, 7, Len(input)) /\ at' = Resume
        /\ UNCHANGED <<source, frames, mem>>

NextObject == Resumed("program") /\ Go(mem, frames, Read)

ObjectRead ==
  /\ Returned("program") /\ Top.first = NULL /\ at.obj # NULL
  /\ Go(Release(mem, Top.ans), With([Top EXCEPT !.first = at.obj, !.ans = NULL]), Evaluate(at.obj))

ObjectEvaluated ==
  /\ Returned("program") /\ Top.first # NULL
  /\ Go(Release(mem, Top.first), With([Top EXCEPT !.first = NULL, !.ans = at.obj]), Resume)

ProgramEnds == Returned("program") /\ Top.first = NULL /\ at.obj = NULL /\ Go(mem, frames, End("done"))

\* The finally clause of sol_func_execute runs, other functions just go away.
Unwound_Kept(m) == m
Unwound(m) == IF Top.fn = "function" THEN PopClosure(PopScope(m)) ELSE m

Unwind == at = Throw /\ Top.fn # "program" /\ Go(LoseAll(Unwound(mem), Locals(Top)), Pop, Throw)

Catch ==
  /\ at = Throw /\ Top.fn = "program"
  /\ Go(LoseAll(mem, Locals(Top)), <<Frame("program")>>, End("failed"))

-----------------------------------------------------------------------------
(* sol_runtime_execute_get_object. *)

Behind(n) == SubSeq(input, n + 1, Len(input))

\* The bytes end before the object, or its length, does.
Past ==
  input # <<>> =>
    CASE input[1] = 1 -> Len(input) >= 2 => Short(Behind(2))
      [] input[1] \in {2, 4} ->
           ~Short(Behind(1)) =>
             LengthType(Behind(1)) \in Forms /\ Len(AfterLength(Behind(1))) <= Length(Behind(1))
      [] input[1] = 3 -> Len(input) <= NumberSize
      [] input[1] = 5 -> Len(input) < 2
      [] OTHER -> FALSE
ReadPast == at = Read /\ Past /\ Stray

Reading(types) == at = Read /\ ~Past /\ input[1] \in types
ReadObject(o, rest) ==
  /\ mem' = New(mem, o) /\ at' = Return(Fresh(mem)) /\ input' = rest
  /\ UNCHANGED <<source, frames>>

ReadList ==
  /\ Reading({1}) /\ LengthType(Behind(2)) \in Forms
  /\ mem' = NewList(mem, input[2] # 0, <<>>)
  /\ frames' = Push([Frame("list") EXCEPT !.ans = Fresh(mem), !.i = Length(Behind(2))])
  /\ at' = Resume /\ input' = AfterLength(Behind(2))
  /\ UNCHANGED source

ReadItem == Resumed("list") /\ Top.i > 0 /\ Go(mem, frames, Read)

ItemRead ==
  /\ Returned("list")
  /\ Go(Release(ListAdd(mem, Top.ans, at.obj), at.obj), With([Top EXCEPT !.i = @ - 1]), Resume)

ListRead == Resumed("list") /\ Top.i = 0 /\ Go(mem, Pop, Return(Top.ans))

ReadText ==
  LET rest == AfterLength(Behind(1))
      n == Length(Behind(1))
      name == Spelled(SubSeq(rest, 1, n)) IN
  /\ Reading({2, 4}) /\ LengthType(Behind(1)) \in Forms
  /\ ReadObject(IF input[1] = 2 THEN Obj("token", name, <<>>) ELSE Obj("string", <<name>>, <<>>),
                SubSeq(rest, n + 1, Len(rest)))

ReadNumber ==
  Reading({3}) /\ ReadObject(Obj("number", NumberIn(Behind(1)), <<>>), Behind(1 + NumberSize))

ReadBoolean ==
  LET b == input[2] # 0
      m == Share(mem, b) IN
  /\ Reading({5})
  /\ \/ ~m.stray /\ mem' = m /\ at' = Return(Bool(b)) /\ input' = Behind(2) /\ UNCHANGED <<source, frames>>
     \/ m.stray /\ Stray

ReadEnd == Reading({0}) /\ Go(mem, frames, Return(NULL))

ReadInvalid ==
  /\ at = Read /\ ~Past
  /\ \/ input[1] \notin 0 .. 5
     \/ input[1] = 1 /\ LengthType(Behind(2)) \notin Forms
     \/ input[1] \in {2, 4} /\ LengthType(Behind(1)) \notin Forms
  /\ Stop("exit")

-----------------------------------------------------------------------------
(* sol_obj_evaluate. *)

Evaluating(types) == at.do = "evaluate" /\ Type(mem, at.obj) \in types

EvaluateValue ==
  /\ Evaluating({"number", "string", "boolean", "function", "object"})
  /\ Go(Retain(mem, at.obj), frames, Return(at.obj))

EvaluateToken ==
  LET value == Resolve(mem, mem.heap[at.obj].value) IN
  Evaluating({"token"}) /\ Go(Retain(mem, value), frames, Return(value))

EvaluateUndefined == Evaluating({"undefined"}) /\ Die

EvaluateNothing == Evaluating({"list"}) /\ Items(mem, at.obj) = <<>> /\ Go(mem, frames, Return(Nil))

EvaluateList ==
  LET items == Items(mem, at.obj) IN
  /\ Evaluating({"list"}) /\ items # <<>>
  /\ Go(mem, Push([Frame(IF mem.heap[at.obj].value THEN "self" ELSE "first") EXCEPT !.code = at.obj]),
        Evaluate(items[1]))

\* The types of arguments that function f wants evaluated, by its flags: each
\* look at one keeps two references.
Wanted(m, f) ==
  {type \in {"token", "list"} :
     Truth(m, GetProp(m, f, IF type = "token" THEN "$evaluate-tokens" ELSE "$evaluate-lists"))}
Look(m, a) == ValueLost(Lose(Retain(m, a), a), a)
Looked(m, f) == Look(Look(m, GetProp(m, f, "$evaluate-tokens")), GetProp(m, f, "$evaluate-lists"))

\* What is called has been evaluated: its arguments are next.
Begun(m, frame, first, arguments) ==
  CASE first = NULL -> Go(m, With(frame), Throw)
    [] Type(m, first) = "function" ->
         LET m1 == Looked(NewList(m, m.heap[frame.code].value, arguments), first) IN
         Go(NewList(m1, FALSE, <<>>),
            With([frame EXCEPT !.fn = "arguments", !.i = 1, !.types = Wanted(m, first),
                               !.first = first, !.slice = Fresh(m), !.args = Fresh(m1)]), Resume)
    [] OTHER -> Go(ReleaseAll(m, <<frame.self, first>>), Pop, Throw)

FirstEvaluated ==
  Returned("first") /\ Begun(mem, Top, at.obj, Tail(Items(mem, Top.code)))

SelfEvaluated ==
  LET items == Items(mem, Top.code)
      method == GetProp(mem, at.obj, mem.heap[items[2]].value) IN
  /\ Returned("self")
  /\ CASE at.obj = NULL -> Go(mem, Pop, Throw)
       [] at.obj # NULL /\ (Len(items) < 2 \/ items[2] = NULL) -> Die
       [] at.obj # NULL /\ Len(items) >= 2 /\ Type(mem, items[2]) \notin {"token", "undefined"} -> Stray
       [] OTHER -> Begun(Retain(mem, method), [Top EXCEPT !.self = at.obj], method, SubSeq(items, 3, Len(items)))

Argument == Items(mem, Top.slice)[Top.i]
NextArgument == Resumed("arguments") /\ Top.i <= Len(Items(mem, Top.slice))
Evaluated == Type(mem, Argument) \in Top.types

ArgumentUndefined == NextArgument /\ Argument = NULL /\ Die

ArgumentKept ==
  /\ NextArgument /\ Argument # NULL /\ ~Evaluated
  /\ Go(ListAdd(mem, Top.args, Argument), With([Top EXCEPT !.i = @ + 1]), Resume)

EvaluateArgument == NextArgument /\ Evaluated /\ Go(mem, frames, Evaluate(Argument))

ArgumentEvaluated ==
  /\ Returned("arguments")
  /\ Go(Release(ListAdd(mem, Top.args, at.obj), at.obj), With([Top EXCEPT !.i = @ + 1]), Resume)

CallFirst_FunctionReleased ==
  /\ Resumed("arguments") /\ Top.i > Len(Items(mem, Top.slice))
  /\ Go(ReleaseAll(mem, <<Top.slice, Top.first>>),
        With([Top EXCEPT !.fn = "call", !.slice = NULL, !.first = NULL]),
        Call(Top.first, Top.args, Top.self))
CallFirst ==
  /\ Resumed("arguments") /\ Top.i > Len(Items(mem, Top.slice))
  /\ Go(Release(mem, Top.slice), With([Top EXCEPT !.fn = "call", !.slice = NULL]),
        Call(Top.first, Top.args, Top.self))

Called_ArgumentsKept == ReleaseAll(mem, <<Top.self, Top.first>>)
Called == ReleaseAll(mem, <<Top.args, Top.self, Top.first>>)
CallReturns == Returned("call") /\ Go(Called, Pop, Return(at.obj))

-----------------------------------------------------------------------------
(* sol_func_execute. *)

IsOperator(f) == mem.heap[f].value \notin {"function", "macro"}
Calling == at.do = "call" /\ ~IsOperator(at.func)
Parameters(f) == Items(mem, Items(mem, f)[1])
Argued(f, args) ==
  [i \in DOMAIN Parameters(f) |-> IF i <= Len(args) THEN args[i] ELSE Nil]

\* The closure, and a scope with this, self, arguments and the parameters.
Entered(f, args, self) ==
  RegisterAll(PushScope(PushScope(mem, mem.heap[f].closure), <<>>),
              <<"this", "self", "arguments">> \o [i \in DOMAIN Parameters(f) |-> mem.heap[Parameters(f)[i]].value],
              <<f, self, args>> \o Argued(f, Items(mem, args)))

\* A parameter that is no token, or a value that is undefined.
Odd(f, args) ==
  {i \in DOMAIN Parameters(f) : Type(mem, Parameters(f)[i]) # "token" \/ Argued(f, args)[i] = NULL}

FunctionCall ==
  LET odd == Odd(at.func, Items(mem, at.args))
      k == CHOOSE i \in odd : \A j \in odd : i <= j IN
  /\ Calling
  /\ CASE odd = {} ->
            Go(Entered(at.func, at.args, at.self),
               Push([Frame("function") EXCEPT !.func = at.func, !.code = Items(mem, at.func)[2]]), Resume)
       [] odd # {} /\ Type(mem, Parameters(at.func)[k]) \in {"undefined", "token"} -> Die
       [] OTHER -> Stray

\* The body of a function, and the expansion of a macro.
Body == {"function", "expansion"}

NextStatement ==
  /\ at = Resume /\ Top.fn \in Body /\ Top.i < Len(Items(mem, Top.code))
  /\ Go(Release(mem, Top.ans), With([Top EXCEPT !.ans = NULL]),
        Evaluate(Items(mem, Top.code)[Top.i + 1]))

StatementEvaluated ==
  /\ at.do = "return" /\ Top.fn \in Body
  /\ Go(mem, With([Top EXCEPT !.ans = at.obj, !.i = @ + 1]), Resume)

BodyDone(fn) == Resumed(fn) /\ Top.i = Len(Items(mem, Top.code))
Left == PopClosure(PopScope(mem))
IsMacro(f) == mem.heap[f].value = "macro"

FunctionReturns ==
  BodyDone("function") /\ ~IsMacro(Top.func) /\ Go(Left, Pop, Return(Top.ans))

MacroExpands ==
  /\ BodyDone("function") /\ IsMacro(Top.func)
  /\ IF Type(mem, Top.ans) # "list" THEN Go(Lose(Left, Top.ans), Pop, Throw)
     ELSE Go(Left, With([Frame("expansion") EXCEPT !.code = Top.ans, !.slice = Top.ans]), Resume)

ExpansionReturns ==
  BodyDone("expansion") /\ Go(Release(mem, Top.slice), Pop, Return(Top.ans))

-----------------------------------------------------------------------------
(* Operators: what they demand of their arguments, in order.               *)

Demands(op) ==
  CASE op \in {"<", ">", "<=", ">="} -> <<"number", "number">>
    [] op \in {"set", "define"} -> <<"token", "any">>
    [] op \in {"bind", "bound?", "Object.get"} -> <<"token">>
    [] op = "Object.set" -> <<"token", "defined">>
    [] op \in {"-", "/", "mod", "Object.patch"} -> <<"defined">>
    [] op \in {"evaluate", "freeze", "^", "#", "not", "?", "unwrap"} -> <<"any">>
    [] op = "loop" -> <<"function", "function">>
    [] OTHER -> <<>>

Arguments == Items(mem, at.args)
Arg(k) == Arguments[k]
Types == [k \in DOMAIN Arguments |-> Type(mem, Arg(k))]
AllNumbers(types) == Range(types) \subseteq {"number"}

\* A missing argument is read through a NULL pointer.
Crashes(demand, k) == k > Len(Arguments) \/ (demand = "defined" /\ Arg(k) = NULL)
Meets(demand, k) == ~Crashes(demand, k) /\ demand \in {"any", "defined", Types[k]}
OpName == mem.heap[at.func].value
Unmet == {k \in DOMAIN Demands(OpName) : ~Meets(Demands(OpName)[k], k)}

Operator == at.do = "call" /\ IsOperator(at.func)
Performs(ops) == Operator /\ OpName \in ops /\ Unmet = {}
Refuse ==
  /\ Operator /\ Unmet # {}
  /\ LET k == CHOOSE i \in Unmet : \A j \in Unmet : i <= j IN
     IF Crashes(Demands(OpName)[k], k) THEN Die ELSE Go(mem, frames, Throw)

\* An operator returns a new object, or one that it retains.
Yields(o) == Go(New(mem, o), frames, Return(Fresh(mem)))
Gives(m, a) == Go(Retain(m, a), frames, Return(a))
Answers(b) == Go(Share(mem, b), frames, Return(Bool(b)))

\* An operator that evaluates: its arguments are borrowed from the caller.
Starts(fn, next) == Go(mem, Push([Frame(fn) EXCEPT !.code = at.args, !.func = at.func]), next)

-----------------------------------------------------------------------------
(* Arithmetic, comparison, text. *)

\* What is read as the value of something that is no number is not known.
ValueAt(k) == IF Types[k] = "number" THEN mem.heap[Arg(k)].value ELSE Garbage

\* Division that leaves no integer, and by 0; the remainder has the sign of v (fmod).
Magnitude(w) == IF w < 0 THEN -w ELSE w
Quotient(v, w) ==
  CASE w = 0 \/ v % Magnitude(w) # 0 -> Garbage
    [] w > 0 /\ v % w = 0 -> v \div w
    [] OTHER -> -(v \div Magnitude(w))
Remainder(v, w) ==
  CASE w = 0 -> Garbage
    [] w # 0 /\ v >= 0 -> v % Magnitude(w)
    [] OTHER -> -((-v) % Magnitude(w))
Calculate(op, v, w) ==
  CASE Garbage \in {v, w} -> Garbage
    [] Garbage \notin {v, w} /\ op = "+" -> v + w
    [] Garbage \notin {v, w} /\ op = "-" -> v - w
    [] Garbage \notin {v, w} /\ op = "*" -> v * w
    [] Garbage \notin {v, w} /\ op = "/" -> Quotient(v, w)
    [] Garbage \notin {v, w} /\ op = "mod" -> Remainder(v, w)

\* From v, with the arguments after the first done.
Calculated(v, done) ==
  LET so[k \in 0 .. Len(Arguments)] == IF k <= done THEN v ELSE Calculate(OpName, so[k - 1], ValueAt(k)) IN
  Obj("number", so[Len(Arguments)], <<>>)

Accumulate ==
  /\ Performs({"+", "*"})
  /\ IF AllNumbers(Types) THEN Yields(Calculated(IF OpName = "+" THEN 0 ELSE 1, 0))
     ELSE Go(mem, frames, Throw)

\* The first argument is read unchecked, and an error loses a copy of the rest.
Reduce ==
  /\ Performs({"-", "/", "mod"})
  /\ IF AllNumbers(Tail(Types)) THEN Yields(Calculated(ValueAt(1), 1))
     ELSE Go(Lose(NewList(mem, FALSE, Tail(Arguments)), Fresh(mem)), frames, Throw)

\* What is not known compares as it may.
Ordered(op, v, w) ==
  CASE op = "<" -> v < w [] op = ">" -> v > w [] op = "<=" -> v <= w [] op = ">=" -> v >= w
Compare ==
  /\ Performs({"<", ">", "<=", ">="})
  /\ \E b \in BOOLEAN :
       /\ Garbage \notin {ValueAt(1), ValueAt(2)} => b = Ordered(OpName, ValueAt(1), ValueAt(2))
       /\ Answers(b)

\* Pairs up to the first that differs; undefined has no type to compare.
Differ == {k \in 1 .. Len(Arguments) - 1 : Types[k] = "undefined" \/ Types[k + 1] = "undefined"
                                           \/ ~Equals(mem, Arg(k), Arg(k + 1))}
Unknown == {k \in 1 .. Len(Arguments) - 1 : Types[k] = "number" /\ Types[k + 1] = "number"
                                             /\ Garbage \in {ValueAt(k), ValueAt(k + 1)}}
Equality ==
  /\ Performs({"="})
  /\ \E unequal \in SUBSET Unknown :
       LET differ == (Differ \ Unknown) \cup unequal
           k == CHOOSE i \in differ : \A j \in differ : i <= j IN
       CASE differ = {} -> Answers(TRUE)
         [] differ # {} /\ "undefined" \in {Types[k], Types[k + 1]} -> Die
         [] OTHER -> Answers(FALSE)

\* The Boolean that the argument stands for is retained for ever.
Not ==
  LET b == ~Truth(mem, Arg(1)) IN
  Performs({"not"}) /\ Go(Share(ValueLost(mem, Arg(1)), b), frames, Return(Bool(b)))

\* An object with a method of its own for text is not followed.
Overridden == \E a \in DOMAIN mem.heap : {"->string", "inspect"} \cap DOMAIN mem.heap[a].props # {}
Says(text) == IF Overridden THEN Stray ELSE Yields(Obj("string", text, <<>>))

Concatenate ==
  Performs({"cat", "print"}) /\ Says(FlattenSeq([k \in DOMAIN Arguments |-> Text(mem, Arg(k))]))

Describe == Performs({"Object.->string", "Object.inspect"}) /\ Says(Inspect(mem, at.self))

Exit ==
  /\ Performs({"exit"})
  /\ Go(mem, frames, IF Arguments # <<>> /\ Types[1] # "number" THEN Throw ELSE End("exit"))

-----------------------------------------------------------------------------
(* Variables, lists and functions. *)

Name == mem.heap[Arg(1)].value

Bind ==
  LET value == IF Len(Arguments) > 1 THEN Arg(2) ELSE Nil
      m == Register(mem, Name, value) IN
  /\ Performs({"bind"})
  /\ CASE value = NULL -> Die
       [] value # NULL /\ m.stray -> Stray
       [] OTHER -> Gives(m, Registered(m, Name))

IsBound == Performs({"bound?"}) /\ Answers(Resolve(mem, Name) # NULL)

Set == Performs({"set"}) /\ Gives(Update(mem, Name, Arg(2)), IF Found(mem, Name) = NULL THEN NULL ELSE Arg(2))

\* The value that the name had is retained for ever.
Define ==
  LET old == Resolve(mem, Name)
      m == IF old = NULL THEN Register(mem, Name, Nil) ELSE Lose(Retain(mem, old), old) IN
  /\ Performs({"define"})
  /\ Go(Update(Retain(m, Arg(2)), Name, Arg(2)), frames, Return(Arg(2)))

EvaluateArg == Performs({"evaluate"}) /\ Go(mem, frames, Evaluate(Arg(1)))

Freeze == Performs({"freeze"}) /\ Gives(mem, Arg(1))

MakeList == Performs({"list", "@list"}) /\ Yields(Obj("list", OpName = "@list", Arguments))

MakeFunction == Performs({"^", "#"}) /\ Starts("lambda", Evaluate(Arg(1)))

\* The function, at the address after that of the list of its statements.
Lambda(f, parameters) ==
  LET kind == IF mem.heap[f].value = "#" THEN "macro" ELSE "function"
      m == NewList(mem, FALSE, Tail(Items(mem, Top.code))) IN
  Release(New(m, [Obj("function", kind, <<parameters, Fresh(mem)>>) EXCEPT !.closure = Snapshot(mem)]),
          Fresh(mem))

\* The list of parameters is retained for ever.
ParametersEvaluated_Unchecked ==
  /\ Returned("lambda")
  /\ Go(Lose(Lambda(Top.func, at.obj), at.obj), Pop, Return(Fresh(mem) + 1))
ParametersEvaluated ==
  /\ Returned("lambda")
  /\ IF Type(mem, at.obj) = "list"
     THEN Go(Lose(Lambda(Top.func, at.obj), at.obj), Pop, Return(Fresh(mem) + 1))
     ELSE Go(Lose(mem, at.obj), Pop, Throw)

-----------------------------------------------------------------------------
(* Control. *)

Connect == Performs({"and", "or"}) /\ Starts("connective", Resume)
Until == mem.heap[Top.func].value = "or"

NextOperand ==
  /\ Resumed("connective") /\ Top.i < Len(Items(mem, Top.code))
  /\ Go(Release(mem, Top.ans), With([Top EXCEPT !.ans = NULL]),
        Evaluate(Items(mem, Top.code)[Top.i + 1]))

OperandEvaluated ==
  /\ Returned("connective")
  /\ IF Truth(mem, at.obj) = Until THEN Go(Valued(mem, at.obj), Pop, Return(at.obj))
     ELSE Go(Valued(mem, at.obj), With([Top EXCEPT !.ans = at.obj, !.i = @ + 1]), Resume)

\* The last value is retained once more than it is given back.
NoOperandLeft ==
  /\ Resumed("connective") /\ Top.i = Len(Items(mem, Top.code))
  /\ Go(Lose(Retain(mem, Top.ans), Top.ans), Pop, Return(Top.ans))

Choose == Performs({"?"}) /\ Starts("condition", Evaluate(Arg(1)))

\* With two arguments, a true condition is the result and the second the other.
Chosen ==
  LET args == Items(mem, Top.code)
      long == Len(args) > 2
      true == Truth(mem, at.obj)
      k == IF long /\ ~true THEN 3 ELSE 2 IN
  /\ Returned("condition")
  /\ CASE true /\ ~long -> Go(Valued(mem, at.obj), Pop, Return(at.obj))
       [] ~(true /\ ~long) /\ k > Len(args) -> Die
       [] OTHER -> Go(Release(Valued(mem, at.obj), at.obj), Pop, Evaluate(args[k]))

Loop == Performs({"loop"}) /\ Starts("loop", Call(Arg(1), Nil, Nil))
LoopPart(k) == Call(Items(mem, Top.code)[k], Nil, Nil)

\* Each turn retains a Boolean for ever; the condition that ends the loop is
\* not given back.
ConditionEvaluated ==
  LET m == ValueLost(mem, at.obj) IN
  /\ Returned("loop") /\ Top.i = 0
  /\ IF Truth(mem, at.obj)
     THEN Go(Release(m, Top.ans), With([Top EXCEPT !.first = at.obj, !.ans = NULL, !.i = 1]), LoopPart(2))
     ELSE Go(Lose(m, at.obj), Pop, Return(Top.ans))

LoopBodyEvaluated ==
  /\ Returned("loop") /\ Top.i = 1
  /\ Go(Release(mem, Top.first), With([Top EXCEPT !.first = NULL, !.ans = at.obj, !.i = 0]), LoopPart(1))

-----------------------------------------------------------------------------
(* Objects. *)

Get == Performs({"Object.get"}) /\ Gives(mem, GetProp(mem, at.self, Name))

\* A token is evaluated first.
SetProperty ==
  LET value == IF Types[2] = "token" THEN Resolve(mem, mem.heap[Arg(2)].value) ELSE Arg(2) IN
  Performs({"Object.set"}) /\ Gives(SetProp(mem, at.self, Name, value), value)

PropNames(a) == SetToSeq(DOMAIN mem.heap[a].props)
PropValues(a) == [i \in DOMAIN PropNames(a) |-> mem.heap[a].props[PropNames(a)[i]]]
NewObject(parent) == New(mem, [Obj("object", 0, <<>>) EXCEPT !.parent = parent])

\* Names and values by turns: an error loses the object, a name without a
\* value is followed past the end of the list.
Create ==
  LET names == {k \in DOMAIN Arguments : k % 2 = 1}
      bad == {k \in names : Types[k] # "token" \/ k = Len(Arguments)}
      upto == IF bad = {} THEN Len(Arguments) \div 2 ELSE (CHOOSE k \in bad : \A j \in bad : k <= j) \div 2
      made == SetProps(NewObject(RawObject), Fresh(mem), [i \in 1 .. upto |-> mem.heap[Arg(2 * i - 1)].value],
                       [i \in 1 .. upto |-> Arg(2 * i)]) IN
  /\ Performs({"Object.create"})
  /\ CASE bad = {} -> Go(made, frames, Return(Fresh(mem)))
       [] bad # {} /\ Types[2 * upto + 1] = "token" -> Die
       [] OTHER -> Go(Lose(made, Fresh(mem)), frames, Throw)

\* The prototype of Object would be copied, too: this is not followed.
Clone ==
  /\ Performs({"Object.clone"})
  /\ CASE Arguments = <<>> -> Go(NewObject(at.self), frames, Return(Fresh(mem)))
       [] Arguments # <<>> /\ Arg(1) = NULL -> Die
       [] Arguments # <<>> /\ Arg(1) = Object -> Stray
       [] OTHER -> Go(SetProps(NewObject(at.self), Fresh(mem), PropNames(Arg(1)), PropValues(Arg(1))),
                      frames, Return(Fresh(mem)))

Patch ==
  LET m == IF Len(Arguments) > 1 THEN Valued(mem, Arg(2)) ELSE mem IN
  /\ Performs({"Object.patch"})
  /\ IF Arg(1) = Object /\ Len(Arguments) > 1 THEN Stray
     ELSE Gives(SetProps(m, at.self, PropNames(Arg(1)), PropValues(Arg(1))), at.self)

\* What wrap and unwrap copy from one argument, in order: properties, and the
\* tokens that name variables.
Pairing(a) ==
  CASE a = NULL -> <<[from |-> NULL, prop |-> "nil", key |-> NULL]>>
    [] a # NULL /\ Type(mem, a) = "list" ->
         [i \in DOMAIN Items(mem, a) |->
            LET key == Items(mem, a)[i] IN
            [from |-> a, prop |-> IF Type(mem, key) = "token" THEN mem.heap[key].value ELSE "nil", key |-> key]]
    [] OTHER -> [i \in DOMAIN PropNames(a) |->
                   [from |-> a, prop |-> PropNames(a)[i], key |-> PropValues(a)[i]]]
Pairings(from) ==
  LET pairs[k \in 0 .. Len(Arguments)] == IF k <= from THEN <<>> ELSE pairs[k - 1] \o Pairing(Arg(k)) IN
  pairs[Len(Arguments)]
Bad(pairs) == {i \in DOMAIN pairs : Type(mem, pairs[i].key) # "token"}
FirstBad(pairs) == CHOOSE i \in Bad(pairs) : \A j \in Bad(pairs) : i <= j
Variable(pair) == mem.heap[pair.key].value

Wrapped(pairs, new) ==
  CASE Bad(pairs) = {} ->
         Go(SetProps(new, Fresh(mem), [i \in DOMAIN pairs |-> pairs[i].prop],
                     [i \in DOMAIN pairs |-> Resolve(mem, Variable(pairs[i]))]),
            frames, Return(Fresh(mem)))
    [] Bad(pairs) # {} /\ pairs[FirstBad(pairs)].from = NULL -> Die
    [] OTHER -> Go(mem, frames, Throw)
Wrap == Performs({"wrap"}) /\ Wrapped(Pairings(0), NewObject(RawObject))

\* Registers the variables of the pairs before the first bad one.
Unwrapped(pairs, good, from) ==
  LET values == [i \in DOMAIN good |-> GetProp(mem, from, good[i].prop)]
      m == RegisterAll(mem, [i \in DOMAIN good |-> Variable(good[i])], values) IN
  CASE good # <<>> /\ (from = NULL \/ NULL \in Range(values)) -> Die
    [] ~(good # <<>> /\ (from = NULL \/ NULL \in Range(values))) /\ good = pairs -> Go(m, frames, Return(Nil))
    [] OTHER -> IF pairs[FirstBad(pairs)].from = NULL THEN Die ELSE Go(m, frames, Throw)
Checked(pairs) == IF Bad(pairs) = {} THEN pairs ELSE SubSeq(pairs, 1, FirstBad(pairs) - 1)
Unwrap == Performs({"unwrap"}) /\ Unwrapped(Pairings(1), Checked(Pairings(1)), Arg(1))

-----------------------------------------------------------------------------
Runtime ==
  \/ Begin \/ NextObject \/ ObjectRead \/ ObjectEvaluated \/ ProgramEnds \/ Unwind \/ Catch
  \/ ReadList \/ ReadItem \/ ItemRead \/ ListRead \/ ReadText \/ ReadNumber \/ ReadBoolean
  \/ ReadEnd \/ ReadInvalid \/ ReadPast

Evaluation ==
  \/ EvaluateValue \/ EvaluateToken \/ EvaluateUndefined \/ EvaluateNothing \/ EvaluateList
  \/ FirstEvaluated \/ SelfEvaluated \/ ArgumentUndefined \/ ArgumentKept \/ EvaluateArgument
  \/ ArgumentEvaluated \/ CallFirst \/ CallReturns
  \/ FunctionCall \/ NextStatement \/ StatementEvaluated \/ FunctionReturns \/ MacroExpands
  \/ ExpansionReturns

Operation ==
  \/ Refuse \/ Accumulate \/ Reduce \/ Compare \/ Equality \/ Not \/ Concatenate \/ Describe \/ Exit
  \/ Bind \/ IsBound \/ Set \/ Define \/ EvaluateArg \/ Freeze \/ MakeList
  \/ MakeFunction \/ ParametersEvaluated
  \/ Connect \/ NextOperand \/ OperandEvaluated \/ NoOperandLeft \/ Choose \/ Chosen
  \/ Loop \/ ConditionEvaluated \/ LoopBodyEvaluated
  \/ Get \/ SetProperty \/ Create \/ Clone \/ Patch \/ Wrap \/ Unwrap

\* The program is over; a program that stops anywhere else is a deadlock.
Ended == at.do = "end" /\ UNCHANGED vars

Next ==
  \/ Len(mem.heap) < MaxHeap /\ (Runtime \/ Evaluation \/ Operation)
  \/ Ended

Spec == Init /\ [][Next]_vars

-----------------------------------------------------------------------------
(* Properties. *)

(* Bytes are bytes, addresses are of objects that were created, variables  *)
(* have bindings, and an object has the fields of its type: what a         *)
(* function has as parameters and statements are lists, whatever the       *)
(* program gave it (solfunc.h).                                            *)
Address == 0 .. Len(mem.heap)
ObjectOK(o) ==
  /\ o.count \in Nat /\ o.lost \in Nat
  /\ Range(Owned(mem, o)) \subseteq Address
  /\ Range(o.closure) \subseteq DOMAIN mem.bindings
  /\ CASE o.type = "number" -> o.value \in Int \cup {Garbage}
       [] o.type \in {"boolean", "list"} -> o.value \in BOOLEAN
       [] o.type = "token" -> o.value \in Names
       [] o.type = "function" ->
            \/ o.value \in Range(BuiltinNames)
            \/ /\ o.value \in {"function", "macro"}
               /\ Type(mem, o.items[1]) = "list" /\ Type(mem, o.items[2]) = "list"
       [] OTHER -> o.type \in {"string", "object", "gone"}
TypeOK ==
  /\ input \in Seq(Byte)
  /\ \A a \in DOMAIN mem.heap : ObjectOK(mem.heap[a])
  /\ Range(mem.bindings) \subseteq Address
  /\ \A i \in DOMAIN mem.scopes : Range(mem.scopes[i]) \subseteq DOMAIN mem.bindings
  /\ \A i \in DOMAIN frames : Range(Locals(frames[i])) \cup {frames[i].code, frames[i].func} \subseteq Address
  /\ at.do \in {"start", "read", "resume", "evaluate", "call", "return", "throw", "end"}

\* The references that the locals of C functions own.
LocalRefs(fs) == [p \in (DOMAIN fs) \X (1 .. 5) |-> Locals(fs[p[1]])[p[2]]]
ReturnRefs == IF at.do = "return" THEN <<at.obj>> ELSE <<>>

(* The count of an object is the references that objects, scopes and C     *)
(* locals own, those that locals took with them, and those of the runtime  *)
(* itself: whatever a function or operator takes over, passes on, returns  *)
(* or throws away, and wherever an error leaves it, until the process dies *)
(* or goes astray (sol.c:150-228, solfunc.c:28-74, solop.c).               *)
ObjectCount ==
  LET owned == OwnedBy(mem, DOMAIN mem.heap)
      scopes == ScopeRefs(mem)
      locals == LocalRefs(frames) IN
  at \notin {End("null"), End("stray")} => \A a \in DOMAIN mem.heap \ {Nil} :
    mem.heap[a].count =
      Occurrences(owned, a) + Occurrences(scopes, a) + Occurrences(locals, a) + Occurrences(ReturnRefs, a)
        + mem.heap[a].lost + (IF a \in DOMAIN Kept THEN Kept[a] ELSE 0)

(* What C code holds without a reference of its own lives as long as it    *)
(* may be used: the function that runs and its statements, also when the   *)
(* program binds its name to something else meanwhile, the list that is    *)
(* evaluated, the arguments of a call, the closures among the scopes, and  *)
(* all that lives refers only to what lives                                *)
(* (sol.c:174-209, solfunc.c:34-54, solop.c:145, 265, 324-353).            *)
Borrowed ==
  LET used ==
        Range(OwnedBy(mem, DOMAIN mem.heap)) \cup Range(LocalRefs(frames))
          \cup (UNION {{mem.bindings[b] : b \in Range(mem.scopes[i])} : i \in DOMAIN mem.scopes})
          \cup (UNION {{frames[i].code, frames[i].func} : i \in DOMAIN frames})
          \cup (CASE at.do \in {"evaluate", "return"} -> {at.obj}
                  [] at.do = "call" -> {at.func, at.args, at.self}
                  [] OTHER -> {}) IN
  \A a \in used \ {NULL} : mem.heap[a].count > 0

(* The scopes are those of the functions in progress, each over its        *)
(* closure, and the global one: an error on its way out takes away what    *)
(* the functions that it leaves had pushed (solfunc.c:37-60).              *)
Functions(h) == {g \in 1 .. h : frames[g].fn = "function"}
ScopesMatch ==
  /\ Len(mem.scopes) = 2 * Cardinality(Functions(Len(frames))) + 1
  /\ \A h \in Functions(Len(frames)) :
       mem.scopes[2 * Cardinality(Functions(h))] = mem.heap[frames[h].func].closure

(* A length below the capacity of a form is read back from it as it was    *)
(* written, with nothing of the program that follows, although the widest  *)
(* form has 60 bits and keeps 28 (runtime.c:276-312).                      *)
LengthsRead ==
  at.do = "start" =>
    \A form \in Forms : \A n \in {k \in Edges : k < Capacity[form]} :
      LET bytes == WriteLength(n, form) \o input IN
      LengthType(bytes) = form /\ Length(bytes) = n /\ AfterLength(bytes) = input
=============================================================================
