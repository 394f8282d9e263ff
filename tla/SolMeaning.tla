----------------------------- MODULE SolMeaning -----------------------------
(***************************************************************************)
(* What a Sol program means, as a recursive function of its trees: values  *)
(* are trees, variables are places in a store, and there are no addresses, *)
(* counts, frames or bytes.  SolEval is shown to compute the same.         *)
(*                                                                         *)
(* A result r has the value r.v, the state r.s after it, and r.out: "ok",  *)
(* "failed" for an error, "exit", or "null" where the code follows NULL.   *)
(* Lists and functions have no identity here: no program of an instance    *)
(* compares one with itself, or takes out what it has put into the other.  *)
(***************************************************************************)
EXTENDS SolEval, SolProgram

Undefined == Tree("undefined", "", <<>>)
NilTree == List(<<>>)
BuiltinTree(n) == Tree(IF n \in {"Object", "RawObject"} THEN "object" ELSE "function", n, <<>>)
ObjectTree(id) == Tree("object", "", <<id>>)
Missing(v) == v.type = "undefined"
IsNil(v) == v.type = "list" /\ ~v.value /\ v.items = <<>>
IsObject(v) == v.type = "object" /\ v.items # <<>>
Fields(v, s) == s.objects[v.items[1]]
Closure(kind, ps, body, env) == [type |-> "function", value |-> kind, items |-> <<ps>> \o body, env |-> env]

\* Scopes from names to places, the store, and the properties of each object.
Empty ==
  [env |-> << [n \in Range(GlobalNames) |-> Builtin[n]] @@ ("nil" :> Nil) >>,
   store |-> <<NilTree>> \o [i \in DOMAIN GlobalNames |-> BuiltinTree(GlobalNames[i])],
   objects |-> <<>>]

Ok(v, s) == [v |-> v, s |-> s, out |-> "ok"]
Out(how, s) == [v |-> Undefined, s |-> s, out |-> how]

Place(n, s) ==
  LET in == {i \in DOMAIN s.env : n \in DOMAIN s.env[i]} IN
  IF in = {} THEN 0 ELSE s.env[CHOOSE i \in in : \A j \in in : i <= j][n]
Bound(n, s) == n # "undefined" /\ Place(n, s) # 0
Lookup(n, s) == IF Bound(n, s) THEN s.store[Place(n, s)] ELSE Undefined
Assign(n, v, s) == IF Place(n, s) = 0 THEN s ELSE [s EXCEPT !.store[Place(n, s)] = v]
Let(n, v, s) ==
  IF v.type = "token" /\ Bound(v.value, s)
  THEN [s EXCEPT !.env[1] = (n :> Place(v.value, s)) @@ @]
  ELSE [s EXCEPT !.store = Append(@, IF v.type = "token" /\ v.value = "undefined" THEN Undefined ELSE v),
                 !.env[1] = (n :> Len(s.store) + 1) @@ @]
LetAll(ns, vs, s) == FoldLeft(LAMBDA t, i : Let(ns[i], vs[i], t), s, [i \in DOMAIN ns |-> i])
Visible(s) == [n \in UNION {DOMAIN s.env[i] : i \in DOMAIN s.env} |-> Place(n, s)]

Truthy(v) ==
  CASE v.type = "boolean" -> v.value
    [] v.type = "list" -> v.items # <<>>
    [] OTHER -> ~Missing(v)
Same(v, w) ==
  v.type = w.type /\ v.value = w.value
    /\ (v.type = "list" => IsNil(v) /\ IsNil(w)) /\ (v.type = "object" => v.items = w.items)

\* Properties, then the methods of the prototypes.
Props(v, s) == IF IsObject(v) THEN Fields(v, s).props ELSE <<>>
Raw(v, s) == IsObject(v) /\ Fields(v, s).raw
Property(n, v, s) ==
  CASE n \in DOMAIN Props(v, s) -> Props(v, s)[n]
    [] n \in RawMethods \/ (n \in DOMAIN Methods /\ ~Raw(v, s))
         -> BuiltinTree("Object." \o n)
    [] n = "create" /\ v.type = "object" /\ v.value = "Object" -> BuiltinTree("Object.create")
    [] OTHER -> Undefined
Made(props, raw, s) ==
  Ok(ObjectTree(Len(s.objects) + 1), [s EXCEPT !.objects = Append(@, [props |-> props, raw |-> raw])])

ValuesOf(props) == LET names == SetToSeq(DOMAIN props) IN [i \in DOMAIN names |-> props[names[i]]]

RECURSIVE Show(_, _), ShowAll(_, _)
ShowAll(vs, s) == IF vs = <<>> THEN <<>> ELSE Show(Head(vs), s) \o ShowAll(Tail(vs), s)
Show(v, s) ==
  CASE v.type = "undefined" -> <<"undefined">>
    [] v.type = "function" -> <<"Function">>
    [] v.type = "number" -> <<ToString(v.value)>>
    [] v.type = "string" -> <<"'">> \o v.value \o <<"'">>
    [] v.type = "boolean" -> <<IF v.value THEN "true" ELSE "false">>
    [] v.type = "token" -> <<v.value>>
    [] IsNil(v) -> <<"nil">>
    [] v.type = "list" -> <<IF v.value THEN "@[" ELSE "[">> \o ShowAll(v.items, s) \o <<"]">>
    [] v.type = "object" ->
         <<IF Raw(v, s) THEN "{" ELSE "@{">>
           \o SetToSeq(DOMAIN Props(v, s)) \o ShowAll(ValuesOf(Props(v, s)), s) \o <<"}">>
ShowText(v, s) == IF v.type = "string" THEN v.value ELSE Show(v, s)

-----------------------------------------------------------------------------
(* Operators that evaluate nothing. *)

Misses(op, args) ==
  {k \in DOMAIN Demands(op) :
     k > Len(args) \/ (Demands(op)[k] = "defined" /\ Missing(args[k]))
       \/ Demands(op)[k] \notin {"any", "defined", args[k].type}}

Compute(op, args, s) ==
  LET start == CASE op = "+" -> 0 [] op = "*" -> 1 [] OTHER -> IF args[1].type = "number" THEN args[1].value ELSE Garbage
      rest == IF op \in {"+", "*"} THEN args ELSE Tail(args) IN
  IF \E i \in DOMAIN rest : rest[i].type # "number" THEN Out("failed", s)
  ELSE Ok(Number(FoldLeft(LAMBDA x, v : Calculate(op, x, v.value), start, rest)), s)

\* Names and values by turns.
RECURSIVE Creates(_, _, _)
Creates(args, props, s) ==
  CASE args = <<>> -> Made(props, TRUE, s)
    [] args # <<>> /\ args[1].type # "token" -> Out("failed", s)
    [] Len(args) = 1 /\ args[1].type = "token" -> Out("null", s)
    [] OTHER -> Creates(SubSeq(args, 3, Len(args)), (args[1].value :> args[2]) @@ props, s)

\* The tokens in vs, each with the property that it goes with.
NameOf(t) == IF t.type = "token" THEN t.value ELSE "nil"
RECURSIVE Pairs(_, _)
Pairs(vs, s) ==
  IF vs = <<>> THEN <<>>
  ELSE (CASE Missing(Head(vs)) -> <<<<"", Undefined>>>>  \* followed, whatever its type
          [] Head(vs).type = "list" -> [i \in DOMAIN Head(vs).items |-> <<NameOf(Head(vs).items[i]), Head(vs).items[i]>>]
          [] OTHER -> LET ps == Props(Head(vs), s)
                          ks == SetToSeq(DOMAIN ps) IN [i \in DOMAIN ks |-> <<ks[i], ps[ks[i]]>>])
       \o Pairs(Tail(vs), s)

RECURSIVE Wraps(_, _, _), Unwraps(_, _, _)
Wraps(pairs, props, s) ==
  CASE pairs = <<>> -> Made(props, TRUE, s)
    [] pairs # <<>> /\ Head(pairs)[1] = "" -> Out("null", s)
    [] pairs # <<>> /\ Head(pairs)[1] # "" /\ Head(pairs)[2].type # "token" -> Out("failed", s)
    [] OTHER -> Wraps(Tail(pairs), (Head(pairs)[1] :> Lookup(Head(pairs)[2].value, s)) @@ props, s)
Unwraps(v, pairs, s) ==
  CASE pairs = <<>> -> Ok(NilTree, s)
    [] pairs # <<>> /\ Head(pairs)[1] = "" -> Out("null", s)
    [] pairs # <<>> /\ Head(pairs)[1] # "" /\ Head(pairs)[2].type # "token" -> Out("failed", s)
    [] OTHER ->
         IF Missing(v) \/ Missing(Property(Head(pairs)[1], v, s)) THEN Out("null", s)
         ELSE Unwraps(v, Tail(pairs), Let(Head(pairs)[2].value, Property(Head(pairs)[1], v, s), s))

RECURSIVE Equal(_, _)
Equal(vs, s) ==
  CASE Len(vs) < 2 -> Ok(Boolean(TRUE), s)
    [] Len(vs) >= 2 /\ (Missing(vs[1]) \/ Missing(vs[2])) -> Out("null", s)
    [] OTHER -> IF Same(vs[1], vs[2]) THEN Equal(Tail(vs), s) ELSE Ok(Boolean(FALSE), s)

Primitive(op, args, self, s) ==
  CASE op \in {"+", "*", "-", "/", "mod"} -> Compute(op, args, s)
    [] op \in {"<", ">", "<=", ">="} -> Ok(Boolean(Ordered(op, args[1].value, args[2].value)), s)
    [] op = "=" -> Equal(args, s)
    [] op = "not" -> Ok(Boolean(~Truthy(args[1])), s)
    [] op \in {"cat", "print"} -> Ok(Tree("string", FlattenSeq([i \in DOMAIN args |-> ShowText(args[i], s)]), <<>>), s)
    [] op \in {"Object.->string", "Object.inspect"} -> Ok(Tree("string", Show(self, s), <<>>), s)
    [] op = "exit" -> Out(IF args # <<>> /\ args[1].type # "number" THEN "failed" ELSE "exit", s)
    [] op = "bind" ->
         LET v == IF Len(args) > 1 THEN args[2] ELSE NilTree
             t == Let(args[1].value, v, s) IN
         IF Missing(v) THEN Out("null", s) ELSE Ok(Lookup(args[1].value, t), t)
    [] op = "bound?" -> Ok(Boolean(~Missing(Lookup(args[1].value, s))), s)
    [] op = "set" ->
         Ok(IF Place(args[1].value, s) = 0 THEN Undefined ELSE args[2], Assign(args[1].value, args[2], s))
    [] op = "define" ->
         LET t == IF Missing(Lookup(args[1].value, s)) THEN Let(args[1].value, NilTree, s) ELSE s IN
         Ok(args[2], Assign(args[1].value, args[2], t))
    [] op = "freeze" -> Ok(args[1], s)
    [] op \in {"list", "@list"} -> Ok(Tree("list", op = "@list", args), s)
    [] op = "Object.get" -> Ok(Property(args[1].value, self, s), s)
    [] op = "Object.set" ->
         LET v == IF args[2].type = "token" THEN Lookup(args[2].value, s) ELSE args[2] IN
         Ok(v, [s EXCEPT !.objects[self.items[1]].props = (args[1].value :> v) @@ @])
    [] op = "Object.create" -> Creates(args, <<>>, s)
    [] op = "Object.clone" ->
         IF args # <<>> /\ Missing(args[1]) THEN Out("null", s)
         ELSE Made(IF args = <<>> THEN <<>> ELSE Props(args[1], s),
                        Raw(self, s), s)
    [] op = "Object.patch" -> Ok(self, [s EXCEPT !.objects[self.items[1]].props = Props(args[1], s) @@ @])
    [] op = "wrap" -> Wraps(Pairs(args, s), <<>>, s)
    [] op = "unwrap" -> Unwraps(args[1], Pairs(Tail(args), s), s)

-----------------------------------------------------------------------------
(* Evaluation. *)

RECURSIVE Means(_, _), MeansAll(_, _, _), Values(_, _, _, _), Apply(_, _, _, _), Connected(_, _, _, _), Looping(_, _, _)

\* The last of several values.
MeansAll(ts, v, s) ==
  IF ts = <<>> THEN Ok(v, s)
  ELSE LET r == Means(Head(ts), s) IN IF r.out = "ok" THEN MeansAll(Tail(ts), r.v, r.s) ELSE r

\* The arguments for f; r.v is a sequence.
Values(f, ts, vs, s) ==
  IF ts = <<>> THEN Ok(vs, s)
  ELSE IF Missing(Head(ts)) THEN Out("null", s)
  ELSE IF Head(ts).type \in {"token", "list"} /\ f.value \notin Unevaluating
  THEN LET r == Means(Head(ts), s) IN IF r.out = "ok" THEN Values(f, Tail(ts), Append(vs, r.v), r.s) ELSE r
  ELSE Values(f, Tail(ts), Append(vs, Head(ts)), s)

Invoke(f, ts, self, s) ==
  IF f.type # "function" THEN Out("failed", s)
  ELSE LET r == Values(f, ts, <<>>, s) IN IF r.out = "ok" THEN Apply(f, r.v, self, r.s) ELSE r

Means(t, s) ==
  CASE Missing(t) -> Out("null", s)
    [] t.type = "token" -> Ok(Lookup(t.value, s), s)
    [] t.type = "list" /\ t.items = <<>> -> Ok(NilTree, s)
    [] t.type = "list" /\ t.items # <<>> ->
         LET r == Means(t.items[1], s) IN
         IF r.out # "ok" THEN r
         ELSE IF ~t.value THEN Invoke(r.v, Tail(t.items), NilTree, r.s)
         ELSE IF Missing(r.v) THEN Out("failed", r.s)
         ELSE IF Len(t.items) = 1 THEN Out("null", s)
         ELSE Invoke(Property(t.items[2].value, r.v, r.s), SubSeq(t.items, 3, Len(t.items)), r.v, r.s)
    [] OTHER -> Ok(t, s)

Connected(op, ts, v, s) ==
  IF ts = <<>> THEN Ok(v, s)
  ELSE LET r == Means(Head(ts), s) IN
       IF r.out # "ok" \/ Truthy(r.v) = (op = "or") THEN r ELSE Connected(op, Tail(ts), r.v, r.s)

Looping(args, v, s) ==
  LET c == Apply(args[1], <<>>, NilTree, s) IN
  IF c.out # "ok" THEN c ELSE IF ~Truthy(c.v) THEN Ok(v, c.s)
  ELSE LET r == Apply(args[2], <<>>, NilTree, c.s) IN
       IF r.out # "ok" THEN r ELSE Looping(args, r.v, r.s)

Apply(f, args, self, s) ==
  CASE f.value \in {"function", "macro"} ->
         LET ps == f.items[1].items
             vs == [i \in DOMAIN ps |-> IF i <= Len(args) THEN args[i] ELSE NilTree]
             s1 == [s EXCEPT !.env = << <<>>, f.env>> \o @]
             s2 == LetAll(<<"this", "self", "arguments">>, <<f, self, List(args)>>, s1)
             r == MeansAll(SubSeq(f.items, 2, Len(f.items)), NilTree, LetAll([i \in DOMAIN ps |-> ps[i].value], vs, s2))
             back == [r.s EXCEPT !.env = s.env] IN
         IF \E i \in DOMAIN vs : Missing(vs[i]) THEN Out("null", s)
         ELSE IF r.out # "ok" THEN r
         ELSE IF f.value = "function" THEN Ok(r.v, back)
         ELSE IF r.v.type # "list" THEN Out("failed", back) ELSE MeansAll(r.v.items, NilTree, back)
    [] Misses(f.value, args) # {} ->
         LET k == CHOOSE i \in Misses(f.value, args) : \A j \in Misses(f.value, args) : i <= j IN
         Out(IF k > Len(args) \/ Demands(f.value)[k] = "defined" THEN "null" ELSE "failed", s)
    [] f.value = "evaluate" -> Means(args[1], s)
    [] f.value \in {"^", "#"} ->
         LET r == Means(args[1], s) IN
         IF r.out # "ok" THEN r
         ELSE IF r.v.type # "list" THEN Out("failed", r.s)
         ELSE Ok(Closure(IF f.value = "#" THEN "macro" ELSE "function", r.v, Tail(args), Visible(r.s)), r.s)
    [] f.value \in {"and", "or"} -> Connected(f.value, args, NilTree, s)
    [] f.value = "?" ->
         LET r == Means(args[1], s)
             k == IF Len(args) > 2 /\ ~Truthy(r.v) THEN 3 ELSE 2 IN
         IF r.out # "ok" \/ (Truthy(r.v) /\ Len(args) <= 2) THEN r
         ELSE IF k > Len(args) THEN Out("null", r.s) ELSE Means(args[k], r.s)
    [] f.value = "loop" -> Looping(args, NilTree, s)
    [] OTHER -> Primitive(f.value, args, self, s)

Meaning(trees) == MeansAll(trees, NilTree, Empty)

-----------------------------------------------------------------------------
(* When a program has ended, the machine, with its bytes, frames and       *)
(* reference counts, has done what the program means: it ended the same    *)
(* way, and its answer is the same value (runtime.c:201-214, sol.c:150,    *)
(* solfunc.c:28, solop.c).                                                 *)
Computes ==
  at.do = "end" /\ source.tree # <<>> =>
    LET r == Meaning(source.tree) IN
    /\ at.how = (IF r.out = "ok" THEN "done" ELSE r.out)
    /\ at.how = "done" => Inspect(mem, Top.ans) = Show(r.v, r.s)
=============================================================================
