----------------------------- MODULE MCSolEval ------------------------------
(***************************************************************************)
(* Programs for SolEval: every operator with arguments of all kinds, too   *)
(* few and too many, in the shortest encoding, and longer programs in all  *)
(* four.                                                                   *)
(***************************************************************************)
EXTENDS SolMeaning

\* The characters of a name: most names have one, some are long.
NameList ==
  <<"x", "y", "f", "g", "k", "o", "undefined", "nil", "this", "arguments", "s", "self",
    "get", "set", "clone", "patch", "create", "->string", "inspect", "$evaluate-tokens">>
  \o SelectSeq(BuiltinNames, LAMBDA n : n # "set")
Long(n) == CASE n = "->string" -> 14 [] n = "arguments" -> 20 [] n = "undefined" -> 9 [] OTHER -> 0
MCSpelling ==
  [n \in Range(NameList) |->
     [i \in 1 .. Long(n) |-> 255] \o <<CHOOSE i \in DOMAIN NameList : NameList[i] = n>>]

X == Token("x")
F == Token("f")
O == Token("o")
K == Quote(Token("k"))
N(v) == Number(v)
Undef == Token("undefined")
No == Boolean(FALSE)
Let1(n, v) == Op("bind", <<Quote(n), v>>)
Fun(ps, body) == Op("^", <<Quote(List(ps))>> \o body)
Mac(ps, body) == Op("#", <<Quote(List(ps))>> \o body)
On(o, m, args) == Method(<<o, Token(m)>> \o args)
New1(pairs) == On(Token("Object"), "create", pairs)

UpTo(n, S) == UNION {[1 .. k -> S] : k \in 0 .. n}
Uses(ops, from, n, S) == {<<Op(op, args)>> : op \in ops, args \in UpTo(n, S) \ UpTo(from - 1, S)}
After(first, programs) == {first \o p : p \in programs}

\* Arguments that no operator changes.
Kinds == {N(1), No, String("s"), Undef, Token("nil")}
Nouns == {Quote(X), Quote(Token("y")), Undef, N(1)}
Variables ==
  {<<Op(op, <<n>> \o rest)>> : op \in {"bind", "bound?", "set", "define"}, n \in Nouns,
     rest \in {<<>>, <<N(2)>>, <<Undef>>, <<Quote(Undef)>>, <<Quote(Token("k"))>>}}
  \ {<<Op("bind", <<Quote(Token("k")), K>>)>>}

Operators ==
  Uses({"+", "*"}, 0, 2, {N(1), N(3), Undef, String("s")})
  \cup Uses({"-", "/", "mod"}, 0, 2, {N(1), Undef, String("s")})
  \cup Uses({"<", ">=", "="}, 0, 2, {N(1), N(2), Undef})
  \cup Uses({">", "<="}, 2, 2, {N(1), N(2), String("s")})
  \cup Uses({"="}, 1, 2, Kinds \cup {K})
  \cup Uses({"not", "evaluate", "freeze", "print", "exit", "loop", "unwrap", "wrap", "^", "#"}, 0, 1, Kinds)
  \cup Uses({"and", "or"}, 0, 2, {N(1), No, Token("nil"), Undef})
  \cup Uses({"?"}, 0, 3, {N(1), No, Undef})
  \cup Uses({"cat", "list", "@list"}, 2, 2, {String("s"), Undef, Op("list", <<K>>)})
  \cup Uses({"bind", "bound?", "set", "define", "undefined", "x", "nil"}, 0, 0, {})
  \cup After(<<Let1(X, N(1))>>, Variables)

\* @[o m args] for an object o of two properties.
Object2 == Let1(O, New1(<<K, N(1), Quote(X), K>>))
Methods2 ==
  {<<On(O, m, args)>> : m \in {"get", "set", "x", "clone", "->string"},
     args \in {<<>>, <<K>>, <<Undef>>, <<K, N(2)>>, <<K, Undef>>, <<Quote(X), Quote(Token("y"))>>}}
  \cup {<<Method(<<O>>)>>, <<Method(<<Undef, Token("get")>>)>>, <<On(N(1), "get", <<K>>)>>,
        <<On(Token("nil"), "inspect", <<>>)>>, <<Op("cat", <<O, O>>)>>, <<Op("=", <<O, O>>)>>}

Keys == {O, Quote(List(<<X, Token("k")>>)), Quote(List(<<N(1)>>)), Undef}
Copies ==
  {<<Op("wrap", args)>> : args \in UpTo(2, Keys)}
  \cup {<<Op("unwrap", args), X>> : args \in {<<O, k>> : k \in Keys} \cup {<<Undef, k>> : k \in Keys}}

\* The prototype of a clone, and patches.
Child == <<Let1(Token("g"), On(Token("Object"), "clone", <<O>>))>>
Children ==
  {<<On(Token("g"), "patch", args)>> : args \in {<<>>, <<O>>, <<Undef>>, <<N(1)>>, <<New1(<<K, N(3)>>)>>}}
  \cup {<<On(Token("g"), "clone", args)>> : args \in {<<>>, <<Undef>>, <<O>>, <<N(1)>>}}
  \cup {<<On(Token("g"), "get", <<K>>)>>,
        <<On(Token("g"), "patch", <<New1(<<K, N(3)>>)>>), Op("cat", <<Token("g"), O>>)>>}
Creations == {<<New1(args)>> : args \in {<<>>, <<K>>, <<K, N(1)>>, <<N(1), K>>, <<K, Undef>>, <<K, N(1), Undef>>, <<K, N(1), K>>, <<K, N(1), K, N(2)>>}}

Inc(n) == Op("set", <<Quote(n), Op("+", <<n, N(1)>>)>>)
Longer == {
  \* two closures that share a variable, after its scope has gone
  <<Let1(F, Fun(<<X>>, <<Op("list", <<Fun(<<>>, <<Inc(X)>>), Fun(<<>>, <<X>>)>>)>>)),
    Let1(O, Op("f", <<N(1)>>)),
    Let1(F, Token("nil")),
    Op("wrap", <<Quote(List(<<O>>))>>)>>,
  <<Let1(X, N(1)), Let1(F, Fun(<<>>, <<Inc(X)>>)), Op("f", <<>>), Op("f", <<>>), X>>,
  <<Let1(F, Fun(<<X>>, <<Fun(<<Token("y")>>, <<Op("+", <<X, Token("y")>>)>>)>>)),
    List(<<Op("f", <<N(1)>>), N(2)>>)>>,
  <<Let1(F, Fun(<<X>>, <<Fun(<<Token("y")>>, <<Fun(<<>>, <<Op("list", <<X, Token("y"), Token("k")>>)>>)>>)>>)),
    List(<<List(<<Op("f", <<N(1)>>), N(2)>>)>>)>>,
  \* a function that unbinds itself while it runs, and one that no name binds
  <<Let1(F, Fun(<<>>, <<Op("define", <<Quote(F), N(1)>>), F>>)), Op("f", <<>>)>>,
  <<List(<<Fun(<<X>>, <<X>>)>>)>>,
  <<List(<<Fun(<<X>>, <<X>>), Undef>>)>>,
  <<List(<<Fun(<<X>>, <<>>), N(1)>>)>>,
  \* a parameter that is the name of a variable outside
  <<Let1(Token("y"), N(1)), Let1(F, Fun(<<X>>, <<Inc(X)>>)), Op("f", <<Quote(Token("y"))>>), Token("y")>>,
  \* errors in nested calls, in arguments, in a macro's expansion
  <<Let1(F, Fun(<<X>>, <<Op("g", <<X>>)>>)), Op("+", <<N(1), Op("f", <<N(1)>>)>>)>>,
  <<Let1(F, Fun(<<X>>, <<Op("+", <<X, String("s")>>)>>)), Op("f", <<N(1)>>)>>,
  <<Let1(F, Mac(<<X>>, <<Op("list", <<X, Quote(Token("y"))>>)>>)), Let1(Token("y"), N(5)), Op("f", <<N(2)>>)>>,
  <<Let1(F, Mac(<<X>>, <<X>>)), Op("f", <<N(2)>>)>>,
  <<Let1(F, Mac(<<X>>, <<Op("list", <<Op("list", <<X>>)>>)>>)), Op("f", <<N(2)>>)>>,
  <<Let1(F, Mac(<<>>, <<>>)), Op("f", <<>>)>>,
  \* loops, connectives
  <<Let1(X, N(0)), Op("loop", <<Fun(<<>>, <<Op("<", <<X, N(1)>>)>>), Fun(<<>>, <<Inc(X)>>)>>)>>,
  <<Op("loop", <<Fun(<<>>, <<No>>), Token("+")>>)>>,
  <<Op("loop", <<Fun(<<>>, <<N(1)>>), Fun(<<>>, <<Op("x", <<>>)>>)>>)>>,
  <<Op("and", <<Op("list", <<N(1)>>), Op("x", <<>>)>>)>>,
  <<Op("or", <<Op("not", <<N(1)>>), Op("list", <<N(1)>>)>>)>>,
  <<Op("?", <<Op("<", <<N(1), N(2)>>), Op("+", <<N(1), N(2)>>), Op("x", <<>>)>>)>>,
  \* evaluation of what was frozen
  <<Op("evaluate", <<Quote(Quote(Op("+", <<N(1), N(2)>>)))>>)>>,
  <<Op("freeze", <<Op("x", <<N(-7)>>)>>)>>,
  <<Op("evaluate", <<Op("list", <<Token("+"), Undef>>)>>)>>,
  <<Op("evaluate", <<Op("list", <<Undef>>)>>)>>,
  <<Op("list", <<Boolean(TRUE), Method(<<>>), List(<<>>), Fun(<<>>, <<>>)>>)>>,
  \* a method that is a function, with its self
  <<Let1(O, New1(<<K, Fun(<<X>>, <<Method(<<Token("self"), Token("get"), Quote(Token("y"))>>)>>), Quote(Token("y")), N(4)>>)),
    On(O, "k", <<N(1)>>)>>,
  <<Let1(F, Fun(<<>>, <<Let1(X, N(1)), Op("wrap", <<Quote(List(<<X, Token("nil")>>))>>)>>)), Op("f", <<>>)>>,
  \* builtins as variables, entries of "undefined", and a function that is its own parameter
  <<Op("set", <<Quote(Token("print")), N(1)>>), Token("print")>>,
  <<Op("define", <<Quote(Undef), N(2)>>), Op("set", <<Quote(Undef), N(3)>>), Undef>>,
  <<Let1(F, Fun(<<F>>, <<F>>)), Op("f", <<F>>)>>
}

\* What the code does not check: a name that is bound to itself, a parameter of
\* the name of the token that it gets, a function that is replaced while only
\* its own closure refers to it, a parameter and a method name that are no
\* tokens, shared Booleans that are freed, and a prototype that is copied.
Unchecked == {
  <<Let1(Token("k"), K)>>,
  <<Let1(F, Fun(<<Token("k")>>, <<X>>)), Op("f", <<K>>)>>,
  <<Let1(F, N(1)), Op("set", <<Quote(F), Fun(<<>>, <<F>>)>>), Op("set", <<Quote(F), N(2)>>)>>,
  <<Let1(F, Fun(<<N(1)>>, <<X>>)), Op("f", <<N(2)>>)>>,
  <<Let1(F, Fun(<<Undef>>, <<X>>)), Op("f", <<N(2), Undef>>)>>,
  <<Method(<<N(1), N(2)>>)>>,
  <<Let1(O, Op("/", <<N(1), N(0)>>)), Op("+", <<O, N(1)>>), Op("=", <<O, O>>), Op("<", <<O, N(1)>>)>>,
  <<On(Token("Object"), "clone", <<Token("Object")>>)>>,
  <<On(Token("+"), "set", <<Quote(Token("$evaluate-tokens")), No>>), Op("+", <<N(1), Op("+", <<>>)>>)>>,
  <<Let1(O, New1(<<Quote(Token("inspect")), N(1)>>)), Op("cat", <<O>>)>>
}

\* A name that the shortest encoding has no room for.
LongNames == {<<List(<<Fun(<<X>>, <<Let1(Token("y"), X), Token("arguments")>>), N(1), N(2)>>)>>,
               <<Let1(O, New1(<<K, N(-5)>>)), On(O, "->string", <<>>)>>}

\* Bytes that no compiler writes.
Bytes(bytes) == [tree |-> <<>>, bytes |-> bytes]
Invalid ==
  {Bytes(<<83, 79, 76, 66, 73, 79, 0>>), Bytes(Magic \o <<6>>), Bytes(Magic \o <<1, 0, 80>>),
   Bytes(Magic \o <<2, 0>>), Bytes(Magic \o <<4, 96, 0>>), Bytes(<<83>>), Bytes(Magic),
   Bytes(Magic \o <<1>>), Bytes(Magic \o <<1, 0, 64, 0>>), Bytes(Magic \o <<2, 18, 1>>),
   Bytes(Magic \o <<4, 49>>), Bytes(Magic \o <<3, 0>>), Bytes(Magic \o <<5>>)}

MCSources ==
  {Source(t, 1) : t \in Operators \cup After(<<Object2>>, Methods2 \cup Copies)
                        \cup After(<<Object2>> \o Child, Children) \cup Creations}
  \cup {Source(t, 1) : t \in Longer}
  \cup {[Source(t, 1) EXCEPT !.tree = <<>>] : t \in Unchecked}
  \cup {Source(t, f) : t \in LongNames, f \in Forms \ {1}}
  \cup Invalid
=============================================================================
