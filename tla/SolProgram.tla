----------------------------- MODULE SolProgram -----------------------------
(***************************************************************************)
(* Programs as trees, and the bytecode that a compiler writes for them.    *)
(***************************************************************************)
EXTENDS SolDecode

Tree(type, value, items) == [type |-> type, value |-> value, items |-> items]
Token(n) == Tree("token", n, <<>>)
Number(v) == Tree("number", v, <<>>)
String(n) == Tree("string", <<n>>, <<>>)
Boolean(b) == Tree("boolean", b, <<>>)
List(items) == Tree("list", FALSE, items)
Method(items) == Tree("list", TRUE, items)

\* [f a b], and :x, which the compiler writes as [freeze x].
Op(n, items) == List(<<Token(n)>> \o items)
Quote(tree) == Op("freeze", <<tree>>)

WriteText(kind, n, form) == <<kind>> \o WriteLength(Len(Spelling[n]), form) \o Spelling[n]

RECURSIVE Write(_, _), WriteAll(_, _)
Write(tree, form) ==
  CASE tree.type = "list" ->
         <<1, IF tree.value THEN 1 ELSE 0>> \o WriteLength(Len(tree.items), form)
           \o WriteAll(tree.items, form)
    [] tree.type = "token" -> WriteText(2, tree.value, form)
    [] tree.type = "number" -> <<3>> \o WriteNumber(tree.value)
    [] tree.type = "string" -> WriteText(4, tree.value[1], form)
    [] tree.type = "boolean" -> <<5, IF tree.value THEN 1 ELSE 0>>

WriteAll(trees, form) ==
  IF trees = <<>> THEN <<>> ELSE Write(Head(trees), form) \o WriteAll(Tail(trees), form)

\* A program: the magic number, its objects, and the end.
Source(trees, form) ==
  [tree |-> trees,
   bytes |-> <<83, 79, 76, 66, 73, 78>> \o WriteAll(trees, form) \o <<0>>]
=============================================================================
