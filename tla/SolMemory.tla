----------------------------- MODULE SolMemory -----------------------------
(***************************************************************************)
(* The memory of a Sol program, and what the functions of sol.c,           *)
(* soltoken.c, sollist.c and soltypes.c do to it between two calls of Sol  *)
(* code: each is an operator from memories to memories.                    *)
(*                                                                         *)
(* A memory m has m.heap, the objects by address, with their counts;       *)
(* m.bindings, the values of variables; m.scopes, the maps from names to   *)
(* bindings, the global one first; and m.stray, true once a pointer has    *)
(* been followed to freed memory or to none.  SolToken, SolList and SolObj *)
(* have the details of tables, nodes and setters.                          *)
(*                                                                         *)
(* References come as families: functions from places to addresses, such   *)
(* as sequences.                                                           *)
(*                                                                         *)
(* X_Y is X with the mistake Y: no specification uses it, and a property   *)
(* must fail when it stands for X.                                         *)
(***************************************************************************)
EXTENDS Integers, SequencesExt

\* A table with n set to v.
Put(table, n, v) == [k \in DOMAIN table \cup {n} |-> IF k = n THEN v ELSE table[k]]

\* What sol_runtime_init creates; the classes other than Object are left out.
GlobalNames ==
  <<"Object", "+", "-", "*", "/", "mod", "exit", "bind", "bound?", "set", "define", "evaluate", "freeze",
    "list", "@list", "^", "#", "wrap", "unwrap", "print", "not", "and", "or",
    "=", "<", ">", "<=", ">=", "?", "loop", "cat">>
MethodNames ==
  <<"Object.get", "Object.set", "Object.clone", "Object.patch", "Object.->string", "Object.inspect">>
BuiltinNames == GlobalNames \o MethodNames \o <<"Object.create", "RawObject">>

\* The addresses of nil, then of the builtins, then of the Booleans.
NULL  == 0
Nil   == 1
Builtin == [n \in Range(BuiltinNames) |-> 1 + CHOOSE i \in DOMAIN BuiltinNames : BuiltinNames[i] = n]
Object == Builtin["Object"]
RawObject == Builtin["RawObject"]
True  == Len(BuiltinNames) + 2
False == Len(BuiltinNames) + 3
Bool(b) == IF b THEN True ELSE False

\* Operators that get their arguments unevaluated.
Unevaluating == {"freeze", "^", "#", "and", "or", "?"}
Flags == {"$evaluate-tokens", "$evaluate-lists"}

RawMethods == {"get", "set", "->string", "inspect"}
Methods ==
  Put([get |-> Builtin["Object.get"], set |-> Builtin["Object.set"], inspect |-> Builtin["Object.inspect"],
       clone |-> Builtin["Object.clone"], patch |-> Builtin["Object.patch"]],
      "->string", Builtin["Object.->string"])

\* References of the prototype tables of Object, RawObject and Function, and of C variables.
Kept == [a \in 1 .. False |->
           CASE a \in {True} \cup {Methods[n] : n \in RawMethods} -> 2
             [] a \in {Object, RawObject, Methods["clone"], Methods["patch"]} -> 1
             [] OTHER -> 0]

\* A new object, once the caller has retained it.
Obj(type, value, items) ==
  [type |-> type, value |-> value, items |-> items, props |-> <<>>, closure |-> <<>>,
   parent |-> NULL, count |-> 1, lost |-> 0]
Gone == [Obj("gone", 0, <<>>) EXCEPT !.count = 0]

\* The functions of operators have their names as values.
BuiltinObject(n) ==
  [Obj(IF n \in {"Object", "RawObject"} THEN "object" ELSE "function", n, <<>>) EXCEPT
     !.props = CASE n = "Object" -> [create |-> Builtin["Object.create"]]
                 [] n \in Unevaluating -> [flag \in Flags |-> False]
                 [] OTHER -> <<>>,
     !.count = IF n \in Range(GlobalNames) \cup {"Object.create"} THEN Kept[Builtin[n]] + 1 ELSE Kept[Builtin[n]]]

Start ==
  [heap |-> <<Obj("list", FALSE, <<>>)>> \o [i \in DOMAIN BuiltinNames |-> BuiltinObject(BuiltinNames[i])]
              \o <<[Obj("boolean", TRUE, <<>>) EXCEPT !.count = Kept[True]],
                   [Obj("boolean", FALSE, <<>>) EXCEPT !.count = 2 * Cardinality(Unevaluating)]>>,
   bindings |-> [a \in 1 .. False |-> a],
   scopes |-> <<Put([n \in Range(GlobalNames) |-> Builtin[n]], "nil", Nil)>>,
   stray |-> FALSE]

Type(m, a) == IF a = NULL THEN "undefined" ELSE m.heap[a].type
Items(m, a) == IF a = NULL THEN <<>> ELSE m.heap[a].items

-----------------------------------------------------------------------------
(* References. *)

Occurrences(refs, a) == Cardinality({p \in DOMAIN refs : refs[p] = a})

\* The places in an object that own a reference, and what is there.
Slots(o) ==
  ({"item"} \X DOMAIN o.items) \cup ({"prop"} \X DOMAIN o.props) \cup ({"closure"} \X DOMAIN o.closure)
    \cup {slot \in {<<"parent", 0>>} : o.parent # NULL}
At(m, o, slot) ==
  CASE slot[1] = "item" -> o.items[slot[2]]
    [] slot[1] = "prop" -> o.props[slot[2]]
    [] slot[1] = "closure" -> m.bindings[o.closure[slot[2]]]
    [] slot[1] = "parent" -> o.parent
Owned(m, o) == [slot \in Slots(o) |-> At(m, o, slot)]

\* All references that the objects in D own.
OwnedBy(m, D) ==
  [p \in UNION {{a} \X Slots(m.heap[a]) : a \in D} |-> At(m, m.heap[p[1]], p[2])]

\* The count of nil is left out: it is never freed.
RetainAll(m, refs) ==
  [m EXCEPT !.heap = [a \in DOMAIN m.heap |->
     IF a = Nil THEN m.heap[a] ELSE [m.heap[a] EXCEPT !.count = @ + Occurrences(refs, a)]]]
Retain(m, a) == RetainAll(m, <<a>>)

\* C locals that own references go away.
LoseAll(m, refs) ==
  [m EXCEPT !.heap = [a \in DOMAIN m.heap |->
     IF a = Nil THEN m.heap[a] ELSE [m.heap[a] EXCEPT !.lost = @ + Occurrences(refs, a)]]]
Lose(m, a) == LoseAll(m, <<a>>)

\* The references that go away with refs when the objects in D are freed.
Drops(m, refs, D, a) == Occurrences(refs, a) + Occurrences(OwnedBy(m, D), a)
Freed(m, refs, D) ==
  {a \in DOMAIN m.heap \ {Nil} : Drops(m, refs, D, a) > 0 /\ m.heap[a].count <= Drops(m, refs, D, a)}

\* What is freed with the last of its references.  The order does not matter,
\* but for an object that owns itself: see Update and SolToken.
Dead(m, refs) ==
  LET dies[D \in SUBSET DOMAIN m.heap] == IF Freed(m, refs, D) = D THEN D ELSE dies[Freed(m, refs, D)] IN
  dies[{}]

Without(m, refs, D) ==
  [m EXCEPT !.heap = [a \in DOMAIN m.heap |->
     IF a = Nil THEN m.heap[a] ELSE IF a \in D THEN Gone
     ELSE [m.heap[a] EXCEPT !.count = @ - Drops(m, refs, D, a)]]]
ReleaseAll(m, refs) == Without(m, refs, Dead(m, refs))
Release(m, a) == ReleaseAll(m, <<a>>)

\* A new object at address Fresh(m), retained once.
Fresh(m) == Len(m.heap) + 1
New(m, o) == RetainAll([m EXCEPT !.heap = Append(@, o)], Owned(m, o))

-----------------------------------------------------------------------------
(* Tokens. *)

\* The binding of the most local entry for n.  "undefined" has entries, but no value.
Holders(m, n) == {i \in DOMAIN m.scopes : n \in DOMAIN m.scopes[i]}
Found(m, n) ==
  IF Holders(m, n) = {} THEN NULL
  ELSE m.scopes[CHOOSE i \in Holders(m, n) : \A j \in Holders(m, n) : j <= i][n]
Entry(m, n) == IF n = "undefined" THEN NULL ELSE Found(m, n)
Resolve(m, n) == IF Entry(m, n) = NULL THEN NULL ELSE m.bindings[Entry(m, n)]

\* Between the scopes of functions lie their closures, which the functions own.
OwnScopes(m) == {i \in DOMAIN m.scopes : i % 2 = 1}
ScopePlaces(m) == UNION {{i} \X DOMAIN m.scopes[i] : i \in OwnScopes(m)}
ScopeRefs(m) == [p \in ScopePlaces(m) |-> m.bindings[m.scopes[p[1]][p[2]]]]

\* The retain_count of a binding: its entries in scopes and closures.
ScopeEntries(m, b) == {p \in ScopePlaces(m) : m.scopes[p[1]][p[2]] = b}
ClosureEntries(m, b) ==
  {p \in UNION {{a} \X DOMAIN m.heap[a].closure : a \in DOMAIN m.heap} : m.heap[p[1]].closure[p[2]] = b}
Entries(m, b) == Cardinality(ScopeEntries(m, b)) + Cardinality(ClosureEntries(m, b))

\* The binding that n has in the local scope is dropped, or set.
Local(m) == m.scopes[Len(m.scopes)]
Unbind(m, n) == IF n \in DOMAIN Local(m) THEN Release(m, m.bindings[Local(m)[n]]) ELSE m
Rebind(m, n, b) == [m EXCEPT !.scopes[Len(m.scopes)] = Put(Local(m), n, b)]
BindFresh(m, n, a) == Rebind([m EXCEPT !.bindings = Append(@, a)], n, Len(m.bindings) + 1)

\* The entry may have been the last of the binding that it is given again.
LastEntry(m, n, b) == n \in DOMAIN Local(m) /\ Local(m)[n] = b /\ Entries(m, b) = 1
BindAlias(m, n, b) == [Rebind(Retain(m, m.bindings[b]), n, b) EXCEPT !.stray = @ \/ LastEntry(m, n, b)]

\* A value that is a token stands for the variable of that name, if there is one.
Named(m, a) == IF Type(m, a) = "token" THEN m.heap[a].value ELSE "undefined"
OwnName(m, n, a) == Type(m, a) = "token" /\ n = Named(m, a) /\ n # "undefined"
Register(m, n, a) ==
  LET to == Entry(m, Named(m, a)) IN
  CASE OwnName(m, n, a) /\ n \notin DOMAIN Local(m) -> [m EXCEPT !.stray = TRUE]  \* finds its own new entry
    [] ~(OwnName(m, n, a) /\ n \notin DOMAIN Local(m)) /\ to # NULL ->
         Release(BindAlias(Unbind(Retain(m, a), n), n, to), a)
    [] Type(m, a) = "token" /\ Named(m, a) = "undefined" -> BindFresh(Unbind(m, n), n, NULL)
    [] OTHER -> BindFresh(Unbind(Retain(m, a), n), n, a)

RegisterAll(m, ns, as) ==
  LET after[i \in 0 .. Len(ns)] == IF i = 0 THEN m ELSE Register(after[i - 1], ns[i], as[i]) IN
  after[Len(ns)]

\* What sol_token_register returns.
Registered(m, n) == m.bindings[Local(m)[n]]

\* One reference for each entry of the binding.  The old value is still in the
\* binding when it is freed: a closure with the binding would free it again.
Replace(m, b, a, n) ==
  LET retained == RetainAll(m, [i \in 1 .. n |-> a])
      old == [i \in 1 .. n |-> m.bindings[b]] IN
  [ReleaseAll(retained, old) EXCEPT
     !.bindings[b] = a,
     !.stray = @ \/ \E d \in Dead(retained, old) : b \in Range(m.heap[d].closure)]
Update(m, n, a) == IF Found(m, n) = NULL THEN m ELSE Replace(m, Found(m, n), a, Entries(m, Found(m, n)))

PushScope(m, map) == [m EXCEPT !.scopes = Append(@, map)]
PopClosure(m) == [m EXCEPT !.scopes = Front(@)]
PopScope(m) == ReleaseAll(PopClosure(m), [n \in DOMAIN Local(m) |-> m.bindings[Local(m)[n]]])

Snapshot_Local(m) == Local(m)
Snapshot(m) == [n \in UNION {DOMAIN m.scopes[i] : i \in DOMAIN m.scopes} |-> Found(m, n)]

-----------------------------------------------------------------------------
(* Lists, properties and Booleans. *)

NewList(m, mode, items) == New(m, Obj("list", mode, items))
ListAdd(m, l, a) == Retain([m EXCEPT !.heap[l].items = Append(m.heap[l].items, a)], a)

\* The last of the parents, but for the classes of values.
Root(m, a) ==
  LET root[x \in Int] == IF m.heap[x].parent = NULL THEN x ELSE root[m.heap[x].parent] IN
  root[a]

\* Properties are an object's own, methods and flags those of its prototypes.
GetProp(m, a, n) ==
  CASE n \in DOMAIN m.heap[a].props -> m.heap[a].props[n]
    [] n \notin DOMAIN m.heap[a].props /\ n \in Flags /\ Type(m, Root(m, a)) = "function" -> True
    [] n \notin DOMAIN m.heap[a].props /\ n \in DOMAIN Methods
         /\ (n \in RawMethods \/ Root(m, a) # RawObject) -> Methods[n]
    [] OTHER -> NULL

DropProp(m, a, n) == IF n \in DOMAIN m.heap[a].props THEN Release(m, m.heap[a].props[n]) ELSE m
SetProp(m, a, n, v) ==
  LET dropped == DropProp(Retain(m, v), a, n) IN
  [dropped EXCEPT !.heap[a].props = Put(dropped.heap[a].props, n, v)]
SetProps(m, a, ns, vs) ==
  LET after[i \in 0 .. Len(ns)] == IF i = 0 THEN m ELSE SetProp(after[i - 1], a, ns[i], vs[i]) IN
  after[Len(ns)]

\* sol_bool_value_of.
ValueOf(m, a) ==
  CASE Type(m, a) = "undefined" -> False
    [] Type(m, a) = "boolean" -> a
    [] Type(m, a) = "list" -> Bool(Items(m, a) # <<>>)
    [] OTHER -> True
Truth(m, a) == ValueOf(m, a) = True

\* The Booleans are shared, and freed with the last reference.
Touch(m, a) == [m EXCEPT !.stray = @ \/ m.heap[a].count = 0]
Valued(m, a) == Touch(m, ValueOf(m, a))

Share(m, b) == Retain(Touch(m, Bool(b)), Bool(b))

\* The same, when the result is not given back.
ValueLost(m, a) == Lose(Retain(Valued(m, a), ValueOf(m, a)), ValueOf(m, a))

Equals(m, a, b) ==
  /\ Type(m, a) = Type(m, b)
  /\ IF Type(m, a) \in {"number", "string", "token"} THEN m.heap[a].value = m.heap[b].value
     ELSE a = b

-----------------------------------------------------------------------------
(* Text, as a sequence of pieces.  Layout is left out. *)

Inspect(m, a) ==
  LET text[x \in Int] ==
        LET o == m.heap[x]
            all(as) == FlattenSeq([i \in DOMAIN as |-> text[as[i]]]) IN
        CASE Type(m, x) = "undefined" -> <<"undefined">>
          [] Type(m, x) = "function" -> <<"Function">>
          [] Type(m, x) = "number" -> <<ToString(o.value)>>
          [] Type(m, x) = "string" -> <<"'">> \o o.value \o <<"'">>
          [] Type(m, x) = "boolean" -> <<IF o.value THEN "true" ELSE "false">>
          [] Type(m, x) = "token" -> <<o.value>>
          [] Type(m, x) = "list" ->
               IF o.items = <<>> /\ ~o.value THEN <<"nil">>
               ELSE <<IF o.value THEN "@[" ELSE "[">> \o all(o.items) \o <<"]">>
          [] Type(m, x) = "object" ->
               LET names == SetToSeq(DOMAIN o.props) IN
               <<IF o.parent = RawObject THEN "{" ELSE "@{">>
                 \o names \o all([i \in DOMAIN names |-> o.props[names[i]]]) \o <<"}">> IN
  text[a]

Text(m, a) == IF Type(m, a) = "string" THEN m.heap[a].value ELSE Inspect(m, a)
=============================================================================
