------------------------------ MODULE SolToken ------------------------------
(***************************************************************************)
(* Scopes, variables and closures (soltoken.c), with the reference counts  *)
(* that keep their values alive (sol_obj_retain and sol_obj_release in     *)
(* sol.c).                                                                 *)
(*                                                                         *)
(* A token map is a hash table from identifiers to bindings.  The token    *)
(* pool is the stack of the maps in scope.  Entries of several maps may    *)
(* share one binding: a function's closure is a snapshot of the visible    *)
(* entries, and registering a token object makes an alias.  A binding      *)
(* counts the entries that use it, and every entry owns one reference to   *)
(* the binding's value.                                                    *)
(*                                                                         *)
(* The client is the evaluator: it owns references in C locals (held) and  *)
(* calls the operations one at a time, in any order.  sol_obj_release may  *)
(* deallocate a function, which releases the values in its closure, and so *)
(* on: that recursion is the stack dealloc, and the operation that started *)
(* it (op) goes on when the stack is empty.                                *)
(*                                                                         *)
(* X_Y is X with the mistake Y: no specification uses it, and a property   *)
(* must fail when it stands for X.                                         *)
(***************************************************************************)
EXTENDS Integers, Sequences, FiniteSets

CONSTANTS
  Idents,     \* identifiers
  Undefined,  \* the identifier "undefined", which never resolves
  Data,       \* addresses of objects that own no other object
  Tokens,     \* addresses of token objects
  IdentOf,    \* the identifier of each token object
  Funcs,      \* addresses of functions; each is also the address of its closure map
  Scopes,     \* addresses of the maps made by sol_token_pool_push
  Bindings,   \* addresses of bindings
  Nil,        \* the global nil, which sol_obj_release never touches
  NULL,       \* no object, no entry, no binding
  MaxHeld     \* bound: references to one object taken by lookups

Objects == Data \cup Tokens \cup Funcs
Values  == Objects \cup {Nil, NULL}
Maps    == Scopes \cup Funcs
Slots   == Maps \X Idents

ASSUME IdentsAssumption == IsFiniteSet(Idents) /\ Undefined \in Idents
ASSUME MapsAssumption == IsFiniteSet(Scopes) /\ IsFiniteSet(Funcs) /\ Scopes \cap Funcs = {}
ASSUME ObjectsAssumption ==
  /\ Data \cap Tokens = {} /\ Data \cap Funcs = {} /\ Tokens \cap Funcs = {}
  /\ IdentOf \in [Tokens -> Idents]
  /\ Nil \notin Objects /\ Nil # NULL
  /\ Scopes \cap Objects = {}
ASSUME NullAssumption == NULL \notin Objects \cup Bindings \cup Idents \cup Scopes
ASSUME MaxHeldAssumption == MaxHeld \in Nat \ {0}

VARIABLES
  pool,     \* local_token_pool: the maps in scope, the most local first
  entry,    \* entry[m][n]: the binding of identifier n in map m, or NULL
  value,    \* value[b]: what binding b is bound to
  retain,   \* retain[b]: retain_count of binding b; 0 when the address is free
  count,    \* count[o]: retain_count of object o; 0 when the address is free
  held,     \* held[o]: references to o owned by the evaluator's C locals
  op,       \* the operation in progress
  dealloc,  \* calls of sol_obj_release that are destroying a function, innermost first
  fault     \* why the program died, or "none"

vars == <<pool, entry, value, retain, count, held, op, dealloc, fault>>

Idle == [kind |-> "idle"]
PopOf(s, b) == [kind |-> "pop", scope |-> s, binding |-> b]
Frame(f, n) == [func |-> f, ident |-> n]
EmptyMap == [n \in Idents |-> NULL]

-----------------------------------------------------------------------------
(* Lookup through the token pool. *)

Hits(n) == {i \in DOMAIN pool : entry[pool[i]][n] # NULL}

FirstHit_Last(n) == {i \in Hits(n) : \A j \in Hits(n) : i >= j}

FirstHit(n) == {i \in Hits(n) : \A j \in Hits(n) : i <= j}

\* The binding of the most local entry for n: the walk of sol_token_update.
Lookup(n) ==
  IF FirstHit(n) = {} THEN NULL ELSE entry[pool[CHOOSE i \in FirstHit(n) : TRUE]][n]

\* sol_token_resolve_entry, which refuses the name "undefined".
Resolve(n) == IF n = Undefined THEN NULL ELSE Lookup(n)

-----------------------------------------------------------------------------
(* sol_obj_retain and sol_obj_release, k times on value v with counts c.   *)
(* Only a function owns references (its closure), so only a function whose *)
(* count reaches zero opens a call that stays on the C stack; any other    *)
(* object is freed at once, which is what a count of zero means.  Neither  *)
(* does anything to NULL.  The count of nil is never read, so it is not    *)
(* kept.                                                                   *)

Retain_Once(c, v, k) == IF v \in Objects THEN [c EXCEPT ![v] = @ + 1] ELSE c

Retain(c, v, k) == IF v \in Objects THEN [c EXCEPT ![v] = @ + k] ELSE c

Decrease(c, v, k) == IF v \in Objects THEN [c EXCEPT ![v] = @ - k] ELSE c

Opened_Late(c, v, k, stack) ==
  IF v \in Funcs /\ c[v] < k THEN <<Frame(v, NULL)>> \o stack ELSE stack

Opened(c, v, k, stack) ==
  IF v \in Funcs /\ c[v] <= k THEN <<Frame(v, NULL)>> \o stack ELSE stack

Release(c, v, k, stack) ==
  /\ count' = Decrease(c, v, k)
  /\ dealloc' = Opened(c, v, k, stack)

Dying(v) == \E i \in DOMAIN dealloc : dealloc[i].func = v

-----------------------------------------------------------------------------
(* The client. *)

Ready == fault = "none" /\ op = Idle /\ dealloc = <<>>

\* A value the evaluator can pass: an object that it owns a reference to, or a
\* function that it is executing ("this").
Argument(v) == v \in Values /\ (v \in Objects => held[v] > 0 \/ \E i \in DOMAIN pool : pool[i] = v)

\* sol_token_create, sol_string_create...: a new object, retained by the caller.
ObjCreate(o) ==
  /\ Ready /\ count[o] = 0
  /\ count' = [count EXCEPT ![o] = 1]
  /\ held' = [held EXCEPT ![o] = 1]
  /\ UNCHANGED <<pool, entry, value, retain, op, dealloc, fault>>

\* The identifiers whose visible entry uses binding b.
Sharing(b) == {n \in Idents : Lookup(n) = b}

\* The visible entries through which object o can be found.
Captured_Resolved(o) == {n \in Idents : Resolve(n) # NULL /\ value[Resolve(n)] = o}
Captured(o) == {n \in Idents : Lookup(n) # NULL /\ value[Lookup(n)] = o}

\* sol_func_create with sol_token_pool_snapshot: the closure is a new map that
\* shares the binding of every visible entry, "undefined" included.
FuncCreate(f) ==
  /\ Ready /\ count[f] = 0
  /\ entry' = [entry EXCEPT ![f] = [n \in Idents |-> Lookup(n)]]
  /\ retain' = [b \in Bindings |-> retain[b] + Cardinality(Sharing(b))]
  /\ count' = [o \in Objects |->
       IF o = f THEN 1
       ELSE count[o] + Cardinality(Captured(o))]
  /\ held' = [held EXCEPT ![f] = 1]
  /\ UNCHANGED <<pool, value, op, dealloc, fault>>

ObjRelease(o) ==
  /\ Ready /\ held[o] > 0
  /\ held' = [held EXCEPT ![o] = @ - 1]
  /\ Release(count, o, 1, dealloc)
  /\ UNCHANGED <<pool, entry, value, retain, op, fault>>

\* sol_token_resolve: the caller owns the reference it gets.
TokenResolve(n) ==
  LET v == value[Resolve(n)] IN
  /\ Ready /\ Resolve(n) # NULL
  /\ v \in Objects /\ held[v] < MaxHeld
  /\ count' = Retain(count, v, 1)
  /\ held' = [held EXCEPT ![v] = @ + 1]
  /\ UNCHANGED <<pool, entry, value, retain, op, dealloc, fault>>

-----------------------------------------------------------------------------
(* Scopes. *)

Unused(s) == s \notin {pool[i] : i \in DOMAIN pool}

TokenPoolPush(s) ==
  /\ Ready /\ Unused(s)
  /\ pool' = <<s>> \o pool
  /\ UNCHANGED <<entry, value, retain, count, held, op, dealloc, fault>>

FuncEnter_NoScope(f, s) ==
  /\ Ready /\ Unused(s) /\ held[f] > 0
  /\ pool' = <<f>> \o pool
  /\ held' = [held EXCEPT ![f] = @ - 1]
  /\ UNCHANGED <<entry, value, retain, count, op, dealloc, fault>>

\* The start of sol_func_execute: the closure map of f, then a scope for the
\* call.  The caller's reference to f lives as long as the call.
FuncEnter(f, s) ==
  /\ Ready /\ Unused(s) /\ held[f] > 0
  /\ pool' = <<s, f>> \o pool
  /\ held' = [held EXCEPT ![f] = @ - 1]
  /\ UNCHANGED <<entry, value, retain, count, op, dealloc, fault>>

\* sol_token_pool_pop: unlink the scope, then destroy its entries one by one.
TokenPoolPop ==
  /\ Ready /\ Len(pool) > 1
  /\ pool' = Tail(pool)
  /\ op' = PopOf(Head(pool), NULL)
  /\ UNCHANGED <<entry, value, retain, count, held, dealloc, fault>>

Popping == fault = "none" /\ op.kind = "pop" /\ dealloc = <<>>

\* One entry: it leaves the map before its reference is released.
PopEntry(n) ==
  /\ Popping /\ op.binding = NULL
  /\ LET b == entry[op.scope][n] IN
     /\ b # NULL
     /\ entry' = [entry EXCEPT ![op.scope][n] = NULL]
     /\ op' = PopOf(op.scope, b)
     /\ Release(count, value[b], 1, dealloc)
  /\ UNCHANGED <<pool, value, retain, held, fault>>

PopBinding ==
  /\ Popping /\ op.binding # NULL
  /\ retain' = [retain EXCEPT ![op.binding] = @ - 1]
  /\ op' = PopOf(op.scope, NULL)
  /\ UNCHANGED <<pool, entry, value, count, held, dealloc, fault>>

PopDone_KeepsClosure ==
  /\ Popping /\ op.binding = NULL /\ entry[op.scope] = EmptyMap
  /\ op' = Idle
  /\ UNCHANGED <<pool, entry, value, retain, count, held, dealloc, fault>>

\* The map is empty.  When the scope belonged to a call, sol_token_pool_pop_m
\* takes the closure map off as well and gives it back to the function.
PopDone ==
  /\ Popping /\ op.binding = NULL /\ entry[op.scope] = EmptyMap
  /\ op' = Idle
  /\ IF Head(pool) \in Funcs
     THEN /\ pool' = Tail(pool)
          /\ held' = [held EXCEPT ![Head(pool)] = @ + 1]
     ELSE UNCHANGED <<pool, held>>
  /\ UNCHANGED <<entry, value, retain, count, dealloc, fault>>

-----------------------------------------------------------------------------
(* sol_token_register(n, v): first retain v and drop what n was bound to   *)
(* in the most local map, then bind n.                                     *)

\* There is an address for the binding that the registration may need.
Room(n) ==
  \E b \in Bindings : retain[b] = 0 \/ (retain[b] = 1 /\ b = entry[Head(pool)][n])

TokenRegister(n, v) ==
  /\ Ready /\ Argument(v) /\ Room(n)
  /\ op' = [kind |-> "register", ident |-> n, obj |-> v]
  /\ LET old == entry[Head(pool)][n]
         c   == Retain(count, v, 1) IN
     IF old = NULL
     THEN count' = c /\ UNCHANGED dealloc
     ELSE Release(c, value[old], 1, dealloc)
  /\ UNCHANGED <<pool, entry, value, retain, held, fault>>

Registering == fault = "none" /\ op.kind = "register" /\ dealloc = <<>>

OldBinding == entry[Head(pool)][op.ident]

Dropped_Kept == retain
Dropped_Twice == IF OldBinding = NULL THEN retain ELSE [retain EXCEPT ![OldBinding] = @ - 2]

\* The binding counts once the old entry has been dropped.
Dropped == IF OldBinding = NULL THEN retain ELSE [retain EXCEPT ![OldBinding] = @ - 1]

IsUndefined(v) == v \in Tokens /\ IdentOf[v] = Undefined

\* A token object asks for an alias of the binding its identifier resolves to.
\* By then the map already holds the entry being registered, so a token that
\* names the same identifier resolves to that very entry.
Resolvable(v) == v \in Tokens /\ IdentOf[v] # Undefined
Aliased(v) == IF IdentOf[v] = op.ident THEN OldBinding ELSE Lookup(IdentOf[v])

\* The entry holds no binding, or one that has just been freed.
Wild(b) == IF b = NULL THEN TRUE ELSE Dropped[b] = 0

\* The name is to stand for the variable it stands for already.
SelfAlias(v) == Resolvable(v) /\ IdentOf[v] = op.ident

RegisterAlias ==
  LET v == op.obj
      b == Aliased(v) IN
  /\ Registering /\ Resolvable(v) /\ b # NULL /\ ~(SelfAlias(v) /\ Wild(b))
  /\ entry' = [entry EXCEPT ![Head(pool)][op.ident] = b]
  /\ retain' = [Dropped EXCEPT ![b] = @ + 1]
  /\ Release(Retain(count, value[b], 1), v, 1, dealloc)
  /\ op' = Idle
  /\ UNCHANGED <<pool, value, held, fault>>

RegisterFresh ==
  LET v == op.obj IN
  /\ Registering /\ v # NULL
  /\ Resolvable(v) => ~SelfAlias(v) /\ Aliased(v) = NULL
  /\ \E b \in Bindings :
       /\ Dropped[b] = 0
       /\ entry' = [entry EXCEPT ![Head(pool)][op.ident] = b]
       /\ value' = [value EXCEPT ![b] = IF IsUndefined(v) THEN NULL ELSE v]
       /\ retain' = [Dropped EXCEPT ![b] = 1]
  /\ IF IsUndefined(v)
     THEN Release(count, v, 1, dealloc)
     ELSE UNCHANGED <<count, dealloc>>
  /\ op' = Idle
  /\ UNCHANGED <<pool, held, fault>>

\* The type of the object is read before the test for NULL.
RegisterNull ==
  /\ Registering /\ op.obj = NULL
  /\ fault' = "null"
  /\ UNCHANGED <<pool, entry, value, retain, count, held, op, dealloc>>

RegisterWild ==
  /\ Registering /\ SelfAlias(op.obj) /\ Wild(Aliased(op.obj))
  /\ fault' = "wild"
  /\ UNCHANGED <<pool, entry, value, retain, count, held, op, dealloc>>

-----------------------------------------------------------------------------
(* sol_token_update(n, v): for every entry that uses the binding, v is     *)
(* retained and the old value released; then the binding takes v.  Only    *)
(* the last round of that loop can bring the old value down to zero, so    *)
(* the rounds are one step.                                                *)

TokenUpdate(n, v) ==
  LET b == Lookup(n) IN
  /\ Ready /\ Argument(v) /\ b # NULL
  /\ op' = [kind |-> "update", binding |-> b, obj |-> v]
  /\ Release(Retain(count, v, retain[b]), value[b], retain[b], dealloc)
  /\ UNCHANGED <<pool, entry, value, retain, held, fault>>

UpdateDone ==
  /\ fault = "none" /\ op.kind = "update" /\ dealloc = <<>>
  /\ value' = [value EXCEPT ![op.binding] = op.obj]
  /\ op' = Idle
  /\ UNCHANGED <<pool, entry, retain, count, held, dealloc, fault>>

-----------------------------------------------------------------------------
(* The innermost sol_obj_release destroys a function: for each entry of    *)
(* its closure it releases the value, drops the binding, and only then     *)
(* takes the entry out of the map.                                         *)

Destroying == fault = "none" /\ dealloc # <<>>
Dead == Head(dealloc)

DeallocEntry(n) ==
  /\ Destroying /\ Dead.ident = NULL
  /\ LET b == entry[Dead.func][n] IN
     /\ b # NULL /\ ~Dying(value[b])
     /\ Release(count, value[b], 1, <<Frame(Dead.func, n)>> \o Tail(dealloc))
  /\ UNCHANGED <<pool, entry, value, retain, held, op, fault>>

\* The value is a function that is being destroyed already: its entry is still
\* in the map, so the release starts all over again and never returns.
DeallocRunaway(n) ==
  /\ Destroying /\ Dead.ident = NULL
  /\ entry[Dead.func][n] # NULL /\ Dying(value[entry[Dead.func][n]])
  /\ fault' = "runaway"
  /\ UNCHANGED <<pool, entry, value, retain, count, held, op, dealloc>>

DeallocBinding_EntryKept ==
  /\ Destroying /\ Dead.ident # NULL
  /\ dealloc' = <<Frame(Dead.func, NULL)>> \o Tail(dealloc)
  /\ UNCHANGED <<pool, entry, value, retain, count, held, op, fault>>

DeallocBinding ==
  /\ Destroying /\ Dead.ident # NULL
  /\ LET b == entry[Dead.func][Dead.ident] IN
     retain' = [retain EXCEPT ![b] = @ - 1]
  /\ entry' = [entry EXCEPT ![Dead.func][Dead.ident] = NULL]
  /\ dealloc' = <<Frame(Dead.func, NULL)>> \o Tail(dealloc)
  /\ UNCHANGED <<pool, value, count, held, op, fault>>

DeallocDone ==
  /\ Destroying /\ Dead.ident = NULL /\ entry[Dead.func] = EmptyMap
  /\ dealloc' = Tail(dealloc)
  /\ UNCHANGED <<pool, entry, value, retain, count, held, op, fault>>

-----------------------------------------------------------------------------

\* sol_runtime_init leaves one scope; the globals it registers are not named here.
Init ==
  /\ \E s \in Scopes : pool = <<s>>
  /\ entry = [m \in Maps |-> EmptyMap]
  /\ value = [b \in Bindings |-> NULL]
  /\ retain = [b \in Bindings |-> 0]
  /\ count = [o \in Objects |-> 0]
  /\ held = [o \in Objects |-> 0]
  /\ op = Idle
  /\ dealloc = <<>>
  /\ fault = "none"

Call ==
  \/ \E o \in Data \cup Tokens : ObjCreate(o)
  \/ \E f \in Funcs : FuncCreate(f)
  \/ \E o \in Objects : ObjRelease(o)
  \/ \E n \in Idents : TokenResolve(n)
  \/ \E s \in Scopes : TokenPoolPush(s)
  \/ \E f \in Funcs, s \in Scopes : FuncEnter(f, s)
  \/ TokenPoolPop
  \/ \E n \in Idents, v \in Values : TokenRegister(n, v)
  \/ \E n \in Idents, v \in Values : TokenUpdate(n, v)

\* The steps of an operation or a deallocation that has started.
Continue ==
  \/ \E n \in Idents : PopEntry(n) \/ DeallocEntry(n) \/ DeallocRunaway(n)
  \/ PopBinding \/ PopDone
  \/ RegisterAlias \/ RegisterFresh \/ RegisterNull \/ RegisterWild
  \/ UpdateDone
  \/ DeallocBinding \/ DeallocDone

Next == Call \/ Continue

Spec == Init /\ [][Next]_vars

-----------------------------------------------------------------------------
(* What the counts stand for. *)

At(s) == entry[s[1]][s[2]]

\* The entries that use binding b, and the one that a pop has unlinked from its
\* map but not yet taken off the count.
Users(b) == {s \in Slots : At(s) = b}
Unlinked(b) == IF op.kind = "pop" /\ op.binding = b THEN 1 ELSE 0

\* The value whose count an entry of b stands for: during an update the
\* references have moved to the new value already.
Bound(b) == IF op.kind = "update" /\ op.binding = b THEN op.obj ELSE value[b]

\* An entry whose reference has been released although it is still in its map.
Settled(s) ==
  \/ op.kind = "register" /\ s = <<Head(pool), op.ident>>
  \/ \E i \in DOMAIN dealloc : s = <<dealloc[i].func, dealloc[i].ident>>

Owners(o) == {s \in Slots : At(s) # NULL /\ ~Settled(s) /\ Bound(At(s)) = o}
Calls(o)  == {i \in DOMAIN pool : pool[i] = o}
InHand(o) == IF op.kind = "register" /\ op.obj = o THEN 1 ELSE 0

Frames == [func : Funcs, ident : Idents \cup {NULL}]

Ops ==
  {Idle}
  \cup [kind : {"pop"}, scope : Scopes, binding : Bindings \cup {NULL}]
  \cup [kind : {"register"}, ident : Idents, obj : Values]
  \cup [kind : {"update"}, binding : Bindings, obj : Values]

(* Types: the local scope, on top of the pool, is never a closure map, so    *)
(* no registration can write into a closure (solfunc.c always pushes a scope *)
(* over the closure it pushes).                                              *)
TypeOK ==
  /\ pool \in Seq(Maps) /\ pool # <<>>
  /\ op.kind # "pop" => Head(pool) \in Scopes
  /\ entry \in [Maps -> [Idents -> Bindings \cup {NULL}]]
  /\ value \in [Bindings -> Values]
  /\ retain \in [Bindings -> Int]
  /\ count \in [Objects -> Int]
  /\ held \in [Objects -> Nat]
  /\ op \in Ops
  /\ dealloc \in Seq(Frames)
  /\ fault \in {"none", "null", "wild", "runaway"}

(* The retain_count of a binding is the number of entries that use it, over  *)
(* all scopes and closures, at every step of every operation: soltoken.c and *)
(* the destruction of closures in sol.c free a binding with its last entry.  *)
BindingCount ==
  \A b \in Bindings : retain[b] = Cardinality(Users(b)) + Unlinked(b)

(* The retain_count of an object is the number of references to it: those of *)
(* the evaluator, one per call that executes it, and one per entry through   *)
(* which it can be found.                                                    *)
ObjectCount ==
  \A o \in Objects :
    count[o] = held[o] + Cardinality(Calls(o)) + InHand(o) + Cardinality(Owners(o))

(* No entry of any scope or closure leads to memory that was freed, and no   *)
(* function is destroyed while its closure is in scope: sol_token_resolve    *)
(* and sol_token_update follow these pointers without a check.               *)
NoDangling ==
  /\ \A s \in Slots : At(s) # NULL =>
       /\ retain[At(s)] > 0
       /\ ~Settled(s) /\ Bound(At(s)) \in Objects => count[Bound(At(s))] > 0
  /\ \A i \in DOMAIN pool : pool[i] \in Funcs => count[pool[i]] > 0

(* A closure is a snapshot: from the creation of a function to its           *)
(* destruction its entries keep the bindings they were created with,         *)
(* whatever is registered while the closure map is part of the pool.         *)
ClosureFixed ==
  [][\A f \in Funcs : count[f] > 0 /\ count'[f] > 0 => entry'[f] = entry[f]]_vars

-----------------------------------------------------------------------------
(* Clients that keep clear of the three ways the program can die. *)

Contents(m) == {value[entry[m][n]] : n \in {k \in Idents : entry[m][k] # NULL}}

\* Everything reachable from the objects in S through closures.
Reach(S) ==
  LET R[k \in 0 .. Cardinality(Funcs)] ==
        IF k = 0 THEN S ELSE R[k-1] \cup UNION {Contents(f) : f \in R[k-1] \cap Funcs}
  IN  R[Cardinality(Funcs)]

Roots ==
  {o \in Objects : held[o] > 0} \cup
  UNION {Contents(pool[i]) \cup ({pool[i]} \cap Funcs) : i \in DOMAIN pool}

\* A registration names an object, and not a token for the entry it replaces
\* unless something else uses the binding; an update makes no cycle.
Careful ==
  op = Idle =>
    /\ op'.kind = "register" =>
         LET v == op'.obj
             b == entry[Head(pool)][op'.ident] IN
         /\ v # NULL
         /\ Resolvable(v) /\ IdentOf[v] = op'.ident => b # NULL /\ retain[b] > 1
    /\ op'.kind = "update" =>
         \A f \in Reach({op'.obj}) \cap Funcs, n \in Idents : entry[f][n] # op'.binding

CarefulNext == Next /\ Careful

\* The program is one thread: a C function that has started runs to its end.
CarefulSpec == Init /\ [][CarefulNext]_vars /\ WF_vars(Continue)

(* A careful client never makes the library follow a NULL or freed pointer   *)
(* in sol_token_register, or release a function for ever in sol_obj_release. *)
NoFault == fault = "none"

(* Reference counting is complete for a careful client: between operations,  *)
(* every object still allocated can be reached from the evaluator or the     *)
(* token pool, and every binding from an entry.                              *)
NoLeak ==
  Ready => /\ \A o \in Objects : count[o] > 0 => o \in Reach(Roots)
           /\ \A f \in Funcs : count[f] = 0 => entry[f] = EmptyMap

\* What an operation has still to do: entries to take out, functions that it
\* may destroy, deallocations that have begun, and its own next step.
StackWork(st) == 2 * Len(st) + Cardinality({i \in DOMAIN st : st[i].ident = NULL})
OpWork ==
  CASE op.kind = "register" -> 5
    [] op.kind = "pop" -> IF op.binding = NULL THEN 1 ELSE 2
    [] op.kind = "update" -> 1
    [] OTHER -> 0

Taken     == {s \in Slots : At(s) # NULL}
Living(c) == {f \in Funcs : c[f] > 0}

Work == 4 * (Cardinality(Taken) + Cardinality(Living(count))) + StackWork(dealloc) + OpWork

(* Each step of an operation leaves less work, whatever cascade of releases  *)
(* through closures it starts (sol.c:62-122, soltoken.c:20-134).             *)
WorkFalls == [][~Ready => Work' < Work]_vars

(* Every operation ends: until it has, it has a next step, and each of its   *)
(* steps leaves less work.                                                   *)
Completes == [](~Ready => ENABLED Continue) /\ WorkFalls

-----------------------------------------------------------------------------
(* What scopes and closures are for. *)

\* The entries whose names stand for nothing any more, or not yet: those that a
\* destruction of closures or a registration has still to take away.
Hidden(m, n) ==
  \/ op.kind = "pop" /\ m = op.scope
  \/ op.kind = "register" /\ m = Head(pool) /\ n = op.ident /\ ~SelfAlias(op.obj)
  \/ \E i \in DOMAIN dealloc : dealloc[i].func = m /\ dealloc[i].ident = n

Env == [m \in Maps |-> [n \in Idents |-> IF Hidden(m, n) THEN NULL ELSE entry[m][n]]]

\* A call whose scope is popped is over.
Returning == op.kind = "pop" /\ Head(pool) \in Funcs

Chain == IF Returning THEN Tail(pool) ELSE pool
Owned == IF Returning THEN [held EXCEPT ![Head(pool)] = @ + 1] ELSE held
Val   == [b \in Bindings |-> Bound(b)]
Task  == IF op.kind = "register" THEN <<op.ident, op.obj>> ELSE <<>>

Scope == INSTANCE SolScope WITH
  Variables <- Bindings, chain <- Chain, env <- Env, val <- Val, held <- Owned, task <- Task

(* For a careful client variables are lexically scoped and shared, and       *)
(* nothing that a name leads to is freed or used again (soltoken.h), however *)
(* counts, bindings and the destruction of closures go about it.             *)
IsScope == Scope!Spec

-----------------------------------------------------------------------------
(* What the library promises to any client, and does not keep. *)

(* soltoken.h: sol_token_update "sets the most local token binding to point  *)
(* to obj": the release of the old value ends, and the update is done.       *)
UpdateEnds == fault # "runaway"
=============================================================================
