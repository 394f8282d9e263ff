------------------------------- MODULE SolObj -------------------------------
(***************************************************************************)
(* Objects with properties, prototypes and parents (sol.c:46-139 and       *)
(* 299-513), the getters and setters that run inside their operations, and *)
(* the references that keep all of it alive.                               *)
(*                                                                         *)
(* A slot is an entry of the property table or of the prototype table of   *)
(* an object.  Getters and setters are Sol code: while one runs (calls),   *)
(* the program may call every operation again, on the same slot too.       *)
(* Releasing an object can release others, which is the bag work; nothing  *)
(* but releases happens until it is empty.                                 *)
(*                                                                         *)
(* X_Y is X with the mistake Y: no specification uses it, and a property   *)
(* must fail when it stands for X.                                         *)
(***************************************************************************)
EXTENDS Integers, Sequences, FiniteSets

CONSTANTS
  Objs,      \* addresses of objects with properties
  Funcs,     \* addresses of the functions used as getters and setters
  Names,     \* names of properties
  NULL,      \* no object, or the value "undefined"
  Absent,    \* the table has no such entry
  Uninit,    \* an entry whose binding was allocated and not yet written
  MaxCount,  \* bound: references to an object when another one is taken
  MaxUses,   \* the same for functions
  MaxHeld,   \* bound: references to an object that lookups take
  MaxCalls   \* bound: getters, setters and patches in progress

Objects == Objs \cup Funcs
Values  == Objects \cup {NULL}
Kinds   == {"property", "prototype"}
Slots   == Objs \X Kinds \X Names

ASSUME SlotsAssumption == IsFiniteSet(Objs) /\ IsFiniteSet(Funcs) /\ IsFiniteSet(Names)
ASSUME ValuesAssumption ==
  /\ Objs \cap Funcs = {} /\ NULL \notin Objects \cup Slots
  /\ Absent \notin Values /\ Uninit \notin Values /\ Absent # Uninit
ASSUME BoundsAssumption == {MaxCount, MaxUses, MaxHeld, MaxCalls} \subseteq Nat \ {0}

VARIABLES
  parent,  \* parent[o]; NULL stands for a global object that has none of the Names
  value,   \* value[s]: binding->value of the entry in slot s
  get,     \* get[s]: metadata.get
  set,     \* set[s]: metadata.set
  count,   \* retain_count; 0 when the address is free
  held,    \* held[o]: references to o owned by the evaluator's C locals
  lost,    \* lost[o]: references to o that no one will give back
  work,    \* work[o]: references to o that sol_obj_release has yet to give back
  calls,   \* the operations that Sol code has interrupted, innermost first
  fault    \* why the program died, or "none"

tables == <<parent, value, get, set>>
vars == <<parent, value, get, set, count, held, lost, work, calls, fault>>

\* An operation in progress owns references to the object it works on and to
\* its argument (the value for a setter, the other object for a patch).  A patch
\* walks one table (todo, done) and then the tables of the kinds in later.
Call(kind, self, arg, slot) ==
  [kind |-> kind, self |-> self, arg |-> arg, slot |-> slot, todo |-> {}, done |-> {}, later |-> {}]

Plus(c, v) == IF v \in Objects THEN [c EXCEPT ![v] = @ + 1] ELSE c
Minus(c, v) == IF v \in Objects THEN [c EXCEPT ![v] = @ - 1] ELSE c

Room(v) ==
  /\ v \in Objs => count[v] < MaxCount
  /\ v \in Funcs => count[v] < MaxUses

-----------------------------------------------------------------------------
(* Lookup. *)

Present == {s \in Slots : value[s] # Absent}

\* o and its parents, then NULL.
Lineage(o) ==
  LET up[k \in 0 .. Cardinality(Objs)] ==
        IF k = 0 THEN o ELSE IF up[k-1] = NULL THEN NULL ELSE parent[up[k-1]]
  IN  up

\* The first prototype slot for n in S, from the k-th parent of o on.
Inherited(o, n, k, S) ==
  LET ProtoSlot(i) == <<Lineage(o)[i], "prototype", n>>
      Levels == {i \in k .. Cardinality(Objs) : ProtoSlot(i) \in S}
  IN  IF Levels = {} THEN NULL ELSE ProtoSlot(CHOOSE i \in Levels : \A j \in Levels : i <= j)

GetSlot_Parent(o, n) ==
  IF <<o, "property", n>> \in Present THEN <<o, "property", n>> ELSE Inherited(o, n, 1, Present)

\* Where sol_obj_get_prop finds n.
GetSlot(o, n) ==
  IF <<o, "property", n>> \in Present THEN <<o, "property", n>> ELSE Inherited(o, n, 0, Present)

\* The setter of the entry itself, or the first one among the prototypes.
Setter(s) ==
  LET h == Inherited(s[1], s[3], IF s[2] = "property" THEN 0 ELSE 1, {t \in Slots : set[t] # NULL})
  IN  IF set[s] # NULL THEN set[s] ELSE IF h = NULL THEN NULL ELSE set[h]

-----------------------------------------------------------------------------
(* The program. *)

Quiet == fault = "none" /\ work = [o \in Objects |-> 0]

Patching == calls # <<>> /\ Head(calls).kind = "patch"

\* Sol code runs: at top level, or in a getter or setter.
Ready == Quiet /\ ~Patching

Usable(o) == held[o] > 0 \/ \E i \in DOMAIN calls : o \in {calls[i].self, calls[i].arg}

\* sol_obj_clone and its like; p is what the object is cloned from.
ObjClone(o, p) ==
  /\ Ready /\ count[o] = 0
  /\ p # NULL => o \in Objs /\ Usable(p) /\ Room(p)
  /\ count' = Plus([count EXCEPT ![o] = 1], p)
  /\ held' = [held EXCEPT ![o] = @ + 1]
  /\ parent' = IF o \in Objs THEN [parent EXCEPT ![o] = p] ELSE parent
  /\ UNCHANGED <<value, get, set, lost, work, calls, fault>>

ObjRelease(o) ==
  /\ Ready /\ held[o] > 0
  /\ held' = [held EXCEPT ![o] = @ - 1]
  /\ work' = [work EXCEPT ![o] = @ + 1]
  /\ UNCHANGED <<tables, count, lost, calls, fault>>

\* The caller gets a reference to v, read from an entry.
Take(v) ==
  /\ v \in Objects /\ count[v] > 0 /\ Room(v) /\ held[v] < MaxHeld
  /\ count' = [count EXCEPT ![v] = @ + 1]
  /\ held' = [held EXCEPT ![v] = @ + 1]
  /\ UNCHANGED <<tables, lost, work, calls, fault>>

\* An entry that leads to freed memory, or nowhere.
Dangling(s) == value[s] = Uninit \/ (value[s] \in Objects /\ count[value[s]] = 0)

\* Uninitialised memory may hold zeros.
Read(s) == IF value[s] = Uninit THEN NULL ELSE value[s]

\* What sol_obj_get_prop and sol_obj_get_proto find on o.
Sought(o) ==
  ({GetSlot(o, n) : n \in Names} \cup {<<o, "prototype", n>> : n \in Names}) \cap Present

GetStored(s) == Ready /\ get[s] = NULL /\ Take(value[s])

\* The getter is executed with o as its "self".
GetCalls(o, s) ==
  /\ Ready /\ get[s] # NULL
  /\ Len(calls) < MaxCalls /\ Room(o)
  /\ count' = [count EXCEPT ![o] = @ + 1]
  /\ calls' = <<Call("get", o, NULL, s)>> \o calls
  /\ UNCHANGED <<tables, held, lost, work, fault>>

GetMetadata(s) == Ready /\ (Take(get[s]) \/ Take(set[s]))

SetMetadata(s, table, f) ==
  /\ Ready /\ Usable(f) /\ Room(f)
  /\ count' = [count EXCEPT ![f] = @ + 1]
  /\ value' = IF value[s] = Absent THEN [value EXCEPT ![s] = Uninit] ELSE value
  /\ \/ /\ table = "get"
        /\ get' = [get EXCEPT ![s] = f]
        /\ lost' = Plus(lost, get[s])
        /\ UNCHANGED set
     \/ /\ table = "set"
        /\ set' = [set EXCEPT ![s] = f]
        /\ lost' = Plus(lost, set[s])
        /\ UNCHANGED get
  /\ UNCHANGED <<parent, held, work, calls, fault>>

-----------------------------------------------------------------------------
(* sol_obj_set_prop and sol_obj_set_proto: the old value is released, then *)
(* a setter may run, and what it returns is stored.                        *)

Replaced_Kept(s) == work
Replaced(s) == Plus(work, Read(s))

\* stack: the operations in progress, without this one.
Assign(s, v, stack) ==
  /\ value[s] # Uninit => ~Dangling(s)
  /\ work' = Replaced(s)
  /\ \/ /\ Setter(s) = NULL
        /\ value' = [value EXCEPT ![s] = v]
        /\ count' = Plus(count, v)
        /\ calls' = stack
     \/ /\ Setter(s) # NULL
        /\ Len(calls) < MaxCalls /\ Room(s[1])
        /\ value' = IF value[s] = Absent THEN [value EXCEPT ![s] = Uninit] ELSE value
        /\ count' = Plus(Plus(count, v), s[1])
        /\ calls' = <<Call("set", s[1], v, s)>> \o stack
  /\ UNCHANGED <<parent, get, set, held, lost, fault>>

ObjSet(s, v) == Ready /\ Room(v) /\ Assign(s, v, calls)

Caller == Head(calls)

\* A getter returns a reference that its caller now owns.
GetterReturns ==
  /\ Ready /\ calls # <<>> /\ Caller.kind = "get"
  /\ calls' = Tail(calls)
  /\ work' = Plus(work, Caller.self)
  /\ UNCHANGED <<tables, count, held, lost, fault>>

SetterReturns_Borrowed(r) ==
  /\ Ready /\ calls # <<>> /\ Caller.kind = "set"
  /\ r \in Objects => Usable(r)
  /\ held' = Minus(held, r)
  /\ value' = [value EXCEPT ![Caller.slot] = r]
  /\ work' = Plus(Plus(work, Caller.self), Caller.arg)
  /\ calls' = Tail(calls)
  /\ UNCHANGED <<parent, get, set, count, lost, fault>>

\* The entry takes over the reference that the setter returns; the list of its
\* arguments is released.
SetterReturns(r) ==
  /\ Ready /\ calls # <<>> /\ Caller.kind = "set"
  /\ r \in Objects => held[r] > 0
  /\ held' = Minus(held, r)
  /\ value' = [value EXCEPT ![Caller.slot] = r]
  /\ work' = Plus(Plus(work, Caller.self), Caller.arg)
  /\ calls' = Tail(calls)
  /\ UNCHANGED <<parent, get, set, count, lost, fault>>

\* How many references to o the operations in stack own.
Refs(stack, o) ==
  Cardinality({i \in DOMAIN stack : stack[i].self = o})
    + Cardinality({i \in DOMAIN stack : stack[i].arg = o})

\* An error leaves the getter or setter and the patches it runs in, none of
\* which catches it; what their C locals own is lost.
AccessorThrows ==
  /\ Ready /\ calls # <<>>
  /\ \E k \in 1 .. Len(calls) :
       /\ \A i \in 2 .. k : calls[i].kind = "patch"
       /\ k < Len(calls) => calls[k+1].kind # "patch"
       /\ lost' = [o \in Objects |-> lost[o] + Refs(SubSeq(calls, 1, k), o)]
       /\ calls' = SubSeq(calls, k + 1, Len(calls))
  /\ UNCHANGED <<tables, count, held, work, fault>>

-----------------------------------------------------------------------------
(* sol_obj_patch and the patch method: every property of from is assigned  *)
(* to self, and then every entry of its prototype table.                   *)

ObjPatch(self, from, kinds) ==
  /\ Ready /\ Len(calls) < MaxCalls /\ Usable(self) /\ Usable(from)
  /\ Room(self) /\ Room(from) /\ (self = from => count[from] + 1 < MaxCount)
  /\ count' = Plus(Plus(count, self), from)
  /\ calls' = <<[Call("patch", self, from, NULL) EXCEPT
                   !.todo = {s \in Present : s[1] = from /\ s[2] = "property"},
                   !.later = kinds \cap {"prototype"}]>> \o calls
  /\ UNCHANGED <<tables, held, lost, work, fault>>

\* The walk over a table that was empty when it began is over.  In another table,
\* an entry that a setter adds in the meantime may be met or missed.
PatchNext(s) ==
  /\ Quiet /\ Patching
  /\ s \in Present \ Caller.done /\ s[1] = Caller.arg
  /\ \E t \in Caller.todo : t[2] = s[2]

PatchTarget(s) == <<Caller.self, s[2], s[3]>>

PatchStep(s) ==
  /\ PatchNext(s)
  /\ value[s] # Uninit => ~Dangling(s)
  /\ Assign(PatchTarget(s), Read(s), <<[Caller EXCEPT !.done = @ \cup {s}]>> \o Tail(calls))

\* The walk over the prototype table begins, with what setters have added to it.
PatchPrototypes ==
  /\ Quiet /\ Patching /\ Caller.todo \subseteq Caller.done /\ Caller.later # {}
  /\ calls' = <<[Caller EXCEPT
                   !.todo = {s \in Present : s[1] = Caller.arg /\ s[2] \in Caller.later},
                   !.done = {}, !.later = {}]>> \o Tail(calls)
  /\ UNCHANGED <<tables, count, held, lost, work, fault>>

PatchDone ==
  /\ Quiet /\ Patching /\ Caller.todo \subseteq Caller.done /\ Caller.later = {}
  /\ calls' = Tail(calls)
  /\ work' = Plus(Plus(work, Caller.self), Caller.arg)
  /\ UNCHANGED <<tables, count, held, lost, fault>>

-----------------------------------------------------------------------------
(* sol_obj_release. *)

Of(o) == {s \in Slots : s[1] = o}

\* The references to v that object o owns, and those it never gives back.
Owned(o, v) ==
  Cardinality({s \in Of(o) : Read(s) = v}) + Cardinality({p \in {o} \cap Objs : parent[p] = v})
Unowned(o, v) ==
  Cardinality({s \in Of(o) : get[s] = v}) + Cardinality({s \in Of(o) : set[s] = v})

\* The pending references to o are given back together.
Decrease(o) ==
  /\ fault = "none" /\ work[o] > 0 /\ count[o] > work[o]
  /\ count' = [count EXCEPT ![o] = @ - work[o]]
  /\ work' = [work EXCEPT ![o] = 0]
  /\ UNCHANGED <<tables, held, lost, calls, fault>>

\* The last reference: the values and the parent are released, the getters
\* and setters are not.
Destroy(o) ==
  /\ fault = "none" /\ work[o] > 0 /\ count[o] = work[o]
  /\ count' = [count EXCEPT ![o] = 0]
  /\ work' = [v \in Objects |-> (IF v = o THEN 0 ELSE work[v]) + Owned(o, v)]
  /\ lost' = [v \in Objects |-> lost[v] + Unowned(o, v)]
  /\ value' = [s \in Slots |-> IF s \in Of(o) THEN Absent ELSE value[s]]
  /\ get' = [s \in Slots |-> IF s \in Of(o) THEN NULL ELSE get[s]]
  /\ set' = [s \in Slots |-> IF s \in Of(o) THEN NULL ELSE set[s]]
  /\ parent' = [p \in Objs |-> IF p = o THEN NULL ELSE parent[p]]
  /\ UNCHANGED <<held, calls, fault>>

-----------------------------------------------------------------------------
(* The program dies when it follows an entry that leads to freed memory or *)
(* was never written.                                                      *)

Follow(s) ==
  /\ Dangling(s)
  /\ fault' = IF value[s] = Uninit THEN "uninit" ELSE "freed"
  /\ UNCHANGED <<tables, count, held, lost, work, calls>>

GetDangling(o, s) == Ready /\ Usable(o) /\ s \in Sought(o) /\ get[s] = NULL /\ Follow(s)

\* The old value is released, for the second time if it was freed.
SetDangling(s) == Ready /\ Usable(s[1]) /\ Follow(s)

PatchDangling(s) == PatchNext(s) /\ (Follow(s) \/ Follow(PatchTarget(s)))

DestroyDangling(o) ==
  /\ fault = "none" /\ work[o] > 0 /\ count[o] = work[o]
  /\ \E s \in Of(o) : Follow(s)

\* An object is released more often than it was retained.
ReleaseDangling(o) ==
  /\ fault = "none" /\ work[o] > count[o]
  /\ fault' = "freed"
  /\ UNCHANGED <<tables, count, held, lost, work, calls>>

-----------------------------------------------------------------------------

\* sol_runtime_init leaves globals, which have none of the Names.
Init ==
  /\ parent = [o \in Objs |-> NULL]
  /\ value = [s \in Slots |-> Absent]
  /\ get = [s \in Slots |-> NULL]
  /\ set = [s \in Slots |-> NULL]
  /\ count = [o \in Objects |-> 0]
  /\ held = [o \in Objects |-> 0]
  /\ lost = [o \in Objects |-> 0]
  /\ work = [o \in Objects |-> 0]
  /\ calls = <<>>
  /\ fault = "none"

\* What Sol code may do that touches the slots in S, and sets metadata in M.
Program(S, M) ==
  \/ \E o \in Objects, p \in Objs \cup {NULL} : ObjClone(o, p)
  \/ \E o \in Objects : ObjRelease(o)
  \/ \E o \in Objs, s \in S :
       /\ Usable(o) /\ s \in Sought(o)
       /\ GetStored(s) \/ GetCalls(o, s) \/ GetMetadata(s)
  \/ \E s \in M, f \in Funcs, table \in {"get", "set"} : Usable(s[1]) /\ SetMetadata(s, table, f)
  \/ \E s \in S, v \in Values : Usable(s[1]) /\ (v \in Objects => Usable(v)) /\ ObjSet(s, v)
  \/ GetterReturns
  \/ \E r \in Values : SetterReturns(r)
  \/ calls # <<>> /\ Caller.slot \in S /\ AccessorThrows
  \/ \E self, from \in Objs, kinds \in {{"property"}, Kinds} :
       Of(self) \cup Of(from) \subseteq S /\ ObjPatch(self, from, kinds)

\* What the library does on its own.
Continue ==
  \/ \E o \in Objects : Decrease(o) \/ Destroy(o)
  \/ \E s \in Slots : PatchStep(s)
  \/ PatchPrototypes \/ PatchDone

Crash ==
  \/ \E o \in Objs, s \in Slots : GetDangling(o, s)
  \/ \E s \in Slots : SetDangling(s) \/ PatchDangling(s)
  \/ \E o \in Objects : DestroyDangling(o) \/ ReleaseDangling(o)

Next == Program(Slots, Slots) \/ Continue \/ Crash

Spec == Init /\ [][Next]_vars

-----------------------------------------------------------------------------
(* A careful program sets metadata on properties that exist, and keeps its *)
(* setters off the slot they were called for: they do not read it, assign  *)
(* it or throw.                                                            *)

\* The slots whose setter runs: the old value has been released already.
Pending == {calls[i].slot : i \in {j \in DOMAIN calls : calls[j].kind = "set"}}

CarefulNext == Program(Slots \ Pending, Present \ Pending) \/ Continue

CarefulSpec == Init /\ [][CarefulNext]_vars

Operations ==
  [kind : {"get", "set"}, self : Objs, arg : Values, slot : Slots, todo : {{}}, done : {{}}, later : {{}}]
  \cup [kind : {"patch"}, self : Objs, arg : Objs, slot : {NULL},
        todo : SUBSET Slots, done : SUBSET Slots, later : SUBSET Kinds]

(* Types: counts never go below zero, a table never holds uninitialised      *)
(* memory as a getter or setter, and patches have no slot of their own.      *)
TypeOK ==
  /\ parent \in [Objs -> Objs \cup {NULL}]
  /\ value \in [Slots -> Values \cup {Absent, Uninit}]
  /\ get \in [Slots -> Funcs \cup {NULL}]
  /\ set \in [Slots -> Funcs \cup {NULL}]
  /\ count \in [Objects -> Nat]
  /\ held \in [Objects -> Nat]
  /\ lost \in [Objects -> Nat]
  /\ work \in [Objects -> Nat]
  /\ calls \in Seq(Operations)
  /\ fault \in {"none", "uninit", "freed"}

\* The references to v in tables.
Stored(v) ==
  Cardinality({s \in Slots \ Pending : value[s] = v})
    + Cardinality({s \in Slots : get[s] = v}) + Cardinality({s \in Slots : set[s] = v})
    + Cardinality({o \in Objs : parent[o] = v})

(* The retain_count of an object is the number of references to it, in       *)
(* tables, in C locals of the evaluator and of the operations in progress,   *)
(* waiting to be released, or lost: through assignments that a setter        *)
(* interrupts, patches, errors and cascades of releases (sol.c:327-364).     *)
ObjectCount ==
  \A v \in Objects : count[v] = held[v] + lost[v] + work[v] + Refs(calls, v) + Stored(v)

\* References to objects that are not in the tables of other objects.
Rooted(v) ==
  \/ held[v] > 0 \/ lost[v] > 0 \/ work[v] > 0
  \/ \E i \in DOMAIN calls : v \in {calls[i].self, calls[i].arg}
  \/ \E s \in Slots : v \in {get[s], set[s]}

Store == INSTANCE SolStore WITH
  contents <- [s \in Slots |-> IF s \in Pending THEN Uninit ELSE value[s]],
  alive <- {o \in Objects : count[o] > 0},
  roots <- {o \in Objects : Rooted(o)},
  Unsettled <- Uninit

(* Counting implements what sol.h promises: lookups find the nearest         *)
(* definition, an assignment takes effect when its setter has answered, an   *)
(* object goes away only when nothing refers to it, and no table of a living *)
(* object leads to one that is gone.                                         *)
IsStore == Store!Spec

-----------------------------------------------------------------------------
(* What the library promises to any program, and does not keep. *)

(* sol.h: sol_obj_retain retains an object "preventing deallocation"; what a *)
(* property holds, and sol_obj_get_prop returns, is retained.                *)
ReadsLiving == fault # "freed"
=============================================================================
