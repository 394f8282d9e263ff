# A verification of libsol in TLA+

libsol is the runtime of the Sol language: a C library that decodes bytecode,
evaluates it, and keeps the objects, scopes and functions of the running
program.  This directory holds TLA+ models of its parts, the TLC
configurations that check them on small instances, and theorems about them
that TLAPS checks for every instance.  File and line numbers refer to `src/`.

- [The system](#the-system)
- [Modules](#modules)
- [What is checked](#what-is-checked)
- [What is proved](#what-is-proved)
- [What the code does not keep](#what-the-code-does-not-keep)
- [What is not modelled](#what-is-not-modelled)
- [Plan](#plan)

## The system

libsol is one thread.  Nothing in it runs in parallel; what makes it hard is
that almost every operation can call back into Sol code or into a cascade of
releases in the middle of its work, that references are counted by hand, and
that errors leave functions through `longjmp`.

| Component | State | Operations | Uses | What makes it correct |
|---|---|---|---|---|
| Object lifetime (`sol.c:37-148`) | `retain_count` of every object | retain, release, clone | closures, lists, properties (release walks them) | a count is the number of references; nothing is freed while it can be found, everything is freed when it cannot |
| Scopes, variables, closures (`soltoken.c`) | the token pool (a stack of hash tables), bindings shared by several tables | push, pop, push and pop of a closure, snapshot, register, update, resolve | retain and release, which can destroy functions and their closures | lookups follow no freed pointer; bindings live as long as their entries; closures are snapshots; scopes match calls |
| Function calls (`solfunc.c`) | the closure map of each function | create, execute (function, macro, operator) | the token pool, errors, evaluation | the scope and the closure of a call are removed however it ends |
| Errors (`solerror.c`, `solerror.h`) | an array of jump buffers, its top, the current error | try, catch, finally, throw, rethrow | `setjmp`, `longjmp` | a throw reaches the innermost handler and runs every finally clause on the way once |
| Lists (`sollist.c`) | doubly linked nodes, first, last, length | create, add, insert, remove, get, index_of, slices | retain and release | a list is a sequence |
| Properties and prototypes (`sol.c:299-513`) | property and prototype tables, their getters and setters | get, set, metadata | function calls (setters), release | a property holds what was set; its references are counted |
| Evaluation, operators (`sol.c:150-228`, `solop.c`) | none of its own | evaluate, the operators | everything above | every reference taken is given back or handed on |
| Bytecode and runtime (`runtime.c`) | the data pointer, the globals | init, execute, destroy | evaluation, the event loop, errors | what was encoded is decoded; errors of a program end at its handler |
| Modules (`solar.c`) | the table of loaded modules, the calls of `solar_load` | load | runtime (a binary runs in a scope of its own), dlopen, YAML | a module is loaded once, after the modules it requires |
| Events (`solevent.c`, `solop.c:650-682`) | listeners of each object, a count of them | listen, remove, dispatch | libuv timers, function calls | every listener registered when an event is dispatched is called once |
| Data types (`soltypes.c`) | two shared Boolean objects | create, truth value | retain | the shared objects are never freed |

How they interact: `sol_runtime_execute` opens a try, evaluates the objects it
decodes, then runs the event loop inside the same try.  `sol_obj_evaluate`
resolves tokens through the token pool and calls functions; a call opens a try
of its own, pushes the closure and a scope, and pops both in its finally
clause.  `sol_obj_release` is called from all of them and may destroy a
function, which releases what its closure holds, and so on.  `solar_load`
calls `sol_runtime_execute` again from within an operator.

The hard behaviours, line by line, are the `hazards` of `PROJECT.json`, each
with the properties that would catch it, or a note that says why none does.

## Modules

| Module | Models | Kind |
|---|---|---|
| `SolToken` | scopes, bindings, closures, and the counts that keep them (`soltoken.c`, `sol.c:37-122`, `solfunc.c:28-60`) | detailed |
| `SolTokenProofs` | theorems about `SolToken`: types, counts, closures, careful clients, and that it implements `SolScope` for them | proofs |
| `SolScope` | what variables and closures promise | abstract, implemented by `SolToken` for careful clients |
| `SolCalls` | calls, errors and their clean-up (`solerror.*`, `solfunc.c`, `runtime.c:183-213`, `solar.c:154-157`) | detailed |
| `SolTry` | what exceptions promise | abstract, implemented by `SolCalls` |
| `SolCallsProofs` | theorems about `SolCalls`, and that it implements `SolTry` | proofs |
| `SolList` | linked lists (`sollist.c`, `sol.c:91-101`) | detailed |
| `SolSequences` | what lists promise | abstract, implemented by `SolList` |
| `SolListProofs` | theorems about `SolList`, and that it implements `SolSequences` | proofs |
| `SolObj` | properties, prototypes, getters, setters, patches, and their references (`sol.c:37-139`, `299-513`) | detailed |
| `SolStore` | what properties promise | abstract, implemented by `SolObj` |
| `SolObjProofs` | theorems about `SolObj`, and that it implements `SolStore` | proofs |
| `SolLoad` | loading modules and what they require (`solar.c:27-175`) | detailed |
| `SolLoadProofs` | theorems about `SolLoad` | proofs |
| `SolEvent` | listeners, dispatch, timers and the event loop (`solevent.c`, `solop.c:650-682`, `runtime.c:183-213`) | detailed |
| `SolEventProofs` | theorems about `SolEvent` | proofs |
| `SolDecode` | the numbers and lengths in bytecode (`runtime.c:157-312`), and their writer | operators |
| `SolProgram` | programs as trees, and a compiler to bytecode | operators |
| `SolMemory` | what `sol.c`, `soltoken.c`, `sollist.c` and `soltypes.c` do between two calls of Sol code | operators on memories |
| `SolEval` | the decoder, `sol_obj_evaluate`, `sol_func_execute` and the operators, with the references of their C locals (`runtime.c`, `sol.c:150-228`, `solfunc.c`, `solop.c`) | detailed |
| `SolMemoryProofs` | lemmas about the operators of `SolMemory` and `SolDecode` | proofs |
| `SolEvalProofs` | theorems about `SolEval` | proofs |
| `SolMeaning` | what a program means, as a function of its tree | reference definition that `SolEval` agrees with |
| `MCSolToken`, `MCSolCalls`, `MCSolList`, `MCSolObj`, `MCSolLoad`, `MCSolEvent`, `MCSolEval` | values of the constants, symmetry, programs | TLC |

A definition named `X_Y` is `X` with a plausible mistake: no specification
uses it; each property fails when one of them takes the place of `X`.

### SolToken and SolScope

| Variable | Code |
|---|---|
| `pool` | `local_token_pool`, most local map first |
| `entry[m][n]` | the `token_pool_entry` of identifier `n` in map `m`: its binding, or `NULL` |
| `value[b]`, `retain[b]` | `token_binding.value`, `.retain_count` |
| `count[o]` | `sol_obj.retain_count`; 0 when the address is free |
| `held[o]` | the references that C locals of the evaluator own |
| `op` | the C function in progress and the locals it still needs |
| `dealloc` | the activations of `sol_obj_release` that are destroying a function |
| `fault` | the way the program died |

Maps are addresses: a scope is a map of its own, and the closure map of a
function has the function's address.  A call from the evaluator is one action
up to the first place where `sol_obj_release` can destroy a function.  From
there the operation waits in `op` while `dealloc` runs, one action per closure
entry, with the steps in the order of the code (`sol.c:81-85`: the value is
released, then the binding's count, then the entry).  Nothing else runs in
between, because nothing else does in the code.  `TokenPoolPush` is
`sol_token_pool_push` alone, as `solar_load` uses it; `FuncEnter` pushes a
closure and a scope, as a call does, and `TokenPoolPop` takes either back.
`sol_token_update` of a name with no binding changes nothing and has no action.

The client calls the operations in any order.  `Spec` restricts it in nothing
but the bound `MaxHeld`; `CarefulSpec` keeps it clear of the three ways the
library dies (see [below](#what-the-code-does-not-keep)), by registering no
undefined value, no token for the entry it replaces, and by making no binding
part of a cycle of closures.  A Sol program can do all three, so `CarefulSpec`
says when the library works and not that programs are safe.

`SolScope` is what a careful client sees of it: a chain of environments, each a
function from names to variables; the values of variables; and the references
the evaluator owns.  It has no counts, and no operation takes more than one
step except a registration, which takes a name away before it gives it a
variable.  An address may be taken only when it is `Garbage`: when nothing that
the roots lead to is at that address.  The mapping (`Env`) hides what an
operation in progress has still to take out of a map: the names of a scope that
is popped, the name that a registration replaces, and the closure entries whose
references have been released already.

### SolCalls and SolTry

The C stack is a sequence of calls, each with what `setjmp` last returned in
it; `frames` maps the slots of the array of jump buffers to the calls that set
them.  A jump to slot `i` drops the calls above `frames[i]` and sets the code
there, whichever call that is.  `Catch` and `Finally` are the clauses that run
then.  Scopes are named for the depth of the call they were made for, so that
popping another call's scope shows.  A macro stays on the stack after its try,
to evaluate its result.  `RuntimeExecute` is a call by the embedding program,
`LoadBinary` one by `solar_load`, with the scope around it.  Bodies call,
throw and end as they please: evaluation and the event loop are abstracted to
that.

`SolTry` has calls and nothing else: an error removes the calls above the
innermost `sol_runtime_execute` in one step, or ends the program.
`SolCalls` implements it under a mapping that hides, while an error is
pending, the calls it is going to abandon (`SeenCalls`).

### SolList and SolSequences

Nodes are addresses with `next`, `prev` and `value`; a list has `first`,
`last` and `length`.  Walks along the pointers are a recursive function that
stays at NULL, and following NULL is `fault`.  `SolSequences` says that a list
is a sequence and what each operation returns; the mapping reads the elements
as `SOL_LIST_ITR` does.  A released list is freed at once, since the values
it holds own nothing here; cascades through values are the subject of
`SolToken`.  Callers ask for indexes within the list, and search only lists of
defined objects (`sol_list_index_of` reads the type of each element without a
test for NULL).

### SolObj and SolStore

| Variable | Code |
|---|---|
| `parent[o]` | `sol_obj.parent` |
| `value[s]`, `get[s]`, `set[s]` | the binding's value and the metadata of the entry in slot `s`; a slot is an object, one of its two tables and a name |
| `count[o]` | `sol_obj.retain_count` |
| `held[o]` | the references that C locals of the evaluator own |
| `work[o]` | the references that the running `sol_obj_release` has yet to give back |
| `calls` | the operations that a getter, a setter or a patch has suspended |
| `lost[o]` | references that no one will give back |
| `fault` | the way the program died |

A getter or a setter is Sol code: while it runs, its operation waits in
`calls` and the program can call every operation again.  `Assign` is
`sol_obj_set_prop` and `sol_obj_set_proto` up to the call of the setter, which
the entry itself, the object's prototype or one of its parents may have;
`SetterReturns` is the rest; the value assigned may be undefined.  A patch
assigns the entries of one object to another, each of which can call a setter;
`uthash` iterates in the order of insertion and remembers the next entry, so
that an entry added meanwhile may be met or missed, unless the table was empty.
The walk over the prototype table begins after that over the properties
(`PatchPrototypes`), with what setters have added to it by then.  An error (`AccessorThrows`) abandons a getter or setter and the
patches it runs in, and with them the references of their C locals, which are
then `lost`.  References that getters and setters hold in the metadata are
lost too when they are replaced or their object is freed, because no line of
`sol.c` releases them.

`sol_obj_release` is recursive; the model keeps the references it still has to
give back as the bag `work`, in any order, and gives those to one object back
together.  Nothing else runs until the bag is empty.  The order does not
matter to the counts.  It would matter to a destructor that runs Sol code, and
there is none.

`SolStore` knows neither counts nor entries: it has the contents of slots, the
parents, the objects that exist and those the program can use.  `SolObj`
implements it under a mapping that shows a slot whose setter runs as
`Unsettled`.

`CarefulSpec` restricts the program in two ways: it sets a getter or setter
only on a property that exists, and while a setter runs no code reads, assigns
or patches the slot it was called for, and it does not throw.  The first is
needed because the binding of a new entry is not initialised (`sol.c:409`),
the second because the old value is released before the setter runs
(`sol.c:338`).  Sol programs are free to do both.

### SolLoad

`requires[m]` and `uses[m]` are the modules in the descriptor of `m` and those
its binaries require; both are arbitrary.  `stack` holds the calls of
`solar_load` in progress with the part of the list each has still to load.
`Start` is the initialisation of the natives and the start of the binaries;
while they run, `Require` calls `solar_load` again.  `Finish` enters the module in the
table, whether its binaries ended or failed: `sol_runtime_execute` catches the
error.  Natives and the setters of extended globals are code that
does not throw.  `AcyclicSpec` starts with modules that can be put in an order
in which each comes after those it needs; a descriptor may name its own module.

### SolEvent

| Variable | Code |
|---|---|
| `known` | the channels (object, type) with an entry in `obj->listeners` |
| `first[c]`, `last[c]` | `listeners`, `listeners_end` of the entry |
| `next[n]`, `callback[n]` | the list nodes |
| `listeners` | `listener_count`, modulo its width |
| `vain` | removals that found nothing (history) |
| `timers` | the libuv timers started and not fired |
| `stack` | programs, loops and listeners in progress, the node each dispatch stands on |
| `count`, `held`, `lost` | `retain_count`, references of Sol code, references nobody gives back |
| `fault` | the way the process died |

Listeners are Sol code: between two actions of a dispatch they register and
remove listeners, dispatch, throw, and start another program (`require`),
whose loop takes over the timers that wait.  `Left` is the effect of a `free`
on the dispatches that stand on the node.  `Throw` leaves the innermost
program, with the loop and the callback in it.

`sol_event_listener_dispatch` reads its list of arguments as a frozen list
(`solevent.c:73-74`), so that it follows an address that is none.  What happens
is undefined, and both outcomes are in the model: `FireWild`, the process dies,
and `FireListeners`, the address can be written and the listeners run.
libuv is external: a loop fires the first timer, or ends when there is none.

### SolEval, SolMemory, SolDecode, SolProgram, SolMeaning

`SolEval` runs a program from its bytes to its end.

| Variable | Code |
|---|---|
| `input` | what `data` points to |
| `frames` | the C functions in progress: `sol_runtime_execute`, the decoder of a list, `sol_obj_evaluate` (waiting for its first object, its arguments, its call), `sol_func_execute`, the expansion of a macro, and the operators that evaluate |
| `at` | what is done now: an object is read, evaluated, called, returned, an error is thrown |
| `mem.heap` | objects and their `retain_count` (`count`) |
| `mem.bindings`, `mem.scopes` | `token_binding`, `local_token_pool` |
| `lost` of an object | references of C locals that went away without a release |
| `mem.stray` | a pointer has been followed to memory that is not what the code takes it for |

A frame has the references that the C locals own (`Locals`) apart from those
they borrow (`code`, `func`), so that `ObjectCount` can say who owns what.  An
operator that calls no Sol code is one step.  `Demands` is what an operator
requires of its arguments, in order; a missing argument is a NULL pointer
(`Die`), a wrong type an error (`Throw`).  `Unwind` takes one frame off an error's
way.  Text is a sequence of pieces.  A number is an integer or `Garbage`, which
stands for every number that is none, and for what is read as a number although it is
not one; it compares as it may.  The heap begins with the objects that
`sol_runtime_init` makes, under their names in the outermost scope, with the
counts that it leaves them; `Kept` are the references that nothing in the model
holds, of prototype tables and of C variables.

Any sequence of bytes is a program.  Where the code reads past the end of the
bytes, follows NULL or uses memory as what it is not, the program ends, as
"null" or as "stray": C defines nothing for what follows, and the properties
speak of everything before.  `SolMemory` says where that is (`stray`, `Touch`,
`LastEntry`, `Replace`), `SolEval` where a value has the wrong type (`Stray`).

`SolMemory` states what `SolToken`, `SolList` and `SolObj` have in detail as
functions from memories to memories, so that whole programs can be run; the
order of nested releases and setters are only in those.  What a release frees is
the least set of objects that lose their last reference with it (`Dead`).
Operators that repeat are recursive functions, so that they can be reasoned
about.

`SolMeaning` gives the same programs a meaning with values for objects,
a store for bindings and recursion for the C stack.  It knows no bytes, frames, addresses or
counts; `Computes` compares the two at the end of every program.  What the
code computes wrongly is part of that meaning, and named where it is: the
first argument of `-`, `/` and `mod` is not checked, a missing argument ends
the process.

Two things are not followed, and end as "stray" although C defines them: a
program that redefines `->string` or `inspect` of any object and then uses
text, and one that copies the prototype of `Object` itself.  Programs that the
code does something undefined for have no meaning in `SolMeaning`; the
instance has some of each kind (`Unchecked`), for which the other properties are
checked.  The programs that do have one, have no list or function compared with
itself, do not loop without end, and keep to integers.  Setters and getters are in
`SolObj`, `require` in `SolLoad` and events in `SolEvent`.

## What is checked

| Run | Specification | Checks | Instance |
|---|---|---|---|
| `token_any` | `Spec` | `TypeOK`, `BindingCount`, `ObjectCount`, `NoDangling`, `ClosureFixed` | 2 functions, 2 scopes, 2 bindings, 1 token object, 2 identifiers, 1 held reference; 2.1 million states |
| `token_careful` | `CarefulSpec` | `NoFault`, `NoLeak`, `Completes`, `IsScope` | the same; 1 million states |
| `calls` | `Spec` | `TypeOK`, `FrameStack`, `ScopesMatch`, `ErrorPending`, `Structured`, `HandlingEnds` | a function, a macro, two error types, 5 nested calls; 29 thousand states |
| `list` | `Spec` | `TypeOK`, `WellLinked`, `RefsMatch`, `IsSequence` | 2 lists of up to 3 elements, 6 nodes |
| `obj` | `CarefulSpec` | `TypeOK`, `ObjectCount`, `IsStore` | 2 objects, 1 function, 1 name, 2 suspended operations, 3 references taken; 700 thousand states |
| `load` | `AcyclicSpec` | `TypeOK`, `LoadedOnce`, `DependenciesFirst`, `Returns` | 3 modules with any requirements, 4 nested calls; 130 thousand states |
| `event` | `Spec` | `TypeOK`, `Linked`, `ObjectCount`, `WorkCounted`, `Delivered`, `LoopDrains` | 1 object, 1 type, 1 event, 2 listeners, 2 nodes, 2 timers, 4 nested programs, loops and listeners; 330 thousand states |
| `program` | `Spec` | `TypeOK`, `ObjectCount`, `Borrowed`, `ScopesMatch`, `Computes`, `LengthsRead` | 574 programs; 33 thousand states |
| `token_update` | `Spec` | a violation | the smallest instance that shows it |
| `list_insert` | `SpecEdit` | a violation | 1 list, 4 nodes |
| `obj_setter` | `Spec` | a violation | as `obj` |
| `load_cycle` | `Spec` | a violation | 2 modules, 3 nested calls |

What the properties say:

- `BindingCount`, `ObjectCount`: the counts equal the references they stand
  for, at every step, also while an operation is half done and several
  deallocations are nested.  A use after free and a leak both begin with a
  count that is off by one, usually many steps before it can be noticed.
- `NoDangling`: no entry leads to a freed binding or value.
- `ClosureFixed`: a closure keeps the bindings it was created with, although
  its map is part of the pool while the function runs.
- `NoFault`, `NoLeak`, `Completes`: for a careful client nothing crashes,
  everything allocated can be reached, and every operation ends.  `Completes`
  says so as a safety property: an operation in progress can always go on, and
  each step makes `Work` smaller, the entries and activations that are left.
- `IsScope`: `SolToken` implements `SolScope` for a careful client: names find
  the most local variable, variables are shared and not copied, closures are
  made of the variables visible at their creation, and nothing that a name
  leads to is freed.
- `FrameStack`: the slots in use are those of the calls inside a try, in their
  order.  This is why no jump lands in a function that has returned, and why
  slots are not used up over time.
- `ScopesMatch`: the pool consists of the scopes and closures of the calls in
  progress, whether calls returned or were abandoned.
- `ErrorPending`: an error is pending only while it is being handled, which
  the catch macro takes for granted.
- `Structured`: `SolCalls` implements `SolTry`.  `HandlingEnds`: clauses end.
- `WellLinked`: both directions of a list agree with each other and with the
  length; no node is lost or shared.  `IsSequence`: `SolList` implements
  `SolSequences`.

- `ObjectCount` (of `SolObj`): counts equal the references in tables, C locals,
  suspended operations and pending releases, whatever a setter did in the
  middle of an assignment or a patch.
- `IsStore`: a lookup finds the nearest definition, an assignment stores what
  its setter answers, and an object that something refers to is never freed.
- `Linked`: a removal leaves the end pointer where the next registration needs
  it.  `Delivered`: a dispatch calls every listener that was there when it
  began and is still there, although listeners change the list under it.
  `WorkCounted` says what `listener_count` is worth: the nodes, those of freed
  objects included, less the vain removals.  `LoopDrains`: when programs and
  listeners return, and from some time on dispatch no more, every loop that
  runs comes to an end: it fires the timers that wait, also those that its
  listeners have started and those that another loop has left after an error.
- `ObjectCount` (of `SolEval`): every reference is owned by an object, a scope
  or a C local, or was lost with a local; it holds at each step of each
  operator and on the way of each error, so that what the code leaks is exactly
  what `lost` records.  `Borrowed`: what C code points to without owning it is
  alive, although the program may rebind the name of the function that runs.
- `ScopesMatch` (of `SolEval`): as in `SolCalls`, with real scopes and closures.
- `Computes`: the machine does what the program means.  `LengthsRead`: a length
  is read back from each of its four encodings, up to what the bits hold.
- `LoadedOnce`, `DependenciesFirst`: a module starts once, after all that its
  descriptor requires, on whatever paths it is reached.  `Returns`: `solar_load` comes back
  to Sol code or ends the program.

Why the bounds are enough.  In `SolToken`, two functions that can capture each
other and themselves give nested and cyclic destruction; two scopes give
shadowing and a closure over an outer scope; two bindings give sharing, and
freeing one while the other stays; an identifier that never resolves and a
token for the other one give every path of `sol_token_register` but one, the
token named "undefined", which stores nothing.  With such a token `token_careful`
has 3.4 million states; it passes, but takes too long for every day, and
`token_update` has one.  Longer cascades repeat the same step.  `MaxHeld` bounds only the references a lookup
takes.  In `SolCalls`, five calls hold a binary that runs inside a function
inside a program with room for a macro and another call above; slots left
behind by earlier calls stay in `frames`, so that stale ones would be used.
In `SolList`, three elements have a first, a middle and a last, and both walks
of `sol_list_get_obj`; a slice can copy a whole list while its source is freed
later.  In `SolObj`, two objects can be each other's
parent, value, setter's self and patch, which gives inheritance, setters within
setters, a setter within a patch, cascades and cycles; one name suffices
because names never interact.  In `SolLoad`, three modules give chains,
diamonds through binaries and descriptors, and a module that is required while
another loads it; a fourth nested call is never reached when there is no
circle.  In `SolEvent`, two nodes give the first, the only and the last node of
a list, a listener that removes itself and one that removes the next; four
levels hold a program, its loop, a listener and a program in it that leaves
timers to the loop below.  Every dispatch that finds a listener loses a
reference to its event.  `MaxLost` bounds how many of them are counted and forbids no
dispatch (`Lasting`): an object that has lost one reference is never freed, so
that one more or less changes nothing that follows.  In `SolEval`, every operator meets an argument of
every type, an undefined one, too few and too many, in the shortest encoding;
programs with long names, a negative number and nested lists are read in the three others.  The longer
programs have two closures over one
variable, one over two levels, functions that unbind themselves, errors inside nested calls,
arguments and expansions, and loops; programs that end early or are no programs
have each kind of object cut off.  Symmetry exchanges addresses only, and only in runs without liveness.

Deadlock is not an error, except in `program`: a client may have used all
addresses of an instance, have exited, or have died of a fault.  In `program`
it is one: a state that has no successor and is not the end of the program
fails the run, so that every program of the instance ends, within `MaxHeap`
objects.

Fairness.  `CarefulSpec` has `WF_vars(Continue)`: a C function that has begun
goes on, since the library has one thread and these functions never wait.
`SolCalls` has `WF_vars(Handle)` for the same reason, for the clauses that
follow a jump, and `SolLoad` has `WF_vars(Continue)` for the loops of
`solar_load`; binaries may run for ever.  `SolEvent` has `WF_vars(Turn)`:
`uv_run` fires what is due or returns, since a timer of zero milliseconds is
always due.  `LoopDrains` has two conditions besides: every program and listener returns
(`Returning`), and no timer is started from some time on (`Settles`).  The second is
needed: a listener that dispatches its event again each time it is called
returns each time and keeps `uv_run` going for ever, and the run has such
behaviours.  Nothing is assumed of the client or of Sol code: bodies may
run for ever, no call need be made.

## What is proved

Every theorem holds for all values of the constants that satisfy the
assumptions of its module; TLC evaluates the assumptions in the runs.
The theorems about `SolToken` hold for any finite sets of identifiers, maps
and functions, any objects and bindings, under the assumptions named in
`SolToken`: identifiers, scopes and functions are finite sets, the kinds of
addresses are disjoint, NULL and nil are none of them.  Those about `SolLoad`
hold for any modules and any bound on nested calls, and need no assumption.
Those about `SolCalls` hold for any functions, any types of errors and any
bound on nesting, if every type extends `Error`
(`HierarchyAssumption`), as all those do that the library defines
(`solerror.c:11-14`).  An error of another root would pass
`sol_runtime_execute`, and `solar_load` would leave its scope in the pool.
Those about `SolList` hold for any lists and objects, finitely many nodes and
any bound on the length, without the two edits that `list_insert` shows to be
broken (`Spec`); `FreeAssumption` says that the mark of a free address is no
list, node or sequence.  Those about `SolEvent` hold for any objects, events,
types, functions and finitely many nodes, whose addresses are different, and for any positive
bounds.  Those about `SolObj` hold for any finite sets of objects, functions and
names, whose addresses are different and none of them NULL, for any positive
bounds, and for a careful program (`CarefulSpec`): `obj_setter` shows that
without care they are false.  Those about `SolEval` hold for any programs, which
are any sequences of bytes (`SourcesAssumption`), for any spelling of names and any
bound on the heap.  Nothing is asked of a program, and nothing is said of it
once it has ended as "null" or "stray"; `TypeOK`, `Borrowed` and `ScopesMatch`
hold even then, for the state it ended in.

| Theorem | States |
|---|---|
| `SolTokenProofs!TypeCorrect` | `Spec => []TypeOK` |
| `SolTokenProofs!BindingsCounted` | `Spec => []BindingCount` |
| `SolTokenProofs!ObjectsCounted` | `Spec => []ObjectCount` |
| `SolTokenProofs!NothingDangles` | `Spec => []NoDangling` |
| `SolTokenProofs!ClosuresKept` | `Spec => ClosureFixed` |
| `SolTokenProofs!NeverDies` | `CarefulSpec => []NoFault` |
| `SolTokenProofs!NothingLeaks` | `CarefulSpec => []NoLeak` |
| `SolTokenProofs!ImplementsScope` | `CarefulSpec => IsScope` |
| `SolTokenProofs!EveryStepWorks` | `CarefulSpec => WorkFalls` |
| `SolLoadProofs!TypeCorrect` | `Spec => []TypeOK` |
| `SolLoadProofs!LoadsOnce` | `AcyclicSpec => []LoadedOnce` |
| `SolLoadProofs!LoadsInOrder` | `AcyclicSpec => DependenciesFirst` |
| `SolCallsProofs!TypeCorrect` | `Spec => []TypeOK` |
| `SolCallsProofs!SlotsFollowCalls` | `Spec => []FrameStack` |
| `SolCallsProofs!ScopesFollowCalls` | `Spec => []ScopesMatch` |
| `SolCallsProofs!ErrorsHandled` | `Spec => []ErrorPending` |
| `SolCallsProofs!ImplementsTry` | `Spec => Structured` |
| `SolListProofs!TypeCorrect` | `Spec => []TypeOK` |
| `SolListProofs!StaysLinked` | `Spec => []WellLinked` |
| `SolListProofs!ReferencesCounted` | `Spec => []RefsMatch` |
| `SolListProofs!ListIsSequence` | `Spec => IsSequence` |
| `SolEventProofs!TypeCorrect` | `Spec => []TypeOK` |
| `SolEventProofs!StaysLinked` | `Spec => []Linked` |
| `SolEventProofs!ReferencesCounted` | `Spec => []ObjectCount` |
| `SolEventProofs!WorkIsCounted` | `Spec => []WorkCounted` |
| `SolEventProofs!DispatchDelivers` | `Spec => Delivered` |
| `SolObjProofs!TypeCorrect` | `CarefulSpec => []TypeOK` |
| `SolObjProofs!ReferencesCounted` | `CarefulSpec => []ObjectCount` |
| `SolObjProofs!NothingDangles` | `CarefulSpec => []Whole` |
| `SolObjProofs!LookupsFind` | `CarefulSpec => []LookupsExact` |
| `SolObjProofs!ImplementsStore` | `CarefulSpec => IsStore` |
| `SolEvalProofs!Invariance` | `Spec => []IInv` |
| `SolEvalProofs!TypeCorrect` | `Spec => []TypeOK` |
| `SolEvalProofs!ReferencesCounted` | `Spec => []ObjectCount` |
| `SolEvalProofs!NothingDangles` | `Spec => []Borrowed` |
| `SolEvalProofs!ScopesFollow` | `Spec => []ScopesMatch` |
| `SolEvalProofs!LengthsKept` | `Spec => []LengthsRead` |
| `SolMemoryProofs!LengthReadBack` | a length that a form has room for is read back from it, whatever follows |

The argument for `SolToken`:

1. `TypeInv` is `TypeOK` with `PoolShape`, which says that under every closure
   map in the pool lies a scope: the pop at the end of a call takes the scope
   and the closure above it, and would otherwise leave another closure as the
   most local map, into which the next registration would write.
2. `ClosureInv`: the closure map of a function that is neither alive nor being
   destroyed is empty.  Without it the address of a freed function could be
   used again with old entries in its map, and the count of a binding would be
   off.  `TypeInv /\ ClosureInv /\ BindingCount` is inductive.
3. `StackInv`: no function is being destroyed twice at once, and in an update
   the outermost one being destroyed is the old value.  It is needed for
   objects, because an entry whose value is released but which is still in its
   map (`Settled`) must be counted once, and because an update gives the
   binding a new value while the old one is still being destroyed.
   `CountInv`, the four together, is inductive.
4. `NoDangling` follows from the counts: an entry is one of the references
   its binding and its value count.

The steps of `BindingCount` and `ObjectCount` are about cardinalities of sets
of slots.  `OneSlot` and `MoreSlots` (in `SolTokenProofs`) say how a
cardinality changes when one slot or a set of slots changes; `UsersExcept`
applies that to an entry that is rewritten, `CallsPush` and `CallsPop` to the
pool.  The lemmas `OpenedStack`, `MoveHead` and `HeadFrame` say what one
release does to the stack of deallocations.

For closures and careful clients there is more.  `DyingInv` says that a function being destroyed
has no references left; only its closure is written to, and the closure of a
function that is created, which is all that `ClosureFixed` needs.  For a
careful client `CarefulInv` is inductive.  It is `CountInv`, that nothing has
gone wrong yet, and three parts.

- `Layers`: functions can be numbered so that whatever a closure holds, or will
  hold when the update in progress is done, is below the function, and the
  functions being destroyed go down from the outermost to the innermost.  A new
  function goes above all others (`CreateLayers`).  An update of a binding lifts
  every function that the new value does not reach above the new value
  (`UpdateLayers`); `Careful` says just that the functions whose closures have
  the binding are among them.  `Reach` follows closures only as many
  times as there are functions, and `ReachClosed` shows that this is far
  enough: each further round would need one more function above the one it finds.
- `RegisterSafe`: what a registration destroys is the value it replaces.  The
  binding it replaces is then in none of the closures being destroyed, since the
  value would be below itself, and is there when a token is resolved to it.
- `ScopesEmpty`: a scope that is not in the pool has no entries.

A cascade of releases that came back to a function being destroyed would go up,
so `NoFault` follows.  For `NoLeak`, `Holder` says that what is alive and not
reached is in the closure of a function that is alive and not reached, since it
has a reference and all other references are roots; the highest function
that is not reached has no such holder (`FunctionsReached`).

For the refinement of `SolScope` there is one lemma for each abstract step
(`CreateMaps` to `ForgetMaps`) and one for each step that changes nothing it sees
(`...Unseen`).  `Unreferenced` says why an address may be used again: all that
the roots lead to in `SolScope` is referred to, so the objects without
references can be left out of the set that `Garbage` asks for.  `SameVariable` says that
both specifications look a name up alike.  `SelfKeeps` is about a token that is
registered under its own name: the name keeps its variable, because the binding
is used elsewhere, so that nothing is destroyed.

`WorkFalls` is the half of `Completes` that can be proved: no operation takes more
steps than it has `Work` when it begins.  A release that begins to destroy a
function adds to the stack, and is paid for by the life of the function
(`ReleaseWork`); hence the released value must be alive, which the counts show
(`OwnedLives`).  `Unfinished` adds to `CarefulInv` that the entry whose value is
released is still in its map, so that taking it out is a step forward.

The argument for `SolLoad`.  What an action does to the calls is one of four
things, `Pushes`, `Ticks`, `Starts` and `Pops`; the lemmas `RequireMoves` to
`FinishMoves` say which, and the rest of the proof does not speak of sequences.
`LoadInv` is inductive.  Its parts are `Sorted` (the calls follow an order of
the modules, so that no module is in progress twice: this is where a circle
breaks everything), `Progress` (the table, the starts and the stages agree) and
`DependenciesKnown` (a dependency that was ticked off is loaded or is being
loaded just above, which a proof of `DependenciesFirst` must know in the middle
of a list).

The argument for `SolCalls`.  `Inv` is inductive.  It has the four properties,
each of which needs the others: a jump keeps the calls it should because the
slots follow the calls, the pool follows the calls because jumps do, and a
clause never rethrows from a binary because only types of errors are pending.
It adds `CallsInv` (only macros expand, and only the innermost call has landed)
and, in `SlotsInv`, that a call lies deeper than its slot, so that there is a
slot as long as there is room for a call.  What an action does to the C stack
is one of four things, `Enters`, `Lands`, `Leaves` and `Expands`, and there is
one lemma for each that says that it keeps `Inv` (`EnterKeeps` to
`ExpandKeeps`).  `ScopesMatch` compares the pool with a recursive function,
`PoolOf`; `SetInduction` derives induction over sets of
numbers from the library's theorem that they are well-founded, and `PoolOfDef`,
`PoolSkip` and `PoolSame` follow from it.

That `SolCalls` implements `SolTry` is proved step by step: `EnterMaps`,
`EndMaps`, `ExpandMaps` and `LeaveMaps` for the calls, `ThrowMaps` for the error,
which `SolTry` handles at once, and `CatchMaps` and `RethrowMaps` for the clauses
on its way, which change nothing that is seen.  `HandlerExists` says that there
is an innermost handler; it too is an induction.

The argument for `SolList`.  `WellLinked` and `TypeOK` say what walks meet, and
walks are recursive functions of the memory; neither is inductive.  `Inv` says instead
that there are sequences of nodes, `P[l]` for each list, in which every allocated node
occurs once and along which the pointers lead (`Threads`), and that every count is
the number of the nodes that hold the object.  `PathFromFirst` and
`PathFromLast` say, by induction on the steps, that a walk over such a list
meets its nodes and then NULL.  `AddThreads` adds one node and `DestroyThreads`
takes a list away; a slice is a fold of additions, and `AddAllGrows`, an
induction over the values copied, says what it does.  `ElementsHeld`
says that an iteration meets the values of `P[l]`, so that the contents that
`SolSequences` sees are theirs; `NextCalls` then gives each action its abstract
one.  That `sol_list_get_obj` may walk from either end is the lemma `GetStep`, and that
no walk follows NULL is part of `Inv` (`fault`).

The argument for `SolEvent`.  `Inv` is inductive: `State` (the types),
`Nested` (a listener runs on a loop, a loop on its program, and only dispatches
refer to objects), `Pointers`, `ObjectCount` and `WorkCounted`.  `Pointers` is
what `Linked` and `Delivered` need and do not say: the lists are paths, as in
`SolListProofs`; every dispatch in progress, in whatever frame, stands on a
node that is allocated, or has nothing left; and the nodes it has still to call are those
after it (`Follows`).  A removal must keep that for all dispatches at once, the
suspended ones included, and `RemoveThreads` says that it does.  There is one
lemma for each action.  `Balance` and `Released` are about counts, `Push`,
`Front` and `Swap` about what a change of the stack does to the references of
frames, and `ModSum` about the counter, which wraps.

The argument for `SolObj`.  `Inv` is inductive; it is `TypeOK`, `ObjectCount` and
four parts that those need.  `Orderly`, about the operations in progress: a
getter has no argument, a setter's slot is one of its own object and no other
setter runs for it, and when a patch began no setter ran for the object it
patches, so that a patch never assigns the slot a setter is about to fill.
`Written`: only the slots of running setters hold memory that was never written.
`Unlinked`: a free address has no parent left, since it will be used again.
`Aged`: parents can be numbered so that every parent is older than its
children; cloning keeps that because an address that is used again has no
children, which only the counts show.

`Seen` is the tables as `SolStore` sees them, with nothing known of a slot while
its setter runs.  The counts are again about places: `Uses` is how many places of
a table hold an object, `UsesExcept` and `UsesCleared` say what one assignment and the end of
an object do to it, and `PushCalls`, `PopCalls`, `DropCalls` and `SwapCalls` what
each change of the operations in progress does to their references.  `Shift` and
`Balance` add the differences up.  `Living` says what counting is for: what is
referred to is alive, and an object that is given back as often as its count says
is referred to by nothing.  There is one lemma for each action (`...Keeps`).

For the refinement there is one more for each action, from `CloneCreates` to
`DestroyCollects`; most are a step in which the program forgets references.  A
lookup is two recursive functions in `SolStore`, over the parents and then over
the prototypes, without a bound, and a search in a finite set in `SolObj`.
`ClimbsExists` and `SearchExists` show by induction that those functions exist,
`SameLineage` that both specifications climb the same way, `LineageEnds` that
the climb meets NULL after at most as many steps as there are objects (ages fall, and
there are no more of them), and `LookupFinds` and `LookupFails` that the searches
agree.  `LookupsFind` states the result for every state, as `IsStore` uses it only
where a program looks.

The argument for `SolEval`.  `IInv` is inductive; it has two parts.

- `Good`, about the memory alone: objects have the fields of their types
  (`Shape`, `Sound`, `Kind`), a freed one refers to nothing, and `Balance`, the
  count of an object less the references that objects, scopes and the runtime hold of it and
  those that are lost, is never negative.  `Bal` is this balance: what is left for the C
  locals.
- `World`, about the frames and the memory: each frame holds what its function
  holds at that place (`Fits`, `Rely`), and what it runs or borrows it has from
  the frame below it, which has a reference (`Link`); the scopes are those of the function
  frames (`Depth`), each over its closure (`Shelf`); what is done next is
  something the innermost frame asked for (`AtOK`); and of every object the
  frames hold exactly `Bal`.  When the process has died in the middle of an
  operator, the frames hold no more than that (`Stable`).

`ObjectCount` is the last of these, `Borrowed` follows from the links,
because what a frame borrows is held below, `ScopesMatch` is `Depth` and
`Shelf`.  None of them is inductive alone.  That a function frame can borrow its
code needs that the function is held; that needs the count; and the count of
a value in a closure needs that the closures among the scopes are those of the
functions in progress.

The lemmas of `SolMemoryProofs` say of each operator on memories that it keeps
`Good`, what it does to `Bal`, and what it keeps alive.  `FreeSum` and
`Parts` are the arithmetic of `ReleaseAll`; `Leads` and `Limit` say that `Dead`, a
recursive function over sets of objects, ends in a set that `Freed` maps to
itself.  Two orders between memories carry the proof through an operator:
`Grows` (what lives stays what it is, and lists only become longer) and
`Follows`, which adds that no balance gets smaller, so that whatever C locals hold
goes on living.  `Secure` is what makes a variable safe: the values of the closures
among the scopes live in every memory that follows; it holds because functions in progress are
held.  `Register` and `Replace` have cases of their own for an entry
that is the last of its binding, which is where the code goes astray.  `RegisterAll`, `SetProps`
and the pairs of `wrap` and `unwrap` are inductions over their arguments, by `SetInduction`.
`LengthReadBack` composes the four writers with the reader, form by form; the
arithmetic is that of bytes (`Three`, `Four`).

In `SolEvalProofs` there is one lemma for each action (`...Keeps`), and a few
forms that they share: `Onward` (a frame goes on), `Pushes`, `Pops`,
`Leaves` and `Loses`, and `WithKeeps` to `ThrowKeeps` for what these do to `World`.
`Running` counts the functions in progress, so that a return takes away just
the scope and the closure that its call pushed.

Only model-checked: that an operation in progress always has a next step (the
other half of `Completes`), which speaks of ENABLED; the liveness
properties, which need fairness, `HandlingEnds`, `Returns` and `LoopDrains`; and
`Computes`, because the meaning of a program is recursive over its tree.

## What the code does not keep

- `token_update`: assigning to a variable a function is bound to, when the
  function's closure holds that variable, releases the function for ever.
  `sol_obj_release` releases the value of a closure entry before it takes the
  entry out of the map (`sol.c:81-84`), and the value is the function itself.
- `list_insert`: insertion breaks the links and reads follow NULL
  (`sollist.c:74-93`).
- `obj_setter`: a setter that reads the property it was called for gets the
  object that `sol.c:338` has just released; one that assigns it releases the
  old value twice; one that throws leaves the freed value in the entry.
- `load_cycle`: two modules that require each other load each other until the
  C stack is exhausted; only a module that names itself is noticed.

Met while modelling, in the models as faults or edits, and without a run of
their own: registering an undefined value reads its type (`soltoken.c:98`);
registering a token under the name it stands for resolves the token to the
entry being made (`soltoken.c:103`); every dispatch that finds a listener
follows an address that is none (`solevent.c:73`); the listeners of a freed
object are never released (`sol.c:43-121`); each call of a function adds four
references to the Booleans, and an error loses those of every C local it
passes (`sol.c:177`, `209`), as do `^`, `#`, `not`, `and`, `or`, `loop` and
`define` on their normal paths (`lost` in `SolEval`);
`sol_list_remove_obj` never decrements the length and follows NULL when the
list has one element (`sollist.c:35`; the library calls neither this nor the
insertion); a property that has only a getter or setter holds an uninitialised
value (`sol.c:409`); getters and setters are never released
(`sol.c:415`).

## What is not modelled

- Errors that leave `solar_load` itself: a native's init that throws, or a
  setter of a global that a module extends.  The module would not be entered
  and its natives would start again at the next require.
- The memory of table entries: `sol.c:56-62` does not free the bindings of
  prototypes.
- `ans` in `sol_func_execute` and `sol_runtime_execute` changes between
  `setjmp` and `longjmp` and is not volatile, so that its value is
  indeterminate in an optimised build.  The default build does not optimise.
- The size of the array of jump buffers (512), which the code never checks:
  `FrameStack` shows that only nesting can fill it.
- The text of errors, the layout of strings and the growth of their buffers,
  numbers that are no integers, `solutils.c`, the vendored `uthash.h` (a table is
  a function), libuv, libYAML and `dlopen`.
- The wrap of `retain_count` after 2^31 references to a Boolean: `ObjectCount`
  shows that the count only grows, the models have no width for it.
- The operators on prototypes and metadata are calls of the operations that
  `SolObj` has; programs of `SolEval` do not use them.

## Plan

Done: `SolToken` over `SolScope`, `SolCalls` over `SolTry`, `SolList` over `SolSequences`, `SolLoad`,
`SolEvent` and `SolObj` over `SolStore` with their proofs; `SolEval` with its
decoder, its proofs, and `SolMeaning`.

Worth doing next: setters and prototypes in `SolEval`, with their calls as frames; a
refinement of `SolToken` by `SolEval`, which would show that the cascades of
releases of the one add up to `ReleaseAll` of the other.
