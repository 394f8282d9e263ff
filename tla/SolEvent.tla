------------------------------ MODULE SolEvent ------------------------------
(***************************************************************************)
(* Events: the listeners of objects (solevent.c), the operators that       *)
(* register listeners and dispatch events (solop.c:650-682), and the event *)
(* loop that sol_runtime_execute runs (runtime.c:183-213).                 *)
(*                                                                         *)
(* An object has a table from types to linked lists of listeners.  A       *)
(* dispatch starts a timer of zero milliseconds; when it fires, the        *)
(* listeners of the event's type are called one after the other, while     *)
(* the loop stands on the node of the listener that runs.  A listener is   *)
(* Sol code: it can register and remove listeners, dispatch, throw, and    *)
(* execute another program, whose loop then takes over the same timers.    *)
(*                                                                         *)
(* X_Y is X with the mistake Y: no specification uses it, and a property   *)
(* must fail when it stands for X.                                         *)
(***************************************************************************)
EXTENDS Integers, Sequences, FiniteSets

CONSTANTS
  Objects,    \* objects that have listeners
  Types,      \* types of events, the keys of an object's table
  Events,     \* objects that are dispatched
  Callbacks,  \* functions that listen
  Nodes,      \* addresses of list nodes
  NULL,
  Limit,      \* bound: unsigned integers are below it (UINT_MAX + 1)
  MaxHeld,    \* bound: references to one object that Sol code holds
  MaxTimers,  \* bound: timers pending
  MaxDepth,   \* bound: programs and listeners that nest
  MaxVain,    \* bound: removals of what is not registered
  MaxLost     \* bound: references to one object that are counted as lost

Things == Objects \cup Events \cup Callbacks
Channels == Objects \X Types

ASSUME KindsAssumption ==
  /\ IsFiniteSet(Nodes)
  /\ Objects \cap Events = {} /\ Objects \cap Callbacks = {} /\ Events \cap Callbacks = {}
  /\ NULL \notin Things \cup Nodes \cup Types
ASSUME BoundsAssumption == {Limit, MaxHeld, MaxTimers, MaxDepth, MaxVain, MaxLost} \subseteq Nat \ {0}

VARIABLES
  known,     \* the channels that have an entry in their object's table
  first,     \* listeners of the entry of each channel
  last,      \* listeners_end
  next,      \* next[n]: the pointer in node n
  callback,  \* callback[n]: the function in node n; NULL when n is free
  listeners, \* listener_count
  vain,      \* removals that found no listener
  timers,    \* timers started and not fired, in the order of the event loop
  stack,     \* programs, event loops and listeners in progress, outermost first
  count,     \* retain_count of each object; 0 when the address is free
  held,      \* references owned by Sol code
  lost,      \* references that nobody will give back
  fault      \* why the process died, or "none"

table == <<known, first, last, next, callback>>
counters == <<listeners, vain>>
vars == <<table, counters, timers, stack, count, held, lost, fault>>

Program == [kind |-> "program", object |-> NULL, event |-> NULL, node |-> NULL, due |-> {}]
Loop == [Program EXCEPT !.kind = "loop"]

\* The callback of node n runs; the nodes in due are to follow.
Listener(timer, n, due) ==
  [kind |-> "listener", object |-> timer.object, event |-> timer.event, node |-> n, due |-> due]

Depth == Len(stack)
Top == stack[Depth]
InLoop == fault = "none" /\ stack # <<>> /\ Top.kind = "loop"
InListener == fault = "none" /\ stack # <<>> /\ Top.kind = "listener"

\* Sol code runs, or the program that embeds the library.
Running == fault = "none" /\ (stack # <<>> => Top.kind # "loop")

Init ==
  /\ known = {} /\ first = [c \in Channels |-> NULL] /\ last = first
  /\ next = [n \in Nodes |-> NULL] /\ callback = next
  /\ listeners = 0 /\ vain = 0
  /\ timers = <<>> /\ stack = <<>>
  /\ count = [x \in Things |-> 0] /\ held = count /\ lost = count
  /\ fault = "none"

-----------------------------------------------------------------------------
(* References. *)

More(f, S) == [x \in DOMAIN f |-> IF x \in S THEN f[x] + 1 ELSE f[x]]
Less(f, S) == [x \in DOMAIN f |-> IF x \in S THEN f[x] - 1 ELSE f[x]]

\* Those in S that have not lost MaxLost references: an object that has lost
\* one is never freed, and what it loses from MaxLost on is not counted.
Lasting(S) == {x \in S : lost[x] < MaxLost}

\* One release of each object in S.  sol_obj_release frees an object without
\* a look at its table: the lists stay allocated and nothing leads to them.
Release(S) ==
  /\ count' = Less(count, S)
  /\ known' = {c \in known : count'[c[1]] > 0}
  /\ first' = [c \in Channels |-> IF c \in known' THEN first[c] ELSE NULL]
  /\ last'  = [c \in Channels |-> IF c \in known' THEN last[c] ELSE NULL]

ObjCreate(x) ==
  /\ Running /\ count[x] = 0
  /\ count' = More(count, {x}) /\ held' = More(held, {x})
  /\ UNCHANGED <<table, counters, timers, stack, lost, fault>>

ObjRetain(x) ==
  /\ Running /\ count[x] > 0 /\ held[x] < MaxHeld
  /\ count' = More(count, {x}) /\ held' = More(held, {x})
  /\ UNCHANGED <<table, counters, timers, stack, lost, fault>>

ObjRelease(x) ==
  /\ Running /\ held[x] > 0
  /\ held' = Less(held, {x})
  /\ Release({x})
  /\ UNCHANGED <<next, callback, counters, timers, stack, lost, fault>>

-----------------------------------------------------------------------------
(* Listeners. *)

\* The nodes from n on, along the pointers.
ChainFrom(n) ==
  LET walk[k \in 0 .. Cardinality(Nodes)] ==
        IF k = 0 THEN n ELSE IF walk[k - 1] = NULL THEN NULL ELSE next[walk[k - 1]]
  IN  {walk[k] : k \in DOMAIN walk} \ {NULL}

\* sol_event_listener_add appends, or starts the list (again).
ListenerAdd(o, t, f) ==
  LET c == <<o, t>> IN
  /\ Running /\ held[o] > 0 /\ held[f] > 0
  /\ listeners' = (listeners + 1) % Limit
  /\ known' = known \cup {c}
  /\ \E n \in Nodes :
       /\ callback[n] = NULL
       /\ callback' = [callback EXCEPT ![n] = f]
       /\ IF first[c] = NULL
          THEN first' = [first EXCEPT ![c] = n] /\ next' = [next EXCEPT ![n] = NULL]
          ELSE first' = first /\ next' = [next EXCEPT ![last[c]] = n, ![n] = NULL]
       /\ last' = [last EXCEPT ![c] = n]
  /\ count' = More(count, {f})
  /\ UNCHANGED <<vain, timers, stack, held, lost, fault>>

\* The nodes of channel c that hold f, and the node before n.
Matches(c, f) == {n \in ChainFrom(first[c]) : callback[n] = f}
FirstMatch(c, f) == {n \in Matches(c, f) : Matches(c, f) \subseteq ChainFrom(n)}
Before(c, n) ==
  IF first[c] = n THEN NULL ELSE CHOOSE p \in ChainFrom(first[c]) : next[p] = n

Unlinked_EndKept(c, n) == last
Unlinked(c, n) == IF next[n] = NULL THEN [last EXCEPT ![c] = Before(c, n)] ELSE last

\* The frames of dispatches, once n has been freed: one that stands on n has no node.
Left(n) ==
  [i \in DOMAIN stack |->
     [stack[i] EXCEPT !.node = IF @ = n THEN NULL ELSE @, !.due = @ \ {n}]]

RemoveFound(c, f, n) ==
  /\ n \in FirstMatch(c, f)
  /\ IF first[c] = n
     THEN first' = [first EXCEPT ![c] = next[n]] /\ next' = next
     ELSE first' = first /\ next' = [next EXCEPT ![Before(c, n)] = next[n]]
  /\ last' = Unlinked(c, n)
  /\ callback' = [callback EXCEPT ![n] = NULL]
  /\ count' = Less(count, {f})
  /\ stack' = Left(n)
  /\ UNCHANGED <<known, vain>>

Uncounted_Signed == listeners - 1
Uncounted_Never == listeners
Uncounted == (listeners - 1) % Limit

\* sol_event_listener_remove counts down before it looks.
ListenerRemove(o, t, f) ==
  /\ Running /\ held[o] > 0 /\ held[f] > 0
  /\ listeners' = Uncounted
  /\ \/ \E n \in Nodes : RemoveFound(<<o, t>>, f, n)
     \/ /\ Matches(<<o, t>>, f) = {} /\ vain < MaxVain
        /\ vain' = vain + 1
        /\ UNCHANGED <<table, stack, count>>
  /\ UNCHANGED <<timers, held, lost, fault>>

-----------------------------------------------------------------------------
(* Dispatch. *)

Dispatch(o, e) ==
  /\ Running /\ held[o] > 0 /\ held[e] > 0
  /\ Len(timers) < MaxTimers
  /\ timers' = Append(timers, [object |-> o, event |-> e])
  /\ count' = More(count, {o, e})
  /\ UNCHANGED <<table, counters, stack, held, lost, fault>>

\* The end of sol_event_callback.
GiveBack(timer) == Release({timer.object, timer.event})

\* The event has no "type": its value is read nevertheless.
FireUndefined ==
  /\ InLoop /\ timers # <<>>
  /\ fault' = "null"
  /\ UNCHANGED <<table, counters, timers, stack, count, held, lost>>

\* Nobody has ever listened to the type.
FireUnheard(t) ==
  /\ InLoop /\ timers # <<>> /\ <<Head(timers).object, t>> \notin known
  /\ timers' = Tail(timers)
  /\ GiveBack(Head(timers))
  /\ UNCHANGED <<next, callback, counters, stack, held, lost, fault>>

Heard(t) == InLoop /\ timers # <<>> /\ <<Head(timers).object, t>> \in known

\* The list of arguments is read as a frozen list: what follows the header is
\* not a pointer but a flag and padding, and the event is added to the list
\* at that address.
FireWild(t) ==
  /\ Heard(t)
  /\ fault' = "wild"
  /\ UNCHANGED <<table, counters, timers, stack, count, held, lost>>

\* The address happens to be one that can be written.  Its reference to the
\* event is never given back.
FireListeners(t) ==
  LET timer == Head(timers)
      n == first[<<timer.object, t>>] IN
  /\ Heard(t) /\ n # NULL
  /\ timers' = Tail(timers)
  /\ stack' = Append(stack, Listener(timer, n, ChainFrom(n) \ {n}))
  /\ count' = More(count, Lasting({timer.event}))
  /\ lost' = More(lost, Lasting({timer.event}))
  /\ UNCHANGED <<table, counters, held, fault>>

\* All listeners were removed.
FireNobody(t) ==
  LET timer == Head(timers) IN
  /\ Heard(t) /\ first[<<timer.object, t>>] = NULL
  /\ timers' = Tail(timers)
  /\ Release({timer.object, timer.event} \ Lasting({timer.event}))  \* the event's is lost
  /\ lost' = More(lost, Lasting({timer.event}))
  /\ UNCHANGED <<next, callback, counters, stack, held, fault>>

Following_First(n) == NULL
Following(n) == next[n]

NextListener ==
  LET n == Following(Top.node) IN
  /\ InListener /\ Top.node # NULL /\ n # NULL
  /\ stack' = [stack EXCEPT ![Depth].node = n, ![Depth].due = @ \ {n}]
  /\ UNCHANGED <<table, counters, timers, count, held, lost, fault>>

LastListener ==
  /\ InListener /\ Top.node # NULL /\ Following(Top.node) = NULL
  /\ stack' = SubSeq(stack, 1, Depth - 1)
  /\ GiveBack(Top)
  /\ UNCHANGED <<next, callback, counters, timers, held, lost, fault>>

\* The node has been freed meanwhile.
FreedListener ==
  /\ InListener /\ Top.node = NULL
  /\ fault' = "freed"
  /\ UNCHANGED <<table, counters, timers, stack, count, held, lost>>

-----------------------------------------------------------------------------
(* Programs. *)

\* sol_runtime_execute: by the embedding program, or by a "require".
Execute ==
  /\ Running /\ Depth < MaxDepth - 1  \* its loop will call listeners
  /\ stack' = Append(stack, Program)
  /\ UNCHANGED <<table, counters, timers, count, held, lost, fault>>

LoopRun ==
  /\ Running /\ stack # <<>> /\ Top.kind = "program"
  /\ stack' = [stack EXCEPT ![Depth] = Loop]
  /\ UNCHANGED <<table, counters, timers, count, held, lost, fault>>

Drained_Unheard == timers = <<>> /\ listeners = 0
Drained == timers = <<>>

LoopEnds ==
  /\ InLoop /\ Drained
  /\ stack' = SubSeq(stack, 1, Depth - 1)
  /\ UNCHANGED <<table, counters, timers, count, held, lost, fault>>

Dropped == IF Top.kind = "listener" THEN {Top.object, Top.event} ELSE {}

Abandoned_Kept == lost
\* A listener's error leaves sol_event_callback: nothing is given back.
Abandoned == More(lost, Lasting(Dropped))

\* The error ends the innermost program, with the loop that it may run.
Throw ==
  /\ Running /\ stack # <<>>
  /\ stack' = SubSeq(stack, 1, Depth - (IF Top.kind = "listener" THEN 2 ELSE 1))
  /\ lost' = Abandoned /\ count' = Less(count, Dropped \ Lasting(Dropped))
  /\ UNCHANGED <<table, counters, timers, held, fault>>

-----------------------------------------------------------------------------
Code ==
  \/ \E x \in Things : ObjCreate(x) \/ ObjRetain(x) \/ ObjRelease(x)
  \/ \E o \in Objects, t \in Types, f \in Callbacks : ListenerAdd(o, t, f) \/ ListenerRemove(o, t, f)
  \/ \E o \in Objects, e \in Events : Dispatch(o, e)
  \/ NextListener \/ LastListener \/ FreedListener
  \/ Execute \/ LoopRun \/ Throw

\* uv_run: the first timer fires, or there is none left.
Turn ==
  \/ FireUndefined
  \/ \E t \in Types : FireUnheard(t) \/ FireWild(t) \/ FireListeners(t) \/ FireNobody(t)
  \/ LoopEnds

Next == Code \/ Turn

\* The event loop does not stop by itself; Sol code may run for ever.
Spec == Init /\ [][Next]_vars /\ WF_vars(Turn)

-----------------------------------------------------------------------------
(* Properties. *)

Frames ==
  [kind : {"program", "loop", "listener"}, object : Objects \cup {NULL},
   event : Events \cup {NULL}, node : Nodes \cup {NULL}, due : SUBSET Nodes]

\* Pointers lead to nodes, and dispatches are of objects and events.
TypeOK ==
  /\ known \subseteq Channels
  /\ first \in [Channels -> Nodes \cup {NULL}] /\ last \in [Channels -> Nodes \cup {NULL}]
  /\ next \in [Nodes -> Nodes \cup {NULL}] /\ callback \in [Nodes -> Callbacks \cup {NULL}]
  /\ listeners \in 0 .. Limit - 1 /\ vain \in 0 .. MaxVain
  /\ timers \in Seq([object : Objects, event : Events]) /\ Len(timers) <= MaxTimers
  /\ stack \in Seq(Frames) /\ Depth <= MaxDepth
  /\ count \in [Things -> Nat] /\ held \in [Things -> 0 .. MaxHeld] /\ lost \in [Things -> Nat]
  /\ fault \in {"none", "null", "wild", "freed"}

Used == {n \in Nodes : callback[n] # NULL}
Chain(c) == ChainFrom(first[c])

(* The end pointer of each list is the last node that its links reach, and *)
(* the nodes of a list are allocated and in no other list: a registration  *)
(* that follows the removal of the only listener, or of the last one, is   *)
(* linked where a dispatch finds it (solevent.c:33-40, 52-59).             *)
Linked ==
  /\ \A c \in Channels :
       /\ Chain(c) \subseteq Used
       /\ IF Chain(c) = {} THEN last[c] = NULL ELSE last[c] \in Chain(c) /\ next[last[c]] = NULL
  /\ \A c, d \in Channels : c # d => Chain(c) \cap Chain(d) = {}

\* References to x in list nodes, in timers, and in dispatches under way.
Refs(x) ==
  Cardinality({n \in Nodes : callback[n] = x})
  + Cardinality({i \in DOMAIN timers : x \in {timers[i].object, timers[i].event}})
  + Cardinality({i \in DOMAIN stack : x \in {stack[i].object, stack[i].event}})

(* Counts are the references that exist, of the lost ones at most MaxLost   *)
(* (which suffice to keep an object): an object, its event and the         *)
(* functions that listen live at least until the dispatch is over, also    *)
(* when their owner has let go of them, when a listener throws out of the  *)
(* loop, or when another loop fires the timers (solop.c:664-677,           *)
(* solevent.c:39, 60, 73-80).                                              *)
ObjectCount == \A x \in Things : count[x] = held[x] + lost[x] + Refs(x)

(* listener_count, modulo its width, is the number of nodes, those of      *)
(* freed objects included, less the removals that found nothing: only for  *)
(* a client that frees no object with listeners and removes none twice     *)
(* does sol_event_has_work tell whether anybody listens (solevent.c:10-12, *)
(* 23, 44).                                                                *)
WorkCounted == listeners = (Cardinality(Used) - vain) % Limit

(* A dispatch that ends has called every listener that was registered when *)
(* it began and not removed since, whatever the listeners it called did to *)
(* the list (solevent.c:76-78).                                            *)
Delivered == [][Len(stack') = Depth - 1 /\ Top.kind = "listener" => Top.due = {}]_vars

Looping(k) == fault = "none" /\ Depth >= k /\ stack[k].kind = "loop"

\* Every program and listener returns to its loop, ends or throws.
Returning == \A k \in 1 .. MaxDepth : []<>(fault # "none" \/ Depth < k \/ Looping(k))

\* From some time on nothing is dispatched.
Settles == <>[][Len(timers') <= Len(timers)]_timers

(* A loop fires all the timers that wait, those that listeners have started  *)
(* and those that another loop has left included, and ends, unless the       *)
(* process dies: whatever is still registered, when every program and        *)
(* listener returns and dispatches come to an end (solevent.c:14-16,         *)
(* solop.c:664-682).  One that dispatches whenever it hears an event keeps   *)
(* its loop going.                                                           *)
LoopDrains ==
  Returning /\ Settles => \A k \in 1 .. MaxDepth : Looping(k) ~> ~Looping(k)
=============================================================================
