------------------------------ MODULE SolList -------------------------------
(***************************************************************************)
(* Lists (sollist.c): doubly linked nodes between the pointers first and   *)
(* last of a list, with a length that every walk relies on.                *)
(*                                                                         *)
(* Spec has the operations that build, read and free lists, for callers    *)
(* that ask for indexes within a list and search only lists of defined     *)
(* objects.  SpecEdit adds sol_list_remove_obj and the general             *)
(* sol_list_insert_object.                                                 *)
(*                                                                         *)
(* X_Y is X with the mistake Y: no specification uses it, and a property   *)
(* must fail when it stands for X.                                         *)
(***************************************************************************)
EXTENDS Integers, Sequences, FiniteSets

CONSTANTS
  Lists,      \* addresses of lists
  Nodes,      \* addresses of nodes
  Objects,    \* objects the lists hold
  NULL,       \* no node; also a value, an undefined object
  Free,       \* the content of an address that is not allocated
  None,       \* no result
  MaxLength,  \* bound: elements of a list
  Edits       \* the editing operations of SpecEdit: "remove", "insert"

Values == Objects \cup {NULL}

\* What is allocated for a list, and for a node.
Headers == [first : Nodes \cup {NULL}, last : Nodes \cup {NULL}, length : 0 .. MaxLength]
Links == [next : Nodes \cup {NULL}, prev : Nodes \cup {NULL}, value : Values]

ASSUME AddressesAssumption == IsFiniteSet(Nodes) /\ NULL \notin Nodes
ASSUME ValuesAssumption == NULL \notin Objects
ASSUME FreeAssumption == Free \notin Headers \cup Links \cup Seq(Values)
ASSUME MaxLengthAssumption == MaxLength \in Nat
ASSUME EditsAssumption == Edits \subseteq {"remove", "insert"}

VARIABLES
  list,    \* list[l]: first, last and length of list l, or Free
  node,    \* node[n]: next, prev and value of node n, or Free
  count,   \* count[o]: references to o that lists own
  result,  \* what the last call returned
  fault    \* a NULL pointer was followed

vars == <<list, node, count, result, fault>>

Empty == [first |-> NULL, last |-> NULL, length |-> 0]
Live == {l \in Lists : list[l] # Free}
Unused == {n \in Nodes : node[n] = Free}

\* k steps from node n along field f ("next" or "prev") in nodes nd; NULL
\* also when the walk follows a NULL pointer.
Walk(nd, f, n, k) ==
  LET at[i \in 0 .. k] ==
        IF i = 0 THEN n ELSE IF at[i - 1] = NULL THEN NULL ELSE nd[at[i - 1]][f]
  IN  at[k]

-----------------------------------------------------------------------------
(* Building.  h is a heap: [list |-> ..., node |-> ...].                   *)

Heap == [list |-> list, node |-> node]

Chained_Forward(nd, p, n) == [nd EXCEPT ![p].next = n]

\* Node n is linked behind node p.
Chained(nd, p, n) == [nd EXCEPT ![p].next = n, ![n].prev = p]

\* sol_list_add_obj with new node n.
Add(h, l, n, v) ==
  LET s   == h.list[l]
      new == [h.node EXCEPT ![n] = [next |-> NULL, prev |-> NULL, value |-> v]]
      grown(first) == [h.list EXCEPT ![l] = [first |-> first, last |-> n, length |-> s.length + 1]]
  IN  IF s.first = NULL \/ s.last = NULL
        THEN [list |-> grown(n), node |-> new]
        ELSE [list |-> grown(s.first), node |-> Chained(new, s.last, n)]

\* The references taken when the values vs are put in nodes.
Retained_Once(vs) ==
  [o \in Objects |-> count[o] + IF \E i \in DOMAIN vs : vs[i] = o THEN 1 ELSE 0]

Retained(vs) == [o \in Objects |-> count[o] + Cardinality({i \in DOMAIN vs : vs[i] = o})]

\* The elements of vs are added one by one to list l of heap h.
AddAll(h, l, vs) ==
  \E ns \in [DOMAIN vs -> Unused] :
    /\ \A i, j \in DOMAIN vs : i # j => ns[i] # ns[j]
    /\ LET grown[k \in 0 .. Len(vs)] ==
             IF k = 0 THEN h ELSE Add(grown[k - 1], l, ns[k], vs[k])
       IN  list' = grown[Len(vs)].list /\ node' = grown[Len(vs)].node
    /\ count' = Retained(vs)

ListCreate(l) ==
  /\ ~fault /\ list[l] = Free
  /\ list' = [list EXCEPT ![l] = Empty]
  /\ result' = None
  /\ UNCHANGED <<node, count, fault>>

ListAdd(l, v) ==
  /\ ~fault /\ l \in Live /\ list[l].length < MaxLength
  /\ AddAll(Heap, l, <<v>>)
  /\ result' = None
  /\ UNCHANGED fault

\* sol_list_insert_object at the end.
InsertLast(l, v, i) ==
  /\ list[l].first = NULL \/ i = list[l].length
  /\ ListAdd(l, v)

\* The nodes of l from its first, at most k, as the loops of the slices reach them.
Reached(l, k) == {i \in 0 .. k - 1 : Walk(node, "next", list[l].first, i) # NULL}

\* Elements start .. end - 1, copied to a new list.
Copied(l, start, end) ==
  [i \in 1 .. end - start |-> node[Walk(node, "next", list[l].first, start + i - 1)].value]

SliceInto(l, m, start, end) ==
  /\ list[m] = Free
  /\ AddAll([Heap EXCEPT !.list[m] = Empty], m, Copied(l, start, end))
  /\ result' = None
  /\ UNCHANGED fault

\* sol_list_slice, and sol_list_slice_e with start 0.
Slice(l, m, start, end) ==
  /\ ~fault /\ start <= end /\ Cardinality(Reached(l, end)) = end
  /\ SliceInto(l, m, start, end)

\* sol_list_slice_s, which goes on to the last node and not by the length.
SliceFrom(l, m, start) ==
  /\ ~fault /\ Cardinality(Reached(l, start)) = start
  /\ SliceInto(l, m, start, Cardinality(Reached(l, MaxLength)))

-----------------------------------------------------------------------------
(* Reading. *)

Position_Late(l, i) ==
  IF i < list[l].length \div 2
    THEN Walk(node, "next", list[l].first, i)
    ELSE Walk(node, "prev", list[l].last, list[l].length - i)

\* Where sol_list_get_obj stops: it walks from the nearer end.
Position(l, i) ==
  IF i < list[l].length \div 2
    THEN Walk(node, "next", list[l].first, i)
    ELSE Walk(node, "prev", list[l].last, list[l].length - 1 - i)

\* A NULL pointer is followed.
Crash == fault' = TRUE /\ UNCHANGED <<list, node, count, result>>

\* The caller gives back the reference it gets.
ListGet(l, i) ==
  /\ ~fault /\ i < list[l].length
  /\ IF Position(l, i) = NULL
       THEN Crash
       ELSE result' = node[Position(l, i)].value /\ UNCHANGED <<list, node, count, fault>>

\* The walk of SOL_LIST_ITR ends at the length and at a NULL pointer.
Iterated(l) == Reached(l, list[l].length)
ElementAt(l, i) == node[Walk(node, "next", list[l].first, i)].value
Matches(l, v) == {i \in Iterated(l) : ElementAt(l, i) = v}
FirstMatch(l, v) == {i \in Matches(l, v) : \A j \in Matches(l, v) : i <= j}

\* sol_obj_equals reads the types of both objects, up to the first match.
ListIndexOf(l, v) ==
  LET searched == {i \in Iterated(l) : \A m \in FirstMatch(l, v) : i <= m} IN
  /\ ~fault
  /\ IF \E i \in searched : v = NULL \/ ElementAt(l, i) = NULL
       THEN Crash
       ELSE /\ result' = IF Matches(l, v) = {} THEN -1 ELSE CHOOSE i \in FirstMatch(l, v) : TRUE
            /\ UNCHANGED <<list, node, count, fault>>

-----------------------------------------------------------------------------
(* The last reference to a list is released (sol_obj_release).             *)

\* The nodes that a walk from node n along next visits.
Chain(n) == {Walk(node, "next", n, k) : k \in 0 .. Cardinality(Nodes)} \ {NULL}

Freed(l) == Chain(list[l].first)

Dropped_Twice(ns) ==
  [o \in Objects |-> count[o] - 2 * Cardinality({n \in ns : node[n].value = o})]

Dropped(ns) == [o \in Objects |-> count[o] - Cardinality({n \in ns : node[n].value = o})]

ListDestroy(l) ==
  /\ ~fault
  /\ list' = [list EXCEPT ![l] = Free]
  /\ node' = [n \in Nodes |-> IF n \in Freed(l) THEN Free ELSE node[n]]
  /\ count' = Dropped(Freed(l))
  /\ result' = None
  /\ UNCHANGED fault

-----------------------------------------------------------------------------
(* Editing. *)

\* Node n leaves; its value and the reference go to the caller, who releases it.
Unlink(n, ls, nd) ==
  /\ list' = ls
  /\ node' = [nd EXCEPT ![n] = Free]
  /\ count' = Dropped({n})
  /\ result' = node[n].value
  /\ UNCHANGED fault

RemoveFirst(l) ==
  LET n == list[l].first
      m == node[n].next
  IN  IF m = NULL THEN Crash
      ELSE Unlink(n, [list EXCEPT ![l].first = m], [node EXCEPT ![m].prev = NULL])

RemoveLast(l) ==
  LET n == list[l].last
      m == node[n].prev
  IN  IF m = NULL THEN Crash
      ELSE Unlink(n, [list EXCEPT ![l].last = m], [node EXCEPT ![m].next = NULL])

\* The walk starts at the far end: at the last node along next, or at the
\* first along prev.
RemovePosition(l, i) ==
  IF i < list[l].length \div 2
    THEN Walk(node, "next", list[l].last, i)
    ELSE Walk(node, "prev", list[l].first, list[l].length - 1 - i)

RemoveInner(l, i) ==
  LET n == RemovePosition(l, i) IN
  IF n = NULL \/ node[n].prev = NULL \/ node[n].next = NULL THEN Crash
  ELSE Unlink(n, list, [node EXCEPT ![node[n].prev].next = node[n].next,
                                    ![node[n].next].prev = node[n].prev])

ListRemove(l, i) ==
  /\ ~fault /\ i < list[l].length
  /\ IF i = 0 THEN RemoveFirst(l)
     ELSE IF i = list[l].length - 1 THEN RemoveLast(l)
     ELSE RemoveInner(l, i)

\* The loop of an insertion at index i > 0: every turn links the new node n
\* behind the current one, and the next turn starts from there.
Inserted(l, n, v, i) ==
  LET new == [node EXCEPT ![n] = [next |-> NULL, prev |-> NULL, value |-> v]]
      turn[k \in 0 .. i] ==
        IF k = 0 THEN [current |-> list[l].first, nd |-> new]
        ELSE LET c == turn[k - 1].current
                 m == turn[k - 1].nd
                 nd == [m EXCEPT ![n].next = m[c].next, ![n].prev = c]
             IN  [current |-> n, nd |-> [nd EXCEPT ![c].next = n]]
  IN  turn[i].nd

ListInsert(l, v, i) ==
  /\ ~fault /\ list[l].length < MaxLength /\ list[l].first # NULL /\ i < list[l].length
  /\ \E n \in Unused :
       IF i = 0
         THEN /\ node' = [node EXCEPT ![n] = [next |-> list[l].first, prev |-> NULL, value |-> v]]
              /\ list' = [list EXCEPT ![l].first = n, ![l].length = @ + 1]
         ELSE /\ node' = Inserted(l, n, v, i)
              /\ list' = [list EXCEPT ![l].length = @ + 1]
  /\ count' = Retained(<<v>>)
  /\ result' = None
  /\ UNCHANGED fault

-----------------------------------------------------------------------------
Init ==
  /\ list = [l \in Lists |-> Free]
  /\ node = [n \in Nodes |-> Free]
  /\ count = [o \in Objects |-> 0]
  /\ result = None
  /\ fault = FALSE

\* What a caller of sol_list_index_of must see to.
AllDefined(l) == \A i \in Iterated(l) : ElementAt(l, i) # NULL

Next ==
  \/ \E l \in Lists : ListCreate(l)
  \/ \E l \in Live :
       \/ \E v \in Values : ListAdd(l, v)
       \/ \E v \in Values, i \in 0 .. MaxLength : InsertLast(l, v, i)
       \/ \E m \in Lists, i, j \in 0 .. MaxLength : Slice(l, m, i, j)
       \/ \E m \in Lists, i \in 0 .. MaxLength : SliceFrom(l, m, i)
       \/ \E i \in 0 .. MaxLength : ListGet(l, i)
       \/ \E v \in Objects : AllDefined(l) /\ ListIndexOf(l, v)
       \/ ListDestroy(l)

Edit ==
  \E l \in Live, i \in 0 .. MaxLength :
    \/ "remove" \in Edits /\ ListRemove(l, i)
    \/ "insert" \in Edits /\ \E v \in Values : ListInsert(l, v, i)

Spec == Init /\ [][Next]_vars
SpecEdit == Init /\ [][Next \/ Edit]_vars

-----------------------------------------------------------------------------
(* Properties. *)

\* Lists and nodes are allocated or free, and nothing is counted below zero.
TypeOK ==
  /\ list \in [Lists -> {Free} \cup Headers]
  /\ node \in [Nodes -> {Free} \cup Links]
  /\ count \in [Objects -> Nat]
  /\ result \in Values \cup {None} \cup -1 .. MaxLength - 1
  /\ fault \in BOOLEAN

\* The k-th node of list l, from either end.
FromFirst(l, k) == Walk(node, "next", list[l].first, k)
FromLast(l, k) == Walk(node, "prev", list[l].last, k)

(* Both directions of a list visit the same nodes, as many as its length,  *)
(* and every allocated node is on exactly one list: sol_list_get_obj walks *)
(* from either end by the length, the slices and the release of a list     *)
(* walk to the last node whatever the length.                              *)
WellLinked ==
  /\ \A l \in Live :
       /\ FromFirst(l, list[l].length) = NULL
       /\ \A k \in 0 .. list[l].length - 1 :
            /\ FromFirst(l, k) \in Nodes /\ node[FromFirst(l, k)] # Free
            /\ FromFirst(l, k) = FromLast(l, list[l].length - 1 - k)
  /\ \A n \in Nodes \ Unused :
       \E l \in Live : n \in Chain(list[l].first) /\ \A m \in Live \ {l} : n \notin Chain(list[m].first)

\* An object has one reference for every node that holds it (sol_list_add_obj
\* and the slices retain, sol_obj_release gives back what the nodes hold).
RefsMatch == \A o \in Objects : count[o] = Cardinality({n \in Nodes \ Unused : node[n].value = o})

\* The elements that an iteration over list l meets.
Elements(l) ==
  [i \in 1 .. Cardinality(Iterated(l)) |-> ElementAt(l, i - 1)]

Seqs == INSTANCE SolSequences WITH
  NoList <- Free,
  contents <- [l \in Lists |-> IF list[l] = Free THEN Free ELSE Elements(l)],
  result <- IF fault THEN Free ELSE result

(* A list is a sequence: every operation changes its elements and returns  *)
(* what the comments of sollist.h say, and no call follows a NULL pointer. *)
IsSequence == Seqs!Spec

\* The same for a client that inserts elements (sollist.h:70-76).
InsertsElement == IsSequence
=============================================================================
