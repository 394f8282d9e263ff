------------------------------ MODULE SolStore ------------------------------
(***************************************************************************)
(* What sol.h promises of objects and their properties: every object has   *)
(* named values of its own and inherits the prototype values of its        *)
(* parents; an object lasts as long as anything refers to it.  Nothing is  *)
(* said of counts, entries or bindings.                                    *)
(***************************************************************************)
EXTENDS Integers

CONSTANTS Objs, Objects, Slots, Names, NULL, Absent, Unsettled

VARIABLES
  contents,  \* contents[s]: the value in slot s, Absent, or Unsettled while a setter runs
  parent,    \* parent[o]: the object o was cloned from
  alive,     \* the objects that exist
  roots      \* the objects the program can use without looking them up

\* Where a property of o is looked for: in o itself, then in the prototypes of
\* o and of its parents.
Lineage(o) == LET up[k \in Nat] == IF k = 0 THEN o
                                   ELSE IF up[k-1] = NULL THEN NULL ELSE parent[up[k-1]]
              IN  up

Lookup(o, n) ==
  IF contents[<<o, "property", n>>] # Absent THEN contents[<<o, "property", n>>]
  ELSE LET Definers(k) == Lineage(o)[k] # NULL /\ contents[<<Lineage(o)[k], "prototype", n>>] # Absent
           F[k \in Nat] == IF Lineage(o)[k] = NULL THEN Absent
                           ELSE IF Definers(k) THEN contents[<<Lineage(o)[k], "prototype", n>>]
                           ELSE F[k+1]
       IN  F[0]

Referred(o) == o \in {contents[s] : s \in Slots} \cup {parent[p] : p \in Objs}

\* The program may forget references, and learns no object but those in S.
Learn(S) == roots' \subseteq roots \cup (S \cap Objects)

Init ==
  /\ contents = [s \in Slots |-> Absent]
  /\ parent = [o \in Objs |-> NULL]
  /\ alive = {} /\ roots = {}

Create(o, p) ==
  /\ o \notin alive
  /\ alive' = alive \cup {o}
  /\ Learn({o})
  /\ IF o \in Objs /\ p \in roots \cup {NULL}
     THEN parent' = [parent EXCEPT ![o] = p] ELSE UNCHANGED parent
  /\ UNCHANGED contents

Read(v) == v # Unsettled /\ Learn({v}) /\ UNCHANGED <<contents, parent, alive>>

\* A value goes into a slot at once.
Put(s, v) ==
  /\ s[1] \in roots
  /\ contents[s] # Unsettled
  /\ contents' = [contents EXCEPT ![s] = v]
  /\ Learn({contents[s], v})
  /\ UNCHANGED <<parent, alive>>

\* A setter is asked what to put into the slot, and answers.
Begin(s, v) ==
  /\ s[1] \in roots
  /\ contents[s] # Unsettled
  /\ contents' = [contents EXCEPT ![s] = Unsettled]
  /\ Learn({contents[s], v})
  /\ UNCHANGED <<parent, alive>>

Finish(s, v) ==
  /\ contents[s] = Unsettled
  /\ contents' = [contents EXCEPT ![s] = v]
  /\ Learn({})
  /\ UNCHANGED <<parent, alive>>

\* Only an object that nothing refers to goes away.
Collect(o) ==
  /\ o \in alive /\ ~Referred(o) /\ o \notin roots'
  /\ alive' = alive \ {o}
  /\ contents' = [s \in Slots |-> IF s[1] = o THEN Absent ELSE contents[s]]
  /\ parent' = [p \in Objs |-> IF p = o THEN NULL ELSE parent[p]]
  /\ Learn({contents[s] : s \in {t \in Slots : t[1] = o}} \cup {parent[p] : p \in {o} \cap Objs})

Forget == Learn({}) /\ UNCHANGED <<contents, parent, alive>>

Next ==
  \/ Forget
  \/ \E o \in Objects, p \in Objs \cup {NULL} : Create(o, p)
  \/ \E o \in roots \cap Objs, n \in Names : Read(Lookup(o, n)) \/ Read(contents[<<o, "prototype", n>>])
  \/ \E s \in Slots, v \in roots \cup {contents[t] : t \in Slots} \cup {NULL} :
       v \notin {Absent, Unsettled} /\ (Put(s, v) \/ Begin(s, v))
  \/ \E s \in Slots, v \in roots \cup {NULL} : Finish(s, v)
  \/ \E o \in Objects : Collect(o)

Spec == Init /\ [][Next]_<<contents, parent, alive, roots>>
=============================================================================
