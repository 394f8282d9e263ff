------------------------------ MODULE SolScope ------------------------------
(***************************************************************************)
(* What soltoken.h promises: lexical scoping.  A name stands for a         *)
(* variable, the one of the most local environment that has the name; a    *)
(* function keeps the variables that were visible when it was created; a   *)
(* token stands for the variable it names.  An address is used again only  *)
(* when no name leads to it any more.  Nothing is said of counts.          *)
(***************************************************************************)
EXTENDS Integers, Sequences

CONSTANTS Idents, Undefined, Objects, Tokens, IdentOf, Funcs, Scopes, Variables, Nil, NULL

VARIABLES
  chain,  \* the environments in scope, the most local first
  env,    \* env[m][n]: the variable that n names in environment m, or NULL
  val,    \* val[c]: the value of variable c
  held,   \* held[o]: references to o that the evaluator owns
  task    \* the name and the object of the registration in progress, or empty

\* The variable that n names, or NULL.
Variable(n) ==
  LET found == {i \in DOMAIN chain : env[chain[i]][n] # NULL}
  IN  IF found = {} THEN NULL
      ELSE env[chain[CHOOSE i \in found : \A j \in found : i <= j]][n]

Executed == {chain[i] : i \in DOMAIN chain} \cap Funcs
Usable(v) == v \in {Nil, NULL} \cup Executed \cup {o \in Objects : held[o] > 0}

Contents(m) == {val[env[m][n]] : n \in {k \in Idents : env[m][k] # NULL}} \cap Objects
Roots == {o \in Objects : held[o] > 0} \cup Executed \cup UNION {Contents(chain[i]) : i \in DOMAIN chain}

\* Some objects that have the roots and all that they lead to do without o.
Garbage(o) ==
  \E S \in SUBSET (Objects \ {o}) : Roots \subseteq S /\ \A f \in S \cap Funcs : Contents(f) \subseteq S

Empty == [n \in Idents |-> NULL]

Init ==
  /\ \E s \in Scopes : chain = <<s>>
  /\ env = [m \in Scopes \cup Funcs |-> Empty]
  /\ val = [c \in Variables |-> NULL]
  /\ held = [o \in Objects |-> 0]
  /\ task = <<>>

Idle == task = <<>>

Create(o) ==
  /\ Idle /\ held[o] = 0
  /\ held' = [held EXCEPT ![o] = 1]
  /\ UNCHANGED <<chain, env, val, task>>
  /\ Garbage(o)

Closure(f) ==
  /\ Idle /\ held[f] = 0
  /\ held' = [held EXCEPT ![f] = 1]
  /\ env' = [env EXCEPT ![f] = [n \in Idents |-> Variable(n)]]
  /\ UNCHANGED <<chain, val, task>>
  /\ Garbage(f)

Drop(o) ==
  /\ Idle /\ held[o] > 0
  /\ held' = [held EXCEPT ![o] = @ - 1]
  /\ UNCHANGED <<chain, env, val, task>>

Read(n, o) ==
  /\ Idle /\ held' = [held EXCEPT ![o] = @ + 1]
  /\ n # Undefined /\ Variable(n) # NULL /\ val[Variable(n)] = o
  /\ UNCHANGED <<chain, env, val, task>>

Open(s) ==
  /\ Idle /\ \A i \in DOMAIN chain : chain[i] # s
  /\ chain' = <<s>> \o chain
  /\ UNCHANGED <<env, val, held, task>>

\* A call: the environment of f, and a scope of its own.
Enter(f, s) ==
  /\ Idle /\ held[f] > 0 /\ \A i \in DOMAIN chain : chain[i] # s
  /\ chain' = <<s, f>> \o chain
  /\ held' = [held EXCEPT ![f] = @ - 1]
  /\ UNCHANGED <<env, val, task>>

\* The names of the most local scope are gone, and the call it belongs to is over.
Leave ==
  /\ Idle /\ Len(chain) > 1
  /\ LET rest == Tail(chain) IN
     IF Head(rest) \in Funcs
     THEN chain' = Tail(rest) /\ held' = [held EXCEPT ![Head(rest)] = @ + 1]
     ELSE chain' = rest /\ UNCHANGED held
  /\ env' = [env EXCEPT ![Head(chain)] = Empty]
  /\ UNCHANGED <<val, task>>

Token(v) == v \in Tokens /\ IdentOf[v] # Undefined

\* A registration takes the name away first, unless it is to stand for itself.
Begin(n, v) ==
  /\ Idle /\ Usable(v) /\ task' = <<n, v>>
  /\ IF Token(v) /\ IdentOf[v] = n
     THEN env[Head(chain)][n] # NULL /\ UNCHANGED env
     ELSE env' = [env EXCEPT ![Head(chain)][n] = NULL]
  /\ UNCHANGED <<chain, val, held>>

Finish(c) ==
  /\ ~Idle /\ task' = <<>>
  /\ env' = [env EXCEPT ![Head(chain)][task[1]] = c]
  /\ UNCHANGED <<chain, held>>

\* The variable that the object to register stands for.
Meant == IF Token(task[2]) THEN Variable(IdentOf[task[2]]) ELSE NULL

\* The name stands for the variable that the token names.
Alias == Finish(Meant) /\ Meant # NULL /\ UNCHANGED val

\* The name stands for a variable of its own, which no other name stands for.
Define(c) ==
  /\ Finish(c) /\ Meant = NULL
  /\ \A m \in Scopes \cup Funcs, n \in Idents : env[m][n] # c
  /\ val' = [val EXCEPT ![c] = IF task[2] \in Tokens /\ IdentOf[task[2]] = Undefined
                               THEN NULL ELSE task[2]]

\* All names of the variable see the new value.
Assign(c, v) ==
  /\ Idle /\ v # val[c]
  /\ val' = [val EXCEPT ![c] = v]
  /\ Usable(v) /\ \E n \in Idents : Variable(n) = c
  /\ UNCHANGED <<chain, env, held, task>>

\* A function loses its variables when nothing leads to it.
Forget(f, n) ==
  /\ env[f][n] # NULL
  /\ UNCHANGED <<chain, val, held, task>>
  /\ env' = [env EXCEPT ![f][n] = NULL]
  /\ Garbage(f)

\* What the evaluator asks for, by what it changes.
References ==
  /\ held' # held /\ UNCHANGED chain
  /\ \/ \E o \in Objects \ Funcs : Create(o)
     \/ \E f \in Funcs : Closure(f)
     \/ \E o \in Objects : Drop(o)
     \/ \E n \in Idents, o \in Objects : Read(n, o)

Scoping ==
  /\ chain' # chain
  /\ \/ \E s \in Scopes : Open(s)
     \/ \E f \in Funcs, s \in Scopes : Enter(f, s)
     \/ Leave

Names ==
  \/ task' # <<>> /\ \E n \in Idents, v \in Objects \cup {Nil} : Begin(n, v)
  \/ task' = <<>> /\ (Alias \/ \E c \in Variables : Define(c))
  \/ val' # val /\ \E c \in Variables, v \in Objects \cup {Nil, NULL} : Assign(c, v)

Next == References \/ Scoping \/ Names \/ \E f \in Funcs, n \in Idents : Forget(f, n)

Spec == Init /\ [][Next]_<<chain, env, val, held, task>>
=============================================================================
