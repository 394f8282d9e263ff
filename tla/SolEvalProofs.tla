--------------------------- MODULE SolEvalProofs ----------------------------
(***************************************************************************)
(* Theorems about SolEval.  The inductive invariant IInv says of every     *)
(* frame on the stack what it waits for and what it holds, and that the    *)
(* count of every object is what the memory and the frames hold of it.     *)
(***************************************************************************)
EXTENDS SolEval, SolMemoryProofs, SequenceTheorems

-----------------------------------------------------------------------------
(* Frames. *)

FrameFields == {"fn", "i", "types", "code", "func", "self", "first", "slice", "args", "ans"}
FrameNames ==
  {"program", "list", "first", "self", "arguments", "call", "function", "expansion",
   "lambda", "connective", "condition", "loop"}

\* A live object of that type.
Is(m, a, type) == Alive(m, a) /\ m.heap[a].type = type
Maybe(m, a) == a = NULL \/ Alive(m, a)

\* A frame that holds what its function holds.
Fits(f) ==
  /\ DOMAIN f = FrameFields /\ f.fn \in FrameNames /\ (f.fn # "list" => f.i \in Nat)
  /\ f.self # NULL /\ (f.fn \notin {"self", "arguments", "call"} => f.self = Nil)
  /\ f.first # NULL => f.fn \in {"program", "arguments", "call", "loop"}
  /\ f.slice # NULL => f.fn \in {"arguments", "expansion"}
  /\ f.args # NULL => f.fn \in {"arguments", "call"}
  /\ f.ans # Nil => f.fn \in {"program", "list", "function", "expansion", "connective", "loop"}
  /\ f.fn = "list" => f.ans \notin {NULL, Nil}
  /\ f.fn = "arguments" => f.slice # NULL /\ f.i # 0
  /\ f.fn \in {"arguments", "call"} => f.args \notin {NULL, Nil}
  /\ f.fn \in {"program", "list"} => f.code = NULL
  /\ f.fn \in {"program", "list", "first", "self", "arguments", "call", "expansion"} => f.func = NULL
  /\ f.fn = "expansion" => f.code = f.slice /\ f.code # NULL
  /\ f.fn = "program" => f.first = NULL \/ f.ans = NULL
  /\ f.fn = "loop" => (f.i = 0 /\ f.first = NULL) \/ (f.i = 1 /\ f.ans = NULL)

\* A frame that waits for a value keeps none that this would replace.
Waits(f) ==
  /\ f.fn \in {"function", "expansion", "connective"} => f.ans = NULL
  /\ f.fn = "self" => f.self = Nil

\* A list whose first two items are functions.
Turns(m, a) ==
  /\ Alive(m, a)
  /\ \A k \in {1, 2} : k \in DOMAIN m.heap[a].items /\ Is(m, m.heap[a].items[k], "function")

\* What it runs is what its function runs.
Rely(m, f) ==
  /\ f.fn \in {"arguments", "call"} => Is(m, f.first, "function")
  /\ f.fn \in {"first", "self", "arguments", "call"} => Is(m, f.code, "list") /\ 1 \in DOMAIN m.heap[f.code].items
  /\ f.fn = "loop" => Turns(m, f.code)
  /\ f.fn = "lambda" => Alive(m, f.code) /\ 1 \in DOMAIN m.heap[f.code].items
  /\ f.fn \in {"function", "lambda", "connective", "condition", "loop"} => Is(m, f.func, "function") /\ f.code # NULL

\* Its locals own, or borrow, what lives.
Owns(m, f) == Maybe(m, f.self) /\ Maybe(m, f.first) /\ Maybe(m, f.slice) /\ Maybe(m, f.args) /\ Maybe(m, f.ans)
Lent(m, f) == Maybe(m, f.code) /\ Maybe(m, f.func)
FrameAt(m, f) == Fits(f) /\ Rely(m, f) /\ Owns(m, f) /\ Lent(m, f)

\* What a frame runs, or evaluates next.
Runs(m, g) ==
  CASE g.fn = "program" -> {g.first}
    [] g.fn = "arguments" -> Range(Items(m, g.slice))
    [] g.fn = "call" -> Range(Items(m, g.args))
    [] g.fn \in {"list", "loop"} -> {}
    [] OTHER -> Range(Items(m, g.code))

\* What a call has from the frame below.
Callees(m, g) ==
  CASE g.fn = "call" -> {g.first}
    [] g.fn = "loop" -> {m.heap[g.code].items[1], m.heap[g.code].items[2]}
    [] OTHER -> {}
Given(g) == IF g.fn = "call" THEN g.args ELSE Nil
Passed(m, g, func, args, self) ==
  func \in Callees(m, g) /\ args = Given(g) /\ self = (IF g.fn = "call" THEN g.self ELSE Nil)

\* What a frame holds without a reference it has from the frame below.
Link(m, g, f) ==
  /\ f.fn # "program" /\ Waits(g)
  /\ f.fn \in {"first", "self", "arguments", "call"} => f.code \in Runs(m, g)
  /\ f.fn = "function" =>
       f.func \in Callees(m, g) /\ 2 \in DOMAIN m.heap[f.func].items /\ f.code = m.heap[f.func].items[2]
  /\ f.fn \in {"lambda", "connective", "condition", "loop"} => f.func \in Callees(m, g) /\ f.code = Given(g)

Chain(m, fs) ==
  \A i \in DOMAIN fs :
    FrameAt(m, fs[i]) /\ (IF i = 1 THEN fs[i].fn = "program" ELSE Link(m, fs[i - 1], fs[i]))

\* The references that frames own.
Hold(f, a) == Ind(f.self, a) + Ind(f.first, a) + Ind(f.slice, a) + Ind(f.args, a) + Ind(f.ans, a)
Held(fs, a) == Occurrences(LocalRefs(fs), a)

\* The scopes of functions in progress, over their closures.
FunctionsIn(fs, h) == {g \in 1 .. h : fs[g].fn = "function"}
Calls(fs, h) == Cardinality(FunctionsIn(fs, h))
Depth(m, fs) == Len(m.scopes) = 2 * Calls(fs, Len(fs)) + 1
Shelf(m, fs) == \A h \in FunctionsIn(fs, Len(fs)) : m.scopes[2 * Calls(fs, h)] = m.heap[fs[h].func].closure

\* What is done next.
AtOK(m, f, next) ==
  \/ next.do \in {"start", "resume", "throw", "end"}
  \/ next.do = "read" /\ Waits(f)
  \/ next.do = "return" /\ next.obj \in Addr(m) /\ Waits(f)
  \/ next.do = "evaluate" /\ next.obj \in Runs(m, f) /\ Waits(f)
  \/ next.do = "call" /\ Passed(m, f, next.func, next.args, next.self)

\* The innermost frame, with what is returned to it.
Tip(f, next, a) == Hold(f, a) + (IF next.do = "return" THEN Ind(next.obj, a) ELSE 0)

\* A program that runs, and where it stops.
Stable(m, base, f) ==
  /\ Good(m) /\ m.stray = FALSE /\ IsSeq(base)
  /\ Chain(m, Append(base, f)) /\ Depth(m, Append(base, f)) /\ Shelf(m, Append(base, f))
  /\ \A a : a \notin {NULL, Nil} => Bal(m, a) >= Held(base, a) + Hold(f, a)
World(m, base, f, next) ==
  /\ Stable(m, base, f) /\ AtOK(m, f, next)
  /\ \A a : a \notin {NULL, Nil} => Bal(m, a) = Held(base, a) + Tip(f, next, a)

-----------------------------------------------------------------------------
(* Sequences of frames. *)

\* fs is base, and f.
Longer(base, f, fs) ==
  /\ IsSeq(fs) /\ Len(base) \in Nat /\ Len(fs) = Len(base) + 1 /\ DOMAIN fs = 1 .. Len(base) + 1
  /\ fs[Len(fs)] = f /\ fs[Len(base) + 1] = f /\ Front(fs) = base
  /\ DOMAIN base = 1 .. Len(base) /\ \A i \in 1 .. Len(base) : fs[i] = base[i]

LEMMA AppendFacts ==
  ASSUME NEW base, IsSeq(base), NEW f
  PROVE  Longer(base, f, Append(base, f))
<1>. PICK fs : fs = Append(base, f)
  OBVIOUS
<1>1. IsSeq(fs) /\ Len(fs) = Len(base) + 1 /\ DOMAIN fs = 1 .. Len(base) + 1 /\ fs[Len(base) + 1] = f
      /\ \A i \in 1 .. Len(base) : fs[i] = base[i]
  BY SeqMore
<1>2. Len(base) \in Nat /\ DOMAIN base = 1 .. Len(base) /\ base = [i \in 1 .. Len(base) |-> base[i]]
  BY SeqFacts
<1>3. Front(fs) = base
  <2>1. PICK n \in Nat : n = Len(base)
    BY <1>2
  <2>2. Len(fs) > 0
    BY <1>1, <2>1
  <2>3. PICK t : t = Front(fs)
    OBVIOUS
  <2>4. IsSeq(t) /\ Len(t) = Len(fs) - 1 /\ DOMAIN t = 1 .. Len(fs) - 1 /\ \A i \in DOMAIN t : t[i] = fs[i]
    BY <1>1, <2>2, <2>3, SeqFront
  <2>5. Len(t) = n /\ DOMAIN t = 1 .. n
    BY <1>1, <2>1, <2>4
  <2>6. t = [i \in 1 .. n |-> t[i]]
    BY <2>4, <2>5, SeqFacts
  <2>7. \A i \in 1 .. n : t[i] = base[i]
    BY <1>1, <2>1, <2>4, <2>5
  <2>. QED BY <1>2, <2>1, <2>3, <2>6, <2>7
<1>. QED BY <1>1, <1>2, <1>3 DEF Longer

LEMMA FrontLast ==
  ASSUME NEW fs, IsSeq(fs), Len(fs) > 0
  PROVE  /\ fs = Append(Front(fs), fs[Len(fs)]) /\ IsSeq(Front(fs))
         /\ \A f : [fs EXCEPT ![Len(fs)] = f] = Append(Front(fs), f)
<1>1. PICK t : t = Front(fs)
  OBVIOUS
<1>2. IsSeq(t) /\ Len(t) = Len(fs) - 1 /\ DOMAIN t = 1 .. Len(fs) - 1 /\ \A i \in DOMAIN t : t[i] = fs[i]
  BY <1>1, SeqFront
<1>3. Len(fs) \in Nat /\ DOMAIN fs = 1 .. Len(fs) /\ fs = [i \in 1 .. Len(fs) |-> fs[i]]
  BY SeqFacts
<1>4. PICK n \in Nat : n = Len(t) /\ Len(fs) = n + 1
  BY <1>2, <1>3
<1>5. ASSUME NEW f PROVE [fs EXCEPT ![Len(fs)] = f] = Append(t, f)
  <2>1. PICK u : u = Append(t, f)
    OBVIOUS
  <2>2. IsSeq(u) /\ Len(u) = n + 1 /\ DOMAIN u = 1 .. n + 1 /\ u[n + 1] = f /\ \A i \in 1 .. n : u[i] = t[i]
    BY <1>2, <1>4, <2>1, SeqMore
  <2>3. u = [i \in 1 .. n + 1 |-> u[i]]
    BY <2>2, SeqFacts
  <2>4. ASSUME NEW i \in 1 .. n + 1 PROVE u[i] = IF i = n + 1 THEN f ELSE fs[i]
    <3>1. i = n + 1 \/ i \in 1 .. n
      OBVIOUS
    <3>. QED BY <1>2, <1>4, <2>2, <3>1
  <2>5. PICK v : v = [fs EXCEPT ![Len(fs)] = f]
    OBVIOUS
  <2>6. v = [i \in 1 .. n + 1 |-> IF i = n + 1 THEN f ELSE fs[i]]
    BY <1>3, <1>4, <2>5
  <2>. QED BY <2>1, <2>3, <2>4, <2>5, <2>6
<1>6. [fs EXCEPT ![Len(fs)] = fs[Len(fs)]] = fs
  BY <1>3
<1>. QED BY <1>1, <1>2, <1>5, <1>6

LEMMA LocalsOcc ==
  ASSUME NEW f, NEW a
  PROVE  IsFiniteSet(DOMAIN Locals(f)) /\ Occurrences(Locals(f), a) = Hold(f, a) /\ Hold(f, a) \in Nat
<1>1. Hold(f, a) \in Nat
  BY DEF Hold, Ind
<1>. QED BY <1>1, OccFive DEF Locals, Hold

Five == 1 .. 5
Placed(r, fs) ==
  /\ IsFiniteSet(DOMAIN r)
  /\ \A p : p \in DOMAIN r <=> \E i \in DOMAIN fs, k \in Five : p = <<i, k>>
  /\ \A i \in DOMAIN fs, k \in Five : r[<<i, k>>] = Locals(fs[i])[k]

LEMMA LocalRefsFacts ==
  ASSUME NEW fs, IsSeq(fs)
  PROVE  Placed(LocalRefs(fs), fs) /\ IsFiniteSet(Five)
<1>1. DOMAIN LocalRefs(fs) = (DOMAIN fs) \X Five
  BY DEF LocalRefs, Five
<1>2. IsFiniteSet(DOMAIN fs) /\ IsFiniteSet(Five)
  <2>1. IsFiniteSet(Five)
    <3>1. PICK j \in Int, k \in Int : j = 1 /\ k = 5
      OBVIOUS
    <3>2. IsFiniteSet(j .. k)
      BY FS_Interval
    <3>. QED BY <3>1, <3>2 DEF Five
  <2>. QED BY <2>1, SeqFinite
<1>3. IsFiniteSet((DOMAIN fs) \X Five)
  BY <1>2, FS_Product
<1>4. ASSUME NEW i \in DOMAIN fs, NEW k \in Five PROVE LocalRefs(fs)[<<i, k>>] = Locals(fs[i])[k]
  <2>1. <<i, k>> \in (DOMAIN fs) \X (1 .. 5)
    BY DEF Five
  <2>. QED BY <2>1 DEF LocalRefs
<1>5. \A p : p \in (DOMAIN fs) \X Five <=> \E i \in DOMAIN fs, k \in Five : p = <<i, k>>
  OBVIOUS
<1>. QED BY <1>1, <1>2, <1>3, <1>4, <1>5 DEF Placed

LEMMA HeldMore ==
  ASSUME NEW base, IsSeq(base), NEW f, NEW a
  PROVE  /\ Held(Append(base, f), a) = Held(base, a) + Hold(f, a)
         /\ Held(base, a) \in Nat /\ Hold(f, a) \in Nat
<1>1. PICK fs : fs = Append(base, f)
  OBVIOUS
<1>2. Longer(base, f, fs)
  BY <1>1, AppendFacts
<1>3. PICK n \in Nat : n = Len(base)
  BY SeqFacts
<1>17. PICK e : e = n + 1
  OBVIOUS
<1>4. /\ IsSeq(fs) /\ fs[e] = f
      /\ \A i : i \in DOMAIN fs <=> i \in DOMAIN base \/ i = e
      /\ e \notin DOMAIN base /\ \A i \in DOMAIN base : fs[i] = base[i]
  <2>1. \A i : i \in 1 .. n + 1 <=> i \in 1 .. n \/ i = n + 1
    OBVIOUS
  <2>2. n + 1 \notin 1 .. n
    OBVIOUS
  <2>. QED BY <1>2, <1>3, <1>17, <2>1, <2>2 DEF Longer
<1>. DEFINE g == [p \in {e} \X Five |-> Locals(f)[p[2]]]
            b == [k \in Five |-> <<e, k>>]
<1>5. /\ DOMAIN g = {e} \X Five /\ \A p : p \in DOMAIN g <=> \E k \in Five : p = <<e, k>>
      /\ \A k \in Five : g[<<e, k>>] = Locals(f)[k]
  OBVIOUS
<1>6. /\ \A k \in Five : b[k] = <<e, k>>
      /\ \A k, l \in Five : b[k] = b[l] => l = k
  OBVIOUS
<1>. HIDE DEF g, b
<1>7. IsFiniteSet(DOMAIN g) /\ Occurrences(g, a) = Hold(f, a)
  <2>1. IsFiniteSet(DOMAIN Locals(f)) /\ DOMAIN Locals(f) = Five
    <3>1. DOMAIN Locals(f) = 1 .. 5
      BY DEF Locals
    <3>. QED BY <3>1, LocalsOcc DEF Five
  <2>2. \A k \in Five : b[k] \in DOMAIN g /\ g[b[k]] = Locals(f)[k]
    BY <1>5, <1>6
  <2>3. \A q \in DOMAIN g : \E k \in Five : b[k] = q
    BY <1>5, <1>6
  <2>4. Occurrences(g, a) = Occurrences(Locals(f), a)
    BY <1>6, <2>1, <2>2, <2>3, OccMoved
  <2>5. IsFiniteSet({e} \X Five)
    <3>1. PICK S : S = {e}
      OBVIOUS
    <3>2. IsFiniteSet(S)
      BY <3>1, FS_Singleton
    <3>. QED BY <2>1, <3>1, <3>2, FS_Product
  <2>. QED BY <1>5, <2>4, <2>5, LocalsOcc
<1>8. PICK r, h : r = LocalRefs(base) /\ h = LocalRefs(fs)
  OBVIOUS
<1>9. Placed(r, base) /\ Placed(h, fs)
  BY <1>4, <1>8, LocalRefsFacts
<1>10. IsFiniteSet(DOMAIN r)
  BY <1>9 DEF Placed
<1>11. DOMAIN r \cap DOMAIN g = {} /\ DOMAIN h = DOMAIN r \cup DOMAIN g
  <2>1. ASSUME NEW p PROVE /\ p \in DOMAIN h <=> p \in DOMAIN r \/ p \in DOMAIN g
                           /\ ~(p \in DOMAIN r /\ p \in DOMAIN g)
    <3>1. p \in DOMAIN r <=> \E i \in DOMAIN base, k \in Five : p = <<i, k>>
      BY <1>9 DEF Placed
    <3>2. p \in DOMAIN h <=> \E i \in DOMAIN fs, k \in Five : p = <<i, k>>
      BY <1>9 DEF Placed
    <3>. QED BY <1>4, <1>5, <3>1, <3>2
  <2>. QED BY <2>1
<1>12. ASSUME NEW p \in DOMAIN r PROVE h[p] = r[p]
  <2>1. PICK i \in DOMAIN base, k \in Five : p = <<i, k>>
    BY <1>9 DEF Placed
  <2>2. i \in DOMAIN fs /\ fs[i] = base[i]
    BY <1>4
  <2>3. h[<<i, k>>] = Locals(fs[i])[k] /\ r[<<i, k>>] = Locals(base[i])[k]
    BY <1>9, <2>2 DEF Placed
  <2>. QED BY <2>1, <2>2, <2>3
<1>13. ASSUME NEW p \in DOMAIN g PROVE h[p] = g[p]
  <2>1. PICK k \in Five : p = <<e, k>>
    BY <1>5
  <2>2. e \in DOMAIN fs /\ fs[e] = f
    BY <1>4
  <2>3. h[<<e, k>>] = Locals(fs[e])[k] /\ g[<<e, k>>] = Locals(f)[k]
    BY <1>5, <1>9, <2>2 DEF Placed
  <2>. QED BY <2>1, <2>2, <2>3
<1>14. Splits(r, g, h)
  BY <1>7, <1>10, <1>11, <1>12, <1>13 DEF Splits
<1>15. Occurrences(h, a) = Occurrences(r, a) + Occurrences(g, a)
  BY <1>14, OccSplit
<1>16. Occurrences(r, a) \in Nat
  BY <1>10, OccType
<1>. QED BY <1>1, <1>7, <1>8, <1>15, <1>16, LocalsOcc DEF Held

-----------------------------------------------------------------------------
(* Chains of frames, and the functions among them. *)

\* f stands on the last of base.
Rests(m, base, f) == IF base = <<>> THEN f.fn = "program" ELSE Link(m, base[Len(base)], f)

LEMMA NullSeq ==
  ASSUME NEW s, IsSeq(s)
  PROVE  /\ s = <<>> <=> Len(s) = 0
         /\ s # <<>> => Len(s) > 0 /\ Len(s) \in DOMAIN s
<1>1. Len(s) \in Nat /\ DOMAIN s = 1 .. Len(s) /\ s = [i \in 1 .. Len(s) |-> s[i]]
  BY SeqFacts
<1>2. ASSUME Len(s) = 0 PROVE s = <<>>
  BY <1>1, <1>2
<1>. QED BY <1>1, <1>2

LEMMA ChainMore ==
  ASSUME NEW m, NEW base, IsSeq(base), NEW f
  PROVE  Chain(m, Append(base, f)) <=> Chain(m, base) /\ FrameAt(m, f) /\ Rests(m, base, f)
<1>1. PICK fs : fs = Append(base, f)
  OBVIOUS
<1>2. Longer(base, f, fs)
  BY <1>1, AppendFacts
<1>3. PICK n \in Nat : n = Len(base)
  BY SeqFacts
<1>4. /\ DOMAIN base = 1 .. n /\ DOMAIN fs = 1 .. n + 1 /\ fs[n + 1] = f
      /\ \A i \in 1 .. n : fs[i] = base[i]
  BY <1>2, <1>3 DEF Longer
<1>5. base = <<>> <=> n = 0
  BY <1>3, NullSeq
<1>. DEFINE Ok(s, i) == FrameAt(m, s[i]) /\ (IF i = 1 THEN s[i].fn = "program" ELSE Link(m, s[i - 1], s[i]))
<1>6. ASSUME NEW i \in 1 .. n PROVE Ok(fs, i) <=> Ok(base, i)
  <2>1. fs[i] = base[i] /\ (i # 1 => fs[i - 1] = base[i - 1])
    BY <1>4
  <2>. QED BY <2>1
<1>7. Ok(fs, n + 1) <=> FrameAt(m, f) /\ Rests(m, base, f)
  <2>1. n = 0 => n + 1 = 1
    OBVIOUS
  <2>2. n # 0 => n + 1 # 1 /\ (n + 1) - 1 = n /\ fs[n] = base[n]
    BY <1>4
  <2>. QED BY <1>3, <1>4, <1>5, <2>1, <2>2 DEF Rests
<1>8. Chain(m, fs) <=> \A i \in 1 .. n + 1 : Ok(fs, i)
  BY <1>4 DEF Chain
<1>9. Chain(m, base) <=> \A i \in 1 .. n : Ok(base, i)
  BY <1>4 DEF Chain
<1>10. \A i : i \in 1 .. n + 1 <=> i \in 1 .. n \/ i = n + 1
  OBVIOUS
<1>. HIDE DEF Ok
<1>. QED BY <1>1, <1>6, <1>7, <1>8, <1>9, <1>10

\* How many functions are in progress.
Running(fs) == Calls(fs, Len(fs))

LEMMA CallsType ==
  ASSUME NEW fs, NEW h \in Nat
  PROVE  /\ IsFiniteSet(FunctionsIn(fs, h)) /\ Calls(fs, h) \in Nat /\ Calls(fs, 0) = 0
         /\ h + 1 \notin FunctionsIn(fs, h)
         /\ FunctionsIn(fs, h + 1) = FunctionsIn(fs, h) \cup {g \in {h + 1} : fs[g].fn = "function"}
         /\ fs[h + 1].fn = "function" => Calls(fs, h + 1) = Calls(fs, h) + 1
         /\ fs[h + 1].fn # "function" => Calls(fs, h + 1) = Calls(fs, h)
<1>1. PICK S : S = 1 .. h
  OBVIOUS
<1>2. IsFiniteSet(S)
  <2>1. PICK j \in Int : j = 1
    OBVIOUS
  <2>. QED BY <1>1, <2>1, FS_Interval
<1>3. FunctionsIn(fs, h) \subseteq S
  BY <1>1 DEF FunctionsIn
<1>4. IsFiniteSet(FunctionsIn(fs, h)) /\ Cardinality(FunctionsIn(fs, h)) \in Nat
  BY <1>2, <1>3, FS_Subset, FS_CardinalityType
<1>5. h + 1 \notin FunctionsIn(fs, h)
  BY DEF FunctionsIn
<1>6. FunctionsIn(fs, h + 1) = FunctionsIn(fs, h) \cup {g \in {h + 1} : fs[g].fn = "function"}
  <2>1. \A g : g \in 1 .. h + 1 <=> g \in 1 .. h \/ g = h + 1
    OBVIOUS
  <2>. QED BY <2>1 DEF FunctionsIn
<1>7. ASSUME fs[h + 1].fn = "function" PROVE Calls(fs, h + 1) = Calls(fs, h) + 1
  <2>1. FunctionsIn(fs, h + 1) = FunctionsIn(fs, h) \cup {h + 1}
    BY <1>6, <1>7
  <2>. QED BY <1>4, <1>5, <2>1, FS_AddElement DEF Calls
<1>8. ASSUME fs[h + 1].fn # "function" PROVE Calls(fs, h + 1) = Calls(fs, h)
  BY <1>6, <1>8 DEF Calls
<1>9. Calls(fs, 0) = 0
  <2>1. FunctionsIn(fs, 0) = {}
    BY DEF FunctionsIn
  <2>. QED BY <2>1, FS_EmptySet DEF Calls
<1>. QED BY <1>4, <1>5, <1>6, <1>7, <1>8, <1>9 DEF Calls

LEMMA CallsBase ==
  ASSUME NEW base, IsSeq(base), NEW f, NEW h \in 0 .. Len(base)
  PROVE  FunctionsIn(Append(base, f), h) = FunctionsIn(base, h) /\ Calls(Append(base, f), h) = Calls(base, h)
<1>1. PICK fs : fs = Append(base, f)
  OBVIOUS
<1>2. Longer(base, f, fs)
  BY <1>1, AppendFacts
<1>3. PICK n \in Nat : n = Len(base)
  BY SeqFacts
<1>4. \A i \in 1 .. n : fs[i] = base[i]
  BY <1>2, <1>3 DEF Longer
<1>5. \A i \in 1 .. h : i \in 1 .. n
  BY <1>3
<1>6. FunctionsIn(fs, h) = FunctionsIn(base, h)
  BY <1>4, <1>5 DEF FunctionsIn
<1>. QED BY <1>1, <1>6 DEF Calls

LEMMA RunningMore ==
  ASSUME NEW base, IsSeq(base), NEW f
  PROVE  /\ Running(base) \in Nat
         /\ f.fn = "function" => Running(Append(base, f)) = Running(base) + 1
         /\ f.fn # "function" => Running(Append(base, f)) = Running(base)
<1>1. PICK fs : fs = Append(base, f)
  OBVIOUS
<1>2. Longer(base, f, fs)
  BY <1>1, AppendFacts
<1>3. PICK n \in Nat : n = Len(base)
  BY SeqFacts
<1>4. Len(fs) = n + 1 /\ fs[n + 1] = f
  BY <1>2, <1>3 DEF Longer
<1>5. n \in 0 .. Len(base)
  BY <1>3
<1>6. Calls(fs, n) = Calls(base, n)
  BY <1>1, <1>5, CallsBase
<1>7. /\ Calls(base, n) \in Nat
      /\ f.fn = "function" => Calls(fs, n + 1) = Calls(fs, n) + 1
      /\ f.fn # "function" => Calls(fs, n + 1) = Calls(fs, n)
  BY <1>4, CallsType
<1>8. Running(base) = Calls(base, n) /\ Running(fs) = Calls(fs, n + 1)
  BY <1>3, <1>4 DEF Running
<1>. QED BY <1>1, <1>6, <1>7, <1>8

\* Functions in progress are counted up.
LEMMA CallsRise ==
  ASSUME NEW fs, NEW n \in Nat
  PROVE  \A h \in FunctionsIn(fs, n) : Calls(fs, h) \in 1 .. Calls(fs, n)
<1>. DEFINE S == {k \in Nat : \A h \in FunctionsIn(fs, k) : Calls(fs, h) \in 1 .. Calls(fs, k)}
<1>1. 0 \in S
  <2>1. FunctionsIn(fs, 0) = {}
    BY DEF FunctionsIn
  <2>. QED BY <2>1
<1>2. ASSUME NEW k \in Nat, k \in S PROVE k + 1 \in S
  <2>1. ASSUME NEW h \in FunctionsIn(fs, k + 1) PROVE Calls(fs, h) \in 1 .. Calls(fs, k + 1)
    <3>1. Calls(fs, k) \in Nat
      BY CallsType
    <3>2. Calls(fs, k + 1) \in {Calls(fs, k), Calls(fs, k) + 1}
      BY CallsType
    <3>3. CASE h \in FunctionsIn(fs, k)
      <4>1. Calls(fs, h) \in 1 .. Calls(fs, k)
        BY <1>2, <3>3
      <4>. QED BY <3>1, <3>2, <4>1
    <3>4. CASE h = k + 1 /\ fs[h].fn = "function"
      <4>1. Calls(fs, h) = Calls(fs, k) + 1
        BY <3>4, CallsType
      <4>. QED BY <3>1, <3>4, <4>1
    <3>. QED BY <3>3, <3>4, CallsType
  <2>. QED BY <2>1
<1>. HIDE DEF S
<1>3. n \in S
  BY <1>1, <1>2, SetInduction
<1>. QED BY <1>3 DEF S

\* Every one of them is counted.
LEMMA CallsHit ==
  ASSUME NEW fs, NEW n \in Nat, NEW c \in 1 .. Calls(fs, n)
  PROVE  \E h \in FunctionsIn(fs, n) : Calls(fs, h) = c
<1>. DEFINE S == {k \in Nat : \A d \in 1 .. Calls(fs, k) : \E h \in FunctionsIn(fs, k) : Calls(fs, h) = d}
<1>1. 0 \in S
  <2>1. Calls(fs, 0) = 0
    BY CallsType
  <2>2. 1 .. 0 = {}
    OBVIOUS
  <2>. QED BY <2>1, <2>2
<1>2. ASSUME NEW k \in Nat, k \in S PROVE k + 1 \in S
  <2>1. ASSUME NEW d \in 1 .. Calls(fs, k + 1) PROVE \E h \in FunctionsIn(fs, k + 1) : Calls(fs, h) = d
    <3>1. Calls(fs, k) \in Nat
      BY CallsType
    <3>2. FunctionsIn(fs, k) \subseteq FunctionsIn(fs, k + 1)
      BY CallsType
    <3>3. CASE d \in 1 .. Calls(fs, k)
      <4>1. PICK h \in FunctionsIn(fs, k) : Calls(fs, h) = d
        BY <1>2, <3>3
      <4>. QED BY <3>2, <4>1
    <3>4. CASE d \notin 1 .. Calls(fs, k)
      <4>1. fs[k + 1].fn = "function" /\ Calls(fs, k + 1) = Calls(fs, k) + 1
        BY <3>1, <3>4, CallsType
      <4>2. d = Calls(fs, k + 1)
        BY <3>1, <3>4, <4>1
      <4>3. k + 1 \in FunctionsIn(fs, k + 1)
        BY <4>1, CallsType
      <4>. QED BY <4>2, <4>3
    <3>. QED BY <3>3, <3>4
  <2>. QED BY <2>1
<1>. HIDE DEF S
<1>3. n \in S
  BY <1>1, <1>2, SetInduction
<1>. QED BY <1>3 DEF S

LEMMA ShelfMore ==
  ASSUME NEW m, NEW base, IsSeq(base), NEW f
  PROVE  /\ Depth(m, Append(base, f)) <=> Len(m.scopes) = 2 * Running(Append(base, f)) + 1
         /\ Shelf(m, Append(base, f)) <=>
              /\ Shelf(m, base)
              /\ f.fn = "function" => m.scopes[2 * Running(Append(base, f))] = m.heap[f.func].closure
<1>1. PICK fs : fs = Append(base, f)
  OBVIOUS
<1>2. Longer(base, f, fs)
  BY <1>1, AppendFacts
<1>3. PICK n \in Nat : n = Len(base)
  BY SeqFacts
<1>4. Len(fs) = n + 1 /\ fs[n + 1] = f /\ \A i \in 1 .. n : fs[i] = base[i]
  BY <1>2, <1>3 DEF Longer
<1>5. FunctionsIn(fs, n + 1) = FunctionsIn(fs, n) \cup {g \in {n + 1} : fs[g].fn = "function"}
  BY CallsType
<1>6. FunctionsIn(fs, n) = FunctionsIn(base, n)
  <2>1. n \in 0 .. Len(base)
    BY <1>3
  <2>. QED BY <1>1, <2>1, CallsBase
<1>7. ASSUME NEW h \in FunctionsIn(base, n) PROVE Calls(fs, h) = Calls(base, h) /\ fs[h] = base[h]
  <2>1. h \in 1 .. n
    BY DEF FunctionsIn
  <2>2. h \in 0 .. Len(base)
    BY <1>3, <2>1
  <2>. QED BY <1>1, <1>4, <2>1, <2>2, CallsBase
<1>. DEFINE P(s, h) == m.scopes[2 * Calls(s, h)] = m.heap[s[h].func].closure
<1>8. Shelf(m, fs) <=> \A h \in FunctionsIn(fs, n + 1) : P(fs, h)
  BY <1>4 DEF Shelf
<1>9. Shelf(m, base) <=> \A h \in FunctionsIn(base, n) : P(base, h)
  BY <1>3 DEF Shelf
<1>10. \A h \in FunctionsIn(base, n) : P(fs, h) <=> P(base, h)
  BY <1>7
<1>11. P(fs, n + 1) <=> m.scopes[2 * Running(fs)] = m.heap[f.func].closure
  BY <1>4 DEF Running
<1>. HIDE DEF P
<1>12. Shelf(m, fs) <=> Shelf(m, base) /\ (f.fn = "function" => P(fs, n + 1))
  BY <1>4, <1>5, <1>6, <1>8, <1>9, <1>10
<1>. QED BY <1>1, <1>11, <1>12 DEF Depth, Running

-----------------------------------------------------------------------------
(* What frames rely on stays, as long as what they own does. *)

\* From m to m2, with what lives staying what it is.
Later(m, m2) == Good(m) /\ Good(m2) /\ Grows(m, m2)

LEMMA ItemsStay ==
  ASSUME NEW m, NEW m2, Later(m, m2), NEW a, Maybe(m, a), Maybe(m2, a)
  PROVE  /\ IsSeq(Items(m, a)) /\ DOMAIN Items(m, a) \subseteq DOMAIN Items(m2, a)
         /\ \A i \in DOMAIN Items(m, a) : Items(m2, a)[i] = Items(m, a)[i] /\ Maybe(m, Items(m, a)[i])
         /\ Range(Items(m, a)) \subseteq Range(Items(m2, a))
         /\ \A x \in Range(Items(m, a)) : Maybe(m, x)
<1>1. CASE a = NULL
  <2>1. Items(m, a) = <<>> /\ Items(m2, a) = <<>>
    BY <1>1 DEF Items
  <2>2. IsSeq(<<>>) /\ DOMAIN <<>> = {}
    BY DEF IsSeq
  <2>. QED BY <2>1, <2>2 DEF Range
<1>2. CASE a # NULL
  <2>1. Alive(m, a) /\ Alive(m2, a) /\ a \in DOMAIN m.heap
    BY <1>2 DEF Maybe, Alive
  <2>2. Items(m, a) = m.heap[a].items /\ Items(m2, a) = m2.heap[a].items
    BY <1>2 DEF Items
  <2>3. /\ DOMAIN m.heap[a].items \subseteq DOMAIN m2.heap[a].items
        /\ \A i \in DOMAIN m.heap[a].items : m2.heap[a].items[i] = m.heap[a].items[i]
    BY <2>1 DEF Later, Grows
  <2>4. IsSeq(m.heap[a].items)
    BY <2>1 DEF Later, Good, Shape, Sound
  <2>5. \A i \in DOMAIN m.heap[a].items : m.heap[a].items[i] = NULL \/ Alive(m, m.heap[a].items[i])
    BY <2>1, OwnedAlive DEF Later, Good
  <2>. QED BY <2>2, <2>3, <2>4, <2>5 DEF Range, Maybe
<1>. QED BY <1>1, <1>2

LEMMA LaterSelf == ASSUME NEW m, Good(m) PROVE Later(m, m)
  BY GrowsSelf DEF Later, Good

LEMMA IsStays ==
  ASSUME NEW m, NEW m2, Later(m, m2), NEW a, NEW type, Is(m, a, type), Maybe(m2, a)
  PROVE  Is(m2, a, type)
<1>1. a \in DOMAIN m.heap /\ a # NULL
  BY NilAlive DEF Is, Alive, Later
<1>. QED BY <1>1 DEF Is, Alive, Maybe, Later, Grows

\* What a frame runs, and what it calls, lives.
LEMMA RunsAlive ==
  ASSUME NEW m, Good(m), NEW f, FrameAt(m, f)
  PROVE  /\ \A x \in Runs(m, f) : Maybe(m, x)
         /\ \A x \in Callees(m, f) : Is(m, x, "function") /\ Alive(m, Given(f)) /\ Alive(m, f.self)
<1>1. Later(m, m)
  BY LaterSelf
<1>2. Maybe(m, f.first) /\ Maybe(m, f.slice) /\ Maybe(m, f.args) /\ Maybe(m, f.code) /\ Maybe(m, f.self)
  BY DEF FrameAt, Owns, Lent
<1>3. \A x \in Runs(m, f) : Maybe(m, x)
  <2>1. \A x \in Range(Items(m, f.slice)) : Maybe(m, x)
    BY <1>1, <1>2, ItemsStay
  <2>2. \A x \in Range(Items(m, f.args)) : Maybe(m, x)
    BY <1>1, <1>2, ItemsStay
  <2>3. \A x \in Range(Items(m, f.code)) : Maybe(m, x)
    BY <1>1, <1>2, ItemsStay
  <2>. QED BY <1>2, <2>1, <2>2, <2>3 DEF Runs
<1>4. ASSUME NEW x \in Callees(m, f) PROVE Is(m, x, "function") /\ Alive(m, Given(f)) /\ Alive(m, f.self)
  <2>1. Alive(m, f.self)
    BY <1>2 DEF FrameAt, Fits, Maybe
  <2>2. CASE f.fn = "call"
    <3>1. Callees(m, f) = {f.first} /\ Given(f) = f.args
      BY <2>2 DEF Callees, Given
    <3>2. Is(m, f.first, "function") /\ f.args # NULL
      BY <2>2 DEF FrameAt, Rely, Fits
    <3>. QED BY <1>2, <2>1, <3>1, <3>2 DEF Maybe
  <2>3. CASE f.fn = "loop"
    <3>1. Callees(m, f) = {m.heap[f.code].items[1], m.heap[f.code].items[2]} /\ Given(f) = Nil
      BY <2>3 DEF Callees, Given
    <3>2. Turns(m, f.code)
      BY <2>3 DEF FrameAt, Rely
    <3>. QED BY <2>1, <3>1, <3>2, NilAlive DEF Turns
  <2>4. CASE f.fn \notin {"call", "loop"}
    <3>1. Callees(m, f) = {}
      BY <2>4 DEF Callees
    <3>. QED BY <3>1
  <2>. QED BY <2>2, <2>3, <2>4
<1>. QED BY <1>3, <1>4

LEMMA RunsStays ==
  ASSUME NEW m, NEW m2, Later(m, m2), NEW f, FrameAt(m, f), FrameAt(m2, f)
  PROVE  Runs(m, f) \subseteq Runs(m2, f) /\ Callees(m, f) = Callees(m2, f)
<1>1. /\ Maybe(m, f.first) /\ Maybe(m, f.slice) /\ Maybe(m, f.args) /\ Maybe(m, f.code)
      /\ Maybe(m2, f.first) /\ Maybe(m2, f.slice) /\ Maybe(m2, f.args) /\ Maybe(m2, f.code)
  BY DEF FrameAt, Owns, Lent
<1>2. /\ Range(Items(m, f.slice)) \subseteq Range(Items(m2, f.slice))
      /\ Range(Items(m, f.args)) \subseteq Range(Items(m2, f.args))
      /\ Range(Items(m, f.code)) \subseteq Range(Items(m2, f.code))
  BY <1>1, ItemsStay
<1>3. Runs(m, f) \subseteq Runs(m2, f)
  BY <1>2 DEF Runs
<1>4. CASE f.fn = "loop"
  <2>1. Turns(m, f.code) /\ Turns(m2, f.code)
    BY <1>4 DEF FrameAt, Rely
  <2>2. f.code \in DOMAIN m.heap /\ Alive(m2, f.code)
    BY <2>1 DEF Turns, Alive
  <2>3. {1, 2} \subseteq DOMAIN m.heap[f.code].items
    BY <2>1 DEF Turns
  <2>4. m.heap[f.code].items[1] = m2.heap[f.code].items[1] /\ m.heap[f.code].items[2] = m2.heap[f.code].items[2]
    BY <2>2, <2>3 DEF Later, Grows
  <2>. QED BY <1>3, <1>4, <2>4 DEF Callees
<1>5. CASE f.fn # "loop"
  BY <1>3, <1>5 DEF Callees
<1>. QED BY <1>4, <1>5

LEMMA LinkStays ==
  ASSUME NEW m, NEW m2, Later(m, m2), NEW g, FrameAt(m, g), FrameAt(m2, g),
         NEW f, FrameAt(m, f), Link(m, g, f)
  PROVE  Link(m2, g, f) /\ (f.fn # "expansion" => Lent(m2, f))
<1>1. Runs(m, g) \subseteq Runs(m2, g) /\ Callees(m, g) = Callees(m2, g)
  BY RunsStays
<1>2. Good(m2)
  BY DEF Later
<1>3. /\ \A x \in Runs(m2, g) : Maybe(m2, x)
      /\ \A x \in Callees(m2, g) : Is(m2, x, "function") /\ Alive(m2, Given(g))
  BY <1>2, RunsAlive
<1>4. f.fn \in FrameNames /\ Maybe(m, f.code) /\ Maybe(m, f.func)
  BY DEF FrameAt, Fits, Lent
<1>5. CASE f.fn \in {"first", "self", "arguments", "call"}
  <2>1. f.code \in Runs(m2, g) /\ f.func = NULL
    BY <1>1, <1>5 DEF Link, FrameAt, Fits
  <2>. QED BY <1>3, <1>5, <2>1 DEF Link, Lent, Maybe
<1>6. CASE f.fn = "function"
  <2>1. f.func \in Callees(m, g) /\ 2 \in DOMAIN m.heap[f.func].items /\ f.code = m.heap[f.func].items[2]
    BY <1>6 DEF Link
  <2>2. Is(m2, f.func, "function") /\ Is(m, f.func, "function")
    BY <1>1, <1>3, <1>6, <2>1 DEF FrameAt, Rely
  <2>3. f.func \in DOMAIN m.heap /\ Alive(m2, f.func) /\ f.func \in DOMAIN m2.heap
    BY <2>2 DEF Is, Alive
  <2>4. 2 \in DOMAIN m2.heap[f.func].items /\ f.code = m2.heap[f.func].items[2]
    BY <2>1, <2>3 DEF Later, Grows
  <2>5. Maybe(m2, f.code)
    BY <2>3, <2>4, OwnedAlive DEF Later, Good, Maybe
  <2>. QED BY <1>1, <1>6, <2>1, <2>3, <2>4, <2>5 DEF Link, Lent, Maybe
<1>7. CASE f.fn \in {"lambda", "connective", "condition", "loop"}
  <2>1. f.func \in Callees(m2, g) /\ f.code = Given(g)
    BY <1>1, <1>7 DEF Link
  <2>2. Alive(m2, f.func) /\ Alive(m2, f.code)
    BY <1>3, <2>1 DEF Is
  <2>. QED BY <1>7, <2>1, <2>2 DEF Link, Lent, Maybe
<1>8. CASE f.fn \in {"list", "expansion"}
  <2>1. f.func = NULL /\ (f.fn = "list" => f.code = NULL)
    BY <1>8 DEF FrameAt, Fits
  <2>. QED BY <1>8, <2>1 DEF Link, Lent, Maybe
<1>9. f.fn # "program"
  BY DEF Link
<1>. QED BY <1>4, <1>5, <1>6, <1>7, <1>8, <1>9 DEF FrameNames

LEMMA FrameStays ==
  ASSUME NEW m, NEW m2, Later(m, m2), NEW f, Fits(f), Rely(m, f), Owns(m2, f),
         Lent(m2, f) \/ f.fn \in {"program", "expansion"}
  PROVE  FrameAt(m2, f)
<1>1. Fits(f) /\ Rely(m, f)
  OBVIOUS
<1>2. Lent(m2, f)
  <2>1. f.fn = "program" => f.code = NULL /\ f.func = NULL
    BY <1>1 DEF Fits
  <2>2. f.fn = "expansion" => f.code = f.slice /\ f.func = NULL
    BY <1>1 DEF Fits
  <2>. QED BY <2>1, <2>2 DEF Lent, Owns, Maybe
<1>3. Rely(m2, f)
  <2>1. f.fn \in {"arguments", "call"} => Is(m2, f.first, "function")
    BY <1>1, IsStays DEF Rely, Owns
  <2>2. ASSUME f.fn \in {"first", "self", "arguments", "call"}
        PROVE  Is(m2, f.code, "list") /\ 1 \in DOMAIN m2.heap[f.code].items
    <3>1. Is(m, f.code, "list") /\ 1 \in DOMAIN m.heap[f.code].items
      BY <1>1, <2>2 DEF Rely
    <3>2. Is(m2, f.code, "list")
      BY <1>2, <3>1, IsStays DEF Lent
    <3>3. f.code \in DOMAIN m.heap /\ Alive(m2, f.code)
      BY <3>1, <3>2 DEF Is, Alive
    <3>. QED BY <3>1, <3>2, <3>3 DEF Later, Grows
  <2>3. ASSUME f.fn = "loop" PROVE Turns(m2, f.code)
    <3>1. Turns(m, f.code) /\ Maybe(m2, f.code)
      BY <1>1, <1>2, <2>3 DEF Rely, Lent
    <3>2. f.code \in DOMAIN m.heap /\ Alive(m2, f.code) /\ f.code \in DOMAIN m2.heap
      BY <3>1, NilAlive DEF Turns, Alive, Maybe, Later
    <3>3. ASSUME NEW k \in {1, 2}
          PROVE  k \in DOMAIN m2.heap[f.code].items /\ Is(m2, m2.heap[f.code].items[k], "function")
      <4>1. k \in DOMAIN m.heap[f.code].items /\ Is(m, m.heap[f.code].items[k], "function")
        BY <3>1 DEF Turns
      <4>2. k \in DOMAIN m2.heap[f.code].items /\ m2.heap[f.code].items[k] = m.heap[f.code].items[k]
        BY <3>2, <4>1 DEF Later, Grows
      <4>3. Maybe(m2, m2.heap[f.code].items[k])
        BY <3>2, <4>2, OwnedAlive DEF Later, Good, Maybe
      <4>. QED BY <4>1, <4>2, <4>3, IsStays
    <3>. QED BY <3>2, <3>3 DEF Turns
  <2>4. ASSUME f.fn \in {"function", "lambda", "connective", "condition", "loop"}
        PROVE  Is(m2, f.func, "function") /\ f.code # NULL
    <3>1. Is(m, f.func, "function") /\ f.code # NULL
      BY <1>1, <2>4 DEF Rely
    <3>. QED BY <1>2, <3>1, IsStays DEF Lent
  <2>5. ASSUME f.fn = "lambda" PROVE Alive(m2, f.code) /\ 1 \in DOMAIN m2.heap[f.code].items
    <3>1. Alive(m, f.code) /\ 1 \in DOMAIN m.heap[f.code].items /\ Maybe(m2, f.code)
      BY <1>1, <1>2, <2>5 DEF Rely, Lent
    <3>2. f.code \in DOMAIN m.heap /\ Alive(m2, f.code)
      BY <3>1, NilAlive DEF Alive, Maybe, Later
    <3>. QED BY <3>1, <3>2 DEF Later, Grows
  <2>. QED BY <2>1, <2>2, <2>3, <2>4, <2>5 DEF Rely
<1>. QED BY <1>1, <1>2, <1>3 DEF FrameAt

\* What has references of C locals lives.
LEMMA OwnsBy ==
  ASSUME NEW m, Good(m), NEW f, \A a : a \notin {NULL, Nil} => Bal(m, a) >= Hold(f, a)
  PROVE  Owns(m, f)
<1>1. ASSUME NEW x, x \in {f.self, f.first, f.slice, f.args, f.ans} PROVE Maybe(m, x)
  <2>1. CASE x \in {NULL, Nil}
    BY <2>1, NilAlive DEF Maybe
  <2>2. CASE x \notin {NULL, Nil}
    <3>1. Hold(f, x) >= 1
      <4>1. /\ Ind(f.self, x) \in {0, 1} /\ Ind(f.first, x) \in {0, 1} /\ Ind(f.slice, x) \in {0, 1}
            /\ Ind(f.args, x) \in {0, 1} /\ Ind(f.ans, x) \in {0, 1}
        BY DEF Ind
      <4>2. 1 \in {Ind(f.self, x), Ind(f.first, x), Ind(f.slice, x), Ind(f.args, x), Ind(f.ans, x)}
        BY <1>1 DEF Ind
      <4>. QED BY <4>1, <4>2 DEF Hold
    <3>2. Bal(m, x) >= Hold(f, x) /\ Bal(m, x) \in Nat /\ Hold(f, x) \in Nat
      BY <2>2, BalType, LocalsOcc
    <3>3. Bal(m, x) # 0
      BY <3>1, <3>2
    <3>. QED BY <3>3, BalAlive DEF Maybe
  <2>. QED BY <2>1, <2>2
<1>. QED BY <1>1 DEF Owns

\* C locals own what fs owns.
Covers(m, fs) == \A a : a \notin {NULL, Nil} => Bal(m, a) >= Held(fs, a)

LEMMA CoversMore ==
  ASSUME NEW m, Good(m), NEW base, IsSeq(base), NEW f, Covers(m, Append(base, f))
  PROVE  Covers(m, base) /\ Owns(m, f)
<1>1. ASSUME NEW a, a \notin {NULL, Nil} PROVE Bal(m, a) >= Held(base, a) /\ Bal(m, a) >= Hold(f, a)
  <2>1. Bal(m, a) >= Held(Append(base, f), a)
    BY <1>1 DEF Covers
  <2>2. /\ Held(Append(base, f), a) = Held(base, a) + Hold(f, a)
        /\ Held(base, a) \in Nat /\ Hold(f, a) \in Nat /\ Bal(m, a) \in Nat
    BY HeldMore, BalType
  <2>. QED BY <2>1, <2>2
<1>. QED BY <1>1, OwnsBy DEF Covers

LEMMA ChainStays ==
  ASSUME NEW m, NEW m2, Later(m, m2), NEW fs, IsSeq(fs), Chain(m, fs), Covers(m2, fs)
  PROVE  Chain(m2, fs)
<1>. DEFINE S == {n \in Nat : \A s : IsSeq(s) /\ Len(s) = n /\ Chain(m, s) /\ Covers(m2, s) => Chain(m2, s)}
<1>1. 0 \in S
  <2>1. ASSUME NEW s, IsSeq(s), Len(s) = 0 PROVE Chain(m2, s)
    <3>1. DOMAIN s = {}
      BY <2>1, SeqFacts
    <3>. QED BY <3>1 DEF Chain
  <2>. QED BY <2>1
<1>2. ASSUME NEW n \in Nat, n \in S PROVE n + 1 \in S
  <2>1. ASSUME NEW s, IsSeq(s), Len(s) = n + 1, Chain(m, s), Covers(m2, s) PROVE Chain(m2, s)
    <3>1. PICK base, f : base = Front(s) /\ f = s[Len(s)]
      OBVIOUS
    <3>2. s = Append(base, f) /\ IsSeq(base)
      <4>1. Len(s) > 0
        BY <2>1
      <4>. QED BY <2>1, <3>1, <4>1, FrontLast
    <3>3. Len(base) = n
      <4>1. PICK k \in Nat : k = Len(base)
        BY <3>2, SeqFacts
      <4>2. Longer(base, f, s)
        BY <3>2, AppendFacts
      <4>3. Len(s) = k + 1
        BY <4>1, <4>2 DEF Longer
      <4>. QED BY <2>1, <4>1, <4>3
    <3>4. Chain(m, base) /\ FrameAt(m, f) /\ Rests(m, base, f)
      BY <2>1, <3>2, ChainMore
    <3>5. Covers(m2, base) /\ Owns(m2, f)
      BY <2>1, <3>2, CoversMore DEF Later
    <3>6. Chain(m2, base)
      BY <1>2, <3>2, <3>3, <3>4, <3>5
    <3>7. FrameAt(m2, f) /\ Rests(m2, base, f)
      <4>1. CASE base = <<>>
        <5>1. f.fn = "program"
          BY <3>4, <4>1 DEF Rests
        <5>2. FrameAt(m2, f)
          BY <3>4, <3>5, <5>1, FrameStays DEF FrameAt
        <5>. QED BY <4>1, <5>1, <5>2 DEF Rests
      <4>2. CASE base # <<>>
        <5>1. PICK g : g = base[Len(base)]
          OBVIOUS
        <5>2. Len(base) \in DOMAIN base
          BY <3>2, <4>2, NullSeq
        <5>3. FrameAt(m, g) /\ FrameAt(m2, g)
          BY <3>4, <3>6, <5>1, <5>2 DEF Chain
        <5>4. Link(m, g, f)
          BY <3>4, <4>2, <5>1 DEF Rests
        <5>5. Link(m2, g, f) /\ (f.fn # "expansion" => Lent(m2, f))
          BY <3>4, <5>3, <5>4, LinkStays
        <5>6. FrameAt(m2, f)
          BY <3>4, <3>5, <5>5, FrameStays DEF FrameAt
        <5>. QED BY <4>2, <5>1, <5>5, <5>6 DEF Rests
      <4>. QED BY <4>1, <4>2
    <3>. QED BY <3>2, <3>6, <3>7, ChainMore
  <2>. QED BY <2>1
<1>. HIDE DEF S
<1>3. Nat \subseteq S
  BY <1>1, <1>2, SetInduction
<1>4. Len(fs) \in S
  BY <1>3, SeqFacts
<1>. QED BY <1>4 DEF S

LEMMA HeldType == ASSUME NEW fs, IsSeq(fs), NEW a PROVE Held(fs, a) \in Nat
<1>1. IsFiniteSet(DOMAIN LocalRefs(fs))
  BY LocalRefsFacts DEF Placed
<1>. QED BY <1>1, OccType DEF Held

LEMMA CoversLater ==
  ASSUME NEW m, NEW m2, Later(m, m2), \A x \in Counted(m) : Bal(m2, x) >= Bal(m, x),
         NEW fs, IsSeq(fs), Covers(m, fs)
  PROVE  Covers(m2, fs)
<1>1. ASSUME NEW a, a \notin {NULL, Nil} PROVE Bal(m2, a) >= Held(fs, a)
  <2>1. Bal(m, a) \in Nat /\ Bal(m2, a) \in Nat /\ Held(fs, a) \in Nat
    BY BalType, HeldType DEF Later
  <2>2. Bal(m, a) >= Held(fs, a)
    BY <1>1 DEF Covers
  <2>3. CASE a \in Counted(m)
    <3>1. Bal(m2, a) >= Bal(m, a)
      BY <2>3
    <3>. QED BY <2>1, <2>2, <3>1
  <2>4. CASE a \notin Counted(m)
    <3>1. Bal(m, a) = 0
      BY <2>4 DEF Bal
    <3>. QED BY <2>1, <2>2, <3>1
  <2>. QED BY <2>3, <2>4
<1>. QED BY <1>1 DEF Covers

\* The closures of functions in progress stay where they are.
LEMMA ShelfStays ==
  ASSUME NEW m, NEW m2, Later(m, m2), NEW fs, IsSeq(fs), Chain(m, fs), Chain(m2, fs), Shelf(m, fs),
         \A i \in 1 .. 2 * Running(fs) : m2.scopes[i] = m.scopes[i]
  PROVE  Shelf(m2, fs)
<1>1. PICK n \in Nat : n = Len(fs)
  BY SeqFacts
<1>2. PICK r : r = Running(fs)
  OBVIOUS
<1>3. r \in Nat /\ r = Calls(fs, n)
  BY <1>1, <1>2, CallsType DEF Running
<1>4. ASSUME NEW h \in FunctionsIn(fs, n) PROVE m2.scopes[2 * Calls(fs, h)] = m2.heap[fs[h].func].closure
  <2>1. PICK c : c = Calls(fs, h)
    OBVIOUS
  <2>2. c \in 1 .. r
    BY <1>3, <2>1, CallsRise
  <2>3. 2 * c \in 1 .. 2 * r
    BY <1>3, <2>2
  <2>4. m2.scopes[2 * c] = m.scopes[2 * c]
    BY <1>2, <2>3
  <2>5. m.scopes[2 * c] = m.heap[fs[h].func].closure
    BY <1>1, <2>1 DEF Shelf
  <2>6. h \in DOMAIN fs /\ fs[h].fn = "function"
    BY <1>1, SeqFacts DEF FunctionsIn
  <2>7. FrameAt(m, fs[h]) /\ FrameAt(m2, fs[h])
    BY <2>6 DEF Chain
  <2>8. Is(m, fs[h].func, "function") /\ Is(m2, fs[h].func, "function")
    BY <2>6, <2>7 DEF FrameAt, Rely
  <2>9. fs[h].func \in DOMAIN m.heap /\ Alive(m2, fs[h].func)
    BY <2>8 DEF Is, Alive
  <2>10. m2.heap[fs[h].func].closure = m.heap[fs[h].func].closure
    BY <2>9 DEF Later, Grows
  <2>. QED BY <2>1, <2>4, <2>5, <2>10
<1>. QED BY <1>1, <1>4 DEF Shelf

LEMMA EvenHalf ==
  ASSUME NEW k \in Nat, k % 2 # 1
  PROVE  \E d \in Nat : k = 2 * d
<1>1. k = 2 * (k \div 2) + (k % 2) /\ k \div 2 \in Nat /\ k % 2 \in {0, 1}
  OBVIOUS
<1>2. k % 2 = 0
  BY <1>1
<1>3. PICK d \in Nat : d = k \div 2
  BY <1>1
<1>4. k = 2 * d
  BY <1>1, <1>2, <1>3
<1>. QED BY <1>4

\* The local scope is a function's, and the closures below are of functions
\* that live.
LEMMA SecureIs ==
  ASSUME NEW m, Good(m), NEW fs, IsSeq(fs), Chain(m, fs), Depth(m, fs), Shelf(m, fs), Covers(m, fs)
  PROVE  Secure(m) /\ OddTop(m)
<1>1. PICK n \in Nat : n = Len(fs)
  BY SeqFacts
<1>2. PICK r : r = Running(fs)
  OBVIOUS
<1>3. r \in Nat /\ r = Calls(fs, n) /\ Len(m.scopes) = 2 * r + 1
  BY <1>1, <1>2, CallsType DEF Running, Depth
<1>4. OddTop(m)
  <2>1. (2 * r + 1) % 2 = 1
    BY <1>3
  <2>. QED BY <1>3, <2>1 DEF OddTop
<1>5. IsSeq(m.scopes) /\ DOMAIN m.scopes = 1 .. 2 * r + 1
  BY <1>3, SeqFacts DEF Good, Shape
<1>6. ASSUME NEW i \in DOMAIN m.scopes \ OwnScopes(m)
      PROVE  \E f \in DOMAIN m.heap : /\ m.heap[f].closure = m.scopes[i]
                                      /\ \A m2 : Follows(m, m2) => Alive(m2, f)
  <2>1. i \in 1 .. 2 * r + 1 /\ i % 2 # 1
    BY <1>5 DEF OwnScopes
  <2>2. PICK c \in 1 .. r : i = 2 * c
    <3>1. PICK k \in Nat : k = i
      BY <1>3, <2>1
    <3>2. \E d \in Nat : k = 2 * d
      BY <2>1, <3>1, EvenHalf
    <3>3. PICK d \in Nat : k = 2 * d
      BY <3>2
    <3>4. k >= 1 /\ k <= 2 * r + 1
      BY <1>3, <2>1, <3>1
    <3>5. d \in 1 .. r
      BY <1>3, <3>3, <3>4
    <3>. QED BY <3>1, <3>3, <3>5
  <2>3. PICK h \in FunctionsIn(fs, n) : Calls(fs, h) = c
    BY <1>3, CallsHit
  <2>4. m.scopes[i] = m.heap[fs[h].func].closure
    BY <1>1, <2>2, <2>3 DEF Shelf
  <2>5. h \in DOMAIN fs /\ fs[h].fn = "function"
    BY <1>1, SeqFacts DEF FunctionsIn
  <2>6. fs[h].func \in DOMAIN m.heap
    BY <2>5 DEF Chain, FrameAt, Rely, Is, Alive
  <2>7. ASSUME NEW m2, Follows(m, m2) PROVE Alive(m2, fs[h].func)
    <3>1. Later(m, m2) /\ \A x \in Counted(m) : Bal(m2, x) >= Bal(m, x)
      BY <2>7 DEF Follows, Later
    <3>2. Covers(m2, fs)
      BY <3>1, CoversLater
    <3>3. Chain(m2, fs)
      BY <3>1, <3>2, ChainStays
    <3>. QED BY <2>5, <3>3 DEF Chain, FrameAt, Rely, Is
  <2>. QED BY <2>4, <2>6, <2>7
<1>7. Secure(m)
  BY <1>6, SecureBy
<1>. QED BY <1>4, <1>7

\* What is known of a program that runs.
Sums(m, base, f, next, a) ==
  /\ Bal(m, a) = Held(base, a) + Tip(f, next, a)
  /\ Bal(m, a) \in Nat /\ Held(base, a) \in Nat /\ Tip(f, next, a) \in Nat /\ Hold(f, a) \in Nat
  /\ Tip(f, next, a) >= Hold(f, a)

LEMMA TipType ==
  ASSUME NEW f, NEW next, NEW a
  PROVE  Tip(f, next, a) \in Nat /\ Hold(f, a) \in Nat /\ Tip(f, next, a) >= Hold(f, a)
<1>1. Hold(f, a) \in Nat
  BY LocalsOcc
<1>2. Ind(next.obj, a) \in {0, 1}
  BY DEF Ind
<1>. QED BY <1>1, <1>2 DEF Tip

LEMMA StableFacts ==
  ASSUME NEW m, NEW base, NEW f, Stable(m, base, f)
  PROVE  /\ Good(m) /\ Straight(m) /\ IsSeq(base) /\ IsSeq(Append(base, f))
         /\ Chain(m, base) /\ FrameAt(m, f) /\ Rests(m, base, f)
         /\ Covers(m, Append(base, f)) /\ Secure(m) /\ OddTop(m) /\ Shelf(m, base)
         /\ Len(m.scopes) = 2 * Running(Append(base, f)) + 1
<1>1. /\ Good(m) /\ Straight(m) /\ IsSeq(base) /\ Chain(m, Append(base, f)) /\ Depth(m, Append(base, f))
      /\ Shelf(m, Append(base, f)) /\ \A a : a \notin {NULL, Nil} => Bal(m, a) >= Held(base, a) + Hold(f, a)
  BY DEF Stable, Straight
<1>2. Covers(m, Append(base, f))
  BY <1>1, HeldMore DEF Covers
<1>3. IsSeq(Append(base, f))
  BY <1>1, AppendFacts DEF Longer
<1>4. Secure(m) /\ OddTop(m)
  BY <1>1, <1>2, <1>3, SecureIs
<1>. QED BY <1>1, <1>2, <1>3, <1>4, ChainMore, ShelfMore

LEMMA WorldFacts ==
  ASSUME NEW m, NEW base, NEW f, NEW next, World(m, base, f, next)
  PROVE  Stable(m, base, f) /\ \A a : a \notin {NULL, Nil} => Sums(m, base, f, next, a)
<1>1. Stable(m, base, f) /\ \A a : a \notin {NULL, Nil} => Bal(m, a) = Held(base, a) + Tip(f, next, a)
  BY DEF World
<1>2. Good(m) /\ IsSeq(base)
  BY <1>1, StableFacts
<1>. QED BY <1>1, <1>2, BalType, HeldType, TipType DEF Sums

-----------------------------------------------------------------------------
(* Steps of programs. *)

\* The same scopes, but for the names of the last.
Flows(m, m2) ==
  /\ Later(m, m2) /\ Len(m2.scopes) = Len(m.scopes)
  /\ \A i \in 1 .. Len(m.scopes) : i # Len(m.scopes) => m2.scopes[i] = m.scopes[i]

LEMMA MovedFlows ==
  ASSUME NEW m, Good(m), NEW m2, Moved(m, m2)
  PROVE  Flows(m, m2)
  BY DEF Moved, Flows, Later

LEMMA ChangedFlows ==
  ASSUME NEW m, Good(m), NEW m2, Changed(m, m2)
  PROVE  Flows(m, m2)
  BY DEF Changed, Flows, Later

\* Addresses of locals.
Sited(m, f) ==
  /\ f.self \in Addr(m) /\ f.first \in Addr(m) /\ f.slice \in Addr(m) /\ f.args \in Addr(m) /\ f.ans \in Addr(m)

\* What is returned owns a reference.
Back(next, a) == IF next.do = "return" THEN Ind(next.obj, a) ELSE 0

LEMMA BackType ==
  ASSUME NEW f, NEW next, NEW a
  PROVE  Back(next, a) \in Nat /\ Tip(f, next, a) = Hold(f, a) + Back(next, a)
  BY DEF Back, Ind, Tip

LEMMA MaybeAddr ==
  ASSUME NEW m, Good(m), NEW a, Maybe(m, a)
  PROVE  a \in Addr(m)
  BY Addresses DEF Maybe, Alive, Good

LEMMA OwnsSited ==
  ASSUME NEW m, Good(m), NEW f, Owns(m, f)
  PROVE  Sited(m, f)
  BY MaybeAddr DEF Owns, Sited

LEMMA LaterAddr ==
  ASSUME NEW m, NEW m2, Later(m, m2)
  PROVE  Addr(m) \subseteq Addr(m2) /\ Counted(m) \subseteq Counted(m2)
<1>1. DOMAIN m.heap \subseteq DOMAIN m2.heap
  BY DEF Later, Grows
<1>2. Addr(m) = DOMAIN m.heap \cup {NULL} /\ Addr(m2) = DOMAIN m2.heap \cup {NULL}
  BY Addresses DEF Later, Good
<1>. QED BY <1>1, <1>2 DEF Counted

\* Nothing is owned where there is nothing.
LEMMA Nowhere ==
  ASSUME NEW m, Good(m), NEW a, a \notin {NULL, Nil}, a \notin Counted(m)
  PROVE  /\ Bal(m, a) = 0
         /\ \A f : Sited(m, f) => Hold(f, a) = 0
         /\ \A next : (next.do = "return" => next.obj \in Addr(m)) => Back(next, a) = 0
         /\ \A fs : IsSeq(fs) /\ Covers(m, fs) => Held(fs, a) = 0
<1>1. Bal(m, a) = 0
  BY DEF Bal
<1>2. a \notin Addr(m)
  BY Addresses DEF Counted, Good
<1>3. ASSUME NEW f, Sited(m, f) PROVE Hold(f, a) = 0
  <2>1. /\ Ind(f.self, a) = 0 /\ Ind(f.first, a) = 0 /\ Ind(f.slice, a) = 0
        /\ Ind(f.args, a) = 0 /\ Ind(f.ans, a) = 0
    BY <1>2, <1>3 DEF Sited, Ind
  <2>. QED BY <2>1 DEF Hold
<1>4. ASSUME NEW next, next.do = "return" => next.obj \in Addr(m) PROVE Back(next, a) = 0
  BY <1>2, <1>4 DEF Back, Ind
<1>5. ASSUME NEW fs, IsSeq(fs), Covers(m, fs) PROVE Held(fs, a) = 0
  <2>1. Bal(m, a) >= Held(fs, a) /\ Held(fs, a) \in Nat
    BY <1>5, HeldType DEF Covers
  <2>. QED BY <1>1, <2>1
<1>. QED BY <1>1, <1>3, <1>4, <1>5

\* What is done next is something that f does, in m.
Ready(m, f, next) ==
  /\ next.do = "return" => next.obj \in Addr(m)
  /\ FrameAt(m, f) => AtOK(m, f, next)

\* The frame is the same, but for its locals.
Alike(f, f2) ==
  /\ f2.code = f.code /\ f2.func = f.func
  /\ f2.fn = f.fn \/ {f.fn, f2.fn} \subseteq {"first", "self", "arguments", "call"}

LEMMA KeptFrame ==
  ASSUME NEW m, NEW m2, Later(m, m2), NEW base, IsSeq(base), Chain(m, base), Chain(m2, base),
         NEW f, FrameAt(m, f), Rests(m, base, f), NEW f2, Alike(f, f2), Fits(f2), Owns(m2, f2),
         f2.fn \in {"arguments", "call"} => Is(m, f2.first, "function")
  PROVE  FrameAt(m2, f2) /\ Rests(m2, base, f2)
<1>1. Rely(m, f2)
  BY DEF FrameAt, Rely, Alike
<1>2. CASE base = <<>>
  <2>1. f2.fn = "program"
    BY <1>2 DEF Rests, Alike
  <2>2. FrameAt(m2, f2)
    BY <1>1, <2>1, FrameStays
  <2>. QED BY <1>2, <2>1, <2>2 DEF Rests
<1>3. CASE base # <<>>
  <2>1. PICK g : g = base[Len(base)]
    OBVIOUS
  <2>2. Len(base) \in DOMAIN base
    BY <1>3, NullSeq
  <2>3. FrameAt(m, g) /\ FrameAt(m2, g)
    BY <2>1, <2>2 DEF Chain
  <2>4. Link(m, g, f)
    BY <1>3, <2>1 DEF Rests
  <2>5. Link(m2, g, f) /\ (f.fn # "expansion" => Lent(m2, f))
    BY <2>3, <2>4, LinkStays
  <2>6. Link(m2, g, f2)
    BY <2>5 DEF Link, Alike
  <2>7. Lent(m2, f2) \/ f2.fn = "expansion"
    BY <2>5 DEF Lent, Alike
  <2>8. FrameAt(m2, f2)
    BY <1>1, <2>7, FrameStays
  <2>. QED BY <1>3, <2>1, <2>6, <2>8 DEF Rests
<1>. QED BY <1>2, <1>3

\* The scopes are those of fs.
Falls(m, m2, fs) ==
  /\ Later(m, m2) /\ Len(m2.scopes) = 2 * Running(fs) + 1
  /\ \A i \in 1 .. 2 * Running(fs) : m2.scopes[i] = m.scopes[i]

LEMMA FlowsFalls ==
  ASSUME NEW m, NEW base, NEW f, Stable(m, base, f), NEW m2, Flows(m, m2)
  PROVE  /\ Falls(m, m2, Append(base, f))
         /\ f.fn # "function" => Falls(m, m2, base)
<1>1. IsSeq(base) /\ Len(m.scopes) = 2 * Running(Append(base, f)) + 1
  BY StableFacts
<1>2. PICK r : r = Running(Append(base, f))
  OBVIOUS
<1>3. r \in Nat
  BY <1>1, <1>2, RunningMore
<1>4. Len(m2.scopes) = 2 * r + 1 /\ Len(m.scopes) = 2 * r + 1
  BY <1>1, <1>2 DEF Flows
<1>5. ASSUME NEW i \in 1 .. 2 * r PROVE m2.scopes[i] = m.scopes[i]
  <2>1. i \in 1 .. Len(m.scopes) /\ i # Len(m.scopes)
    BY <1>3, <1>4
  <2>. QED BY <2>1 DEF Flows
<1>6. Falls(m, m2, Append(base, f))
  BY <1>2, <1>4, <1>5 DEF Falls, Flows
<1>7. f.fn # "function" => Running(base) = r
  BY <1>1, <1>2, RunningMore
<1>. QED BY <1>4, <1>5, <1>6, <1>7 DEF Falls, Flows

LEMMA Arrive ==
  ASSUME NEW m, Good(m), Straight(m), NEW base, IsSeq(base), NEW f, Chain(m, base), FrameAt(m, f),
         Rests(m, base, f), Shelf(m, Append(base, f)), Len(m.scopes) = 2 * Running(Append(base, f)) + 1,
         NEW next, Ready(m, f, next),
         \A a : a \notin {NULL, Nil} => Bal(m, a) = Held(base, a) + Tip(f, next, a)
  PROVE  World(m, base, f, next)
<1>1. m.stray = FALSE
  BY DEF Straight, Good, Shape
<1>2. \A a : a \notin {NULL, Nil} => Bal(m, a) >= Held(base, a) + Hold(f, a)
  <2>1. ASSUME NEW a, a \notin {NULL, Nil} PROVE Bal(m, a) >= Held(base, a) + Hold(f, a)
    <3>1. Bal(m, a) = Held(base, a) + Tip(f, next, a)
      BY <2>1
    <3>2. Held(base, a) \in Nat /\ Tip(f, next, a) \in Nat /\ Hold(f, a) \in Nat /\ Tip(f, next, a) >= Hold(f, a)
      BY HeldType, TipType
    <3>. QED BY <3>1, <3>2
  <2>. QED BY <2>1
<1>3. Chain(m, Append(base, f))
  BY ChainMore
<1>4. Depth(m, Append(base, f))
  BY ShelfMore
<1>5. AtOK(m, f, next)
  BY DEF Ready
<1>. QED BY <1>1, <1>2, <1>3, <1>4, <1>5 DEF World, Stable

\* A frame on top of those of fs, the last of which is g.
LEMMA Onto ==
  ASSUME NEW m, NEW fs, IsSeq(fs), Chain(m, fs), Shelf(m, fs), NEW b, IsSeq(b), NEW g, fs = Append(b, g),
         NEW m2, Falls(m, m2, fs), Straight(m2), NEW f, f.fn # "function",
         FrameAt(m2, g) /\ Owns(m2, f) => FrameAt(m2, f) /\ Link(m2, g, f),
         NEW next, Ready(m2, f, next),
         \A a : a \notin {NULL, Nil} => Bal(m2, a) = Held(fs, a) + Tip(f, next, a)
  PROVE  World(m2, fs, f, next)
<1>1. Later(m, m2) /\ Good(m2)
  BY DEF Falls, Later
<1>2. Covers(m2, Append(fs, f))
  <2>1. ASSUME NEW a, a \notin {NULL, Nil} PROVE Bal(m2, a) >= Held(Append(fs, f), a)
    <3>1. Bal(m2, a) = Held(fs, a) + Tip(f, next, a) /\ Held(Append(fs, f), a) = Held(fs, a) + Hold(f, a)
      BY <2>1, HeldMore
    <3>2. Held(fs, a) \in Nat /\ Tip(f, next, a) \in Nat /\ Hold(f, a) \in Nat /\ Tip(f, next, a) >= Hold(f, a)
      BY HeldType, TipType
    <3>. QED BY <3>1, <3>2
  <2>. QED BY <2>1 DEF Covers
<1>3. Covers(m2, fs) /\ Owns(m2, f)
  BY <1>1, <1>2, CoversMore
<1>4. Chain(m2, fs)
  BY <1>1, <1>3, ChainStays
<1>5. FrameAt(m2, g)
  BY <1>4, ChainMore
<1>6. FrameAt(m2, f) /\ Link(m2, g, f)
  BY <1>3, <1>5
<1>7. fs # <<>> /\ fs[Len(fs)] = g
  <2>1. Longer(b, g, fs)
    BY AppendFacts
  <2>2. PICK n \in Nat : n = Len(b)
    BY SeqFacts
  <2>3. Len(fs) = n + 1
    BY <2>1, <2>2 DEF Longer
  <2>4. Len(fs) # 0
    BY <2>3
  <2>. QED BY <2>1, <2>4, NullSeq DEF Longer
<1>8. Rests(m2, fs, f)
  BY <1>6, <1>7 DEF Rests
<1>9. Shelf(m2, fs)
  BY <1>4, ShelfStays DEF Falls
<1>10. Running(Append(fs, f)) = Running(fs)
  BY RunningMore
<1>11. Shelf(m2, Append(fs, f)) /\ Len(m2.scopes) = 2 * Running(Append(fs, f)) + 1
  BY <1>9, <1>10, ShelfMore DEF Falls
<1>. QED BY <1>1, <1>4, <1>6, <1>8, <1>11, Arrive

\* The innermost frame goes on.
LEMMA KeepStep ==
  ASSUME NEW m, NEW base, NEW f, NEW next, World(m, base, f, next), NEW m2, Flows(m, m2), Straight(m2),
         NEW f2, Alike(f, f2), Fits(f2), Sited(m2, f2),
         f2.fn \in {"arguments", "call"} => Is(m, f2.first, "function"),
         NEW next2, Ready(m2, f2, next2),
         \A a \in Counted(m2) : Bal(m2, a) + Tip(f, next, a) = Bal(m, a) + Tip(f2, next2, a)
  PROVE  World(m2, base, f2, next2)
<1>1. Stable(m, base, f) /\ \A a : a \notin {NULL, Nil} => Sums(m, base, f, next, a)
  BY WorldFacts
<1>2. /\ IsSeq(base) /\ IsSeq(Append(base, f)) /\ Chain(m, base) /\ FrameAt(m, f) /\ Rests(m, base, f)
      /\ Shelf(m, base) /\ Covers(m, Append(base, f)) /\ Good(m)
  BY <1>1, StableFacts
<1>3. Falls(m, m2, Append(base, f)) /\ Later(m, m2) /\ Good(m2)
  BY <1>1, FlowsFalls DEF Flows, Later
<1>4. ASSUME NEW a, a \notin {NULL, Nil} PROVE Bal(m2, a) = Held(base, a) + Tip(f2, next2, a)
  <2>1. Sums(m, base, f, next, a)
    BY <1>1, <1>4
  <2>2. Tip(f2, next2, a) \in Nat /\ Bal(m2, a) \in Nat
    BY <1>3, TipType, BalType
  <2>3. CASE a \in Counted(m2)
    <3>1. Bal(m2, a) + Tip(f, next, a) = Bal(m, a) + Tip(f2, next2, a)
      BY <2>3
    <3>2. PICK b, b2, h, t, t2 : b = Bal(m, a) /\ b2 = Bal(m2, a) /\ h = Held(base, a) /\ t = Tip(f, next, a) /\ t2 = Tip(f2, next2, a)
      OBVIOUS
    <3>3. b = h + t /\ b \in Nat /\ h \in Nat /\ t \in Nat
      BY <2>1, <3>2 DEF Sums
    <3>4. b2 \in Nat /\ t2 \in Nat
      BY <2>2, <3>2
    <3>5. b2 + t = b + t2
      BY <3>1, <3>2
    <3>6. b2 = h + t2
      BY ONLY <3>3, <3>4, <3>5
    <3>. QED BY <3>2, <3>6
  <2>4. CASE a \notin Counted(m2)
    <3>1. a \notin Counted(m)
      BY <1>3, <2>4, LaterAddr
    <3>2. Bal(m2, a) = 0 /\ Hold(f2, a) = 0 /\ Back(next2, a) = 0
      BY <1>3, <1>4, <2>4, Nowhere DEF Ready
    <3>3. Bal(m, a) = 0
      BY <1>2, <1>4, <3>1, Nowhere
    <3>4. Tip(f2, next2, a) = 0
      BY <3>2, BackType
    <3>. QED BY <2>1, <3>2, <3>3, <3>4 DEF Sums
  <2>. QED BY <2>3, <2>4
<1>5. Covers(m2, Append(base, f2))
  <2>1. ASSUME NEW a, a \notin {NULL, Nil} PROVE Bal(m2, a) >= Held(Append(base, f2), a)
    <3>1. Bal(m2, a) = Held(base, a) + Tip(f2, next2, a) /\ Held(Append(base, f2), a) = Held(base, a) + Hold(f2, a)
      BY <1>2, <1>4, <2>1, HeldMore
    <3>2. Held(base, a) \in Nat /\ Tip(f2, next2, a) \in Nat /\ Hold(f2, a) \in Nat /\ Tip(f2, next2, a) >= Hold(f2, a)
      BY <1>2, HeldType, TipType
    <3>. QED BY <3>1, <3>2
  <2>. QED BY <2>1 DEF Covers
<1>6. Covers(m2, base) /\ Owns(m2, f2)
  BY <1>2, <1>3, <1>5, CoversMore
<1>7. Chain(m2, base)
  BY <1>2, <1>3, <1>6, ChainStays
<1>8. FrameAt(m2, f2) /\ Rests(m2, base, f2)
  BY <1>2, <1>3, <1>6, <1>7, KeptFrame
<1>9. PICK fs, fs2 : fs = Append(base, f) /\ fs2 = Append(base, f2)
  OBVIOUS
<1>10. f2.fn = "function" <=> f.fn = "function"
  BY DEF Alike
<1>11. Running(base) \in Nat /\ Running(fs2) = Running(fs) /\ Running(fs) >= Running(base) /\ Running(fs) \in Nat
       /\ (f.fn = "function" => Running(fs) = Running(base) + 1)
  BY <1>2, <1>9, <1>10, RunningMore
<1>12. Len(m2.scopes) = 2 * Running(fs2) + 1
  BY <1>3, <1>9, <1>11 DEF Falls
<1>13. Shelf(m2, base)
  <2>1. \A i \in 1 .. 2 * Running(base) : i \in 1 .. 2 * Running(fs)
    BY <1>11
  <2>2. \A i \in 1 .. 2 * Running(base) : m2.scopes[i] = m.scopes[i]
    BY <1>3, <1>9, <2>1 DEF Falls
  <2>. QED BY <1>2, <1>3, <1>7, <2>2, ShelfStays
<1>14. ASSUME f2.fn = "function" PROVE m2.scopes[2 * Running(fs2)] = m2.heap[f2.func].closure
  <2>1. f.fn = "function" /\ f2.func = f.func
    BY <1>10, <1>14 DEF Alike
  <2>2. Shelf(m, fs)
    BY <1>1, <1>9 DEF Stable
  <2>3. m.scopes[2 * Running(fs)] = m.heap[f.func].closure
    BY <1>2, <1>9, <2>1, <2>2, ShelfMore
  <2>4. 2 * Running(fs) \in 1 .. 2 * Running(fs)
    BY <1>11, <2>1
  <2>5. m2.scopes[2 * Running(fs)] = m.scopes[2 * Running(fs)]
    BY <1>3, <1>9, <2>4 DEF Falls
  <2>6. Is(m, f.func, "function") /\ Is(m2, f.func, "function")
    BY <1>2, <1>8, <1>14, <2>1 DEF FrameAt, Rely
  <2>7. f.func \in DOMAIN m.heap /\ Alive(m2, f.func)
    BY <2>6 DEF Is, Alive
  <2>8. m2.heap[f.func].closure = m.heap[f.func].closure
    BY <1>3, <2>7 DEF Later, Grows
  <2>. QED BY <1>11, <2>1, <2>3, <2>5, <2>8
<1>15. Shelf(m2, fs2)
  BY <1>2, <1>9, <1>13, <1>14, ShelfMore
<1>. QED BY <1>2, <1>3, <1>4, <1>7, <1>8, <1>9, <1>12, <1>15, Arrive

\* The innermost frame stays as it is.
LEMMA OpKeep ==
  ASSUME NEW m, NEW base, NEW f, NEW next, World(m, base, f, next), NEW m2, Flows(m, m2), Straight(m2),
         NEW next2, Ready(m2, f, next2),
         \A a \in Counted(m2) : Bal(m2, a) + Back(next, a) = Bal(m, a) + Back(next2, a)
  PROVE  World(m2, base, f, next2)
<1>1. FrameAt(m, f) /\ Good(m)
  BY WorldFacts, StableFacts
<1>2. Alike(f, f) /\ Fits(f)
  BY <1>1 DEF Alike, FrameAt
<1>3. Sited(m2, f)
  <2>1. Sited(m, f)
    BY <1>1, OwnsSited DEF FrameAt
  <2>2. Addr(m) \subseteq Addr(m2)
    BY LaterAddr DEF Flows
  <2>. QED BY <2>1, <2>2 DEF Sited
<1>4. f.fn \in {"arguments", "call"} => Is(m, f.first, "function")
  BY <1>1 DEF FrameAt, Rely
<1>5. ASSUME NEW a \in Counted(m2) PROVE Bal(m2, a) + Tip(f, next, a) = Bal(m, a) + Tip(f, next2, a)
  <2>1. Bal(m2, a) \in Nat /\ Bal(m, a) \in Nat
    BY <1>1, BalType DEF Flows, Later
  <2>2. Tip(f, next, a) = Hold(f, a) + Back(next, a) /\ Back(next, a) \in Nat
        /\ Tip(f, next2, a) = Hold(f, a) + Back(next2, a) /\ Back(next2, a) \in Nat
    BY BackType
  <2>3. Hold(f, a) \in Nat
    BY TipType
  <2>4. Bal(m2, a) + Back(next, a) = Bal(m, a) + Back(next2, a)
    OBVIOUS
  <2>. QED BY <2>1, <2>2, <2>3, <2>4
<1>. QED BY <1>2, <1>3, <1>4, <1>5, KeepStep

LEMMA BackNone ==
  ASSUME NEW next, next.do # "return", NEW a
  PROVE  Back(next, a) = 0
BY DEF Back

\* Only what is done next changes.
LEMMA PlainStep ==
  ASSUME NEW m, NEW base, NEW f, NEW next, World(m, base, f, next), NEW next2, AtOK(m, f, next2),
         next.do # "return", next2.do # "return"
  PROVE  World(m, base, f, next2)
<1>1. \A a : Tip(f, next, a) = Tip(f, next2, a)
  BY DEF Tip
<1>. QED BY <1>1 DEF World

\* An operator returns, or throws.
LEMMA OpReturns ==
  ASSUME NEW m, NEW base, NEW f, NEW next, World(m, base, f, next), next.do # "return",
         Waits(f), NEW m2, Flows(m, m2), Straight(m2), NEW x, x \in Addr(m2),
         \A a \in Counted(m2) : Bal(m2, a) = Bal(m, a) + Ind(x, a)
  PROVE  World(m2, base, f, Return(x))
<1>1. Return(x).do = "return" /\ Return(x).obj = x
  BY DEF Return
<1>2. Ready(m2, f, Return(x))
  BY <1>1 DEF Ready, AtOK
<1>3. ASSUME NEW a \in Counted(m2) PROVE Bal(m2, a) + Back(next, a) = Bal(m, a) + Back(Return(x), a)
  <2>1. Back(next, a) = 0 /\ Back(Return(x), a) = Ind(x, a)
    BY <1>1 DEF Back
  <2>2. Bal(m2, a) \in Nat
    BY BalType DEF Flows, Later
  <2>. QED BY <2>1, <2>2
<1>. QED BY <1>2, <1>3, OpKeep

LEMMA OpGoes ==
  ASSUME NEW m, NEW base, NEW f, NEW next, World(m, base, f, next), next.do # "return",
         NEW m2, Flows(m, m2), Straight(m2),
         \A a \in Counted(m2) : Bal(m2, a) = Bal(m, a),
         NEW next2, next2.do # "return", Ready(m2, f, next2)
  PROVE  World(m2, base, f, next2)
<1>1. ASSUME NEW a \in Counted(m2) PROVE Bal(m2, a) + Back(next, a) = Bal(m, a) + Back(next2, a)
  <2>1. Back(next, a) = 0 /\ Back(next2, a) = 0
    BY DEF Back
  <2>2. Bal(m2, a) \in Nat
    BY BalType DEF Flows, Later
  <2>. QED BY <2>1, <2>2
<1>. QED BY <1>1, OpKeep

\* A function is called that runs on top of f.
LEMMA PushStep ==
  ASSUME NEW m, NEW base, NEW f, NEW next, World(m, base, f, next), NEW m2, Flows(m, m2), Straight(m2),
         NEW f2, f2.fn # "function", Sited(m2, f2),
         FrameAt(m2, f) /\ Owns(m2, f2) => FrameAt(m2, f2) /\ Link(m2, f, f2),
         NEW next2, Ready(m2, f2, next2),
         \A a \in Counted(m2) : Bal(m2, a) + Back(next, a) = Bal(m, a) + Tip(f2, next2, a)
  PROVE  World(m2, Append(base, f), f2, next2)
<1>1. Stable(m, base, f) /\ \A a : a \notin {NULL, Nil} => Sums(m, base, f, next, a)
  BY WorldFacts
<1>2. /\ IsSeq(base) /\ IsSeq(Append(base, f)) /\ Chain(m, Append(base, f))
      /\ Shelf(m, Append(base, f)) /\ Covers(m, Append(base, f)) /\ Good(m)
  BY <1>1, StableFacts, ChainMore DEF Stable
<1>3. Falls(m, m2, Append(base, f)) /\ Later(m, m2) /\ Good(m2)
  BY <1>1, FlowsFalls DEF Flows, Later
<1>4. ASSUME NEW a, a \notin {NULL, Nil} PROVE Bal(m2, a) = Held(Append(base, f), a) + Tip(f2, next2, a)
  <2>1. Sums(m, base, f, next, a)
    BY <1>1, <1>4
  <2>2. Tip(f2, next2, a) \in Nat /\ Bal(m2, a) \in Nat
    BY <1>3, TipType, BalType
  <2>3. CASE a \in Counted(m2)
    <3>1. Bal(m2, a) + Back(next, a) = Bal(m, a) + Tip(f2, next2, a)
      BY <2>3
    <3>2. PICK b, b2, h, t, t2, k, r, s :
            /\ b = Bal(m, a) /\ b2 = Bal(m2, a) /\ h = Held(base, a) /\ t = Tip(f, next, a)
            /\ t2 = Tip(f2, next2, a) /\ k = Back(next, a) /\ r = Hold(f, a) /\ s = Held(Append(base, f), a)
      OBVIOUS
    <3>3. b = h + t /\ b \in Nat /\ h \in Nat /\ t \in Nat /\ r \in Nat
      BY <2>1, <3>2 DEF Sums
    <3>4. b2 \in Nat /\ t2 \in Nat /\ k \in Nat /\ t = r + k
      BY <2>2, <3>2, BackType
    <3>5. b2 + k = b + t2
      BY <3>1, <3>2
    <3>6. s = h + r
      BY <1>2, <3>2, HeldMore
    <3>7. b2 = s + t2
      BY ONLY <3>3, <3>4, <3>5, <3>6
    <3>. QED BY <3>2, <3>7
  <2>4. CASE a \notin Counted(m2)
    <3>1. a \notin Counted(m)
      BY <1>3, <2>4, LaterAddr
    <3>2. Bal(m2, a) = 0 /\ Hold(f2, a) = 0 /\ Back(next2, a) = 0
      BY <1>3, <1>4, <2>4, Nowhere DEF Ready
    <3>3. Held(Append(base, f), a) = 0
      BY <1>2, <1>4, <3>1, Nowhere
    <3>4. Tip(f2, next2, a) = 0
      BY <3>2, BackType
    <3>. QED BY <3>2, <3>3, <3>4
  <2>. QED BY <2>3, <2>4
<1>. QED BY <1>2, <1>3, <1>4, Onto

\* The innermost frame goes.
Pops(m, f, next, m2, base, g, next2) ==
  /\ Falls(m, m2, base) /\ Ready(m2, g, next2)
  /\ \A a \in Counted(m2) : Bal(m2, a) + Tip(f, next, a) = Bal(m, a) + Back(next2, a)
Under(m, base, f, g) == base = Append(Front(base), g) /\ FrameAt(m, g) /\ Link(m, g, f)

LEMMA UnderStep ==
  ASSUME NEW m, NEW base, NEW f, NEW next, World(m, base, f, next), f.fn # "program",
         NEW g, g = base[Len(base)]
  PROVE  Under(m, base, f, g)
<1>1. IsSeq(base) /\ Chain(m, base) /\ Rests(m, base, f)
  BY WorldFacts, StableFacts
<1>2. base # <<>> /\ Link(m, g, f)
  BY <1>1 DEF Rests
<1>3. Len(base) > 0
  BY <1>1, <1>2, NullSeq
<1>4. base = Append(Front(base), g) /\ IsSeq(Front(base))
  BY <1>1, <1>3, FrontLast
<1>. QED BY <1>1, <1>2, <1>4, ChainMore DEF Under

LEMMA PopStep ==
  ASSUME NEW m, NEW base, NEW f, NEW next, World(m, base, f, next), f.fn # "program",
         NEW m2, Straight(m2), NEW g, g = base[Len(base)],
         NEW next2, Pops(m, f, next, m2, base, g, next2)
  PROVE  World(m2, Front(base), g, next2)
<1>. Falls(m, m2, base) /\ Ready(m2, g, next2)
  BY DEF Pops
<1>1. Stable(m, base, f) /\ \A a : a \notin {NULL, Nil} => Sums(m, base, f, next, a)
  BY WorldFacts
<1>2. /\ IsSeq(base) /\ Chain(m, base) /\ FrameAt(m, f) /\ Rests(m, base, f)
      /\ Shelf(m, base) /\ Covers(m, Append(base, f)) /\ Good(m)
  BY <1>1, StableFacts
<1>3. base # <<>> /\ Link(m, g, f)
  BY <1>2 DEF Rests
<1>4. Len(base) > 0
  BY <1>2, <1>3, NullSeq
<1>5. PICK b : b = Front(base)
  OBVIOUS
<1>6. base = Append(b, g) /\ IsSeq(b)
  BY <1>2, <1>4, <1>5, FrontLast
<1>7. Later(m, m2) /\ Good(m2)
  BY DEF Falls, Later
<1>8. FrameAt(m, g) /\ Rests(m, b, g) /\ Chain(m, b)
  BY <1>2, <1>6, ChainMore
<1>9. ASSUME NEW a, a \notin {NULL, Nil} PROVE Bal(m2, a) = Held(base, a) + Back(next2, a)
  <2>1. Sums(m, base, f, next, a)
    BY <1>1, <1>9
  <2>2. Back(next2, a) \in Nat /\ Bal(m2, a) \in Nat
    BY <1>7, BackType, BalType
  <2>3. CASE a \in Counted(m2)
    <3>1. Bal(m2, a) + Tip(f, next, a) = Bal(m, a) + Back(next2, a)
      BY <2>3 DEF Pops
    <3>2. PICK y, y2, h, t, t2 :
            /\ y = Bal(m, a) /\ y2 = Bal(m2, a) /\ h = Held(base, a) /\ t = Tip(f, next, a) /\ t2 = Back(next2, a)
      OBVIOUS
    <3>3. y = h + t /\ y \in Nat /\ h \in Nat /\ t \in Nat
      BY <2>1, <3>2 DEF Sums
    <3>4. y2 \in Nat /\ t2 \in Nat
      BY <2>2, <3>2
    <3>5. y2 + t = y + t2
      BY <3>1, <3>2
    <3>6. y2 = h + t2
      BY ONLY <3>3, <3>4, <3>5
    <3>. QED BY <3>2, <3>6
  <2>4. CASE a \notin Counted(m2)
    <3>1. a \notin Counted(m)
      BY <1>7, <2>4, LaterAddr
    <3>2. Bal(m2, a) = 0 /\ Back(next2, a) = 0
      BY <1>7, <1>9, <2>4, Nowhere DEF Ready
    <3>3. Bal(m, a) = 0
      BY <1>2, <1>9, <3>1, Nowhere
    <3>4. Held(base, a) = 0
      BY <2>1, <3>3 DEF Sums
    <3>. QED BY <3>2, <3>4
  <2>. QED BY <2>3, <2>4
<1>10. Covers(m2, base)
  <2>1. ASSUME NEW a, a \notin {NULL, Nil} PROVE Bal(m2, a) >= Held(base, a)
    <3>1. Bal(m2, a) = Held(base, a) + Back(next2, a) /\ Held(base, a) \in Nat /\ Back(next2, a) \in Nat
      BY <1>2, <1>9, <2>1, HeldType, BackType
    <3>. QED BY <3>1
  <2>. QED BY <2>1 DEF Covers
<1>11. Chain(m2, base)
  BY <1>2, <1>7, <1>10, ChainStays
<1>12. Chain(m2, b) /\ FrameAt(m2, g) /\ Rests(m2, b, g)
  BY <1>6, <1>11, ChainMore
<1>13. Shelf(m2, base) /\ Len(m2.scopes) = 2 * Running(base) + 1
  BY <1>2, <1>7, <1>11, ShelfStays DEF Falls
<1>14. ASSUME NEW a, a \notin {NULL, Nil} PROVE Bal(m2, a) = Held(b, a) + Tip(g, next2, a)
  <2>1. Held(base, a) = Held(b, a) + Hold(g, a) /\ Held(b, a) \in Nat /\ Hold(g, a) \in Nat
    BY <1>6, HeldMore
  <2>2. Tip(g, next2, a) = Hold(g, a) + Back(next2, a) /\ Back(next2, a) \in Nat
    BY BackType
  <2>3. Bal(m2, a) = Held(base, a) + Back(next2, a)
    BY <1>9, <1>14
  <2>. QED BY <2>1, <2>2, <2>3
<1>15. World(m2, b, g, next2)
  BY <1>6, <1>7, <1>12, <1>13, <1>14, Arrive
<1>. QED BY <1>5, <1>15

-----------------------------------------------------------------------------
(* The inductive invariant, and how a step of the program keeps it. *)

Dos == {"start", "read", "resume", "evaluate", "call", "return", "throw", "end"}

IInv ==
  /\ input \in Seq(Byte) /\ IsSeq(frames) /\ Len(frames) > 0 /\ at.do \in Dos
  /\ Stable(mem, Front(frames), Top)
  /\ at \notin {End("null"), End("stray")} => World(mem, Front(frames), Top, at)

\* What an action finds.
Here(m, base, f, next) ==
  /\ World(m, base, f, next) /\ Good(m) /\ Straight(m) /\ Secure(m) /\ OddTop(m) /\ Rec(m)
  /\ IsSeq(base) /\ FrameAt(m, f) /\ Fits(f) /\ Rests(m, base, f) /\ AtOK(m, f, next)
  /\ \A a : a \notin {NULL, Nil} => Sums(m, base, f, next, a)

LEMMA WorldHere ==
  ASSUME NEW m, NEW base, NEW f, NEW next, World(m, base, f, next)
  PROVE  Here(m, base, f, next)
BY WorldFacts, StableFacts, GoodRec DEF Here, World, FrameAt

\* The frames are base, and f.
Stack(base, f) ==
  /\ frames = Append(base, f) /\ f = Top /\ IsSeq(base) /\ IsSeq(frames)
  /\ \A g : With(g) = Append(base, g)
  /\ \A g : Push(g) = Append(frames, g)
  /\ Pop = base

LEMMA Now ==
  ASSUME IInv, at.do # "end"
  PROVE  Here(mem, Front(frames), Top, at) /\ Stack(Front(frames), Top)
<1>1. at \notin {End("null"), End("stray")}
  BY DEF End
<1>2. IsSeq(frames) /\ Len(frames) > 0
  BY DEF IInv
<1>3. Stack(Front(frames), Top)
  BY <1>2, FrontLast DEF Stack, Top, With, Push, Pop
<1>. QED BY <1>1, <1>3, WorldHere DEF IInv

\* Where a step arrives.
Arrives(m, fs, next) ==
  /\ next.do \in Dos
  /\ Straight(m) => \E base, f : IsSeq(base) /\ fs = Append(base, f) /\ World(m, base, f, next)

LEMMA ArriveAt ==
  ASSUME NEW m, NEW base, NEW f, NEW next, next.do \in Dos, Straight(m) => World(m, base, f, next),
         NEW fs, fs = Append(base, f)
  PROVE  Arrives(m, fs, next)
<1>1. World(m, base, f, next) => IsSeq(base)
  BY WorldHere DEF Here
<1>. QED BY <1>1 DEF Arrives

LEMMA Reached ==
  ASSUME input' \in Seq(Byte), NEW base, NEW f, NEW next, next.do \in Dos, World(mem', base, f, next),
         frames' = Append(base, f), at' = next
  PROVE  IInv'
<1>1. Stable(mem', base, f) /\ IsSeq(base)
  BY WorldHere DEF World, Here
<1>2. Longer(base, f, frames')
  BY <1>1, AppendFacts
<1>3. IsSeq(frames') /\ Len(frames') > 0 /\ frames'[Len(frames')] = f /\ Front(frames') = base
  <2>1. PICK n \in Nat : n = Len(base)
    BY <1>1, SeqFacts
  <2>2. Len(frames') = n + 1
    BY <1>2, <2>1 DEF Longer
  <2>3. Len(frames') > 0
    BY <2>2
  <2>. QED BY <1>2, <2>3 DEF Longer
<1>. QED BY <1>1, <1>3 DEF IInv, Top

LEMMA StopKeeps ==
  ASSUME IInv, NEW how \in {"null", "stray"}, Stop(how)
  PROVE  IInv'
<1>1. at' = End(how) /\ input' = input /\ frames' = frames /\ mem' = mem
  BY DEF Stop
<1>2. at' \in {End("null"), End("stray")} /\ at'.do \in Dos
  BY <1>1 DEF End, Dos
<1>. QED BY <1>1, <1>2 DEF IInv, Top

LEMMA DieKeeps == ASSUME IInv, Die PROVE IInv'
BY StopKeeps DEF Die
LEMMA StrayKeeps == ASSUME IInv, Stray PROVE IInv'
BY StopKeeps DEF Stray

LEMMA GoKeeps ==
  ASSUME IInv, NEW m, NEW fs, NEW next, Go(m, fs, next), Arrives(m, fs, next)
  PROVE  IInv'
<1>1. CASE m.stray /\ Stray
  BY <1>1, StrayKeeps
<1>2. CASE ~m.stray /\ mem' = m /\ frames' = fs /\ at' = next /\ UNCHANGED <<source, input>>
  <2>1. Straight(m)
    BY <1>2 DEF Straight
  <2>2. PICK base, f : fs = Append(base, f) /\ World(m, base, f, next)
    BY <2>1 DEF Arrives
  <2>3. input' \in Seq(Byte)
    BY <1>2 DEF IInv
  <2>. QED BY <1>2, <2>2, <2>3, Reached DEF Arrives
<1>. QED BY <1>1, <1>2 DEF Go

-----------------------------------------------------------------------------
(* Steps of one kind. *)

LEMMA GoTop ==
  ASSUME IInv, at.do # "end", NEW m, NEW next, Go(m, frames, next), next.do \in Dos,
         Straight(m) => World(m, Front(frames), Top, next)
  PROVE  IInv'
<1>1. frames = Append(Front(frames), Top)
  BY Now DEF Stack
<1>2. Arrives(m, frames, next)
  BY <1>1, ArriveAt
<1>. QED BY <1>2, GoKeeps

LEMMA GoWith ==
  ASSUME IInv, at.do # "end", NEW m, NEW f, NEW next, Go(m, With(f), next), next.do \in Dos,
         Straight(m) => World(m, Front(frames), f, next)
  PROVE  IInv'
<1>1. With(f) = Append(Front(frames), f)
  BY Now DEF Stack
<1>2. Arrives(m, With(f), next)
  BY <1>1, ArriveAt
<1>. QED BY <1>2, GoKeeps

LEMMA GoPush ==
  ASSUME IInv, at.do # "end", NEW m, NEW f, NEW next, Go(m, Push(f), next), next.do \in Dos,
         Straight(m) => World(m, frames, f, next)
  PROVE  IInv'
<1>1. Arrives(m, Push(f), next)
  BY ArriveAt DEF Push
<1>. QED BY <1>1, GoKeeps

\* The frame below is the innermost one then.
LEMMA GoPop ==
  ASSUME IInv, at.do # "end", Top.fn # "program",
         NEW m, NEW base, base = Front(frames), NEW g, g = base[Len(base)],
         NEW next, Go(m, Pop, next), next.do \in Dos,
         Straight(m) => Pops(mem, Top, at, m, base, g, next)
  PROVE  IInv'
<1>1. Pop = base /\ World(mem, base, Top, at)
  BY Now DEF Stack, Here
<1>2. ASSUME Straight(m) PROVE base = Append(Front(base), g) /\ World(m, Front(base), g, next)
  <2>1. Under(mem, base, Top, g)
    BY <1>1, UnderStep
  <2>. QED BY <1>1, <1>2, <2>1, PopStep DEF Under
<1>3. Arrives(m, Pop, next)
  <2>1. CASE Straight(m)
    BY <1>1, <1>2, <2>1, ArriveAt
  <2>2. CASE ~Straight(m)
    BY <2>2 DEF Arrives
  <2>. QED BY <2>1, <2>2
<1>. QED BY <1>3, GoKeeps

\* An operator, or a value that is evaluated, returns x.
Gains(m, m2, x) == Flows(m, m2) /\ x \in Addr(m2) /\ \A a \in Counted(m2) : Bal(m2, a) = Bal(m, a) + Ind(x, a)
Stays(m, m2) == Flows(m, m2) /\ \A a \in Counted(m2) : Bal(m2, a) = Bal(m, a)

LEMMA NowWaits ==
  ASSUME IInv, at.do \in {"call", "evaluate", "read", "return"}
  PROVE  Waits(Top)
<1>1. AtOK(mem, Top, at)
  BY Now DEF Here
<1>. QED BY <1>1 DEF AtOK, Passed, Callees, Waits

LEMMA ReturnKeeps ==
  ASSUME IInv, at.do \in {"call", "evaluate", "read"}, NEW m, NEW x, Go(m, frames, Return(x)),
         Straight(m) => Gains(mem, m, x)
  PROVE  IInv'
<1>1. World(mem, Front(frames), Top, at)
  BY Now DEF Here
<1>2. Return(x).do \in Dos
  BY DEF Return, Dos
<1>3. Straight(m) => World(m, Front(frames), Top, Return(x))
  BY <1>1, NowWaits, OpReturns DEF Gains
<1>. QED BY <1>2, <1>3, GoTop

LEMMA ThrowKeeps ==
  ASSUME IInv, at.do \notin {"end", "return"}, NEW m, NEW next, Go(m, frames, next),
         next \in {Throw, End("exit"), Resume, Read, End("done")}, next = Read => Waits(Top),
         Straight(m) => Stays(mem, m)
  PROVE  IInv'
<1>1. World(mem, Front(frames), Top, at)
  BY Now DEF Here
<1>2. /\ next.do \in Dos /\ next.do # "return" /\ next.do \in {"throw", "end", "resume", "read"}
      /\ next.do = "read" => next = Read
  BY DEF Throw, End, Dos, Resume, Read
<1>3. Ready(m, Top, next)
  BY <1>2 DEF Ready, AtOK
<1>4. Straight(m) => World(m, Front(frames), Top, next)
  BY <1>1, <1>2, <1>3, OpGoes DEF Stays
<1>. QED BY <1>2, <1>4, GoTop

LEMMA StaysSelf == ASSUME NEW m, Good(m) PROVE Stays(m, m)
BY LaterSelf DEF Stays, Flows

LEMMA IdleStays ==
  ASSUME NEW m, Good(m), NEW m2, Idle(m, m2)
  PROVE  Stays(m, m2)
BY MovedFlows DEF Idle, Stays

LEMMA MovedStays ==
  ASSUME NEW m, Good(m), NEW m2, Moved(m, m2), Counted(m2) = Counted(m), \A x \in Counted(m) : Bal(m2, x) = Bal(m, x)
  PROVE  Stays(m, m2)
BY MovedFlows DEF Stays

LEMMA ChangedStays ==
  ASSUME NEW m, Good(m), NEW m2, Changed(m, m2), \A x \in Counted(m) : Bal(m2, x) = Bal(m, x)
  PROVE  Stays(m, m2)
BY ChangedFlows DEF Stays, Changed

LEMMA FlowsMore ==
  ASSUME NEW m, NEW m2, NEW m3, Flows(m, m2), Flows(m2, m3)
  PROVE  Flows(m, m3)
<1>1. Later(m, m3)
  BY GrowsMore DEF Flows, Later, Good
<1>. QED BY <1>1 DEF Flows

LEMMA ShiftGains ==
  ASSUME NEW m, Good(m), NEW m2, NEW a, Shift(m, m2, a), Maybe(m2, a)
  PROVE  Gains(m, m2, a)
<1>1. a \in Addr(m2) /\ Flows(m, m2)
  BY MaybeAddr, MovedFlows DEF Shift, Moved
<1>. QED BY <1>1 DEF Gains, Shift

LEMMA StaysGains ==
  ASSUME NEW m, NEW m2, Stays(m, m2), NEW m3, NEW a, Gains(m2, m3, a)
  PROVE  Gains(m, m3, a)
<1>1. Flows(m, m3)
  BY FlowsMore DEF Stays, Gains
<1>2. Good(m) /\ Good(m2) /\ Good(m3) /\ Later(m2, m3)
  BY DEF Stays, Gains, Flows, Later
<1>3. ASSUME NEW x \in Counted(m3) PROVE Bal(m3, x) = Bal(m, x) + Ind(a, x)
  <2>1. Bal(m3, x) = Bal(m2, x) + Ind(a, x)
    BY DEF Gains
  <2>2. CASE x \in Counted(m2)
    BY <2>1, <2>2 DEF Stays
  <2>3. CASE x \notin Counted(m2)
    <3>1. x \notin Counted(m)
      BY <2>3, LaterAddr DEF Stays, Flows
    <3>. QED BY <2>1, <2>3, <3>1 DEF Bal
  <2>. QED BY <2>2, <2>3
<1>. QED BY <1>1, <1>3 DEF Gains

\* What is retained is given.
LEMMA GivesKeeps ==
  ASSUME IInv, at.do \in {"call", "evaluate", "read"}, NEW m, Rec(m), NEW a, Gives(m, a),
         Straight(m) => Stays(mem, m) /\ Maybe(m, a)
  PROVE  IInv'
<1>1. Go(Retain(m, a), frames, Return(a))
  BY DEF Gives
<1>2. ASSUME Straight(Retain(m, a)) PROVE Gains(mem, Retain(m, a), a)
  <2>1. Straight(m)
    BY <1>2, RetainRec DEF Straight
  <2>2. Good(m) /\ Maybe(m, a)
    BY <2>1 DEF Stays, Flows, Later
  <2>3. Shift(m, Retain(m, a), a)
    BY <2>2, RetainShift DEF Maybe
  <2>4. Maybe(Retain(m, a), a)
    BY <2>2, <2>3 DEF Shift, Maybe
  <2>. QED BY <2>1, <2>2, <2>3, <2>4, ShiftGains, StaysGains
<1>. QED BY <1>1, <1>2, ReturnKeeps

LEMMA NewerGains ==
  ASSUME NEW m, Good(m), NEW o, NEW x, NEW m2, Newer(m, o, x, m2)
  PROVE  Gains(m, m2, x)
<1>1. x \in Addr(m2)
  BY Addresses DEF Newer, Moved, Good
<1>2. Flows(m, m2)
  BY MovedFlows DEF Newer
<1>. QED BY <1>1, <1>2 DEF Gains, Newer

LEMMA YieldsKeeps ==
  ASSUME IInv, at.do \in {"call", "evaluate", "read"}, NEW o, Proper(mem, o), Yields(o)
  PROVE  IInv'
<1>1. Good(mem)
  BY Now DEF Here
<1>2. Gains(mem, New(mem, o), Fresh(mem))
  BY <1>1, NewFacts, NewerGains
<1>. QED BY <1>2, ReturnKeeps DEF Yields

LEMMA AnswersKeeps ==
  ASSUME IInv, at.do \in {"call", "evaluate", "read"}, NEW b, Answers(b)
  PROVE  IInv'
<1>1. Good(mem)
  BY Now DEF Here
<1>2. ASSUME Straight(Share(mem, b)) PROVE Gains(mem, Share(mem, b), Bool(b))
  BY <1>1, <1>2, ShareStep, ShiftGains DEF Maybe
<1>. QED BY <1>2, ReturnKeeps DEF Answers

\* The innermost frame goes on.
Onward(m, f, next, m2, f2, next2) ==
  /\ Flows(m, m2) /\ Alike(f, f2) /\ Fits(f2) /\ Sited(m2, f2)
  /\ f2.fn \in {"arguments", "call"} => Is(m, f2.first, "function")
  /\ Ready(m2, f2, next2)
  /\ \A a \in Counted(m2) : Bal(m2, a) + Tip(f, next, a) = Bal(m, a) + Tip(f2, next2, a)

LEMMA WithKeeps ==
  ASSUME IInv, at.do # "end", NEW m, NEW f, NEW next, Go(m, With(f), next), next.do \in Dos,
         Straight(m) => Onward(mem, Top, at, m, f, next)
  PROVE  IInv'
<1>1. World(mem, Front(frames), Top, at)
  BY Now DEF Here
<1>2. Straight(m) => World(m, Front(frames), f, next)
  BY <1>1, KeepStep DEF Onward
<1>. QED BY <1>2, GoWith

\* A frame comes on top.
Pushes(m, f, next, m2, f2, next2) ==
  /\ Flows(m, m2) /\ f2.fn # "function" /\ Sited(m2, f2)
  /\ FrameAt(m2, f) /\ Owns(m2, f2) => FrameAt(m2, f2) /\ Link(m2, f, f2)
  /\ Ready(m2, f2, next2)
  /\ \A a \in Counted(m2) : Bal(m2, a) + Back(next, a) = Bal(m, a) + Tip(f2, next2, a)

LEMMA PushKeeps ==
  ASSUME IInv, at.do # "end", NEW m, NEW f, NEW next, Go(m, Push(f), next), next.do \in Dos,
         Straight(m) => Pushes(mem, Top, at, m, f, next)
  PROVE  IInv'
<1>1. World(mem, Front(frames), Top, at) /\ frames = Append(Front(frames), Top)
  BY Now DEF Here, Stack
<1>2. Straight(m) => World(m, Append(Front(frames), Top), f, next)
  BY <1>1, PushStep DEF Pushes
<1>. QED BY <1>1, <1>2, GoPush

\* What the innermost frame owns can be released.
LEMMA Enough ==
  ASSUME NEW m, NEW base, NEW f, NEW next, World(m, base, f, next), NEW a \in Counted(m)
  PROVE  /\ a \notin {NULL, Nil} /\ Bal(m, a) \in Nat /\ Bal(m, a) >= Tip(f, next, a)
         /\ Tip(f, next, a) \in Nat
<1>1. Good(m)
  BY WorldHere DEF Here
<1>2. a \notin {NULL, Nil}
  BY <1>1, Addresses DEF Counted, Good
<1>3. Sums(m, base, f, next, a)
  BY <1>2, WorldFacts
<1>. QED BY <1>2, <1>3 DEF Sums

\* A reference to x goes away, or is lost.
Loses(m, m2, x) ==
  /\ Moved(m, m2) /\ Counted(m2) = Counted(m) /\ Flows(m, m2) /\ Same(m, m2)
  /\ \A a \in Counted(m) : Bal(m2, a) \in Nat /\ Bal(m2, a) + Ind(x, a) = Bal(m, a)

LEMMA Releases ==
  ASSUME NEW m, Good(m), NEW x, \A a \in Counted(m) : Bal(m, a) >= Ind(x, a)
  PROVE  Loses(m, Release(m, x), x)
<1>1. PICK m2 : m2 = Release(m, x)
  OBVIOUS
<1>2. /\ Moved(m, m2) /\ Same(m, m2) /\ Counted(m2) = Counted(m)
      /\ \A a \in Counted(m) : Bal(m2, a) = Bal(m, a) - Ind(x, a)
  BY <1>1, ReleaseStep
<1>3. Flows(m, m2) /\ Good(m2)
  BY <1>2, MovedFlows DEF Moved
<1>4. ASSUME NEW a \in Counted(m) PROVE Bal(m2, a) \in Nat /\ Bal(m2, a) + Ind(x, a) = Bal(m, a)
  <2>1. Bal(m2, a) \in Nat /\ Bal(m, a) \in Nat /\ Ind(x, a) \in {0, 1}
    BY <1>3, BalType DEF Ind
  <2>. QED BY <1>2, <2>1
<1>. QED BY <1>1, <1>2, <1>3, <1>4 DEF Loses

LEMMA Losing ==
  ASSUME NEW m, Good(m), NEW x, \A a \in Counted(m) : Bal(m, a) >= Ind(x, a)
  PROVE  Loses(m, Lose(m, x), x) /\ \A a : Alive(Lose(m, x), a) <=> Alive(m, a)
<1>1. PICK m2 : m2 = Lose(m, x)
  OBVIOUS
<1>2. /\ Moved(m, m2) /\ Same(m, m2) /\ Counted(m2) = Counted(m)
      /\ \A a : Alive(m2, a) <=> Alive(m, a)
      /\ \A a \in Counted(m) : Bal(m2, a) = Bal(m, a) - Ind(x, a)
  BY <1>1, LoseStep
<1>3. Flows(m, m2) /\ Good(m2)
  BY <1>2, MovedFlows DEF Moved
<1>4. ASSUME NEW a \in Counted(m) PROVE Bal(m2, a) \in Nat /\ Bal(m2, a) + Ind(x, a) = Bal(m, a)
  <2>1. Bal(m2, a) \in Nat /\ Bal(m, a) \in Nat /\ Ind(x, a) \in {0, 1}
    BY <1>3, BalType DEF Ind
  <2>. QED BY <1>2, <2>1
<1>. QED BY <1>1, <1>2, <1>3, <1>4 DEF Loses

\* The local that held x holds nothing more.
LEMMA ReleasesTip ==
  ASSUME NEW m, NEW base, NEW f, NEW next, World(m, base, f, next), NEW x,
         x \in {f.self, f.first, f.slice, f.args, f.ans} \/ (next.do = "return" /\ x = next.obj)
  PROVE  /\ \A a \in Counted(m) : Bal(m, a) >= Ind(x, a)
         /\ Loses(m, Release(m, x), x) /\ Loses(m, Lose(m, x), x)
<1>1. Good(m)
  BY WorldHere DEF Here
<1>2. ASSUME NEW a \in Counted(m) PROVE Bal(m, a) >= Ind(x, a)
  <2>1. Bal(m, a) \in Nat /\ Bal(m, a) >= Tip(f, next, a)
    BY Enough
  <2>2. Tip(f, next, a) >= Ind(x, a) /\ Ind(x, a) \in Nat /\ Tip(f, next, a) \in Nat
    BY DEF Tip, Hold, Ind
  <2>. QED BY <2>1, <2>2
<1>. QED BY <1>1, <1>2, Releases, Losing

LEMMA SitedMore ==
  ASSUME NEW m, NEW m2, Later(m, m2), NEW f, Sited(m, f)
  PROVE  Sited(m2, f)
BY LaterAddr DEF Sited

LEMMA HereSited ==
  ASSUME NEW m, NEW base, NEW f, NEW next, World(m, base, f, next), NEW m2, Flows(m, m2)
  PROVE  /\ Sited(m, f) /\ Sited(m2, f) /\ NULL \in Addr(m2) /\ Nil \in Addr(m2)
         /\ next.do = "return" => next.obj \in Addr(m) /\ next.obj \in Addr(m2)
<1>1. Good(m) /\ FrameAt(m, f) /\ AtOK(m, f, next)
  BY WorldHere DEF Here
<1>2. Sited(m, f)
  BY <1>1, OwnsSited DEF FrameAt
<1>3. Later(m, m2) /\ Good(m2)
  BY DEF Flows, Later
<1>4. Sited(m2, f) /\ Addr(m) \subseteq Addr(m2)
  BY <1>2, <1>3, SitedMore, LaterAddr
<1>5. NULL \in Addr(m2) /\ Nil \in Addr(m2)
  BY <1>3, Addresses DEF Good
<1>6. next.do = "return" => next.obj \in Addr(m)
  BY <1>1 DEF AtOK
<1>. QED BY <1>2, <1>4, <1>5, <1>6

-----------------------------------------------------------------------------
(* The actions of the loop over the objects of a program. *)

LEMMA Starting == Init => IInv
<1>. SUFFICES ASSUME Init PROVE IInv
  OBVIOUS
<1>. PICK f : f = Frame("program")
  OBVIOUS
<1>1. frames = <<f>> /\ mem = Start /\ at.do = "start" /\ at \notin {End("null"), End("stray")}
  BY DEF Init, End
<1>2. input \in Seq(Byte)
  BY SourcesAssumption DEF Init
<1>3. PICK b : b = <<>>
  OBVIOUS
<1>4. IsSeq(b) /\ Len(b) = 0
  <2>1. b \in Seq(Nat)
    BY <1>3
  <2>. QED BY <1>3, <2>1, SeqAny
<1>5. frames = Append(b, f)
  BY <1>1, <1>3
<1>6. Longer(b, f, frames)
  BY <1>4, <1>5, AppendFacts
<1>7. IsSeq(frames) /\ Len(frames) > 0 /\ Top = f /\ Front(frames) = b
  BY <1>4, <1>6 DEF Longer, Top
<1>8. /\ f.fn = "program" /\ f.self = Nil /\ f.first = NULL /\ f.slice = NULL /\ f.args = NULL
      /\ f.ans = Nil /\ f.code = NULL /\ f.func = NULL /\ DOMAIN f = FrameFields /\ f.i = 0
  BY DEF Frame, FrameFields
<1>9. Nil # NULL
  BY DEF Nil, NULL
<1>10. Good(mem) /\ Straight(mem) /\ Alive(mem, Nil)
  BY <1>1, StartGood, StartBindings, NilAlive DEF Straight
<1>11. FrameAt(mem, f)
  <2>1. Fits(f)
    BY <1>8, <1>9 DEF Fits, FrameNames
  <2>2. Rely(mem, f)
    BY <1>8 DEF Rely
  <2>3. Owns(mem, f) /\ Lent(mem, f)
    BY <1>8, <1>10 DEF Owns, Lent, Maybe
  <2>. QED BY <2>1, <2>2, <2>3 DEF FrameAt
<1>12. Rests(mem, b, f)
  BY <1>3, <1>8 DEF Rests
<1>13. Chain(mem, b) /\ DOMAIN b = {}
  BY <1>3 DEF Chain
<1>14. Running(b) = 0 /\ Running(Append(b, f)) = 0
  BY <1>4, <1>8, RunningMore, CallsType DEF Running
<1>15. Shelf(mem, b)
  <2>1. FunctionsIn(b, 0) = {}
    BY DEF FunctionsIn
  <2>. QED BY <1>4, <2>1 DEF Shelf
<1>16. Shelf(mem, Append(b, f))
  BY <1>4, <1>8, <1>15, ShelfMore
<1>17. Len(mem.scopes) = 2 * Running(Append(b, f)) + 1
  BY <1>1, <1>14, StartScope
<1>18. ASSUME NEW a, a \notin {NULL, Nil} PROVE Bal(mem, a) = Held(b, a) + Tip(f, at, a)
  <2>1. Bal(mem, a) = 0
    BY <1>1, StartGood
  <2>2. Tip(f, at, a) = 0
    BY <1>1, <1>8, <1>18 DEF Tip, Hold, Ind
  <2>3. Held(b, a) = 0
    <3>1. Placed(LocalRefs(b), b)
      BY <1>4, LocalRefsFacts
    <3>2. DOMAIN LocalRefs(b) = {}
      BY <1>13, <3>1 DEF Placed
    <3>. QED BY <3>2, OccNone DEF Held
  <2>. QED BY <2>1, <2>2, <2>3
<1>19. Ready(mem, f, at)
  BY <1>1 DEF Ready, AtOK
<1>20. World(mem, b, f, at)
  BY <1>4, <1>10, <1>11, <1>12, <1>13, <1>16, <1>17, <1>18, <1>19, Arrive
<1>. QED BY <1>1, <1>2, <1>7, <1>20 DEF IInv, World, Dos

\* Only the input changes, and what is done next.
LEMMA PlainKeeps ==
  ASSUME IInv, at.do \notin {"end", "return"}, mem' = mem, frames' = frames, input' \in Seq(Byte),
         at' \in {Resume, Throw, End("exit")}
  PROVE  IInv'
<1>1. World(mem, Front(frames), Top, at) /\ frames = Append(Front(frames), Top)
  BY Now DEF Here, Stack
<1>2. at'.do \in {"resume", "throw", "end"}
  BY DEF Throw, End, Resume
<1>3. at'.do \in Dos /\ AtOK(mem, Top, at')
  BY <1>2 DEF AtOK, Dos
<1>4. World(mem', Front(frames), Top, at')
  BY <1>1, <1>2, <1>3, PlainStep
<1>. QED BY <1>1, <1>3, <1>4, Reached

LEMMA Suffix ==
  ASSUME NEW s \in Seq(Byte), NEW n \in Nat
  PROVE  SubSeq(s, n + 1, Len(s)) \in Seq(Byte) /\ (n <= Len(s) => Len(SubSeq(s, n + 1, Len(s))) = Len(s) - n)
<1>1. \A i \in n + 1 .. Len(s) : s[i] \in Byte
  OBVIOUS
<1>. QED BY <1>1

LEMMA BeginKeeps == ASSUME IInv, Begin PROVE IInv'
<1>1. CASE Stray
  BY <1>1, StrayKeeps
<1>2. CASE Stop("exit")
  BY <1>2, PlainKeeps DEF Begin, Stop, IInv
<1>3. CASE input' = SubSeq(input, 7, Len(input)) /\ at' = Resume /\ UNCHANGED <<source, frames, mem>>
  <2>1. input' \in Seq(Byte)
    <3>1. SubSeq(input, 6 + 1, Len(input)) \in Seq(Byte)
      BY Suffix DEF IInv
    <3>. QED BY <1>3, <3>1
  <2>. QED BY <1>3, <2>1, PlainKeeps DEF Begin
<1>. QED BY <1>1, <1>2, <1>3 DEF Begin

LEMMA NextObjectKeeps == ASSUME IInv, NextObject PROVE IInv'
<1>1. at.do = "resume"
  BY DEF NextObject, Resumed, Resume
<1>2. Stays(mem, mem) /\ Waits(Top)
  BY <1>1, Now, StaysSelf DEF Here, Waits, NextObject, Resumed
<1>. QED BY <1>1, <1>2, ThrowKeeps DEF NextObject

LEMMA ObjectReadKeeps == ASSUME IInv, ObjectRead PROVE IInv'
<1>1. PICK m, base, f, next : m = mem /\ base = Front(frames) /\ f = Top /\ next = at
  OBVIOUS
<1>2. next.do = "return" /\ f.fn = "program" /\ f.first = NULL /\ next.obj # NULL
  BY <1>1 DEF ObjectRead, Returned
<1>3. Here(m, base, f, next)
  BY <1>1, <1>2, Now
<1>4. PICK m2, f2, next2 :
        m2 = Release(m, f.ans) /\ f2 = [f EXCEPT !.first = next.obj, !.ans = NULL] /\ next2 = Evaluate(next.obj)
  OBVIOUS
<1>5. Go(m2, With(f2), next2)
  BY <1>1, <1>4 DEF ObjectRead
<1>6. Loses(m, m2, f.ans)
  BY <1>3, <1>4, ReleasesTip DEF Here
<1>7. /\ DOMAIN f2 = FrameFields /\ f2.fn = f.fn /\ f2.code = f.code /\ f2.func = f.func /\ f2.self = f.self
      /\ f2.first = next.obj /\ f2.slice = f.slice /\ f2.args = f.args /\ f2.ans = NULL /\ f2.i = f.i
  BY <1>3, <1>4 DEF Here, Fits, FrameFields
<1>8. Fits(f2) /\ Alike(f, f2)
  BY <1>2, <1>3, <1>7 DEF Here, Fits, Alike
<1>9. Sited(m2, f2)
  BY <1>2, <1>3, <1>6, <1>7, HereSited DEF Here, Loses, Sited
<1>10. next2.do = "evaluate" /\ next2.obj = next.obj
  BY <1>4 DEF Evaluate
<1>11. Ready(m2, f2, next2) /\ next2.do \in Dos
  BY <1>2, <1>7, <1>10 DEF Ready, AtOK, Runs, Dos, Waits
<1>12. ASSUME NEW a \in Counted(m2) PROVE Bal(m2, a) + Tip(f, next, a) = Bal(m, a) + Tip(f2, next2, a)
  <2>1. a \notin {NULL, Nil} /\ Bal(m2, a) \in Nat /\ Bal(m2, a) + Ind(f.ans, a) = Bal(m, a)
    BY <1>3, <1>6, Enough DEF Loses, Here
  <2>. QED BY <1>2, <1>7, <1>10, <2>1 DEF Tip, Hold, Ind
<1>13. Onward(m, f, next, m2, f2, next2)
  BY <1>2, <1>6, <1>7, <1>8, <1>9, <1>11, <1>12 DEF Onward, Loses
<1>. QED BY <1>1, <1>2, <1>5, <1>11, <1>13, WithKeeps

LEMMA ObjectEvaluatedKeeps == ASSUME IInv, ObjectEvaluated PROVE IInv'
<1>1. PICK m, base, f, next : m = mem /\ base = Front(frames) /\ f = Top /\ next = at
  OBVIOUS
<1>2. next.do = "return" /\ f.fn = "program" /\ f.first # NULL
  BY <1>1 DEF ObjectEvaluated, Returned
<1>3. Here(m, base, f, next)
  BY <1>1, <1>2, Now
<1>4. PICK m2, f2, next2 :
        m2 = Release(m, f.first) /\ f2 = [f EXCEPT !.first = NULL, !.ans = next.obj] /\ next2 = Resume
  OBVIOUS
<1>5. Go(m2, With(f2), next2)
  BY <1>1, <1>4 DEF ObjectEvaluated
<1>6. Loses(m, m2, f.first)
  BY <1>3, <1>4, ReleasesTip DEF Here
<1>7. /\ DOMAIN f2 = FrameFields /\ f2.fn = f.fn /\ f2.code = f.code /\ f2.func = f.func /\ f2.self = f.self
      /\ f2.first = NULL /\ f2.slice = f.slice /\ f2.args = f.args /\ f2.ans = next.obj /\ f2.i = f.i
  BY <1>3, <1>4 DEF Here, Fits, FrameFields
<1>8. Fits(f2) /\ Alike(f, f2)
  BY <1>2, <1>3, <1>7 DEF Here, Fits, Alike
<1>9. Sited(m2, f2)
  BY <1>2, <1>3, <1>6, <1>7, HereSited DEF Here, Loses, Sited
<1>10. next2.do = "resume"
  BY <1>4 DEF Resume
<1>11. Ready(m2, f2, next2) /\ next2.do \in Dos
  BY <1>10 DEF Ready, AtOK, Dos
<1>12. ASSUME NEW a \in Counted(m2) PROVE Bal(m2, a) + Tip(f, next, a) = Bal(m, a) + Tip(f2, next2, a)
  <2>1. a \notin {NULL, Nil} /\ Bal(m2, a) \in Nat /\ Bal(m2, a) + Ind(f.first, a) = Bal(m, a)
    BY <1>3, <1>6, Enough DEF Loses, Here
  <2>2. f.ans = NULL
    BY <1>2, <1>3 DEF Here, Fits
  <2>. QED BY <1>2, <1>7, <1>10, <2>1, <2>2 DEF Tip, Hold, Ind
<1>13. Onward(m, f, next, m2, f2, next2)
  BY <1>2, <1>6, <1>7, <1>8, <1>9, <1>11, <1>12 DEF Onward, Loses
<1>. QED BY <1>1, <1>2, <1>5, <1>11, <1>13, WithKeeps

LEMMA ProgramEndsKeeps == ASSUME IInv, ProgramEnds PROVE IInv'
<1>1. PICK m, base, f, next : m = mem /\ base = Front(frames) /\ f = Top /\ next = at
  OBVIOUS
<1>2. next.do = "return" /\ next.obj = NULL
  BY <1>1 DEF ProgramEnds, Returned
<1>3. Here(m, base, f, next)
  BY <1>1, <1>2, Now
<1>4. PICK next2 : next2 = End("done")
  OBVIOUS
<1>5. next2.do = "end" /\ next2.do \in Dos /\ Ready(m, f, next2)
  BY <1>4 DEF End, Dos, Ready, AtOK
<1>6. ASSUME NEW a \in Counted(m) PROVE Bal(m, a) + Back(next, a) = Bal(m, a) + Back(next2, a)
  <2>1. a # NULL
    BY <1>3, Enough DEF Here
  <2>. QED BY <1>2, <1>5, <2>1 DEF Back, Ind
<1>7. Flows(m, m)
  BY <1>3, StaysSelf DEF Here, Stays
<1>8. World(m, base, f, next2)
  BY <1>3, <1>5, <1>6, <1>7, OpKeep DEF Here
<1>. QED BY <1>1, <1>2, <1>4, <1>5, <1>8, GoTop DEF ProgramEnds

\* A function leaves its scopes.
Drained(m, p, base) ==
  /\ Falls(m, p, base) /\ Counted(p) = Counted(m) /\ Good(p) /\ p.stray = m.stray
  /\ \A x \in Counted(m) : Bal(p, x) = Bal(m, x)

LEMMA Leaving ==
  ASSUME NEW m, NEW base, NEW f, NEW next, World(m, base, f, next), f.fn = "function",
         NEW p, p = PopClosure(PopScope(m))
  PROVE  Drained(m, p, base)
<1>1. Here(m, base, f, next) /\ Stable(m, base, f)
  BY WorldHere DEF World
<1>2. IsSeq(base) /\ Len(m.scopes) = 2 * Running(Append(base, f)) + 1
  BY <1>1, StableFacts
<1>3. PICK r \in Nat : r = Running(base)
  BY <1>2, RunningMore
<1>4. Len(m.scopes) = 2 * (r + 1) + 1
  BY <1>2, <1>3, RunningMore
<1>5. Len(m.scopes) >= 3
  BY <1>4
<1>6. /\ Scoped(m, p) /\ Len(p.scopes) = Len(m.scopes) - 2
      /\ \A i \in 1 .. Len(m.scopes) - 2 : p.scopes[i] = m.scopes[i]
  BY <1>1, <1>5, LeaveStep DEF Here
<1>7. Len(p.scopes) = 2 * r + 1 /\ \A i \in 1 .. 2 * r : i \in 1 .. Len(m.scopes) - 2
  BY <1>4, <1>6
<1>8. Falls(m, p, base)
  BY <1>1, <1>3, <1>6, <1>7 DEF Falls, Later, Scoped, Here
<1>. QED BY <1>6, <1>8 DEF Drained, Scoped

LEMMA FallsMore ==
  ASSUME NEW m, NEW p, NEW base, Falls(m, p, base), NEW q, Moved(p, q)
  PROVE  Falls(m, q, base)
<1>1. Later(m, p)
  BY DEF Falls
<1>2. Later(m, q)
  BY <1>1, GrowsMore DEF Later, Moved, Good
<1>. QED BY <1>2 DEF Falls, Moved

\* A frame that is no function has no scopes.
LEMMA Staying ==
  ASSUME NEW m, NEW base, NEW f, NEW next, World(m, base, f, next), f.fn # "function"
  PROVE  Drained(m, m, base)
<1>1. Good(m) /\ Stable(m, base, f)
  BY WorldHere DEF World, Here
<1>2. Flows(m, m)
  BY <1>1, StaysSelf DEF Stays
<1>3. Falls(m, m, base)
  BY <1>1, <1>2, FlowsFalls
<1>. QED BY <1>1, <1>3 DEF Drained

LEMMA LosesLocals ==
  ASSUME NEW m, NEW base, NEW f, NEW next, World(m, base, f, next), NEW p, Good(p), Counted(p) = Counted(m),
         \A x \in Counted(m) : Bal(p, x) = Bal(m, x),
         NEW q, q = LoseAll(p, Locals(f))
  PROVE  /\ Moved(p, q) /\ Counted(q) = Counted(m)
         /\ \A a \in Counted(q) : Bal(q, a) + Hold(f, a) = Bal(m, a)
<1>1. IsFiniteSet(DOMAIN Locals(f)) /\ \A a : Occurrences(Locals(f), a) = Hold(f, a) /\ Hold(f, a) \in Nat
  BY LocalsOcc
<1>2. ASSUME NEW a \in Counted(m) PROVE Bal(p, a) >= Occurrences(Locals(f), a) /\ Bal(p, a) \in Nat
  <2>1. Bal(m, a) >= Tip(f, next, a) /\ Tip(f, next, a) >= Hold(f, a)
        /\ Bal(m, a) \in Nat /\ Tip(f, next, a) \in Nat /\ Hold(f, a) \in Nat
    BY Enough, TipType
  <2>. QED BY <1>1, <2>1
<1>3. /\ Moved(p, q) /\ Counted(q) = Counted(p)
      /\ \A a \in Counted(p) : Bal(q, a) = Bal(p, a) - Occurrences(Locals(f), a)
  BY <1>1, <1>2, LoseAllStep
<1>4. ASSUME NEW a \in Counted(q) PROVE Bal(q, a) + Hold(f, a) = Bal(m, a)
  <2>1. Bal(q, a) = Bal(p, a) - Hold(f, a) /\ Bal(p, a) = Bal(m, a) /\ Bal(p, a) \in Nat /\ Hold(f, a) \in Nat
    BY <1>1, <1>2, <1>3
  <2>. QED BY <2>1
<1>. QED BY <1>3, <1>4

LEMMA LoseAllRec ==
  ASSUME NEW m, Rec(m), NEW refs
  PROVE  Rec(LoseAll(m, refs)) /\ LoseAll(m, refs).stray = m.stray
BY DEF Rec, LoseAll

LEMMA UnwindKeeps == ASSUME IInv, Unwind PROVE IInv'
<1>1. PICK m, base, f, next : m = mem /\ base = Front(frames) /\ f = Top /\ next = at
  OBVIOUS
<1>2. next = Throw /\ next.do = "throw" /\ f.fn # "program"
  BY <1>1 DEF Unwind, Throw
<1>3. Here(m, base, f, next)
  BY <1>1, <1>2, Now
<1>4. PICK p, q, g : p = Unwound(m) /\ q = LoseAll(p, Locals(f)) /\ g = base[Len(base)]
  OBVIOUS
<1>5. Go(q, Pop, Throw)
  BY <1>1, <1>4 DEF Unwind
<1>6. Drained(m, p, base)
  <2>1. CASE f.fn = "function"
    BY <1>1, <1>3, <1>4, <2>1, Leaving DEF Unwound, Here
  <2>2. CASE f.fn # "function"
    BY <1>1, <1>3, <1>4, <2>2, Staying DEF Unwound, Here
  <2>. QED BY <2>1, <2>2
<1>7. Moved(p, q) /\ Counted(q) = Counted(m) /\ \A a \in Counted(q) : Bal(q, a) + Hold(f, a) = Bal(m, a)
  BY <1>3, <1>4, <1>6, LosesLocals DEF Drained, Here
<1>8. Falls(m, q, base)
  BY <1>6, <1>7, FallsMore DEF Drained
<1>9. Throw.do = "throw" /\ Throw.do \in Dos
  BY DEF Throw, Dos
<1>10. Ready(q, g, Throw)
  BY <1>9 DEF Ready, AtOK
<1>11. ASSUME NEW a \in Counted(q) PROVE Bal(q, a) + Tip(f, next, a) = Bal(m, a) + Back(Throw, a)
  <2>1. Tip(f, next, a) = Hold(f, a) /\ Back(Throw, a) = 0 /\ Hold(f, a) \in Nat
    BY <1>2, <1>9, BackType, TipType DEF Back
  <2>2. Bal(q, a) + Hold(f, a) = Bal(m, a) /\ Bal(m, a) \in Nat
    BY <1>3, <1>7, Enough DEF Here
  <2>. QED BY <2>1, <2>2
<1>12. Pops(m, f, next, q, base, g, Throw)
  BY <1>8, <1>10, <1>11 DEF Pops
<1>. QED BY <1>1, <1>2, <1>4, <1>5, <1>9, <1>12, GoPop

LEMMA CatchKeeps == ASSUME IInv, Catch PROVE IInv'
<1>1. PICK m, base, f, next : m = mem /\ base = Front(frames) /\ f = Top /\ next = at
  OBVIOUS
<1>2. next = Throw /\ next.do = "throw" /\ f.fn = "program"
  BY <1>1 DEF Catch, Throw
<1>3. Here(m, base, f, next)
  BY <1>1, <1>2, Now
<1>4. PICK q, f2, next2 : q = LoseAll(m, Locals(f)) /\ f2 = Frame("program") /\ next2 = End("failed")
  OBVIOUS
<1>5. base = <<>>
  BY <1>2, <1>3 DEF Here, Rests, Link
<1>6. Go(q, <<f2>>, next2)
  BY <1>1, <1>4 DEF Catch
<1>7. <<f2>> = Append(base, f2)
  BY <1>5
<1>8. Moved(m, q) /\ Counted(q) = Counted(m) /\ \A a \in Counted(q) : Bal(q, a) + Hold(f, a) = Bal(m, a)
  BY <1>3, <1>4, LosesLocals DEF Here
<1>9. /\ f2.fn = "program" /\ f2.self = Nil /\ f2.first = NULL /\ f2.slice = NULL /\ f2.args = NULL
      /\ f2.ans = Nil /\ f2.code = NULL /\ f2.func = NULL /\ DOMAIN f2 = FrameFields /\ f2.i = 0
  BY <1>4 DEF Frame, FrameFields
<1>10. Nil # NULL
  BY DEF Nil, NULL
<1>11. Fits(f2)
  BY <1>9, <1>10 DEF Fits, FrameNames
<1>12. Alike(f, f2)
  BY <1>2, <1>3, <1>9 DEF Here, Fits, Alike
<1>13. Flows(m, q)
  BY <1>3, <1>8, MovedFlows DEF Here
<1>14. Sited(q, f2)
  BY <1>3, <1>9, <1>13, HereSited DEF Sited, Here
<1>15. next2.do = "end" /\ next2.do \in Dos
  BY <1>4 DEF End, Dos
<1>16. Ready(q, f2, next2)
  BY <1>15 DEF Ready, AtOK
<1>17. ASSUME NEW a \in Counted(q) PROVE Bal(q, a) + Tip(f, next, a) = Bal(m, a) + Tip(f2, next2, a)
  <2>1. Tip(f, next, a) = Hold(f, a) /\ Hold(f, a) \in Nat
    BY <1>2, BackType, TipType DEF Back
  <2>2. Bal(q, a) + Hold(f, a) = Bal(m, a) /\ Bal(m, a) \in Nat /\ a \notin {NULL, Nil}
    BY <1>3, <1>8, Enough DEF Here
  <2>3. Tip(f2, next2, a) = 0
    BY <1>9, <1>15, <2>2 DEF Tip, Hold, Ind
  <2>. QED BY <2>1, <2>2, <2>3
<1>18. Onward(m, f, next, q, f2, next2)
  BY <1>9, <1>11, <1>12, <1>13, <1>14, <1>16, <1>17 DEF Onward
<1>19. With(f2) = <<f2>>
  BY <1>1, <1>2, <1>7, Now DEF Stack
<1>. QED BY <1>1, <1>2, <1>6, <1>15, <1>18, <1>19, WithKeeps

-----------------------------------------------------------------------------
(* The actions that read objects. *)

\* An object as the functions of the program make it.
LEMMA ProperObj ==
  ASSUME NEW m, NEW type, NEW value, NEW items, IsSeq(items), \A i \in DOMAIN items : Maybe(m, items[i]),
         \/ type = "number" /\ value \in Numbers
         \/ type = "list" /\ value \in BOOLEAN
         \/ type = "token" /\ value \in Names
         \/ type \in {"string", "object"},
         NEW o, o = Obj(type, value, items)
  PROVE  /\ Proper(m, o) /\ o.props = <<>> /\ DOMAIN o.props = {}
         /\ o.type = type /\ o.value = value /\ o.items = items /\ o.parent = NULL
<1>1. /\ DOMAIN o = Fields /\ o.count = 1 /\ o.lost = 0 /\ o.parent = NULL /\ o.items = items
      /\ o.props = <<>> /\ o.closure = <<>> /\ o.type = type /\ o.value = value
  BY DEF Obj, Fields
<1>2. IsFiniteSet(DOMAIN o.props) /\ DOMAIN o.props = {} /\ DOMAIN o.closure = {} /\ IsFiniteSet(DOMAIN o.closure)
  BY <1>1, FS_EmptySet
<1>3. Kind(m, o)
  BY <1>1 DEF Kind
<1>. QED BY <1>1, <1>2, <1>3 DEF Proper, Table, Maybe

LEMMA NoItems == IsSeq(<<>>) /\ DOMAIN <<>> = {} /\ Len(<<>>) = 0
<1>1. PICK s : s = <<>>
  OBVIOUS
<1>2. s \in Seq(Nat) /\ Len(s) = 0 /\ DOMAIN s = {}
  BY <1>1
<1>. QED BY <1>1, <1>2, SeqAny

LEMMA ReadObjectKeeps ==
  ASSUME IInv, at = Read, NEW o, Proper(mem, o), NEW rest, rest \in Seq(Byte), ReadObject(o, rest)
  PROVE  IInv'
<1>1. at.do = "read"
  BY DEF Read
<1>2. Here(mem, Front(frames), Top, at) /\ Stack(Front(frames), Top) /\ Waits(Top)
  BY <1>1, Now, NowWaits
<1>3. mem' = New(mem, o) /\ at' = Return(Fresh(mem)) /\ input' = rest /\ frames' = frames
  BY DEF ReadObject
<1>4. Gains(mem, mem', Fresh(mem)) /\ mem'.stray = mem.stray
  BY <1>2, <1>3, NewFacts, NewerGains DEF Here, Newer, Moved
<1>5. Straight(mem')
  BY <1>2, <1>4 DEF Here, Straight
<1>6. World(mem', Front(frames), Top, Return(Fresh(mem)))
  BY <1>1, <1>2, <1>4, <1>5, OpReturns DEF Gains, Here
<1>7. Return(Fresh(mem)).do \in Dos
  BY DEF Return, Dos
<1>. QED BY <1>2, <1>3, <1>6, <1>7, Reached DEF Stack

\* What is there of an object that is read.
LEMMA There ==
  ASSUME IInv, ~Past
  PROVE  /\ input \in Seq(Byte) /\ input # <<>> /\ Len(input) \in Nat
         /\ \A n \in Nat : Behind(n) \in Seq(Byte) /\ (n <= Len(input) => Len(Behind(n)) = Len(input) - n)
         /\ input[1] = 1 => Len(input) >= 2 /\ ~Short(Behind(2))
         /\ input[1] \in {2, 4} => /\ ~Short(Behind(1))
                                   /\ LengthType(Behind(1)) \in Forms =>
                                        ~(Len(AfterLength(Behind(1))) <= Length(Behind(1)))
         /\ input[1] = 3 => Len(input) > NumberSize
         /\ input[1] = 5 => Len(input) >= 2
<1>1. input \in Seq(Byte) /\ Len(input) \in Nat
  BY DEF IInv
<1>2. ASSUME NEW n \in Nat
      PROVE Behind(n) \in Seq(Byte) /\ (n <= Len(input) => Len(Behind(n)) = Len(input) - n)
  BY <1>1, Suffix DEF Behind
<1>3. input # <<>>
  BY DEF Past
<1>4. ASSUME input[1] = 1 PROVE Len(input) >= 2 /\ ~Short(Behind(2))
  BY <1>1, <1>4 DEF Past
<1>5. ASSUME input[1] \in {2, 4}
      PROVE /\ ~Short(Behind(1))
            /\ LengthType(Behind(1)) \in Forms => ~(Len(AfterLength(Behind(1))) <= Length(Behind(1)))
  BY <1>1, <1>5 DEF Past
<1>6. ASSUME input[1] = 3 PROVE Len(input) > NumberSize
  BY <1>1, <1>6 DEF Past, NumberSize
<1>7. ASSUME input[1] = 5 PROVE Len(input) >= 2
  BY <1>1, <1>7 DEF Past
<1>. QED BY <1>1, <1>2, <1>3, <1>4, <1>5, <1>6, <1>7

LEMMA LengthThere ==
  ASSUME NEW bytes \in Seq(Byte), ~Short(bytes), LengthType(bytes) \in Forms
  PROVE  bytes # <<>> /\ Length(bytes) \in Nat /\ AfterLength(bytes) \in Seq(Byte)
<1>1. bytes # <<>>
  BY DEF Short
<1>. QED BY <1>1, LengthIs

LEMMA ReadTextKeeps == ASSUME IInv, ReadText PROVE IInv'
<1>1. at = Read /\ ~Past /\ input[1] \in {2, 4} /\ LengthType(Behind(1)) \in Forms
  BY DEF ReadText, Reading
<1>2. PICK bytes : bytes = Behind(1)
  OBVIOUS
<1>3. PICK rest, n : rest = AfterLength(bytes) /\ n = Length(bytes)
  OBVIOUS
<1>4. bytes \in Seq(Byte) /\ ~Short(bytes) /\ LengthType(bytes) \in Forms /\ ~(Len(rest) <= n)
  BY <1>1, <1>2, <1>3, There
<1>5. n \in Nat /\ rest \in Seq(Byte)
  BY <1>3, <1>4, LengthThere
<1>6. PICK name : name = Spelled(SubSeq(rest, 1, n))
  OBVIOUS
<1>7. name \in Names
  <2>1. PICK b : b = SubSeq(rest, 1, n)
    OBVIOUS
  <2>2. Len(rest) \in Nat /\ n <= Len(rest)
    BY <1>4, <1>5
  <2>3. \A i \in 1 .. n : rest[i] \in Byte
    BY <1>5, <2>2
  <2>4. b \in Seq(Byte)
    BY <1>5, <2>1, <2>2, <2>3
  <2>. QED BY <1>6, <2>1, <2>4, SpelledType
<1>8. PICK o : o = IF input[1] = 2 THEN Obj("token", name, <<>>) ELSE Obj("string", <<name>>, <<>>)
  OBVIOUS
<1>9. Proper(mem, o)
  <2>1. input[1] = 2 => Proper(mem, o)
    BY <1>7, <1>8, NoItems, ProperObj
  <2>2. input[1] # 2 => Proper(mem, o)
    BY <1>8, NoItems, ProperObj
  <2>. QED BY <2>1, <2>2
<1>10. SubSeq(rest, n + 1, Len(rest)) \in Seq(Byte)
  BY <1>5, Suffix
<1>11. ReadObject(o, SubSeq(rest, n + 1, Len(rest)))
  BY <1>2, <1>3, <1>6, <1>8 DEF ReadText
<1>. QED BY <1>1, <1>9, <1>10, <1>11, ReadObjectKeeps

LEMMA ReadNumberKeeps == ASSUME IInv, ReadNumber PROVE IInv'
<1>1. at = Read /\ ~Past /\ input[1] \in {3}
  BY DEF ReadNumber, Reading
<1>2. /\ Behind(1) \in Seq(Byte) /\ Behind(1 + NumberSize) \in Seq(Byte)
      /\ Len(Behind(1)) >= NumberSize
  <2>1. input[1] = 3 /\ Len(input) \in Nat /\ Len(input) > NumberSize
    BY <1>1, There
  <2>2. Len(Behind(1)) = Len(input) - 1 /\ Behind(1) \in Seq(Byte)
    <3>1. PICK n \in Nat : n = 1
      OBVIOUS
    <3>2. n <= Len(input)
      BY <2>1, <3>1 DEF NumberSize
    <3>. QED BY <1>1, <3>1, <3>2, There
  <2>3. Behind(1 + NumberSize) \in Seq(Byte)
    <3>1. 1 + NumberSize \in Nat
      BY DEF NumberSize
    <3>. QED BY <1>1, <3>1, There
  <2>. QED BY <2>1, <2>2, <2>3 DEF NumberSize
<1>3. NumberIn(Behind(1)) \in Numbers
  BY <1>2, NumberType
<1>4. Proper(mem, Obj("number", NumberIn(Behind(1)), <<>>))
  BY <1>3, NoItems, ProperObj
<1>. QED BY <1>1, <1>2, <1>4, ReadObjectKeeps DEF ReadNumber

LEMMA ReadBooleanKeeps == ASSUME IInv, ReadBoolean PROVE IInv'
<1>1. at = Read /\ ~Past /\ input[1] \in {5}
  BY DEF ReadBoolean, Reading
<1>2. PICK b, m : b = (input[2] # 0) /\ m = Share(mem, b)
  OBVIOUS
<1>3. \/ ~m.stray /\ mem' = m /\ at' = Return(Bool(b)) /\ input' = Behind(2) /\ UNCHANGED <<source, frames>>
      \/ Stray
  BY <1>2 DEF ReadBoolean
<1>4. CASE Stray
  BY <1>4, StrayKeeps
<1>5. CASE ~m.stray /\ mem' = m /\ at' = Return(Bool(b)) /\ input' = Behind(2) /\ UNCHANGED <<source, frames>>
  <2>1. at.do = "read"
    BY <1>1 DEF Read
  <2>2. Here(mem, Front(frames), Top, at) /\ Stack(Front(frames), Top) /\ Waits(Top)
    BY <2>1, Now, NowWaits
  <2>3. Straight(m)
    BY <1>5 DEF Straight
  <2>4. Gains(mem, m, Bool(b))
    BY <1>2, <2>2, <2>3, ShareStep, ShiftGains DEF Here, Maybe
  <2>5. World(m, Front(frames), Top, Return(Bool(b)))
    BY <2>1, <2>2, <2>3, <2>4, OpReturns DEF Gains, Here
  <2>6. Return(Bool(b)).do \in Dos
    BY DEF Return, Dos
  <2>7. Behind(2) \in Seq(Byte)
    <3>1. PICK n \in Nat : n = 2
      OBVIOUS
    <3>. QED BY <1>1, <3>1, There
  <2>. QED BY <1>5, <2>2, <2>5, <2>6, <2>7, Reached DEF Stack
<1>. QED BY <1>3, <1>4, <1>5

LEMMA ReadEndKeeps == ASSUME IInv, ReadEnd PROVE IInv'
<1>1. at.do = "read"
  BY DEF ReadEnd, Reading, Read
<1>2. Here(mem, Front(frames), Top, at)
  BY <1>1, Now
<1>3. Gains(mem, mem, NULL)
  <2>1. Flows(mem, mem) /\ NULL \in Addr(mem)
    BY <1>2, StaysSelf, Addresses DEF Here, Stays, Good
  <2>2. \A a \in Counted(mem) : Bal(mem, a) = Bal(mem, a) + Ind(NULL, a)
    <3>1. \A a \in Counted(mem) : a # NULL /\ Bal(mem, a) \in Nat
      BY <1>2, Enough DEF Here
    <3>. QED BY <3>1 DEF Ind
  <2>. QED BY <2>1, <2>2 DEF Gains
<1>. QED BY <1>1, <1>3, ReturnKeeps DEF ReadEnd

LEMMA ReadInvalidKeeps == ASSUME IInv, ReadInvalid PROVE IInv'
<1>1. at.do = "read" /\ Stop("exit")
  BY DEF ReadInvalid, Read
<1>. QED BY <1>1, PlainKeeps DEF Stop, IInv

LEMMA ReadPastKeeps == ASSUME IInv, ReadPast PROVE IInv'
  BY StrayKeeps DEF ReadPast

LEMMA ReadItemKeeps == ASSUME IInv, ReadItem PROVE IInv'
<1>1. at.do = "resume" /\ Top.fn = "list"
  BY DEF ReadItem, Resumed, Resume
<1>2. Stays(mem, mem) /\ Waits(Top)
  BY <1>1, Now, StaysSelf DEF Here, Waits
<1>. QED BY <1>1, <1>2, ThrowKeeps DEF ReadItem

\* What is returned lives, and what locals hold.
LEMMA LocalsLive ==
  ASSUME NEW m, NEW base, NEW f, NEW next, World(m, base, f, next)
  PROVE  /\ next.do = "return" => Maybe(m, next.obj)
         /\ Maybe(m, f.self) /\ Maybe(m, f.first) /\ Maybe(m, f.slice) /\ Maybe(m, f.args) /\ Maybe(m, f.ans)
         /\ Maybe(m, f.code) /\ Maybe(m, f.func)
<1>1. FrameAt(m, f) /\ Good(m) /\ AtOK(m, f, next)
  BY WorldHere DEF Here
<1>2. ASSUME next.do = "return" PROVE Maybe(m, next.obj)
  <2>1. next.obj \in Addr(m) /\ Addr(m) = DOMAIN m.heap \cup {NULL} /\ Alive(m, Nil)
    BY <1>1, <1>2, Addresses DEF AtOK, Good
  <2>2. CASE next.obj \in {NULL, Nil}
    BY <2>1, <2>2 DEF Maybe
  <2>3. CASE next.obj \notin {NULL, Nil}
    <3>1. next.obj \in Counted(m)
      BY <2>1, <2>3 DEF Counted
    <3>2. Bal(m, next.obj) \in Nat /\ Tip(f, next, next.obj) \in Nat /\ Bal(m, next.obj) >= Tip(f, next, next.obj)
      BY <3>1, Enough
    <3>3. Tip(f, next, next.obj) # 0
      <4>1. Hold(f, next.obj) \in Nat
        BY LocalsOcc
      <4>. QED BY <1>2, <4>1 DEF Tip, Ind
    <3>4. Bal(m, next.obj) # 0
      BY <3>2, <3>3
    <3>. QED BY <1>1, <3>4, BalAlive DEF Maybe
  <2>. QED BY <2>2, <2>3
<1>. QED BY <1>1, <1>2 DEF FrameAt, Owns, Lent

\* The innermost frame goes, with a value or an error.
Leaves(m, f, next, m2, base, next2) ==
  /\ Falls(m, m2, base)
  /\ next2.do = "return" => next2.obj \in Addr(m2)
  /\ \A a \in Counted(m2) : Bal(m2, a) + Tip(f, next, a) = Bal(m, a) + Back(next2, a)

LEMMA PopKeeps ==
  ASSUME IInv, at.do # "end", Top.fn # "program", NEW m, NEW next, Go(m, Pop, next),
         next.do \in {"return", "throw"}, Straight(m) => Leaves(mem, Top, at, m, Front(frames), next)
  PROVE  IInv'
<1>1. PICK base, g : base = Front(frames) /\ g = base[Len(base)]
  OBVIOUS
<1>2. World(mem, base, Top, at)
  BY <1>1, Now DEF Here
<1>3. Waits(g)
  BY <1>1, <1>2, UnderStep DEF Under, Link
<1>4. ASSUME Straight(m) PROVE Pops(mem, Top, at, m, base, g, next)
  <2>1. Leaves(mem, Top, at, m, base, next)
    BY <1>1, <1>4
  <2>2. Ready(m, g, next)
    BY <1>3, <2>1 DEF Leaves, Ready, AtOK
  <2>. QED BY <2>1, <2>2 DEF Leaves, Pops
<1>5. next.do \in Dos
  BY DEF Dos
<1>. QED BY <1>1, <1>4, <1>5, GoPop

\* A frame that is no function goes.
Parting(m, f, next, m2, next2) ==
  /\ Flows(m, m2)
  /\ next2.do = "return" => next2.obj \in Addr(m2)
  /\ \A a \in Counted(m2) : Bal(m2, a) + Tip(f, next, a) = Bal(m, a) + Back(next2, a)

LEMMA PartKeeps ==
  ASSUME IInv, at.do # "end", Top.fn \notin {"program", "function"}, NEW m, NEW next, Go(m, Pop, next),
         next.do \in {"return", "throw"}, Straight(m) => Parting(mem, Top, at, m, next)
  PROVE  IInv'
<1>1. Stable(mem, Front(frames), Top)
  BY DEF IInv
<1>2. ASSUME Straight(m) PROVE Leaves(mem, Top, at, m, Front(frames), next)
  BY <1>1, <1>2, FlowsFalls DEF Parting, Leaves
<1>. QED BY <1>2, PopKeeps

LEMMA ReadListKeeps == ASSUME IInv, ReadList PROVE IInv'
<1>1. PICK m, f, next, o : m = mem /\ f = Top /\ next = at /\ o = Obj("list", input[2] # 0, <<>>)
  OBVIOUS
<1>2. at.do = "read" /\ ~Past /\ input[1] = 1 /\ LengthType(Behind(2)) \in Forms
  BY DEF ReadList, Reading, Read
<1>3. Here(m, Front(frames), f, next) /\ Stack(Front(frames), f) /\ Waits(f)
  BY <1>1, <1>2, Now, NowWaits
<1>19. PICK x : x = Fresh(m)
  OBVIOUS
<1>4. PICK f2, next2, m2 :
        f2 = [Frame("list") EXCEPT !.ans = x, !.i = Length(Behind(2))] /\ next2 = Resume /\ m2 = New(m, o)
  OBVIOUS
<1>5. mem' = m2 /\ frames' = Append(frames, f2) /\ at' = next2 /\ input' = AfterLength(Behind(2))
  <2>1. NewList(m, input[2] # 0, <<>>) = m2
    BY <1>1, <1>4 DEF NewList
  <2>2. Push(f2) = Append(frames, f2)
    BY <1>3 DEF Stack
  <2>. QED BY <1>1, <1>4, <1>19, <2>1, <2>2 DEF ReadList
<1>6. Proper(m, o)
  <2>1. (input[2] # 0) \in BOOLEAN
    OBVIOUS
  <2>. QED BY <1>1, <2>1, NoItems, ProperObj
<1>7. Newer(m, o, x, m2) /\ Gains(m, m2, x)
  BY <1>3, <1>4, <1>6, <1>19, NewFacts, NewerGains DEF Here
<1>8. Straight(m2)
  BY <1>3, <1>7 DEF Newer, Moved, Straight, Here
<1>9. /\ DOMAIN f2 = FrameFields /\ f2.fn = "list" /\ f2.code = NULL /\ f2.func = NULL /\ f2.self = Nil
      /\ f2.first = NULL /\ f2.slice = NULL /\ f2.args = NULL /\ f2.ans = x
  BY <1>4 DEF Frame, FrameFields
<1>10. x \notin {NULL, Nil} /\ x \in Addr(m2)
  BY <1>7 DEF Newer, Gains
<1>11. Fits(f2)
  <2>1. Nil # NULL
    BY DEF Nil, NULL
  <2>. QED BY <1>9, <1>10, <2>1 DEF Fits, FrameNames
<1>12. Flows(m, m2) /\ Sited(m2, f2)
  <2>1. Flows(m, m2) /\ NULL \in Addr(m2) /\ Nil \in Addr(m2)
    BY <1>3, <1>7, HereSited DEF Here, Gains
  <2>. QED BY <1>9, <1>10, <2>1 DEF Sited
<1>13. FrameAt(m2, f) /\ Owns(m2, f2) => FrameAt(m2, f2) /\ Link(m2, f, f2)
  BY <1>3, <1>9, <1>11 DEF FrameAt, Rely, Lent, Maybe, Link
<1>14. next2.do = "resume"
  BY <1>4 DEF Resume
<1>15. Ready(m2, f2, next2) /\ next2.do \in Dos
  BY <1>14 DEF Ready, AtOK, Dos
<1>16. ASSUME NEW a \in Counted(m2) PROVE Bal(m2, a) + Back(next, a) = Bal(m, a) + Tip(f2, next2, a)
  <2>1. a \notin {NULL, Nil}
    <3>1. Good(m2)
      BY <1>7 DEF Newer, Moved
    <3>. QED BY <3>1, Addresses DEF Counted, Good
  <2>2. Bal(m2, a) = Bal(m, a) + Ind(x, a) /\ Bal(m, a) \in Nat
    BY <1>3, <1>7, BalType DEF Gains, Here
  <2>3. Back(next, a) = 0
    BY <1>1, <1>2 DEF Back
  <2>4. Tip(f2, next2, a) = Ind(x, a)
    BY <1>9, <1>14, <2>1 DEF Tip, Hold, Ind
  <2>5. Bal(m2, a) \in Nat
    BY <2>2 DEF Ind
  <2>. QED BY <2>2, <2>3, <2>4, <2>5
<1>17. World(m2, Append(Front(frames), f), f2, next2)
  BY <1>3, <1>8, <1>9, <1>12, <1>13, <1>15, <1>16, PushStep DEF Here
<1>18. AfterLength(Behind(2)) \in Seq(Byte)
  <2>1. PICK n \in Nat : n = 2
    OBVIOUS
  <2>2. Behind(2) \in Seq(Byte) /\ ~Short(Behind(2))
    BY <1>2, <2>1, There
  <2>. QED BY <1>2, <2>2, LengthThere
<1>. QED BY <1>3, <1>5, <1>15, <1>17, <1>18, Reached DEF Stack

LEMMA ListReadKeeps == ASSUME IInv, ListRead PROVE IInv'
<1>1. at.do = "resume" /\ Top.fn = "list" /\ Go(mem, Pop, Return(Top.ans))
  BY DEF ListRead, Resumed, Resume
<1>2. Here(mem, Front(frames), Top, at)
  BY <1>1, Now
<1>3. PICK next : next = Return(Top.ans)
  OBVIOUS
<1>4. next.do = "return" /\ next.obj = Top.ans
  BY <1>3 DEF Return
<1>5. Flows(mem, mem) /\ Sited(mem, Top)
  BY <1>2, StaysSelf, HereSited DEF Here, Stays
<1>6. ASSUME NEW a \in Counted(mem) PROVE Bal(mem, a) + Tip(Top, at, a) = Bal(mem, a) + Back(next, a)
  <2>1. a \notin {NULL, Nil}
    BY <1>2, Enough DEF Here
  <2>2. Top.self = Nil /\ Top.first = NULL /\ Top.slice = NULL /\ Top.args = NULL
    BY <1>1, <1>2 DEF Here, Fits
  <2>3. Tip(Top, at, a) = Back(next, a)
    BY <1>1, <1>4, <2>1, <2>2 DEF Tip, Hold, Ind, Back
  <2>. QED BY <2>3
<1>7. Parting(mem, Top, at, mem, next)
  BY <1>4, <1>5, <1>6 DEF Parting, Sited
<1>. QED BY <1>1, <1>3, <1>4, <1>7, PartKeeps

LEMMA ItemReadKeeps == ASSUME IInv, ItemRead PROVE IInv'
<1>1. PICK m, base, f, next : m = mem /\ base = Front(frames) /\ f = Top /\ next = at
  OBVIOUS
<1>2. next.do = "return" /\ f.fn = "list"
  BY <1>1 DEF ItemRead, Returned
<1>3. Here(m, base, f, next)
  BY <1>1, <1>2, Now
<1>4. PICK m1, m2, f2, next2 :
        m1 = ListAdd(m, f.ans, next.obj) /\ m2 = Release(m1, next.obj) /\ f2 = [f EXCEPT !.i = @ - 1] /\ next2 = Resume
  OBVIOUS
<1>5. Go(m2, With(f2), next2)
  BY <1>1, <1>4 DEF ItemRead
<1>6. f.ans \notin {NULL, Nil} /\ Alive(m, f.ans) /\ Maybe(m, next.obj) /\ Good(m)
  BY <1>2, <1>3, LocalsLive DEF Here, Fits, Maybe
<1>7. Moved(m, m1) /\ Counted(m1) = Counted(m) /\ \A a \in Counted(m) : Bal(m1, a) = Bal(m, a)
  BY <1>4, <1>6, ListAddStep DEF Maybe
<1>8. Loses(m1, m2, next.obj)
  <2>1. \A a \in Counted(m) : Bal(m, a) >= Ind(next.obj, a)
    BY <1>2, <1>3, ReleasesTip DEF Here
  <2>2. \A a \in Counted(m1) : Bal(m1, a) >= Ind(next.obj, a)
    BY <1>7, <2>1
  <2>. QED BY <1>4, <1>7, <2>2, Releases DEF Moved
<1>9. Flows(m, m2)
  BY <1>6, <1>7, <1>8, MovedFlows, FlowsMore DEF Loses
<1>10. /\ DOMAIN f2 = FrameFields /\ f2.fn = f.fn /\ f2.code = f.code /\ f2.func = f.func /\ f2.self = f.self
       /\ f2.first = f.first /\ f2.slice = f.slice /\ f2.args = f.args /\ f2.ans = f.ans
  BY <1>3, <1>4 DEF Here, Fits, FrameFields
<1>11. Fits(f2) /\ Alike(f, f2)
  BY <1>2, <1>3, <1>10 DEF Here, Fits, Alike
<1>12. Sited(m2, f2)
  BY <1>3, <1>9, <1>10, HereSited DEF Here, Sited
<1>13. next2.do = "resume"
  BY <1>4 DEF Resume
<1>14. Ready(m2, f2, next2) /\ next2.do \in Dos
  BY <1>13 DEF Ready, AtOK, Dos
<1>15. ASSUME NEW a \in Counted(m2) PROVE Bal(m2, a) + Tip(f, next, a) = Bal(m, a) + Tip(f2, next2, a)
  <2>1. Bal(m2, a) \in Nat /\ Bal(m2, a) + Ind(next.obj, a) = Bal(m, a)
    BY <1>7, <1>8 DEF Loses
  <2>2. Tip(f, next, a) = Hold(f, a) + Ind(next.obj, a) /\ Tip(f2, next2, a) = Hold(f2, a)
    BY <1>2, <1>13, TipType DEF Tip
  <2>3. Hold(f2, a) = Hold(f, a) /\ Hold(f, a) \in Nat
    BY <1>10, LocalsOcc DEF Hold
  <2>. QED BY <2>1, <2>2, <2>3 DEF Ind
<1>16. Onward(m, f, next, m2, f2, next2)
  BY <1>2, <1>9, <1>10, <1>11, <1>12, <1>14, <1>15 DEF Onward
<1>. QED BY <1>1, <1>2, <1>5, <1>14, <1>16, WithKeeps

-----------------------------------------------------------------------------
(* Calls of operators. *)

\* Whatever lives because of C locals goes on living.
Holds(m, m2) == Later(m, m2) /\ \A x \in Counted(m) : Bal(m2, x) >= Bal(m, x)

LEMMA HoldsSelf == ASSUME NEW m, Good(m) PROVE Holds(m, m)
<1>1. \A x : Bal(m, x) \in Nat
  BY BalType
<1>2. \A x \in Counted(m) : Bal(m, x) >= Bal(m, x)
  BY <1>1
<1>. QED BY <1>2, LaterSelf DEF Holds

\* The frames that are there hold what they held.
LEMMA FrameHolds ==
  ASSUME NEW m, NEW base, NEW f, NEW next, World(m, base, f, next), NEW m2, Holds(m, m2)
  PROVE  /\ FrameAt(m2, f) /\ Runs(m, f) \subseteq Runs(m2, f) /\ Callees(m2, f) = Callees(m, f)
         /\ \A x \in Runs(m, f) : Maybe(m2, x)
         /\ \A x \in Callees(m, f) : Is(m2, x, "function") /\ Alive(m2, Given(f)) /\ Alive(m2, f.self)
<1>1. PICK fs : fs = Append(base, f)
  OBVIOUS
<1>2. Stable(m, base, f) /\ IsSeq(base) /\ IsSeq(fs) /\ Covers(m, fs) /\ Chain(m, fs) /\ FrameAt(m, f)
  BY <1>1, StableFacts DEF World, Stable
<1>3. Covers(m2, fs)
  BY <1>2, CoversLater DEF Holds
<1>4. Chain(m2, fs)
  BY <1>2, <1>3, ChainStays DEF Holds
<1>5. FrameAt(m2, f) /\ Good(m2)
  BY <1>1, <1>2, <1>4, ChainMore DEF Holds, Later
<1>6. Runs(m, f) \subseteq Runs(m2, f) /\ Callees(m, f) = Callees(m2, f)
  BY <1>2, <1>5, RunsStays DEF Holds
<1>. QED BY <1>5, <1>6, RunsAlive

\* What a call has.
CallOK(m, f, next, m2) ==
  /\ Is(m2, next.func, "function") /\ Alive(m2, next.args) /\ Alive(m2, next.self)
  /\ \A i \in DOMAIN Items(m, next.args) : Maybe(m2, Items(m, next.args)[i])

LEMMA CallFacts ==
  ASSUME NEW m, NEW base, NEW f, NEW next, World(m, base, f, next), next.do = "call"
  PROVE  /\ f.fn \in {"call", "loop"} /\ next.func \in Callees(m, f) /\ next.args = Given(f)
         /\ next.self = (IF f.fn = "call" THEN f.self ELSE Nil)
         /\ next.self = Nil \/ Bal(m, next.self) # 0
         /\ IsSeq(Items(m, next.args))
         /\ \A m2 : Holds(m, m2) => CallOK(m, f, next, m2)
         /\ CallOK(m, f, next, m)
<1>1. Good(m) /\ FrameAt(m, f) /\ Passed(m, f, next.func, next.args, next.self)
  BY WorldHere DEF Here, AtOK
<1>2. next.func \in Callees(m, f) /\ next.args = Given(f) /\ next.self = (IF f.fn = "call" THEN f.self ELSE Nil)
  BY <1>1 DEF Passed
<1>3. f.fn \in {"call", "loop"}
  BY <1>2 DEF Callees
<1>4. ASSUME NEW m2, Holds(m, m2) PROVE CallOK(m, f, next, m2)
  <2>1. /\ Is(m2, next.func, "function") /\ Alive(m2, Given(f)) /\ Alive(m2, f.self)
        /\ \A x \in Runs(m, f) : Maybe(m2, x)
    BY <1>2, <1>4, FrameHolds
  <2>2. Alive(m2, Nil)
    BY <1>4, NilAlive DEF Holds, Later
  <2>3. Alive(m2, next.self) /\ Alive(m2, next.args)
    BY <1>2, <2>1, <2>2
  <2>4. ASSUME NEW i \in DOMAIN Items(m, next.args) PROVE Maybe(m2, Items(m, next.args)[i])
    <3>1. CASE f.fn = "call"
      <4>1. Runs(m, f) = Range(Items(m, next.args))
        BY <1>2, <3>1 DEF Runs, Given
      <4>. QED BY <2>1, <4>1 DEF Range
    <3>2. CASE f.fn = "loop"
      <4>1. Items(m, next.args) = <<>>
        BY <1>1, <1>2, <3>2 DEF Given, Items, Good, Shape, Nil, NULL
      <4>. QED BY <4>1
    <3>. QED BY <1>3, <3>1, <3>2
  <2>. QED BY <2>1, <2>3, <2>4 DEF CallOK
<1>5. next.self = Nil \/ Bal(m, next.self) # 0
  <2>1. CASE f.fn = "call" /\ f.self # Nil
    <3>1. next.self = f.self /\ f.self # NULL /\ Alive(m, f.self)
      BY <1>1, <1>2, <2>1, LocalsLive DEF FrameAt, Fits, Maybe
    <3>2. f.self \in Counted(m)
      BY <2>1, <3>1 DEF Counted, Alive
    <3>3. Bal(m, f.self) \in Nat /\ Tip(f, next, f.self) \in Nat /\ Bal(m, f.self) >= Tip(f, next, f.self)
      BY <3>2, Enough
    <3>4. Tip(f, next, f.self) # 0
      BY DEF Tip, Hold, Ind
    <3>. QED BY <3>1, <3>3, <3>4
  <2>. QED BY <1>2, <2>1
<1>6. IsSeq(Items(m, next.args))
  <2>1. Maybe(m, next.args)
    BY <1>1, <1>2, RunsAlive DEF Maybe
  <2>. QED BY <1>1, <2>1, LaterSelf, ItemsStay
<1>7. CallOK(m, f, next, m)
  BY <1>1, <1>4, HoldsSelf
<1>. QED BY <1>2, <1>3, <1>4, <1>5, <1>6, <1>7

\* An operator that runs: its arguments, and what they are.
Served(m2) ==
  /\ Is(m2, at.func, "function") /\ Alive(m2, at.args) /\ Alive(m2, at.self)
  /\ \A k \in DOMAIN Arguments : Maybe(m2, Arg(k))

LEMMA OperatorFacts ==
  ASSUME IInv, Operator
  PROVE  /\ at.do = "call" /\ at.do # "end" /\ Good(mem) /\ Straight(mem) /\ Secure(mem) /\ OddTop(mem) /\ Rec(mem)
         /\ World(mem, Front(frames), Top, at) /\ Fits(Top) /\ FrameAt(mem, Top)
         /\ Top.fn \in {"call", "loop"} /\ Waits(Top)
         /\ at.func \in Callees(mem, Top) /\ at.args = Given(Top)
         /\ at.self = Nil \/ Bal(mem, at.self) # 0
         /\ IsSeq(Arguments) /\ Len(Arguments) \in Nat /\ DOMAIN Arguments = 1 .. Len(Arguments)
         /\ DOMAIN Types = DOMAIN Arguments
         /\ \A k \in DOMAIN Arguments : Types[k] = Type(mem, Arg(k)) /\ Maybe(mem, Arg(k))
         /\ \A m2 : Holds(mem, m2) => Served(m2)
         /\ Served(mem)
<1>1. at.do = "call" /\ at.do # "end"
  BY DEF Operator
<1>2. Here(mem, Front(frames), Top, at) /\ Waits(Top)
  BY <1>1, Now, NowWaits
<1>3. World(mem, Front(frames), Top, at)
  BY <1>2 DEF Here
<1>4. \A m2 : CallOK(mem, Top, at, m2) => Served(m2)
  BY DEF CallOK, Served, Arguments, Arg
<1>5. /\ Top.fn \in {"call", "loop"} /\ at.func \in Callees(mem, Top) /\ at.args = Given(Top)
      /\ at.self = Nil \/ Bal(mem, at.self) # 0
      /\ IsSeq(Arguments)
      /\ \A m2 : Holds(mem, m2) => Served(m2)
      /\ Served(mem)
  BY <1>1, <1>3, <1>4, CallFacts DEF Arguments
<1>6. Len(Arguments) \in Nat /\ DOMAIN Arguments = 1 .. Len(Arguments)
  BY <1>5, SeqFacts
<1>7. DOMAIN Types = DOMAIN Arguments /\ \A k \in DOMAIN Arguments : Types[k] = Type(mem, Arg(k))
  BY DEF Types
<1>. QED BY <1>1, <1>2, <1>3, <1>5, <1>6, <1>7 DEF Here, Served

LEMMA DemandMet ==
  ASSUME IInv, Operator, Unmet = {}, NEW k, k \in DOMAIN Demands(OpName), k \in Nat \ {0}
  PROVE  /\ k \in DOMAIN Arguments
         /\ Demands(OpName)[k] = "defined" => Arg(k) # NULL
         /\ Demands(OpName)[k] \in {"any", "defined"} \/ Types[k] = Demands(OpName)[k]
<1>1. Len(Arguments) \in Nat /\ DOMAIN Arguments = 1 .. Len(Arguments)
  BY OperatorFacts
<1>2. Meets(Demands(OpName)[k], k)
  BY DEF Unmet
<1>. QED BY <1>1, <1>2 DEF Meets, Crashes

LEMMA PerformsIs ==
  ASSUME NEW ops, Performs(ops)
  PROVE  Operator /\ OpName \in ops /\ Unmet = {}
  BY DEF Performs

\* What the operators demand.
LEMMA DemandsAre ==
  /\ OpName \in {"<", ">", "<=", ">="} => Demands(OpName) = <<"number", "number">>
  /\ OpName \in {"set", "define"} => Demands(OpName) = <<"token", "any">>
  /\ OpName \in {"bind", "bound?", "Object.get"} => Demands(OpName) = <<"token">>
  /\ OpName = "Object.set" => Demands(OpName) = <<"token", "defined">>
  /\ OpName \in {"-", "/", "mod", "Object.patch"} => Demands(OpName) = <<"defined">>
  /\ OpName \in {"evaluate", "freeze", "^", "#", "not", "?", "unwrap"} => Demands(OpName) = <<"any">>
  /\ OpName = "loop" => Demands(OpName) = <<"function", "function">>
  BY DEF Demands

\* The first argument is there, and the second.
LEMMA FirstThere ==
  ASSUME IInv, Operator, Unmet = {}, NEW d, Demands(OpName) = <<d>> \/ \E e : Demands(OpName) = <<d, e>>
  PROVE  /\ 1 \in DOMAIN Arguments /\ Maybe(mem, Arg(1)) /\ (d = "defined" => Arg(1) # NULL)
         /\ d \in {"any", "defined"} \/ Types[1] = d
<1>1. PICK k : k = 1
  OBVIOUS
<1>2. k \in DOMAIN Demands(OpName) /\ Demands(OpName)[k] = d /\ k \in Nat \ {0}
  BY <1>1
<1>3. /\ k \in DOMAIN Arguments /\ (d = "defined" => Arg(k) # NULL) /\ (d \in {"any", "defined"} \/ Types[k] = d)
  BY <1>2, DemandMet
<1>4. Maybe(mem, Arg(k))
  BY <1>3, OperatorFacts
<1>. QED BY <1>1, <1>3, <1>4

LEMMA SecondThere ==
  ASSUME IInv, Operator, Unmet = {}, NEW d, NEW e, Demands(OpName) = <<d, e>>
  PROVE  /\ 2 \in DOMAIN Arguments /\ Maybe(mem, Arg(2)) /\ (e = "defined" => Arg(2) # NULL)
         /\ e \in {"any", "defined"} \/ Types[2] = e
<1>1. PICK k : k = 2
  OBVIOUS
<1>2. k \in DOMAIN Demands(OpName) /\ Demands(OpName)[k] = e /\ k \in Nat \ {0}
  BY <1>1
<1>3. /\ k \in DOMAIN Arguments /\ (e = "defined" => Arg(k) # NULL) /\ (e \in {"any", "defined"} \/ Types[k] = e)
  BY <1>2, DemandMet
<1>4. Maybe(mem, Arg(k))
  BY <1>3, OperatorFacts
<1>. QED BY <1>1, <1>3, <1>4

-----------------------------------------------------------------------------
(* Arithmetic, comparison and text. *)

LEMMA RefuseKeeps == ASSUME IInv, Refuse PROVE IInv'
<1>1. Operator
  BY DEF Refuse
<1>2. at.do = "call" /\ Stays(mem, mem)
  BY <1>1, OperatorFacts, StaysSelf
<1>3. Die \/ Go(mem, frames, Throw)
  <2>1. \E k : IF Crashes(Demands(OpName)[k], k) THEN Die ELSE Go(mem, frames, Throw)
    BY DEF Refuse
  <2>. QED BY <2>1
<1>4. Throw # Read
  BY DEF Throw, Read
<1>. QED BY <1>2, <1>3, <1>4, DieKeeps, ThrowKeeps

LEMMA CalculateType ==
  ASSUME NEW op \in {"+", "-", "*", "/", "mod"}, NEW v \in Numbers, NEW w \in Numbers
  PROVE  Calculate(op, v, w) \in Numbers
<1>1. CASE Garbage \in {v, w}
  BY <1>1 DEF Calculate, Numbers
<1>2. CASE Garbage \notin {v, w}
  <2>1. v \in Int /\ w \in Int
    BY <1>2 DEF Numbers
  <2>2. CASE op = "+"
    <3>1. Calculate(op, v, w) = v + w
      BY <1>2, <2>2 DEF Calculate
    <3>. QED BY <2>1, <3>1 DEF Numbers
  <2>3. CASE op = "-"
    <3>1. Calculate(op, v, w) = v - w
      BY <1>2, <2>3 DEF Calculate
    <3>. QED BY <2>1, <3>1 DEF Numbers
  <2>4. CASE op = "*"
    <3>1. Calculate(op, v, w) = v * w
      BY <1>2, <2>4 DEF Calculate
    <3>. QED BY <2>1, <3>1 DEF Numbers
  <2>5. CASE op = "/"
    <3>1. Calculate(op, v, w) = Quotient(v, w)
      BY <1>2, <2>5 DEF Calculate
    <3>2. Quotient(v, w) \in Numbers
      <4>1. CASE w = 0 \/ v % Magnitude(w) # 0
        <5>1. w > 0 => Magnitude(w) = w
          BY <2>1 DEF Magnitude
        <5>2. ~(w > 0 /\ v % w = 0)
          BY <2>1, <4>1, <5>1
        <5>3. Quotient(v, w) = Garbage
          BY <4>1, <5>2 DEF Quotient
        <5>. QED BY <5>3 DEF Numbers
      <4>2. CASE w > 0 /\ v % w = 0
        <5>1. Magnitude(w) = w
          BY <2>1, <4>2 DEF Magnitude
        <5>2. Quotient(v, w) = v \div w
          BY <2>1, <4>2, <5>1 DEF Quotient
        <5>3. v \div w \in Int
          BY <2>1, <4>2
        <5>. QED BY <5>2, <5>3 DEF Numbers
      <4>3. CASE ~(w = 0 \/ v % Magnitude(w) # 0) /\ ~(w > 0 /\ v % w = 0)
        <5>1. PICK u : u = Magnitude(w)
          OBVIOUS
        <5>2. u \in Nat /\ u > 0
          BY <2>1, <4>3, <5>1 DEF Magnitude
        <5>3. Quotient(v, w) = -(v \div u)
          BY <4>3, <5>1 DEF Quotient
        <5>4. v \div u \in Int
          BY <2>1, <5>2
        <5>. QED BY <5>3, <5>4 DEF Numbers
      <4>. QED BY <4>1, <4>2, <4>3
    <3>. QED BY <3>1, <3>2
  <2>6. CASE op = "mod"
    <3>1. Calculate(op, v, w) = Remainder(v, w)
      BY <1>2, <2>6 DEF Calculate
    <3>2. Remainder(v, w) \in Numbers
      <4>1. CASE w = 0
        BY <4>1 DEF Remainder, Numbers
      <4>2. CASE w # 0
        <5>1. PICK u : u = Magnitude(w)
          OBVIOUS
        <5>2. u \in Nat /\ u > 0
          BY <2>1, <4>2, <5>1 DEF Magnitude
        <5>3. Remainder(v, w) = v % u \/ Remainder(v, w) = -((-v) % u)
          BY <4>2, <5>1 DEF Remainder
        <5>4. v % u \in Int /\ (-v) % u \in Int
          BY <2>1, <5>2
        <5>. QED BY <5>3, <5>4 DEF Numbers
      <4>. QED BY <4>1, <4>2
    <3>. QED BY <3>1, <3>2
  <2>. QED BY <2>2, <2>3, <2>4, <2>5, <2>6
<1>. QED BY <1>1, <1>2

LEMMA ValueAtType ==
  ASSUME IInv, Operator, NEW k \in DOMAIN Arguments
  PROVE  ValueAt(k) \in Numbers
<1>1. Types[k] = Type(mem, Arg(k)) /\ Maybe(mem, Arg(k)) /\ Good(mem)
  BY OperatorFacts
<1>2. CASE Types[k] = "number"
  <2>1. Arg(k) # NULL /\ mem.heap[Arg(k)].type = "number"
    BY <1>1, <1>2 DEF Type
  <2>2. Kind(mem, mem.heap[Arg(k)])
    BY <1>1, <2>1 DEF Maybe, Good
  <2>3. mem.heap[Arg(k)].value \in Numbers
    BY <2>1, <2>2 DEF Kind
  <2>. QED BY <1>2, <2>3 DEF ValueAt
<1>3. CASE Types[k] # "number"
  BY <1>3 DEF ValueAt, Numbers
<1>. QED BY <1>2, <1>3

\* What is calculated, argument by argument.
SoFar(v, done, n, so) ==
  so = [k \in 0 .. n |-> IF k <= done THEN v ELSE Calculate(OpName, so[k - 1], ValueAt(k))]

LEMMA SoFarExist ==
  ASSUME NEW v, NEW done \in Nat, NEW n \in Nat
  PROVE  \E so : SoFar(v, done, n, so)
<1>. DEFINE S == {k \in Nat : \E so : SoFar(v, done, k, so)}
<1>1. 0 \in S
  <2>1. PICK so : so = [k \in 0 .. 0 |-> v]
    OBVIOUS
  <2>2. SoFar(v, done, 0, so)
    BY <2>1 DEF SoFar
  <2>. QED BY <2>2
<1>2. ASSUME NEW n0 \in Nat, n0 \in S
      PROVE  n0 + 1 \in S
  <2>1. PICK so : SoFar(v, done, n0, so)
    BY <1>2
  <2>2. PICK x : x = IF n0 + 1 <= done THEN v ELSE Calculate(OpName, so[n0], ValueAt(n0 + 1))
    OBVIOUS
  <2>3. PICK next : next = [k \in 0 .. n0 + 1 |-> IF k = n0 + 1 THEN x ELSE so[k]]
    OBVIOUS
  <2>4. ASSUME NEW k \in 0 .. n0 + 1
        PROVE  next[k] = IF k <= done THEN v ELSE Calculate(OpName, next[k - 1], ValueAt(k))
    <3>1. CASE k = n0 + 1
      <4>1. k - 1 = n0 /\ n0 \in 0 .. n0 + 1 /\ n0 # n0 + 1
        BY <3>1
      <4>2. next[k] = x /\ next[k - 1] = so[n0]
        BY <2>3, <3>1, <4>1
      <4>. QED BY <2>2, <3>1, <4>2
    <3>2. CASE k # n0 + 1
      <4>1. k \in 0 .. n0 /\ next[k] = so[k]
        BY <2>3, <3>2
      <4>2. so[k] = IF k <= done THEN v ELSE Calculate(OpName, so[k - 1], ValueAt(k))
        BY <2>1, <4>1 DEF SoFar
      <4>3. CASE k <= done
        BY <4>1, <4>2, <4>3
      <4>4. CASE ~(k <= done)
        <5>1. k - 1 \in 0 .. n0 + 1 /\ k - 1 # n0 + 1
          BY <4>1, <4>4
        <5>2. next[k - 1] = so[k - 1]
          BY <2>3, <5>1
        <5>. QED BY <4>1, <4>2, <4>4, <5>2
      <4>. QED BY <4>3, <4>4
    <3>. QED BY <3>1, <3>2
  <2>5. next = [k \in 0 .. n0 + 1 |-> next[k]]
    BY <2>3
  <2>6. SoFar(v, done, n0 + 1, next)
    BY <2>4, <2>5 DEF SoFar
  <2>. QED BY <2>6
<1>3. Nat \subseteq S
  <2>. HIDE DEF S
  <2>. QED BY <1>1, <1>2, SetInduction
<1>. QED BY <1>3

LEMMA CalculatedType ==
  ASSUME IInv, Operator, OpName \in {"+", "-", "*", "/", "mod"}, NEW v \in Numbers, NEW done \in Nat
  PROVE  Proper(mem, Calculated(v, done))
<1>11. Len(Arguments) \in Nat
  BY OperatorFacts
<1>1. PICK n \in Nat : n = Len(Arguments)
  BY <1>11
<1>. DEFINE P(so) == SoFar(v, done, n, so)
            so == CHOOSE w : P(w)
<1>2. Calculated(v, done) = Obj("number", so[n], <<>>)
  BY <1>1 DEF Calculated, SoFar
<1>3. \E w : P(w)
  BY SoFarExist
<1>4. P(so)
  BY <1>3
<1>. HIDE DEF so
<1>5. PICK w : w = so
  OBVIOUS
<1>. DEFINE S == {k \in Nat : k <= n => w[k] \in Numbers}
<1>6. \A k \in 0 .. n : w[k] = IF k <= done THEN v ELSE Calculate(OpName, w[k - 1], ValueAt(k))
  BY <1>4, <1>5 DEF SoFar
<1>7. 0 \in S
  BY <1>6
<1>8. ASSUME NEW k \in Nat, k \in S PROVE k + 1 \in S
  <2>1. CASE k + 1 <= n
    <3>1. w[k] \in Numbers
      BY <1>8, <2>1
    <3>2. k + 1 \in DOMAIN Arguments
      BY <1>1, <2>1, OperatorFacts
    <3>3. ValueAt(k + 1) \in Numbers
      BY <3>2, ValueAtType
    <3>4. w[k + 1] = v \/ w[k + 1] = Calculate(OpName, w[k], ValueAt(k + 1))
      <4>1. k + 1 \in 0 .. n /\ (k + 1) - 1 = k
        BY <2>1
      <4>. QED BY <1>6, <4>1
    <3>. QED BY <3>1, <3>3, <3>4, CalculateType
  <2>2. CASE ~(k + 1 <= n)
    BY <2>2
  <2>. QED BY <2>1, <2>2
<1>9. Nat \subseteq S
  <2>. HIDE DEF S
  <2>. QED BY <1>7, <1>8, SetInduction
<1>10. so[n] \in Numbers
  BY <1>5, <1>9
<1>. QED BY <1>2, <1>10, NoItems, ProperObj

LEMMA AccumulateKeeps == ASSUME IInv, Accumulate PROVE IInv'
<1>1. Operator /\ OpName \in {"+", "*"}
  BY DEF Accumulate, Performs
<1>2. at.do = "call" /\ Stays(mem, mem)
  BY <1>1, OperatorFacts, StaysSelf
<1>3. PICK v : v = IF OpName = "+" THEN 0 ELSE 1
  OBVIOUS
<1>4. v \in Numbers
  BY <1>3 DEF Numbers
<1>5. Proper(mem, Calculated(v, 0))
  BY <1>1, <1>4, CalculatedType
<1>6. Yields(Calculated(v, 0)) \/ Go(mem, frames, Throw)
  BY <1>3 DEF Accumulate
<1>7. Throw # Read
  BY DEF Throw, Read
<1>. QED BY <1>2, <1>5, <1>6, <1>7, YieldsKeeps, ThrowKeeps

\* A list is made, and lost.
LEMMA LostList ==
  ASSUME NEW m, Good(m), NEW items, IsSeq(items), \A i \in DOMAIN items : Maybe(m, items[i]),
         NEW p, p = Lose(NewList(m, FALSE, items), Fresh(m))
  PROVE  Stays(m, p)
<1>1. PICK o, q : o = Obj("list", FALSE, items) /\ q = New(m, o)
  OBVIOUS
<1>2. PICK x : x = Fresh(m)
  OBVIOUS
<1>3. p = Lose(q, x)
  BY <1>1, <1>2 DEF NewList
<1>4. Proper(m, o)
  <2>1. FALSE \in BOOLEAN
    OBVIOUS
  <2>. QED BY <1>1, <2>1, ProperObj
<1>5. Newer(m, o, x, q)
  BY <1>1, <1>2, <1>4, NewFacts
<1>6. Flows(m, q) /\ Good(q) /\ \A a \in Counted(q) : Bal(q, a) = Bal(m, a) + Ind(x, a)
  BY <1>5, MovedFlows DEF Newer, Moved
<1>7. \A a : Bal(m, a) \in Nat
  BY BalType
<1>8. \A a \in Counted(q) : Bal(q, a) >= Ind(x, a)
  BY <1>6, <1>7 DEF Ind
<1>9. Loses(q, p, x)
  BY <1>3, <1>6, <1>8, Losing
<1>10. Flows(m, p)
  BY <1>6, <1>9, FlowsMore DEF Loses
<1>11. ASSUME NEW a \in Counted(p) PROVE Bal(p, a) = Bal(m, a)
  <2>1. Bal(p, a) \in Nat /\ Bal(p, a) + Ind(x, a) = Bal(q, a) /\ Bal(q, a) = Bal(m, a) + Ind(x, a)
    BY <1>6, <1>9 DEF Loses
  <2>2. Bal(m, a) \in Nat /\ Ind(x, a) \in Nat
    BY <1>7 DEF Ind
  <2>3. PICK i, j, k : i = Bal(p, a) /\ j = Bal(m, a) /\ k = Ind(x, a)
    OBVIOUS
  <2>4. i \in Nat /\ j \in Nat /\ k \in Nat /\ i + k = j + k
    BY <2>1, <2>2, <2>3
  <2>5. i = j
    BY ONLY <2>4
  <2>. QED BY <2>3, <2>5
<1>. QED BY <1>10, <1>11 DEF Stays

\* The arguments after the first.
LEMMA TailFacts ==
  ASSUME IInv, Operator, 1 \in DOMAIN Arguments
  PROVE  IsSeq(Tail(Arguments)) /\ \A i \in DOMAIN Tail(Arguments) : Maybe(mem, Tail(Arguments)[i])
<1>1. IsSeq(Arguments) /\ Len(Arguments) \in Nat /\ DOMAIN Arguments = 1 .. Len(Arguments)
      /\ \A k \in DOMAIN Arguments : Maybe(mem, Arguments[k])
  BY OperatorFacts DEF Arg
<1>2. PICK s : s = Arguments
  OBVIOUS
<1>3. PICK t : t = Tail(s)
  OBVIOUS
<1>4. Len(s) > 0
  BY <1>1, <1>2
<1>5. IsSeq(t) /\ DOMAIN t = 1 .. Len(s) - 1 /\ \A i \in DOMAIN t : t[i] = s[i + 1]
  BY <1>1, <1>2, <1>3, <1>4, SeqTail
<1>6. \A i \in DOMAIN t : i + 1 \in DOMAIN s
  BY <1>1, <1>2, <1>5
<1>. QED BY <1>1, <1>2, <1>3, <1>5, <1>6

LEMMA ReduceKeeps == ASSUME IInv, Reduce PROVE IInv'
<1>1. Operator /\ OpName \in {"-", "/", "mod"} /\ Unmet = {}
  BY DEF Reduce, Performs
<1>2. at.do = "call" /\ Good(mem)
  BY <1>1, OperatorFacts
<1>3. 1 \in DOMAIN Arguments
  <2>1. Demands(OpName) = <<"defined">>
    BY <1>1, DemandsAre
  <2>. QED BY <1>1, <2>1, FirstThere
<1>4. Proper(mem, Calculated(ValueAt(1), 1))
  <2>1. PICK k \in Nat : k = 1
    OBVIOUS
  <2>2. ValueAt(k) \in Numbers
    BY <1>1, <1>3, <2>1, ValueAtType
  <2>3. Proper(mem, Calculated(ValueAt(k), k))
    BY <1>1, <2>2, CalculatedType
  <2>. QED BY <2>1, <2>3
<1>5. Stays(mem, Lose(NewList(mem, FALSE, Tail(Arguments)), Fresh(mem)))
  BY <1>1, <1>2, <1>3, TailFacts, LostList
<1>6. \/ Yields(Calculated(ValueAt(1), 1))
      \/ Go(Lose(NewList(mem, FALSE, Tail(Arguments)), Fresh(mem)), frames, Throw)
  BY DEF Reduce
<1>7. Throw # Read
  BY DEF Throw, Read
<1>. QED BY <1>2, <1>4, <1>5, <1>6, <1>7, YieldsKeeps, ThrowKeeps

LEMMA CompareKeeps == ASSUME IInv, Compare PROVE IInv'
<1>1. Operator
  BY DEF Compare, Performs
<1>2. \E b : Answers(b)
  BY DEF Compare
<1>. QED BY <1>1, <1>2, OperatorFacts, AnswersKeeps

LEMMA EqualityKeeps == ASSUME IInv, Equality PROVE IInv'
<1>1. Operator
  BY DEF Equality, Performs
<1>2. Answers(TRUE) \/ Die \/ Answers(FALSE)
  BY DEF Equality
<1>. QED BY <1>1, <1>2, OperatorFacts, AnswersKeeps, DieKeeps

LEMMA ShareRec ==
  ASSUME NEW m, Rec(m), NEW b
  PROVE  Rec(Share(m, b)) /\ (Straight(Share(m, b)) => Straight(m))
<1>1. PICK q : q = Touch(m, Bool(b))
  OBVIOUS
<1>2. Rec(q) /\ q.stray = (m.stray \/ m.heap[Bool(b)].count = 0)
  BY <1>1, TouchRec
<1>3. Rec(Share(m, b)) /\ Share(m, b).stray = q.stray
  BY <1>1, <1>2, RetainRec DEF Share
<1>. QED BY <1>2, <1>3 DEF Straight

LEMMA NotKeeps == ASSUME IInv, Not PROVE IInv'
<1>1. Operator /\ OpName \in {"not"} /\ Unmet = {}
  BY DEF Not, Performs
<1>2. at.do = "call" /\ Good(mem) /\ Rec(mem)
  BY <1>1, OperatorFacts
<1>3. Maybe(mem, Arg(1))
  <2>1. Demands(OpName) = <<"any">>
    BY <1>1, DemandsAre
  <2>. QED BY <1>1, <2>1, FirstThere
<1>4. PICK b, m1 : m1 = ValueLost(mem, Arg(1)) /\ Go(Share(m1, b), frames, Return(Bool(b)))
  BY DEF Not
<1>5. ASSUME Straight(Share(m1, b)) PROVE Gains(mem, Share(m1, b), Bool(b))
  <2>1. Rec(m1)
    BY <1>2, <1>4, ValueLostRec
  <2>2. Straight(m1)
    BY <1>5, <2>1, ShareRec
  <2>3. Idle(mem, m1)
    BY <1>2, <1>3, <1>4, <2>2, ValueLostStep DEF Maybe
  <2>4. Good(m1)
    BY <2>3 DEF Idle, Moved
  <2>5. Shift(m1, Share(m1, b), Bool(b)) /\ Alive(Share(m1, b), Bool(b))
    BY <1>5, <2>4, ShareStep
  <2>6. Shift(mem, Share(m1, b), Bool(b))
    BY <1>2, <2>3, <2>5, IdleShift
  <2>. QED BY <1>2, <2>5, <2>6, ShiftGains DEF Maybe
<1>. QED BY <1>2, <1>4, <1>5, ReturnKeeps

LEMMA SaysKeeps ==
  ASSUME IInv, Operator, NEW text, Says(text)
  PROVE  IInv'
<1>1. Proper(mem, Obj("string", text, <<>>))
  BY NoItems, ProperObj
<1>2. Stray \/ Yields(Obj("string", text, <<>>))
  BY DEF Says
<1>. QED BY <1>1, <1>2, OperatorFacts, StrayKeeps, YieldsKeeps

LEMMA ConcatenateKeeps == ASSUME IInv, Concatenate PROVE IInv'
  BY SaysKeeps DEF Concatenate, Performs

LEMMA DescribeKeeps == ASSUME IInv, Describe PROVE IInv'
  BY SaysKeeps DEF Describe, Performs

LEMMA ExitKeeps == ASSUME IInv, Exit PROVE IInv'
<1>1. Operator
  BY DEF Exit, Performs
<1>2. at.do = "call" /\ Stays(mem, mem)
  BY <1>1, OperatorFacts, StaysSelf
<1>3. Go(mem, frames, Throw) \/ Go(mem, frames, End("exit"))
  BY DEF Exit
<1>4. Throw # Read /\ End("exit") # Read
  BY DEF Throw, Read, End
<1>. QED BY <1>2, <1>3, <1>4, ThrowKeeps

-----------------------------------------------------------------------------
(* Variables, lists and functions. *)

LEMMA StaysHolds ==
  ASSUME NEW m, Good(m), NEW m2, Stays(m, m2)
  PROVE  Holds(m, m2) /\ Good(m2)
<1>1. Later(m, m2) /\ Counted(m) \subseteq Counted(m2)
  BY LaterAddr DEF Stays, Flows
<1>2. \A x : Bal(m, x) \in Nat
  BY BalType
<1>3. ASSUME NEW x \in Counted(m) PROVE Bal(m2, x) >= Bal(m, x)
  <2>1. Bal(m2, x) = Bal(m, x) /\ Bal(m, x) \in Nat
    BY <1>1, <1>2, <1>3 DEF Stays
  <2>. QED BY <2>1
<1>. QED BY <1>1, <1>3 DEF Holds, Later

LEMMA GainsStays ==
  ASSUME NEW m, NEW m2, NEW x, Gains(m, m2, x), NEW m3, Stays(m2, m3), Counted(m3) = Counted(m2)
  PROVE  Gains(m, m3, x)
<1>1. Flows(m, m3)
  BY FlowsMore DEF Gains, Stays
<1>2. x \in Addr(m3)
  BY LaterAddr DEF Gains, Stays, Flows
<1>. QED BY <1>1, <1>2 DEF Gains, Stays

LEMMA UpdateRec ==
  ASSUME NEW m, Rec(m), NEW n, NEW a
  PROVE  Rec(Update(m, n, a)) /\ (Straight(Update(m, n, a)) => Straight(m))
<1>1. CASE Found(m, n) = NULL
  BY <1>1 DEF Update
<1>2. CASE Found(m, n) # NULL
  <2>1. PICK b, k : b = Found(m, n) /\ k = Entries(m, b)
    OBVIOUS
  <2>2. Update(m, n, a) = Replace(m, b, a, k)
    BY <1>2, <2>1 DEF Update
  <2>3. PICK r, old : r = RetainAll(m, [i \in 1 .. k |-> a]) /\ old = [i \in 1 .. k |-> m.bindings[b]]
    OBVIOUS
  <2>4. DOMAIN r = DOMAIN m /\ r.stray = m.stray
    BY <2>3 DEF RetainAll, Rec
  <2>5. PICK q : q = ReleaseAll(r, old)
    OBVIOUS
  <2>6. DOMAIN q = DOMAIN m /\ q.stray = m.stray
    BY <2>4, <2>5 DEF ReleaseAll, Without, Rec
  <2>7. PICK d : d = (\E e \in Dead(r, old) : b \in Range(m.heap[e].closure))
    OBVIOUS
  <2>8. Replace(m, b, a, k) = [q EXCEPT !.bindings[b] = a, !.stray = @ \/ d]
    BY <2>3, <2>5, <2>7 DEF Replace
  <2>9. Rec(Update(m, n, a)) /\ Update(m, n, a).stray = (q.stray \/ d)
    BY <2>2, <2>6, <2>8 DEF Rec
  <2>. QED BY <2>6, <2>9 DEF Straight
<1>. QED BY <1>1, <1>2

\* A variable that is set: what C locals own stays.
LEMMA UpdateStays ==
  ASSUME NEW m, Good(m), NEW n, NEW a, Maybe(m, a), NEW r, r = Update(m, n, a), Straight(r)
  PROVE  Stays(m, r) /\ Counted(r) = Counted(m)
<1>1. Moved(m, r) /\ Counted(r) = Counted(m) /\ \A x \in Counted(m) : Bal(r, x) = Bal(m, x)
  BY UpdateStep DEF Maybe
<1>. QED BY <1>1, MovedStays

\* A variable that is bound.
LEMMA RegisterStays ==
  ASSUME NEW m, Good(m), OddTop(m), Secure(m), NEW n, NEW a, Maybe(m, a),
         NEW p, p = Register(m, n, a), Straight(p)
  PROVE  Stays(m, p) /\ Maybe(p, Registered(p, n))
<1>1. Changed(m, p) /\ n \in DOMAIN Local(p) /\ \A x \in Counted(m) : Bal(p, x) = Bal(m, x)
  BY RegisterStep DEF Maybe
<1>2. Stays(m, p)
  BY <1>1, ChangedStays
<1>3. Good(p) /\ OddTop(p)
  BY <1>1 DEF Changed, OddTop
<1>. QED BY <1>1, <1>2, <1>3, RegisteredAlive DEF Maybe

\* The demands that an operator has met.
LEMMA AnyFirst ==
  ASSUME IInv, Operator, Unmet = {}, OpName \in {"evaluate", "freeze", "^", "#", "not", "?", "unwrap"}
  PROVE  1 \in DOMAIN Arguments /\ Maybe(mem, Arg(1))
<1>1. Demands(OpName) = <<"any">>
  BY DemandsAre
<1>. QED BY <1>1, FirstThere

LEMMA AnySecond ==
  ASSUME IInv, Operator, Unmet = {}, OpName \in {"set", "define"}
  PROVE  2 \in DOMAIN Arguments /\ Maybe(mem, Arg(2))
<1>1. Demands(OpName) = <<"token", "any">>
  BY DemandsAre
<1>. QED BY <1>1, SecondThere

LEMMA BindKeeps == ASSUME IInv, Bind PROVE IInv'
<1>1. Operator
  BY DEF Bind, Performs
<1>2. PICK value, m : value = (IF Len(Arguments) > 1 THEN Arg(2) ELSE Nil) /\ m = Register(mem, Name, value)
  OBVIOUS
<1>3. Die \/ Stray \/ Gives(m, Registered(m, Name))
  BY <1>2 DEF Bind
<1>4. at.do = "call" /\ Good(mem) /\ OddTop(mem) /\ Secure(mem) /\ Rec(mem)
  BY <1>1, OperatorFacts
<1>5. Maybe(mem, value)
  <2>1. Len(Arguments) \in Nat /\ DOMAIN Arguments = 1 .. Len(Arguments)
    BY <1>1, OperatorFacts
  <2>2. CASE Len(Arguments) > 1
    <3>1. 2 \in DOMAIN Arguments
      BY <2>1, <2>2
    <3>2. Maybe(mem, Arg(2))
      BY <1>1, <3>1, OperatorFacts
    <3>. QED BY <1>2, <2>2, <3>2
  <2>3. CASE ~(Len(Arguments) > 1)
    BY <1>2, <1>4, <2>3, NilAlive DEF Maybe
  <2>. QED BY <2>2, <2>3
<1>6. Rec(m)
  BY <1>2, <1>4, RegisterRec
<1>7. ASSUME Straight(m) PROVE Stays(mem, m) /\ Maybe(m, Registered(m, Name))
  BY <1>2, <1>4, <1>5, <1>7, RegisterStays
<1>. QED BY <1>3, <1>4, <1>6, <1>7, DieKeeps, StrayKeeps, GivesKeeps

LEMMA IsBoundKeeps == ASSUME IInv, IsBound PROVE IInv'
  BY OperatorFacts, AnswersKeeps DEF IsBound, Performs

LEMMA SetKeeps == ASSUME IInv, Set PROVE IInv'
<1>1. Operator /\ Unmet = {} /\ OpName \in {"set"}
  BY DEF Set, Performs
<1>2. PICK x, m : x = (IF Found(mem, Name) = NULL THEN NULL ELSE Arg(2)) /\ m = Update(mem, Name, Arg(2))
  OBVIOUS
<1>3. Gives(m, x)
  BY <1>2 DEF Set
<1>4. at.do = "call" /\ Good(mem) /\ Rec(mem)
  BY <1>1, OperatorFacts
<1>5. 2 \in DOMAIN Arguments /\ Maybe(mem, Arg(2))
  BY <1>1, AnySecond
<1>6. Rec(m)
  BY <1>2, <1>4, UpdateRec
<1>7. ASSUME Straight(m) PROVE Stays(mem, m) /\ Maybe(m, x)
  <2>1. Stays(mem, m)
    BY <1>2, <1>4, <1>5, <1>7, UpdateStays
  <2>2. Served(m)
    BY <1>1, <1>4, <2>1, StaysHolds, OperatorFacts
  <2>3. Maybe(m, Arg(2))
    BY <1>5, <2>2 DEF Served
  <2>. QED BY <1>2, <2>1, <2>3 DEF Maybe
<1>. QED BY <1>3, <1>4, <1>6, <1>7, GivesKeeps

LEMMA DefineKeeps == ASSUME IInv, Define PROVE IInv'
<1>1. Operator /\ Unmet = {} /\ OpName \in {"define"}
  BY DEF Define, Performs
<1>2. PICK x, old : x = Arg(2) /\ old = Resolve(mem, Name)
  OBVIOUS
<1>3. PICK m : m = IF old = NULL THEN Register(mem, Name, Nil) ELSE Lose(Retain(mem, old), old)
  OBVIOUS
<1>4. PICK r, p : r = Retain(m, x) /\ p = Update(r, Name, x)
  OBVIOUS
<1>5. Go(p, frames, Return(x))
  BY <1>2, <1>3, <1>4 DEF Define
<1>6. at.do = "call" /\ Good(mem) /\ OddTop(mem) /\ Secure(mem) /\ Rec(mem)
  BY <1>1, OperatorFacts
<1>7. 2 \in DOMAIN Arguments
  BY <1>1, AnySecond
<1>8. Rec(m)
  <2>1. old = NULL => Rec(m)
    BY <1>3, <1>6, RegisterRec
  <2>2. old # NULL => Rec(m)
    BY <1>3, <1>6, RetainRec, LoseRec
  <2>. QED BY <2>1, <2>2
<1>9. ASSUME Straight(p) PROVE Gains(mem, p, x)
  <2>1. Straight(r) /\ Straight(m)
    BY <1>4, <1>8, <1>9, RetainRec, UpdateRec DEF Straight
  <2>2. Stays(mem, m)
    <3>1. CASE old = NULL
      BY <1>3, <1>6, <2>1, <3>1, RegisterStays, NilAlive DEF Maybe
    <3>2. CASE old # NULL
      <4>1. Follows(mem, mem)
        <5>1. Holds(mem, mem)
          BY <1>6, HoldsSelf
        <5>. QED BY <1>6, <5>1 DEF Follows, Holds, Later, Binds
      <4>2. Alive(mem, old)
        BY <1>2, <1>6, <3>2, <4>1, ResolveAlive
      <4>3. Idle(mem, m)
        BY <1>3, <1>6, <3>2, <4>2, RetainLost
      <4>. QED BY <1>6, <4>3, IdleStays
    <3>. QED BY <3>1, <3>2
  <2>3. Good(m) /\ Served(m)
    BY <1>1, <1>6, <2>2, StaysHolds, OperatorFacts
  <2>4. Maybe(m, x)
    BY <1>2, <1>7, <2>3 DEF Served
  <2>5. Shift(m, r, x)
    BY <1>4, <2>3, <2>4, RetainShift DEF Maybe
  <2>6. Good(r) /\ Maybe(r, x)
    BY <2>4, <2>5 DEF Shift, Moved, Maybe
  <2>7. Gains(m, r, x)
    BY <2>3, <2>5, <2>6, ShiftGains
  <2>8. Stays(r, p) /\ Counted(p) = Counted(r)
    BY <1>4, <1>9, <2>6, UpdateStays
  <2>. QED BY <2>2, <2>7, <2>8, StaysGains, GainsStays
<1>. QED BY <1>5, <1>6, <1>9, ReturnKeeps

\* The arguments are the caller's to evaluate.
LEMMA ArgsRun ==
  ASSUME IInv, Operator, NEW k \in DOMAIN Arguments
  PROVE  Top.fn = "call" /\ Arg(k) \in Runs(mem, Top) /\ at.args = Top.args
<1>1. Top.fn \in {"call", "loop"} /\ at.args = Given(Top) /\ Good(mem)
  BY OperatorFacts
<1>2. Top.fn = "call"
  <2>1. SUFFICES ASSUME Top.fn = "loop" PROVE FALSE
    BY <1>1
  <2>2. Arguments = <<>>
    BY <1>1, <2>1 DEF Given, Arguments, Items, Good, Shape, Nil, NULL
  <2>. QED BY <2>2
<1>3. at.args = Top.args
  BY <1>1, <1>2 DEF Given
<1>4. Runs(mem, Top) = Range(Arguments)
  BY <1>2, <1>3 DEF Runs, Arguments
<1>. QED BY <1>2, <1>3, <1>4 DEF Range, Arg

LEMMA EvaluateArgKeeps == ASSUME IInv, EvaluateArg PROVE IInv'
<1>1. Operator /\ Unmet = {} /\ OpName \in {"evaluate"} /\ Go(mem, frames, Evaluate(Arg(1)))
  BY DEF EvaluateArg, Performs
<1>2. 1 \in DOMAIN Arguments
  BY <1>1, AnyFirst
<1>3. Arg(1) \in Runs(mem, Top)
  BY <1>1, <1>2, ArgsRun
<1>4. PICK next : next = Evaluate(Arg(1))
  OBVIOUS
<1>5. next.do = "evaluate" /\ next.obj = Arg(1)
  BY <1>4 DEF Evaluate
<1>6. at.do = "call" /\ World(mem, Front(frames), Top, at) /\ Waits(Top)
  BY <1>1, OperatorFacts
<1>7. AtOK(mem, Top, next) /\ next.do \in Dos
  BY <1>3, <1>5, <1>6 DEF AtOK, Dos
<1>8. World(mem, Front(frames), Top, next)
  BY <1>5, <1>6, <1>7, PlainStep
<1>. QED BY <1>1, <1>4, <1>6, <1>7, <1>8, GoTop

LEMMA FreezeKeeps == ASSUME IInv, Freeze PROVE IInv'
<1>1. Operator /\ Unmet = {} /\ OpName \in {"freeze"} /\ Gives(mem, Arg(1))
  BY DEF Freeze, Performs
<1>2. Maybe(mem, Arg(1))
  BY <1>1, AnyFirst
<1>3. at.do = "call" /\ Rec(mem) /\ Stays(mem, mem)
  BY <1>1, OperatorFacts, StaysSelf
<1>. QED BY <1>1, <1>2, <1>3, GivesKeeps

LEMMA MakeListKeeps == ASSUME IInv, MakeList PROVE IInv'
<1>1. Operator /\ Yields(Obj("list", OpName = "@list", Arguments))
  BY DEF MakeList, Performs
<1>2. IsSeq(Arguments) /\ \A i \in DOMAIN Arguments : Maybe(mem, Arguments[i])
  BY <1>1, OperatorFacts DEF Arg
<1>3. (OpName = "@list") \in BOOLEAN
  OBVIOUS
<1>4. Proper(mem, Obj("list", OpName = "@list", Arguments))
  BY <1>2, <1>3, ProperObj
<1>. QED BY <1>1, <1>4, OperatorFacts, YieldsKeeps

-----------------------------------------------------------------------------
(* Operators that evaluate their arguments. *)

\* What a frame holds, by its function.
HoldsBy(f, a) ==
  /\ f.fn \in {"first", "lambda", "condition"} => Hold(f, a) = 0
  /\ f.fn \in {"list", "function", "connective"} => Hold(f, a) = Ind(f.ans, a)
  /\ f.fn = "self" => Hold(f, a) = Ind(f.self, a)
  /\ f.fn \in {"loop", "program"} => Hold(f, a) = Ind(f.first, a) + Ind(f.ans, a)
  /\ f.fn = "expansion" => Hold(f, a) = Ind(f.slice, a) + Ind(f.ans, a)
  /\ f.fn = "call" => Hold(f, a) = Ind(f.self, a) + Ind(f.first, a) + Ind(f.args, a)
  /\ f.fn = "arguments" => Hold(f, a) = Ind(f.self, a) + Ind(f.first, a) + Ind(f.slice, a) + Ind(f.args, a)

LEMMA HoldOf ==
  ASSUME NEW f, Fits(f), NEW a, a \notin {NULL, Nil}
  PROVE  HoldsBy(f, a)
<1>1. \A x : x \in {NULL, Nil} => Ind(x, a) = 0
  BY DEF Ind
<1>2. Nil # NULL
  BY DEF Nil, NULL
<1>3. /\ f.fn \notin {"self", "arguments", "call"} => f.self = Nil
      /\ f.fn \notin {"program", "arguments", "call", "loop"} => f.first = NULL
      /\ f.fn \notin {"arguments", "expansion"} => f.slice = NULL
      /\ f.fn \notin {"arguments", "call"} => f.args = NULL
      /\ f.fn \notin {"program", "list", "function", "expansion", "connective", "loop"} => f.ans = Nil
  BY DEF Fits
<1>4. PICK s, i, l, r, n :
        s = Ind(f.self, a) /\ i = Ind(f.first, a) /\ l = Ind(f.slice, a) /\ r = Ind(f.args, a) /\ n = Ind(f.ans, a)
  OBVIOUS
<1>5. s \in Nat /\ i \in Nat /\ l \in Nat /\ r \in Nat /\ n \in Nat
  BY <1>4 DEF Ind
<1>6. /\ f.fn \notin {"self", "arguments", "call"} => s = 0
      /\ f.fn \notin {"program", "arguments", "call", "loop"} => i = 0
      /\ f.fn \notin {"arguments", "expansion"} => l = 0
      /\ f.fn \notin {"arguments", "call"} => r = 0
      /\ f.fn \notin {"program", "list", "function", "expansion", "connective", "loop"} => n = 0
  BY <1>1, <1>3, <1>4
<1>7. Hold(f, a) = s + i + l + r + n
  BY <1>4 DEF Hold
<1>8. CASE f.fn \in {"first", "lambda", "condition"}
  BY <1>5, <1>6, <1>7, <1>8 DEF HoldsBy
<1>9. CASE f.fn \in {"list", "function", "connective"}
  <2>1. s = 0 /\ i = 0 /\ l = 0 /\ r = 0
    BY <1>6, <1>9
  <2>2. Hold(f, a) = n
    BY <1>5, <1>7, <2>1
  <2>3. /\ f.fn \notin {"first", "lambda", "condition"} /\ f.fn # "self" /\ f.fn \notin {"loop", "program"}
        /\ f.fn # "expansion" /\ f.fn # "call" /\ f.fn # "arguments"
    BY <1>9
  <2>. QED BY <1>4, <2>2, <2>3 DEF HoldsBy
<1>10. CASE f.fn = "self"
  BY <1>4, <1>5, <1>6, <1>7, <1>10 DEF HoldsBy
<1>11. CASE f.fn \in {"loop", "program"}
  BY <1>4, <1>5, <1>6, <1>7, <1>11 DEF HoldsBy
<1>12. CASE f.fn = "expansion"
  BY <1>4, <1>5, <1>6, <1>7, <1>12 DEF HoldsBy
<1>13. CASE f.fn = "call"
  BY <1>4, <1>5, <1>6, <1>7, <1>13 DEF HoldsBy
<1>14. CASE f.fn = "arguments"
  BY <1>4, <1>5, <1>6, <1>7, <1>14 DEF HoldsBy
<1>. QED BY <1>8, <1>9, <1>10, <1>11, <1>12, <1>13, <1>14 DEF Fits, FrameNames

\* The frame of such an operator.
Started(fn, f) ==
  /\ DOMAIN f = FrameFields /\ f.fn = fn /\ f.i = 0 /\ f.code = at.args /\ f.func = at.func
  /\ f.self = Nil /\ f.first = NULL /\ f.slice = NULL /\ f.args = NULL /\ f.ans = Nil

LEMMA StartsKeeps ==
  ASSUME IInv, Operator, NEW fn \in {"lambda", "connective", "condition", "loop"}, NEW next, Starts(fn, next),
         next.do \in Dos, next.do # "return",
         fn = "lambda" => 1 \in DOMAIN Arguments,
         fn = "loop" => Turns(mem, at.args),
         NEW f, f = [Frame(fn) EXCEPT !.code = at.args, !.func = at.func], AtOK(mem, f, next)
  PROVE  IInv'
<1>12. Started(fn, f)
  BY DEF Started, Frame, FrameFields
<1>13. Go(mem, Push(f), next)
  BY DEF Starts
<1>1. Started(fn, f) /\ Go(mem, Push(f), next)
  BY <1>12, <1>13
<1>2. /\ at.do = "call" /\ Good(mem) /\ FrameAt(mem, Top) /\ Waits(Top) /\ Served(mem)
      /\ at.func \in Callees(mem, Top) /\ at.args = Given(Top)
  BY OperatorFacts
<1>3. Nil # NULL /\ Alive(mem, Nil) /\ at.args # NULL /\ ~Alive(mem, NULL)
  BY <1>2, NilAlive DEF Served
<1>4. Fits(f)
  BY <1>1, <1>3 DEF Started, Fits, FrameNames
<1>5. Rely(mem, f)
  <2>1. fn = "lambda" => Alive(mem, f.code) /\ 1 \in DOMAIN mem.heap[f.code].items
    BY <1>1, <1>2, <1>3 DEF Started, Served, Arguments, Items
  <2>2. fn = "loop" => Turns(mem, f.code)
    BY <1>1 DEF Started
  <2>3. Is(mem, f.func, "function") /\ f.code # NULL
    BY <1>1, <1>2, <1>3 DEF Started, Served
  <2>. QED BY <1>1, <2>1, <2>2, <2>3 DEF Started, Rely
<1>6. Lent(mem, f) /\ Owns(mem, f)
  BY <1>1, <1>2, <1>3 DEF Started, Served, Is, Lent, Owns, Maybe
<1>7. Link(mem, Top, f)
  BY <1>1, <1>2 DEF Started, Link
<1>8. Flows(mem, mem) /\ Sited(mem, f)
  BY <1>2, <1>6, StaysSelf, OwnsSited DEF Stays
<1>9. ASSUME NEW a \in Counted(mem) PROVE Bal(mem, a) + Back(at, a) = Bal(mem, a) + Tip(f, next, a)
  <2>1. a \notin {NULL, Nil}
    BY <1>2, Addresses DEF Counted, Good
  <2>2. Back(at, a) = 0 /\ Tip(f, next, a) = 0
    BY <1>1, <1>2, <2>1 DEF Back, Started, Tip, Hold, Ind
  <2>. QED BY <2>2
<1>10. Ready(mem, f, next)
  BY DEF Ready
<1>11. Pushes(mem, Top, at, mem, f, next)
  BY <1>1, <1>4, <1>5, <1>6, <1>7, <1>8, <1>9, <1>10 DEF Pushes, FrameAt, Started
<1>. QED BY <1>1, <1>2, <1>11, PushKeeps

LEMMA MakeFunctionKeeps == ASSUME IInv, MakeFunction PROVE IInv'
<1>1. Operator /\ Unmet = {} /\ OpName \in {"^", "#"} /\ Starts("lambda", Evaluate(Arg(1)))
  BY DEF MakeFunction, Performs
<1>7. PICK f : f = [Frame("lambda") EXCEPT !.code = at.args, !.func = at.func]
  OBVIOUS
<1>8. Started("lambda", f)
  BY <1>7 DEF Started, Frame, FrameFields
<1>2. PICK next : next = Evaluate(Arg(1))
  OBVIOUS
<1>9. next.do = "evaluate" /\ next.obj = Arg(1)
  BY <1>2 DEF Evaluate
<1>3. next.do = "evaluate" /\ next.obj = Arg(1) /\ Started("lambda", f)
  BY <1>8, <1>9
<1>4. 1 \in DOMAIN Arguments
  BY <1>1, AnyFirst
<1>5. Runs(mem, f) = Range(Arguments) /\ Waits(f)
  BY <1>3 DEF Started, Runs, Arguments, Waits
<1>6. AtOK(mem, f, next) /\ next.do \in Dos /\ next.do # "return"
  BY <1>3, <1>4, <1>5 DEF AtOK, Range, Arg, Dos
<1>. QED BY <1>1, <1>2, <1>4, <1>6, <1>7, StartsKeeps

LEMMA ConnectKeeps == ASSUME IInv, Connect PROVE IInv'
<1>1. Operator /\ Starts("connective", Resume)
  BY DEF Connect, Performs
<1>2. Resume.do = "resume"
  BY DEF Resume
<1>3. PICK f : f = [Frame("connective") EXCEPT !.code = at.args, !.func = at.func]
  OBVIOUS
<1>4. AtOK(mem, f, Resume) /\ Resume.do \in Dos /\ Resume.do # "return"
  BY <1>2 DEF AtOK, Dos
<1>. QED BY <1>1, <1>3, <1>4, StartsKeeps

LEMMA ChooseKeeps == ASSUME IInv, Choose PROVE IInv'
<1>1. Operator /\ Unmet = {} /\ OpName \in {"?"} /\ Starts("condition", Evaluate(Arg(1)))
  BY DEF Choose, Performs
<1>7. PICK f : f = [Frame("condition") EXCEPT !.code = at.args, !.func = at.func]
  OBVIOUS
<1>8. Started("condition", f)
  BY <1>7 DEF Started, Frame, FrameFields
<1>2. PICK next : next = Evaluate(Arg(1))
  OBVIOUS
<1>9. next.do = "evaluate" /\ next.obj = Arg(1)
  BY <1>2 DEF Evaluate
<1>3. next.do = "evaluate" /\ next.obj = Arg(1) /\ Started("condition", f)
  BY <1>8, <1>9
<1>4. 1 \in DOMAIN Arguments
  BY <1>1, AnyFirst
<1>5. Runs(mem, f) = Range(Arguments) /\ Waits(f)
  BY <1>3 DEF Started, Runs, Arguments, Waits
<1>6. AtOK(mem, f, next) /\ next.do \in Dos /\ next.do # "return"
  BY <1>3, <1>4, <1>5 DEF AtOK, Range, Arg, Dos
<1>. QED BY <1>1, <1>2, <1>4, <1>6, <1>7, StartsKeeps

LEMMA LoopKeeps == ASSUME IInv, Loop PROVE IInv'
<1>1. Operator /\ Unmet = {} /\ OpName \in {"loop"} /\ Starts("loop", Call(Arg(1), Nil, Nil))
  BY DEF Loop, Performs
<1>10. PICK f : f = [Frame("loop") EXCEPT !.code = at.args, !.func = at.func]
  OBVIOUS
<1>11. Started("loop", f)
  BY <1>10 DEF Started, Frame, FrameFields
<1>2. PICK next : next = Call(Arg(1), Nil, Nil)
  OBVIOUS
<1>12. next.do = "call" /\ next.func = Arg(1) /\ next.args = Nil /\ next.self = Nil
  BY <1>2 DEF Call
<1>3. next.do = "call" /\ next.func = Arg(1) /\ next.args = Nil /\ next.self = Nil /\ Started("loop", f)
  BY <1>11, <1>12
<1>4. Demands(OpName) = <<"function", "function">>
  BY <1>1, DemandsAre
<1>5. /\ 1 \in DOMAIN Arguments /\ Maybe(mem, Arg(1)) /\ Types[1] = "function"
      /\ 2 \in DOMAIN Arguments /\ Maybe(mem, Arg(2)) /\ Types[2] = "function"
  BY <1>1, <1>4, FirstThere, SecondThere
<1>6. Alive(mem, at.args) /\ Good(mem) /\ \A k \in DOMAIN Arguments : Types[k] = Type(mem, Arg(k))
  BY <1>1, OperatorFacts DEF Served
<1>7. Arguments = mem.heap[at.args].items
  BY <1>6, NilAlive DEF Arguments, Items
<1>8. Turns(mem, at.args)
  <2>1. ASSUME NEW k \in {1, 2} PROVE k \in DOMAIN Arguments /\ Is(mem, Arg(k), "function")
    <3>1. k \in DOMAIN Arguments /\ Maybe(mem, Arg(k)) /\ Type(mem, Arg(k)) = "function"
      BY <1>5, <1>6
    <3>. QED BY <3>1 DEF Type, Maybe, Is
  <2>. QED BY <1>6, <1>7, <2>1 DEF Turns, Arg
<1>9. AtOK(mem, f, next) /\ next.do \in Dos /\ next.do # "return"
  <2>1. Callees(mem, f) = {Arg(1), Arg(2)}
    BY <1>3, <1>7 DEF Started, Callees, Arg
  <2>. QED BY <1>3, <2>1 DEF Started, AtOK, Passed, Given, Dos
<1>. QED BY <1>1, <1>2, <1>8, <1>9, <1>10, StartsKeeps

-----------------------------------------------------------------------------
(* Operators whose arguments have been evaluated, and the statements of     *)
(* functions.                                                              *)

\* The frame goes, and passes x on.
LEMMA PassOn ==
  ASSUME IInv, at.do # "end", Top.fn \notin {"program", "function"}, NEW m, NEW x, Go(m, Pop, Return(x)),
         Straight(m) => Stays(mem, m), Maybe(mem, x),
         \A a : a \notin {NULL, Nil} => Tip(Top, at, a) = Ind(x, a)
  PROVE  IInv'
<1>1. Here(mem, Front(frames), Top, at)
  BY Now
<1>2. PICK next : next = Return(x)
  OBVIOUS
<1>3. next.do = "return" /\ next.obj = x
  BY <1>2 DEF Return
<1>4. ASSUME Straight(m) PROVE Parting(mem, Top, at, m, next)
  <2>1. Stays(mem, m) /\ Good(mem) /\ Good(m)
    BY <1>1, <1>4, StaysHolds DEF Here
  <2>2. x \in Addr(m)
    <3>1. x \in Addr(mem)
      BY <2>1, MaybeAddr
    <3>. QED BY <2>1, <3>1, LaterAddr DEF Stays, Flows
  <2>3. ASSUME NEW a \in Counted(m) PROVE Bal(m, a) + Tip(Top, at, a) = Bal(mem, a) + Back(next, a)
    <3>1. a \notin {NULL, Nil}
      BY <2>1, Addresses DEF Counted, Good
    <3>2. Tip(Top, at, a) = Ind(x, a) /\ Back(next, a) = Ind(x, a)
      BY <1>3, <3>1 DEF Back
    <3>. QED BY <2>1, <3>2 DEF Stays
  <2>. QED BY <1>3, <2>1, <2>2, <2>3 DEF Parting, Stays
<1>. QED BY <1>2, <1>3, <1>4, PartKeeps

\* The value of a statement, or of an operand, is the answer so far.
Took(f, x) == [f EXCEPT !.ans = x, !.i = @ + 1]
LEMMA AnswerKept ==
  ASSUME IInv, at.do = "return", Top.fn \in {"function", "expansion", "connective"}, NEW m2,
         Straight(m2) => Stays(mem, m2), Go(m2, With(Took(Top, at.obj)), Resume)
  PROVE  IInv'
<1>1. PICK m, base, f, next : m = mem /\ base = Front(frames) /\ f = Top /\ next = at
  OBVIOUS
<1>2. Here(m, base, f, next) /\ Waits(f) /\ next.do = "return"
  BY <1>1, Now, NowWaits
<1>3. PICK f2, next2 : f2 = Took(f, next.obj) /\ next2 = Resume
  OBVIOUS
<1>4. /\ DOMAIN f2 = FrameFields /\ f2.fn = f.fn /\ f2.code = f.code /\ f2.func = f.func /\ f2.self = f.self
      /\ f2.first = f.first /\ f2.slice = f.slice /\ f2.args = f.args /\ f2.ans = next.obj /\ f2.i = f.i + 1
  BY <1>2, <1>3 DEF Here, Fits, FrameFields, Took
<1>5. next2.do = "resume"
  BY <1>3 DEF Resume
<1>6. Ready(m2, f2, next2) /\ next2.do \in Dos
  BY <1>5 DEF Ready, AtOK, Dos
<1>7. Fits(f2) /\ Alike(f, f2)
  <2>1. f.i \in Nat /\ f.fn \in {"function", "expansion", "connective"}
    BY <1>1, <1>2 DEF Here, Fits
  <2>2. f2.i \in Nat
    BY <1>4, <2>1
  <2>. QED BY <1>2, <1>4, <2>1, <2>2 DEF Here, Fits, Alike
<1>8. ASSUME Straight(m2) PROVE Onward(m, f, next, m2, f2, next2)
  <2>1. Stays(m, m2) /\ Good(m2)
    BY <1>1, <1>2, <1>8, StaysHolds DEF Here
  <2>2. Sited(m2, f2)
    BY <1>2, <1>4, <2>1, HereSited DEF Here, Sited, Stays
  <2>3. ASSUME NEW a \in Counted(m2) PROVE Bal(m2, a) + Tip(f, next, a) = Bal(m, a) + Tip(f2, next2, a)
    <3>1. a \notin {NULL, Nil}
      BY <2>1, Addresses DEF Counted, Good
    <3>2. f.ans = NULL
      BY <1>1, <1>2 DEF Waits
    <3>3. Bal(m2, a) = Bal(m, a)
      BY <2>1 DEF Stays
    <3>4. Tip(f, next, a) = Tip(f2, next2, a)
      BY <1>2, <1>4, <1>5, <3>1, <3>2 DEF Tip, Hold, Ind
    <3>. QED BY <3>3, <3>4
  <2>. QED BY <1>1, <1>4, <1>6, <1>7, <2>1, <2>2, <2>3 DEF Onward, Stays
<1>. QED BY <1>1, <1>3, <1>6, <1>8, WithKeeps

\* The answer so far is released for the next.
Emptied(f) == [f EXCEPT !.ans = NULL]
LEMMA NextKeeps ==
  ASSUME IInv, at.do = "resume", Top.fn \in {"function", "expansion", "connective"},
         Top.i < Len(Items(mem, Top.code)),
         Go(Release(mem, Top.ans), With(Emptied(Top)), Evaluate(Items(mem, Top.code)[Top.i + 1]))
  PROVE  IInv'
<1>1. PICK m, base, f, next : m = mem /\ base = Front(frames) /\ f = Top /\ next = at
  OBVIOUS
<1>2. Here(m, base, f, next) /\ next.do = "resume"
  BY <1>1, Now
<1>3. PICK m2, f2, next2, x : m2 = Release(m, f.ans) /\ f2 = Emptied(f) /\ next2 = Evaluate(x)
                              /\ x = Items(m, f.code)[f.i + 1]
  OBVIOUS
<1>4. /\ DOMAIN f2 = FrameFields /\ f2.fn = f.fn /\ f2.code = f.code /\ f2.func = f.func /\ f2.self = f.self
      /\ f2.first = f.first /\ f2.slice = f.slice /\ f2.args = f.args /\ f2.ans = NULL /\ f2.i = f.i
  BY <1>2, <1>3 DEF Here, Fits, FrameFields, Emptied
<1>5. next2.do = "evaluate" /\ next2.obj = x
  BY <1>3 DEF Evaluate
<1>6. Loses(m, m2, f.ans)
  BY <1>2, <1>3, ReleasesTip DEF Here
<1>7. Fits(f2) /\ Alike(f, f2)
  BY <1>1, <1>2, <1>4 DEF Here, Fits, Alike
<1>8. Sited(m2, f2)
  BY <1>2, <1>4, <1>6, HereSited DEF Here, Sited, Loses
<1>9. Maybe(m, f.code) /\ f.i \in Nat
  BY <1>1, <1>2, LocalsLive DEF Here, Fits
<1>10. f.i + 1 \in DOMAIN Items(m, f.code)
  <2>1. IsSeq(Items(m, f.code))
    BY <1>2, <1>9, LaterSelf, ItemsStay DEF Here
  <2>2. Len(Items(m, f.code)) \in Nat /\ DOMAIN Items(m, f.code) = 1 .. Len(Items(m, f.code))
    BY <2>1, SeqFacts
  <2>. QED BY <1>1, <1>9, <2>2
<1>11. Ready(m2, f2, next2)
  <2>1. SUFFICES ASSUME FrameAt(m2, f2) PROVE AtOK(m2, f2, next2)
    BY <1>5 DEF Ready
  <2>2. Later(m, m2) /\ Maybe(m2, f.code)
    BY <1>4, <1>6, <2>1 DEF Loses, Flows, FrameAt, Lent
  <2>3. x \in Range(Items(m2, f2.code))
    <3>1. f.i + 1 \in DOMAIN Items(m2, f.code) /\ Items(m2, f.code)[f.i + 1] = x
      BY <1>3, <1>9, <1>10, <2>2, ItemsStay
    <3>. QED BY <1>4, <3>1 DEF Range
  <2>4. x \in Runs(m2, f2)
    BY <1>1, <1>4, <2>3 DEF Runs
  <2>. QED BY <1>1, <1>4, <1>5, <2>4 DEF AtOK, Waits
<1>12. ASSUME NEW a \in Counted(m2) PROVE Bal(m2, a) + Tip(f, next, a) = Bal(m, a) + Tip(f2, next2, a)
  <2>1. a \notin {NULL, Nil} /\ Bal(m2, a) \in Nat /\ Bal(m2, a) + Ind(f.ans, a) = Bal(m, a)
    BY <1>2, <1>6, Enough DEF Loses, Here
  <2>. QED BY <1>2, <1>4, <1>5, <2>1 DEF Tip, Hold, Ind
<1>13. Onward(m, f, next, m2, f2, next2)
  BY <1>1, <1>4, <1>6, <1>7, <1>8, <1>11, <1>12 DEF Onward, Loses
<1>14. next2.do \in Dos
  BY <1>5 DEF Dos
<1>. QED BY <1>1, <1>3, <1>13, <1>14, WithKeeps

LEMMA NextOperandKeeps == ASSUME IInv, NextOperand PROVE IInv'
<1>1. at.do = "resume" /\ Top.fn = "connective" /\ Top.i < Len(Items(mem, Top.code))
  BY DEF NextOperand, Resumed, Resume
<1>2. Go(Release(mem, Top.ans), With(Emptied(Top)), Evaluate(Items(mem, Top.code)[Top.i + 1]))
  BY DEF NextOperand, Emptied
<1>. QED BY <1>1, <1>2, NextKeeps

LEMMA NextStatementKeeps == ASSUME IInv, NextStatement PROVE IInv'
<1>1. at.do = "resume" /\ Top.fn \in {"function", "expansion"} /\ Top.i < Len(Items(mem, Top.code))
  BY DEF NextStatement, Body, Resume
<1>2. Go(Release(mem, Top.ans), With(Emptied(Top)), Evaluate(Items(mem, Top.code)[Top.i + 1]))
  BY DEF NextStatement, Emptied
<1>. QED BY <1>1, <1>2, NextKeeps

LEMMA StatementEvaluatedKeeps == ASSUME IInv, StatementEvaluated PROVE IInv'
<1>1. at.do = "return" /\ Top.fn \in {"function", "expansion"} /\ Go(mem, With(Took(Top, at.obj)), Resume)
  BY DEF StatementEvaluated, Body, Took
<1>2. Stays(mem, mem)
  BY <1>1, Now, StaysSelf DEF Here
<1>. QED BY <1>1, <1>2, AnswerKept

\* A value is looked at.
LEMMA ValuedStays ==
  ASSUME NEW m, Good(m), NEW a, Maybe(m, a), NEW p, p = Valued(m, a), Straight(p)
  PROVE  Stays(m, p)
BY ValuedStep, IdleStays DEF Maybe

LEMMA OperandEvaluatedKeeps == ASSUME IInv, OperandEvaluated PROVE IInv'
<1>1. at.do = "return" /\ Top.fn = "connective"
  BY DEF OperandEvaluated, Returned
<1>2. PICK m : m = Valued(mem, at.obj)
  OBVIOUS
<1>3. Here(mem, Front(frames), Top, at) /\ Waits(Top) /\ Maybe(mem, at.obj)
  BY <1>1, Now, NowWaits, LocalsLive DEF Here
<1>4. Straight(m) => Stays(mem, m)
  BY <1>2, <1>3, ValuedStays DEF Here
<1>5. CASE Truth(mem, at.obj) = Until
  <2>1. Go(m, Pop, Return(at.obj))
    BY <1>2, <1>5 DEF OperandEvaluated
  <2>2. ASSUME NEW a, a \notin {NULL, Nil} PROVE Tip(Top, at, a) = Ind(at.obj, a)
    <3>1. Hold(Top, a) = Ind(Top.ans, a)
      BY <1>1, <1>3, <2>2, HoldOf DEF Here, HoldsBy
    <3>. QED BY <1>1, <1>3, <2>2, <3>1 DEF Waits, Tip, Ind
  <2>. QED BY <1>1, <1>3, <1>4, <2>1, <2>2, PassOn
<1>6. CASE Truth(mem, at.obj) # Until
  <2>1. Go(m, With(Took(Top, at.obj)), Resume)
    BY <1>2, <1>6 DEF OperandEvaluated, Took
  <2>. QED BY <1>1, <1>4, <2>1, AnswerKept
<1>. QED BY <1>5, <1>6

LEMMA NoOperandLeftKeeps == ASSUME IInv, NoOperandLeft PROVE IInv'
<1>1. at.do = "resume" /\ Top.fn = "connective" /\ Go(Lose(Retain(mem, Top.ans), Top.ans), Pop, Return(Top.ans))
  BY DEF NoOperandLeft, Resumed, Resume
<1>2. PICK m : m = Lose(Retain(mem, Top.ans), Top.ans)
  OBVIOUS
<1>3. Here(mem, Front(frames), Top, at) /\ Maybe(mem, Top.ans)
  BY <1>1, Now, LocalsLive DEF Here
<1>4. Stays(mem, m)
  BY <1>2, <1>3, RetainLost, IdleStays DEF Here, Maybe
<1>5. ASSUME NEW a, a \notin {NULL, Nil} PROVE Tip(Top, at, a) = Ind(Top.ans, a)
  <2>1. Hold(Top, a) = Ind(Top.ans, a)
    BY <1>1, <1>3, <1>5, HoldOf DEF Here, HoldsBy
  <2>. QED BY <1>1, <2>1 DEF Tip, Ind
<1>. QED BY <1>1, <1>2, <1>3, <1>4, <1>5, PassOn

\* A reference to x has gone.
Sheds(m, m2, x) ==
  /\ Good(m2) /\ Flows(m, m2)
  /\ \A a \in Counted(m2) : a \notin {NULL, Nil} /\ Bal(m2, a) \in Nat /\ Bal(m2, a) + Ind(x, a) = Bal(m, a)

LEMMA LosesSheds ==
  ASSUME NEW m, NEW m2, NEW x, Loses(m, m2, x)
  PROVE  Sheds(m, m2, x)
<1>1. Good(m2) /\ Flows(m, m2) /\ Counted(m2) = Counted(m)
  BY DEF Loses, Moved
<1>2. \A a \in Counted(m2) : a \notin {NULL, Nil}
  BY <1>1, Addresses DEF Counted, Good
<1>. QED BY <1>1, <1>2 DEF Loses, Sheds

LEMMA IdleSheds ==
  ASSUME NEW m, Good(m), NEW m1, Idle(m, m1), NEW x, \A a \in Counted(m) : Bal(m, a) >= Ind(x, a)
  PROVE  Sheds(m, Release(m1, x), x) /\ Sheds(m, Lose(m1, x), x)
<1>1. /\ Good(m1) /\ Flows(m, m1) /\ Counted(m1) = Counted(m)
      /\ \A a \in Counted(m) : Bal(m1, a) = Bal(m, a)
  BY IdleStays DEF Idle, Moved, Stays
<1>2. \A a \in Counted(m1) : Bal(m1, a) >= Ind(x, a)
  BY <1>1
<1>3. Loses(m1, Release(m1, x), x) /\ Loses(m1, Lose(m1, x), x)
  BY <1>1, <1>2, Releases, Losing
<1>4. ASSUME NEW m2, Loses(m1, m2, x) PROVE Sheds(m, m2, x)
  <2>1. Sheds(m1, m2, x) /\ Counted(m2) = Counted(m1)
    BY <1>4, LosesSheds DEF Loses
  <2>2. Flows(m, m2)
    BY <1>1, <2>1, FlowsMore DEF Sheds
  <2>. QED BY <1>1, <2>1, <2>2 DEF Sheds
<1>. QED BY <1>3, <1>4

LEMMA ParametersEvaluatedKeeps == ASSUME IInv, ParametersEvaluated PROVE IInv'
<1>1. PICK m, base, f, next : m = mem /\ base = Front(frames) /\ f = Top /\ next = at
  OBVIOUS
<1>2. next.do = "return" /\ f.fn = "lambda" /\ at.do # "end" /\ Top.fn \notin {"program", "function"}
  BY <1>1 DEF ParametersEvaluated, Returned
<1>3. Here(m, base, f, next) /\ Maybe(m, next.obj) /\ Good(m) /\ Secure(m)
  BY <1>1, <1>2, Now, LocalsLive DEF Here
<1>4. ASSUME NEW a, a \notin {NULL, Nil} PROVE Tip(f, next, a) = Ind(next.obj, a)
  <2>1. Hold(f, a) = 0
    BY <1>2, <1>3, <1>4, HoldOf DEF Here, HoldsBy
  <2>. QED BY <1>2, <2>1 DEF Tip, Ind
<1>5. \A a \in Counted(m) : Bal(m, a) >= Ind(next.obj, a)
  BY <1>2, <1>3, ReleasesTip DEF Here
<1>6. CASE Type(mem, at.obj) = "list"
  <2>1. Alive(m, next.obj) /\ m.heap[next.obj].type = "list"
    BY <1>1, <1>3, <1>6 DEF Type, Maybe
  <2>2. PICK x, kind, body : /\ x = Fresh(m) /\ kind = (IF m.heap[f.func].value = "#" THEN "macro" ELSE "function")
                             /\ body = Tail(Items(m, f.code))
    OBVIOUS
  <2>20. PICK p : p = next.obj
    OBVIOUS
  <2>30. PICK m1 : m1 = Block(m, body)
    OBVIOUS
  <2>3. PICK o : o = MadeLambda(kind, p, x, Snapshot(m))
    OBVIOUS
  <2>4. PICK r : r = Release(New(m1, o), x)
    OBVIOUS
  <2>5. Lambda(f.func, next.obj) = r
    BY <1>1, <2>2, <2>20, <2>30, <2>3, <2>4 DEF Lambda, MadeLambda, Block
  <2>6. IsSeq(body) /\ \A i \in DOMAIN body : body[i] = NULL \/ Alive(m, body[i])
    <3>1. Alive(m, f.code) /\ 1 \in DOMAIN m.heap[f.code].items /\ f.code # NULL
      BY <1>2, <1>3, NilAlive DEF Here, FrameAt, Rely
    <3>2. PICK s : s = Items(m, f.code)
      OBVIOUS
    <3>3. IsSeq(s) /\ 1 \in DOMAIN s /\ \A i \in DOMAIN s : Maybe(m, s[i])
      BY <1>3, <3>1, <3>2, LaterSelf, ItemsStay DEF Items, Maybe
    <3>4. PICK n \in Nat : n = Len(s)
      BY <3>3, SeqFacts
    <3>5. DOMAIN s = 1 .. n /\ n > 0
      BY <3>3, <3>4, SeqFacts
    <3>6. PICK t : t = Tail(s)
      OBVIOUS
    <3>7. IsSeq(t) /\ Len(t) = n - 1 /\ DOMAIN t = 1 .. n - 1 /\ \A i \in DOMAIN t : t[i] = s[i + 1]
      BY <3>3, <3>4, <3>5, <3>6, SeqTail
    <3>8. \A i \in DOMAIN t : i + 1 \in DOMAIN s
      BY <3>5, <3>7
    <3>. QED BY <2>2, <3>2, <3>3, <3>6, <3>7, <3>8 DEF Maybe
  <2>7. kind \in {"function", "macro"}
    BY <2>2
  <2>8. /\ Moved(m, r) /\ x + 1 \in Counted(r)
        /\ \A a \in Counted(r) : Bal(r, a) = Bal(m, a) + Ind(x + 1, a)
    <3>1. Good(m) /\ Secure(m) /\ Alive(m, p) /\ m.heap[p].type = "list"
      BY <1>3, <2>1, <2>20
    <3>2. IsSeq(body) /\ \A i \in DOMAIN body : body[i] = NULL \/ Alive(m, body[i])
      BY <2>6
    <3>3. x = Fresh(m) /\ m1 = Block(m, body) /\ o = MadeLambda(kind, p, x, Snapshot(m))
      BY <2>2, <2>30, <2>3
    <3>. QED BY ONLY <3>1, <3>2, <3>3, <2>4, <2>7, LambdaStep
  <2>9. PICK m2, next2, e : m2 = Lose(r, next.obj) /\ next2 = Return(e) /\ e = x + 1
    OBVIOUS
  <2>10. Go(m2, Pop, next2)
    BY <1>1, <1>6, <2>2, <2>5, <2>9 DEF ParametersEvaluated
  <2>11. next2.do = "return" /\ next2.obj = e
    BY <2>9 DEF Return
  <2>12. Good(r) /\ Flows(m, r) /\ \A a \in Counted(r) : Bal(r, a) = Bal(m, a) + Ind(e, a)
    BY <1>3, <2>8, <2>9, MovedFlows DEF Moved
  <2>13. ASSUME NEW a \in Counted(r) PROVE Bal(r, a) >= Ind(next.obj, a)
    <3>1. CASE a \in Counted(m)
      <4>1. Bal(r, a) = Bal(m, a) + Ind(e, a) /\ Bal(m, a) >= Ind(next.obj, a) /\ Bal(m, a) \in Nat
        BY <1>3, <1>5, <2>12, <3>1, BalType
      <4>. QED BY <4>1 DEF Ind
    <3>2. CASE a \notin Counted(m)
      <4>1. a \notin {NULL, Nil} /\ next.obj \in Addr(m) /\ Addr(m) = DOMAIN m.heap \cup {NULL}
        BY <1>3, <2>12, Addresses, MaybeAddr DEF Counted, Good
      <4>2. next.obj # a
        BY <3>2, <4>1 DEF Counted
      <4>3. Bal(r, a) \in Nat
        BY <2>12, BalType
      <4>. QED BY <4>2, <4>3 DEF Ind
    <3>. QED BY <3>1, <3>2
  <2>14. Loses(r, m2, next.obj)
    BY <2>9, <2>12, <2>13, Losing
  <2>15. Flows(m, m2) /\ Counted(m2) = Counted(r) /\ Good(m2)
    BY <2>12, <2>14, FlowsMore DEF Loses, Moved
  <2>16. e \in Addr(m2)
    BY <2>8, <2>9, <2>15, Addresses DEF Counted, Good
  <2>17. ASSUME NEW a \in Counted(m2) PROVE Bal(m2, a) + Tip(f, next, a) = Bal(m, a) + Back(next2, a)
    <3>1. a \notin {NULL, Nil}
      BY <2>15, Addresses DEF Counted, Good
    <3>2. Tip(f, next, a) = Ind(next.obj, a) /\ Back(next2, a) = Ind(e, a)
      BY <1>4, <2>11, <3>1 DEF Back
    <3>3. Bal(m2, a) + Ind(next.obj, a) = Bal(r, a) /\ Bal(r, a) = Bal(m, a) + Ind(e, a)
      BY <2>12, <2>14, <2>15 DEF Loses
    <3>. QED BY <3>2, <3>3
  <2>18. Parting(m, f, next, m2, next2)
    BY <2>11, <2>15, <2>16, <2>17 DEF Parting
  <2>. QED BY <1>1, <1>2, <2>10, <2>11, <2>18, PartKeeps
<1>7. CASE Type(mem, at.obj) # "list"
  <2>1. PICK m2, next2 : m2 = Lose(m, next.obj) /\ next2 = Throw
    OBVIOUS
  <2>2. Go(m2, Pop, next2)
    BY <1>1, <1>7, <2>1 DEF ParametersEvaluated
  <2>3. Sheds(m, m2, next.obj)
    BY <1>2, <1>3, <2>1, ReleasesTip, LosesSheds DEF Here
  <2>4. next2.do = "throw"
    BY <2>1 DEF Throw
  <2>5. ASSUME NEW a \in Counted(m2) PROVE Bal(m2, a) + Tip(f, next, a) = Bal(m, a) + Back(next2, a)
    <3>1. a \notin {NULL, Nil} /\ Bal(m2, a) \in Nat /\ Bal(m2, a) + Ind(next.obj, a) = Bal(m, a)
      BY <2>3 DEF Sheds
    <3>2. Tip(f, next, a) = Ind(next.obj, a) /\ Back(next2, a) = 0
      BY <1>4, <2>4, <3>1 DEF Back
    <3>. QED BY <3>1, <3>2 DEF Ind
  <2>6. Parting(m, f, next, m2, next2)
    BY <2>3, <2>4, <2>5 DEF Parting, Sheds
  <2>. QED BY <1>1, <1>2, <2>2, <2>4, <2>6, PartKeeps
<1>. QED BY <1>6, <1>7

LEMMA ChosenKeeps == ASSUME IInv, Chosen PROVE IInv'
<1>1. PICK m, base, f, next : m = mem /\ base = Front(frames) /\ f = Top /\ next = at
  OBVIOUS
<1>2. next.do = "return" /\ f.fn = "condition" /\ at.do # "end" /\ Top.fn \notin {"program", "function"}
  BY <1>1 DEF Chosen, Returned
<1>3. Here(m, base, f, next) /\ Maybe(m, next.obj) /\ Good(m) /\ Rec(m)
  BY <1>1, <1>2, Now, LocalsLive DEF Here
<1>4. ASSUME NEW a, a \notin {NULL, Nil} PROVE Tip(f, next, a) = Ind(next.obj, a)
  <2>1. Hold(f, a) = 0
    BY <1>2, <1>3, <1>4, HoldOf DEF Here, HoldsBy
  <2>. QED BY <1>2, <2>1 DEF Tip, Ind
<1>5. PICK args, long, true, k :
        /\ args = Items(m, f.code) /\ long = (Len(args) > 2) /\ true = Truth(m, next.obj)
        /\ k = (IF long /\ ~true THEN 3 ELSE 2)
  OBVIOUS
<1>6. PICK m1 : m1 = Valued(m, next.obj)
  OBVIOUS
<1>7. \/ true /\ ~long /\ Go(m1, Pop, Return(next.obj))
      \/ k > Len(args) /\ Die
      \/ ~(true /\ ~long) /\ ~(k > Len(args)) /\ Go(Release(m1, next.obj), Pop, Evaluate(args[k]))
  BY <1>1, <1>5, <1>6 DEF Chosen
<1>8. CASE true /\ ~long /\ Go(m1, Pop, Return(next.obj))
  <2>1. Straight(m1) => Stays(m, m1)
    BY <1>3, <1>6, ValuedStays
  <2>. QED BY <1>1, <1>2, <1>3, <1>4, <1>8, <2>1, PassOn
<1>9. CASE k > Len(args) /\ Die
  BY <1>9, DieKeeps
<1>10. CASE ~(true /\ ~long) /\ ~(k > Len(args)) /\ Go(Release(m1, next.obj), Pop, Evaluate(args[k]))
  <2>1. PICK m2, next2, g, x : /\ m2 = Release(m1, next.obj) /\ g = base[Len(base)] /\ x = args[k]
                               /\ next2 = Evaluate(x)
    OBVIOUS
  <2>2. Go(m2, Pop, next2)
    BY <1>10, <2>1
  <2>3. next2.do = "evaluate" /\ next2.obj = x /\ next2.do \in Dos
    BY <2>1 DEF Evaluate, Dos
  <2>4. Under(m, base, f, g)
    BY <1>2, <1>3, <2>1, UnderStep DEF Here
  <2>5. x \in Range(args) /\ args # <<>>
    <3>1. Maybe(m, f.code)
      BY <1>3, LocalsLive DEF Here
    <3>2. IsSeq(args)
      BY <1>3, <1>5, <3>1, LaterSelf, ItemsStay
    <3>3. PICK n \in Nat : n = Len(args)
      BY <3>2, SeqFacts
    <3>4. DOMAIN args = 1 .. n /\ k \in {2, 3}
      BY <1>5, <3>2, <3>3, SeqFacts
    <3>5. ~(k > n)
      BY <1>10, <3>3
    <3>6. k \in DOMAIN args
      BY <3>4, <3>5
    <3>. QED BY <2>1, <3>4, <3>6 DEF Range
  <2>6. g.fn = "call" /\ f.code = g.args /\ Waits(g) /\ FrameAt(m, g)
    <3>1. FrameAt(m, g) /\ Waits(g) /\ f.func \in Callees(m, g) /\ f.code = Given(g)
      BY <1>2, <2>4 DEF Under, Link
    <3>2. g.fn \in {"call", "loop"}
      BY <3>1 DEF Callees
    <3>3. f.code # Nil
      BY <1>3, <1>5, <2>5 DEF Items, Good, Shape, Nil, NULL
    <3>. QED BY <3>1, <3>2, <3>3 DEF Given
  <2>7. x \in Runs(m, g)
    BY <1>5, <2>5, <2>6 DEF Runs
  <2>8. ASSUME Straight(m2) PROVE Pops(m, f, next, m2, base, g, next2)
    <3>1. Straight(m1)
      <4>1. Rec(m1)
        BY <1>3, <1>6, TouchRec DEF Valued
      <4>2. m2.stray = m1.stray
        BY <2>1, <4>1, ReleaseRec
      <4>. QED BY <2>8, <4>2 DEF Straight
    <3>2. Idle(m, m1)
      BY <1>3, <1>6, <3>1, ValuedStep DEF Maybe
    <3>3. \A a \in Counted(m) : Bal(m, a) >= Ind(next.obj, a)
      BY <1>2, <1>3, ReleasesTip DEF Here
    <3>4. Sheds(m, m2, next.obj)
      BY <1>3, <2>1, <3>2, <3>3, IdleSheds
    <3>5. Stable(m, base, f) /\ Flows(m, m2)
      BY <1>3, <3>4 DEF Here, World, Sheds
    <3>6. Falls(m, m2, base)
      BY <1>2, <3>5, FlowsFalls
    <3>7. Ready(m2, g, next2)
      <4>1. SUFFICES ASSUME FrameAt(m2, g) PROVE AtOK(m2, g, next2)
        BY <2>3 DEF Ready
      <4>2. x \in Runs(m2, g)
        BY <2>6, <2>7, <3>5, <4>1, RunsStays DEF Flows
      <4>. QED BY <2>3, <2>6, <4>2 DEF AtOK
    <3>8. ASSUME NEW a \in Counted(m2) PROVE Bal(m2, a) + Tip(f, next, a) = Bal(m, a) + Back(next2, a)
      <4>1. a \notin {NULL, Nil} /\ Bal(m2, a) \in Nat /\ Bal(m2, a) + Ind(next.obj, a) = Bal(m, a)
        BY <3>4 DEF Sheds
      <4>2. Tip(f, next, a) = Ind(next.obj, a) /\ Back(next2, a) = 0
        BY <1>4, <2>3, <4>1 DEF Back
      <4>. QED BY <4>1, <4>2 DEF Ind
    <3>. QED BY <3>6, <3>7, <3>8 DEF Pops
  <2>. QED BY <1>1, <1>2, <2>1, <2>2, <2>3, <2>8, GoPop
<1>. QED BY <1>7, <1>8, <1>9, <1>10

\* The functions of a loop are its two arguments.
LoopCall(m, a, k) == Call(Items(m, a)[k], Nil, Nil)
LEMMA LoopReady ==
  ASSUME NEW m, NEW m2, Later(m, m2), NEW f, Turns(m, f.code), NEW f2, f2.fn = "loop", f2.code = f.code,
         NEW k \in {1, 2}
  PROVE  Ready(m2, f2, LoopCall(m, f.code, k))
<1>1. PICK x, next : x = Items(m, f.code)[k] /\ next = LoopCall(m, f.code, k)
  OBVIOUS
<1>2. next.do = "call" /\ next.func = x /\ next.args = Nil /\ next.self = Nil
  BY <1>1 DEF LoopCall, Call
<1>3. SUFFICES ASSUME FrameAt(m2, f2) PROVE AtOK(m2, f2, next)
  BY <1>1, <1>2 DEF Ready
<1>4. Turns(m2, f.code) /\ f.code # NULL
  BY <1>3, NilAlive DEF FrameAt, Rely, Turns, Later
<1>5. x = m2.heap[f.code].items[k]
  <2>1. Alive(m2, f.code) /\ f.code \in DOMAIN m.heap /\ k \in DOMAIN m.heap[f.code].items
    BY <1>4 DEF Turns, Alive
  <2>2. m2.heap[f.code].items[k] = m.heap[f.code].items[k]
    BY <2>1 DEF Later, Grows
  <2>. QED BY <1>1, <1>4, <2>2 DEF Items
<1>6. x \in Callees(m2, f2)
  BY <1>5 DEF Callees
<1>. QED BY <1>2, <1>6 DEF AtOK, Passed, Given

LEMMA ConditionEvaluatedKeeps == ASSUME IInv, ConditionEvaluated PROVE IInv'
<1>1. PICK m, base, f, next : m = mem /\ base = Front(frames) /\ f = Top /\ next = at
  OBVIOUS
<1>2. next.do = "return" /\ f.fn = "loop" /\ f.i = 0 /\ at.do # "end" /\ Top.fn \notin {"program", "function"}
  BY <1>1 DEF ConditionEvaluated, Returned
<1>3. Here(m, base, f, next) /\ Maybe(m, next.obj) /\ Good(m) /\ Rec(m) /\ f.first = NULL /\ Turns(m, f.code)
  BY <1>1, <1>2, Now, LocalsLive DEF Here, Fits, FrameAt, Rely
<1>4. ASSUME NEW a, a \notin {NULL, Nil} PROVE Tip(f, next, a) = Ind(f.ans, a) + Ind(next.obj, a)
  <2>1. Hold(f, a) = Ind(f.first, a) + Ind(f.ans, a)
    BY <1>2, <1>3, <1>4, HoldOf DEF Here, HoldsBy
  <2>. QED BY <1>2, <1>3, <1>4, <2>1 DEF Tip, Ind
<1>5. PICK m1 : m1 = ValueLost(m, next.obj)
  OBVIOUS
<1>6. Rec(m1) /\ (Straight(m1) => Idle(m, m1))
  BY <1>3, <1>5, ValueLostStep, ValueLostRec DEF Maybe
<1>7. /\ \A a \in Counted(m) : Bal(m, a) >= Ind(next.obj, a)
      /\ \A a \in Counted(m) : Bal(m, a) >= Ind(f.ans, a)
  BY <1>2, <1>3, ReleasesTip DEF Here
<1>8. CASE Truth(m, next.obj)
  <2>1. PICK m2, f2, next2 :
          /\ m2 = Release(m1, f.ans) /\ f2 = [f EXCEPT !.first = next.obj, !.ans = NULL, !.i = 1]
          /\ next2 = LoopCall(m, f.code, 2)
    OBVIOUS
  <2>2. Go(m2, With(f2), next2)
    BY <1>1, <1>5, <1>8, <2>1 DEF ConditionEvaluated, LoopPart, LoopCall
  <2>3. /\ DOMAIN f2 = FrameFields /\ f2.fn = f.fn /\ f2.code = f.code /\ f2.func = f.func /\ f2.self = f.self
        /\ f2.first = next.obj /\ f2.slice = f.slice /\ f2.args = f.args /\ f2.ans = NULL /\ f2.i = 1
    BY <1>3, <2>1 DEF Here, Fits, FrameFields
  <2>4. next2.do = "call" /\ next2.do \in Dos
    BY <2>1 DEF LoopCall, Call, Dos
  <2>5. Fits(f2) /\ Alike(f, f2)
    BY <1>2, <1>3, <2>3 DEF Here, Fits, Alike
  <2>6. ASSUME Straight(m2) PROVE Onward(m, f, next, m2, f2, next2)
    <3>1. Straight(m1)
      BY <1>6, <2>1, <2>6, ReleaseRec DEF Straight
    <3>2. Sheds(m, m2, f.ans)
      BY <1>3, <1>6, <1>7, <2>1, <3>1, IdleSheds
    <3>3. Sited(m2, f2)
      BY <1>2, <1>3, <2>3, <3>2, HereSited DEF Here, Sited, Sheds
    <3>4. Ready(m2, f2, next2)
      <4>1. PICK k : k = 2
        OBVIOUS
      <4>2. Later(m, m2) /\ f2.fn = "loop" /\ f2.code = f.code
        BY <1>2, <2>3, <3>2 DEF Sheds, Flows
      <4>3. Ready(m2, f2, LoopCall(m, f.code, k))
        BY <1>3, <4>1, <4>2, LoopReady
      <4>. QED BY <2>1, <4>1, <4>3
    <3>5. ASSUME NEW a \in Counted(m2) PROVE Bal(m2, a) + Tip(f, next, a) = Bal(m, a) + Tip(f2, next2, a)
      <4>1. a \notin {NULL, Nil} /\ Bal(m2, a) \in Nat /\ Bal(m2, a) + Ind(f.ans, a) = Bal(m, a)
        BY <3>2 DEF Sheds
      <4>2. Tip(f2, next2, a) = Ind(next.obj, a)
        <5>1. Hold(f2, a) = Ind(f2.first, a) + Ind(f2.ans, a)
          BY <1>2, <2>3, <2>5, <4>1, HoldOf DEF HoldsBy
        <5>. QED BY <2>3, <2>4, <4>1, <5>1 DEF Tip, Ind
      <4>3. Tip(f, next, a) = Ind(f.ans, a) + Ind(next.obj, a)
        BY <1>4, <4>1
      <4>. QED BY <4>1, <4>2, <4>3 DEF Ind
    <3>. QED BY <1>2, <2>3, <2>5, <3>2, <3>3, <3>4, <3>5 DEF Onward, Sheds
  <2>. QED BY <1>1, <1>2, <2>2, <2>4, <2>6, WithKeeps
<1>9. CASE ~Truth(m, next.obj)
  <2>1. PICK m2, next2 : m2 = Lose(m1, next.obj) /\ next2 = Return(f.ans)
    OBVIOUS
  <2>2. Go(m2, Pop, next2)
    BY <1>1, <1>5, <1>9, <2>1 DEF ConditionEvaluated
  <2>3. next2.do = "return" /\ next2.obj = f.ans
    BY <2>1 DEF Return
  <2>4. ASSUME Straight(m2) PROVE Parting(m, f, next, m2, next2)
    <3>1. Straight(m1)
      BY <1>6, <2>1, <2>4, LoseRec DEF Straight
    <3>2. Sheds(m, m2, next.obj)
      BY <1>3, <1>6, <1>7, <2>1, <3>1, IdleSheds
    <3>3. f.ans \in Addr(m2)
      BY <1>3, <3>2, HereSited DEF Here, Sited, Sheds
    <3>4. ASSUME NEW a \in Counted(m2) PROVE Bal(m2, a) + Tip(f, next, a) = Bal(m, a) + Back(next2, a)
      <4>1. a \notin {NULL, Nil} /\ Bal(m2, a) \in Nat /\ Bal(m2, a) + Ind(next.obj, a) = Bal(m, a)
        BY <3>2 DEF Sheds
      <4>2. Tip(f, next, a) = Ind(f.ans, a) + Ind(next.obj, a) /\ Back(next2, a) = Ind(f.ans, a)
        BY <1>4, <2>3, <4>1 DEF Back
      <4>. QED BY <4>1, <4>2 DEF Ind
    <3>. QED BY <2>3, <3>2, <3>3, <3>4 DEF Parting, Sheds
  <2>. QED BY <1>1, <1>2, <2>2, <2>3, <2>4, PartKeeps
<1>. QED BY <1>8, <1>9

LEMMA LoopBodyEvaluatedKeeps == ASSUME IInv, LoopBodyEvaluated PROVE IInv'
<1>1. PICK m, base, f, next : m = mem /\ base = Front(frames) /\ f = Top /\ next = at
  OBVIOUS
<1>2. next.do = "return" /\ f.fn = "loop" /\ f.i = 1
  BY <1>1 DEF LoopBodyEvaluated, Returned
<1>3. Here(m, base, f, next) /\ Maybe(m, next.obj) /\ Good(m) /\ f.ans = NULL /\ Turns(m, f.code)
  <2>1. Here(m, base, f, next) /\ Maybe(m, next.obj)
    BY <1>1, <1>2, Now, LocalsLive DEF Here
  <2>2. f.ans = NULL
    <3>1. 1 # 0
      OBVIOUS
    <3>. QED BY <1>2, <2>1, <3>1 DEF Here, Fits
  <2>. QED BY <1>2, <2>1, <2>2 DEF Here, FrameAt, Rely
<1>4. PICK m2, f2, next2 :
        /\ m2 = Release(m, f.first) /\ f2 = [f EXCEPT !.first = NULL, !.ans = next.obj, !.i = 0]
        /\ next2 = LoopCall(m, f.code, 1)
  OBVIOUS
<1>5. Go(m2, With(f2), next2)
  BY <1>1, <1>4 DEF LoopBodyEvaluated, LoopPart, LoopCall
<1>6. /\ DOMAIN f2 = FrameFields /\ f2.fn = f.fn /\ f2.code = f.code /\ f2.func = f.func /\ f2.self = f.self
      /\ f2.first = NULL /\ f2.slice = f.slice /\ f2.args = f.args /\ f2.ans = next.obj /\ f2.i = 0
  BY <1>3, <1>4 DEF Here, Fits, FrameFields
<1>7. next2.do = "call" /\ next2.do \in Dos
  BY <1>4 DEF LoopCall, Call, Dos
<1>8. Fits(f2) /\ Alike(f, f2)
  BY <1>2, <1>3, <1>6 DEF Here, Fits, Alike
<1>9. Sheds(m, m2, f.first)
  BY <1>3, <1>4, ReleasesTip, LosesSheds DEF Here
<1>10. Sited(m2, f2)
  BY <1>2, <1>3, <1>6, <1>9, HereSited DEF Here, Sited, Sheds
<1>11. Ready(m2, f2, next2)
  <2>1. PICK k : k = 1
    OBVIOUS
  <2>2. Later(m, m2) /\ f2.fn = "loop" /\ f2.code = f.code
    BY <1>2, <1>6, <1>9 DEF Sheds, Flows
  <2>3. Ready(m2, f2, LoopCall(m, f.code, k))
    BY <1>3, <2>1, <2>2, LoopReady
  <2>. QED BY <1>4, <2>1, <2>3
<1>12. ASSUME NEW a \in Counted(m2) PROVE Bal(m2, a) + Tip(f, next, a) = Bal(m, a) + Tip(f2, next2, a)
  <2>1. a \notin {NULL, Nil} /\ Bal(m2, a) \in Nat /\ Bal(m2, a) + Ind(f.first, a) = Bal(m, a)
    BY <1>9 DEF Sheds
  <2>2. Hold(f, a) = Ind(f.first, a) + Ind(f.ans, a) /\ Hold(f2, a) = Ind(f2.first, a) + Ind(f2.ans, a)
    BY <1>2, <1>3, <1>6, <1>8, <2>1, HoldOf DEF HoldsBy, Here
  <2>3. Tip(f, next, a) = Ind(f.first, a) + Ind(next.obj, a)
    BY <1>2, <1>3, <2>1, <2>2 DEF Tip, Ind
  <2>4. Tip(f2, next2, a) = Ind(next.obj, a)
    BY <1>6, <1>7, <2>1, <2>2 DEF Tip, Ind
  <2>. QED BY <2>1, <2>3, <2>4 DEF Ind
<1>13. Onward(m, f, next, m2, f2, next2)
  BY <1>2, <1>6, <1>8, <1>9, <1>10, <1>11, <1>12 DEF Onward, Sheds
<1>. QED BY <1>1, <1>2, <1>5, <1>7, <1>13, WithKeeps

-----------------------------------------------------------------------------
(* Operators of objects. *)

LEMMA FollowsSelf == ASSUME NEW m, Good(m) PROVE Follows(m, m)
<1>1. Grows(m, m)
  BY GrowsSelf DEF Good
<1>2. \A x \in Counted(m) : Bal(m, x) >= Bal(m, x)
  <2>1. ASSUME NEW x \in Counted(m) PROVE Bal(m, x) >= Bal(m, x)
    <3>1. Bal(m, x) \in Nat
      BY BalType
    <3>. QED BY <3>1
  <2>. QED BY <2>1
<1>. QED BY <1>1, <1>2 DEF Follows, Binds

\* What a variable has lives.
LEMMA Resolved == ASSUME NEW m, Good(m), Secure(m), NEW n PROVE Maybe(m, Resolve(m, n))
  BY FollowsSelf, ResolveAlive DEF Maybe

LEMMA GetKeeps == ASSUME IInv, Get PROVE IInv'
<1>1. Operator /\ Gives(mem, GetProp(mem, at.self, Name))
  BY DEF Get, Performs
<1>2. PICK a : a = GetProp(mem, at.self, Name)
  OBVIOUS
<1>3. /\ at.do = "call" /\ Good(mem) /\ Rec(mem) /\ at.self \in DOMAIN mem.heap
  BY <1>1, OperatorFacts DEF Served, Alive
<1>4. Maybe(mem, a) /\ Stays(mem, mem)
  BY <1>2, <1>3, PropAlive, StaysSelf DEF Maybe
<1>. QED BY <1>1, <1>2, <1>3, <1>4, GivesKeeps

LEMMA SetPropertyKeeps == ASSUME IInv, SetProperty PROVE IInv'
<1>1. PICK v : v = (IF Types[2] = "token" THEN Resolve(mem, mem.heap[Arg(2)].value) ELSE Arg(2))
  OBVIOUS
<1>2. PICK m, b, n : m = mem /\ b = at.self /\ n = Name
  OBVIOUS
<1>3. PICK m2 : m2 = SetProp(m, b, n, v)
  OBVIOUS
<1>4. Operator /\ Unmet = {} /\ OpName = "Object.set" /\ Gives(m2, v)
  BY <1>1, <1>2, <1>3 DEF SetProperty, Performs
<1>5. at.do = "call" /\ Good(m) /\ Secure(m) /\ Alive(m, b) /\ (b = Nil \/ Bal(m, b) # 0)
  BY <1>2, <1>4, OperatorFacts DEF Served
<1>6. Maybe(m, Arg(2))
  BY <1>2, <1>4, DemandsAre, SecondThere
<1>7. Maybe(m, v)
  BY <1>1, <1>2, <1>5, <1>6, Resolved
<1>8. /\ Moved(m, m2) /\ Counted(m2) = Counted(m)
      /\ \A x \in Counted(m) : Bal(m2, x) = Bal(m, x)
      /\ PropsSet(m, m2, b, n, v)
  BY <1>3, <1>5, <1>7, SetPropStep DEF Maybe
<1>9. Good(m2) /\ Rec(m2) /\ Stays(m, m2)
  BY <1>5, <1>8, MovedStays, GoodRec DEF Moved
<1>10. b \in DOMAIN m2.heap /\ n \in DOMAIN m2.heap[b].props /\ m2.heap[b].props[n] = v
  BY <1>5, <1>8 DEF PropsSet, Alive, Put
<1>11. Maybe(m2, v)
  BY <1>9, <1>10, OwnedAlive DEF Good, Maybe
<1>. QED BY <1>2, <1>4, <1>5, <1>9, <1>11, GivesKeeps

\* A new object with that prototype.
Made(parent) == [Obj("object", 0, <<>>) EXCEPT !.parent = parent]

LEMMA MadeProper ==
  ASSUME NEW m, NEW p, p = NULL \/ Alive(m, p), NEW o, o = Made(p)
  PROVE  Proper(m, o)
<1>1. /\ DOMAIN o = Fields /\ o.count = 1 /\ o.lost = 0 /\ o.parent = p /\ o.items = <<>>
      /\ o.props = <<>> /\ o.closure = <<>> /\ o.type = "object"
  BY DEF Obj, Fields, Made
<1>2. DOMAIN o.props = {} /\ DOMAIN o.closure = {} /\ IsFiniteSet({})
  BY <1>1, FS_EmptySet
<1>3. Kind(m, o)
  BY <1>1 DEF Kind
<1>4. IsSeq(o.items) /\ DOMAIN o.items = {}
  BY <1>1, NoItems
<1>. QED BY <1>1, <1>2, <1>3, <1>4 DEF Proper, Table

LEMMA NewObjectFacts ==
  ASSUME Good(mem), NEW p, p = NULL \/ Alive(mem, p), NEW x, x = Fresh(mem), NEW m, m = NewObject(p)
  PROVE  /\ Good(m) /\ Gains(mem, m, x) /\ Alive(m, x) /\ Bal(m, x) # 0 /\ Holds(mem, m)
         /\ \A a \in DOMAIN mem.heap : a \in DOMAIN m.heap /\ m.heap[a].props = mem.heap[a].props
<1>1. PICK o : o = Made(p)
  OBVIOUS
<1>2. m = New(mem, o)
  BY <1>1 DEF NewObject, Made
<1>3. Newer(mem, o, x, m)
  BY <1>1, <1>2, MadeProper, NewFacts
<1>4. Good(m) /\ Gains(mem, m, x) /\ Alive(m, x)
  BY <1>3, NewerGains DEF Newer, Moved
<1>5. \A a \in DOMAIN mem.heap : a \in DOMAIN m.heap /\ m.heap[a].props = mem.heap[a].props
  BY <1>3 DEF Newer, SameObj
<1>6. Bal(m, x) # 0
  <2>1. x \in Counted(m) /\ x \notin Counted(mem)
    BY <1>3 DEF Newer, Counted
  <2>2. Bal(m, x) = Bal(mem, x) + Ind(x, x) /\ Bal(mem, x) = 0 /\ Ind(x, x) = 1
    BY <1>3, <2>1 DEF Newer, Bal, Ind
  <2>. QED BY <2>2
<1>7. Holds(mem, m)
  <2>1. ASSUME NEW a \in Counted(mem) PROVE Bal(m, a) >= Bal(mem, a)
    <3>1. a \in Counted(m) /\ Bal(m, a) = Bal(mem, a) + Ind(x, a) /\ Bal(mem, a) \in Nat
      BY <1>3, <2>1, BalType DEF Newer
    <3>. QED BY <3>1 DEF Ind
  <2>2. Grows(mem, m)
    BY <1>3 DEF Newer, Moved
  <2>. QED BY <1>4, <2>1, <2>2 DEF Holds, Later
<1>. QED BY <1>4, <1>5, <1>6, <1>7

LEMMA HoldsMore ==
  ASSUME NEW m, NEW m1, Holds(m, m1), NEW m2, Stays(m1, m2)
  PROVE  Holds(m, m2)
<1>1. Good(m) /\ Good(m1) /\ Good(m2) /\ Grows(m, m2)
  BY GrowsMore DEF Holds, Later, Stays, Flows, Good
<1>2. Counted(m) \subseteq Counted(m1) /\ Counted(m1) \subseteq Counted(m2)
  BY LaterAddr DEF Holds, Stays, Flows
<1>3. \A x \in Counted(m) : Bal(m2, x) >= Bal(m, x)
  BY <1>2 DEF Holds, Stays
<1>. QED BY <1>1, <1>3 DEF Holds, Later

\* Properties that are set leave what C locals own.
LEMMA AlongStays ==
  ASSUME NEW m, Good(m), NEW m2, NEW a, NEW ns, NEW vs, Along(m, m2, a, ns, vs)
  PROVE  Stays(m, m2) /\ Counted(m2) = Counted(m) /\ Good(m2) /\ Alive(m2, a)
  BY MovedStays DEF Along, Moved

\* What has been made is lost.
LEMMA GainsLost ==
  ASSUME NEW m, Good(m), NEW q, NEW x, Gains(m, q, x), NEW p, p = Lose(q, x)
  PROVE  Stays(m, p)
<1>6. Flows(m, q) /\ Good(q) /\ \A a \in Counted(q) : Bal(q, a) = Bal(m, a) + Ind(x, a)
  BY DEF Gains, Flows, Later
<1>7. \A a : Bal(m, a) \in Nat
  BY BalType
<1>8. \A a \in Counted(q) : Bal(q, a) >= Ind(x, a)
  BY <1>6, <1>7 DEF Ind
<1>9. Loses(q, p, x)
  BY <1>6, <1>8, Losing
<1>10. Flows(m, p)
  BY <1>6, <1>9, FlowsMore DEF Loses
<1>11. ASSUME NEW a \in Counted(p) PROVE Bal(p, a) = Bal(m, a)
  <2>1. Bal(p, a) \in Nat /\ Bal(p, a) + Ind(x, a) = Bal(q, a) /\ Bal(q, a) = Bal(m, a) + Ind(x, a)
    BY <1>6, <1>9 DEF Loses
  <2>2. Bal(m, a) \in Nat /\ Ind(x, a) \in Nat
    BY <1>7 DEF Ind
  <2>3. PICK i, j, k : i = Bal(p, a) /\ j = Bal(m, a) /\ k = Ind(x, a)
    OBVIOUS
  <2>4. i \in Nat /\ j \in Nat /\ k \in Nat /\ i + k = j + k
    BY <2>1, <2>2, <2>3
  <2>5. i = j
    BY ONLY <2>4
  <2>. QED BY <2>3, <2>5
<1>. QED BY <1>10, <1>11 DEF Stays

LEMMA RawAlive == ASSUME NEW m, Good(m) PROVE Alive(m, RawObject)
<1>1. RawObject = 40 /\ DOMAIN Kept = 1 .. 42
  BY MethodPlaces, BooleanFacts, MethodFacts
<1>2. PICK raw, own : raw = {True} \cup {Methods[n] : n \in RawMethods} /\ own = {Object, RawObject, Methods["clone"], Methods["patch"]}
  OBVIOUS
<1>3. Kept[40] = CASE 40 \in raw -> 2 [] 40 \in own -> 1 [] OTHER -> 0
  BY <1>1, <1>2, BooleanFacts, MethodFacts DEF Kept
<1>4. 40 \in own
  BY <1>1, <1>2
<1>5. 40 \in 2 .. 42 /\ 40 \in DOMAIN Kept
  BY <1>1
<1>6. Keeps(40) # 0
  BY <1>3, <1>4, <1>5 DEF Keeps
<1>. QED BY <1>1, <1>5, <1>6, KeptAlive

\* The arguments up to a place, in pairs.
LEMMA Half ==
  ASSUME NEW k \in Nat
  PROVE  k \div 2 \in Nat /\ 2 * (k \div 2) <= k
  OBVIOUS

\* Properties are set from the arguments.
LEMMA CreateAlong ==
  ASSUME IInv, Operator, NEW upto \in Nat, 2 * upto <= Len(Arguments),
         NEW ns, IsSeq(ns), Len(ns) = upto, NEW vs, \A i \in 1 .. upto : vs[i] = Arg(2 * i),
         NEW x, x = Fresh(mem), NEW m, m = NewObject(RawObject), NEW m2, m2 = SetProps(m, x, ns, vs)
  PROVE  Gains(mem, m2, x)
<1>1. Good(mem) /\ Len(Arguments) \in Nat /\ DOMAIN Arguments = 1 .. Len(Arguments)
  BY OperatorFacts
<1>2. RawObject = NULL \/ Alive(mem, RawObject)
  BY <1>1, RawAlive
<1>3. Good(m) /\ Gains(mem, m, x) /\ Alive(m, x) /\ Bal(m, x) # 0 /\ Holds(mem, m)
  BY <1>1, <1>2, NewObjectFacts
<1>4. ASSUME NEW q, NEW k, Along(m, q, x, ns, vs), k \in 1 .. Len(ns)
      PROVE  vs[k] = NULL \/ Alive(q, vs[k])
  <2>1. Stays(m, q)
    BY <1>3, <1>4, AlongStays
  <2>2. Served(q)
    BY <1>3, <2>1, HoldsMore, OperatorFacts
  <2>3. 2 * k \in DOMAIN Arguments
    <3>4. Len(Arguments) \in Nat
      BY <1>1
    <3>1. PICK n \in Nat : n = Len(Arguments)
      BY <3>4
    <3>2. k \in 1 .. upto /\ 2 * upto <= n
      BY <1>4, <3>1
    <3>3. 2 * k \in 1 .. n
      BY ONLY <3>2, upto \in Nat, n \in Nat
    <3>. QED BY <1>1, <3>1, <3>3
  <2>4. vs[k] = Arg(2 * k)
    BY <1>4
  <2>. QED BY <2>2, <2>3, <2>4 DEF Served, Maybe
<1>5. Along(m, m2, x, ns, vs)
  <2>1. Len(ns) \in Nat
    OBVIOUS
  <2>. QED BY <1>3, <1>4, <2>1, SetPropsStep
<1>6. Stays(m, m2) /\ Counted(m2) = Counted(m)
  BY <1>3, <1>5, AlongStays
<1>. QED BY <1>3, <1>6, GainsStays

LEMMA CreateKeeps == ASSUME IInv, Create PROVE IInv'
<1>1. PICK names : names = {k \in DOMAIN Arguments : k % 2 = 1}
  OBVIOUS
<1>2. PICK bad : bad = {k \in names : Types[k] # "token" \/ k = Len(Arguments)}
  OBVIOUS
<1>20. PICK least : least = CHOOSE k \in bad : \A j \in bad : k <= j
  OBVIOUS
<1>3. PICK upto : upto = (IF bad = {} THEN Len(Arguments) \div 2 ELSE least \div 2)
  OBVIOUS
<1>4. PICK ns : ns = [i \in 1 .. upto |-> mem.heap[Arg(2 * i - 1)].value]
  OBVIOUS
<1>5. PICK vs : vs = [i \in 1 .. upto |-> Arg(2 * i)]
  OBVIOUS
<1>6. PICK x : x = Fresh(mem)
  OBVIOUS
<1>7. PICK m : m = NewObject(RawObject)
  OBVIOUS
<1>8. PICK m2 : m2 = SetProps(m, x, ns, vs)
  OBVIOUS
<1>9. Operator
  BY DEF Create, Performs
<1>10. Go(m2, frames, Return(x)) \/ Die \/ Go(Lose(m2, x), frames, Throw)
  BY <1>1, <1>2, <1>20, <1>3, <1>4, <1>5, <1>6, <1>7, <1>8 DEF Create
<1>11. at.do = "call" /\ Good(mem) /\ Len(Arguments) \in Nat /\ DOMAIN Arguments = 1 .. Len(Arguments)
  BY <1>9, OperatorFacts
<1>12. upto \in Nat /\ 2 * upto <= Len(Arguments)
  <2>1. CASE bad = {}
    BY <1>3, <1>11, <2>1, Half
  <2>2. CASE bad # {}
    <3>1. bad \in SUBSET Nat /\ bad \subseteq 1 .. Len(Arguments)
      BY <1>1, <1>2, <1>11
    <3>3. least \in bad
      BY <1>20, <2>2, <3>1, Least
    <3>6. least \in 1 .. Len(Arguments) /\ Len(Arguments) \in Nat
      BY <1>11, <3>1, <3>3
    <3>7. upto = least \div 2
      BY <1>3, <2>2
    <3>4. least \in Nat /\ least <= Len(Arguments)
      BY <3>6
    <3>5. upto \in Nat /\ 2 * upto <= least
      BY <3>4, <3>7, Half
    <3>8. 2 * upto \in Nat
      BY <3>5
    <3>. QED BY <3>4, <3>5, <3>6, <3>8
  <2>. QED BY <2>1, <2>2
<1>13. IsSeq(ns) /\ Len(ns) = upto
  <2>1. ns = [i \in 1 .. upto |-> ns[i]]
    BY <1>4
  <2>. QED BY <1>12, <2>1, SeqMade
<1>14. \A i \in 1 .. upto : vs[i] = Arg(2 * i)
  BY <1>5
<1>15. Gains(mem, m2, x)
  BY <1>6, <1>7, <1>8, <1>9, <1>12, <1>13, <1>14, CreateAlong
<1>16. CASE Go(m2, frames, Return(x))
  BY <1>11, <1>15, <1>16, ReturnKeeps
<1>17. CASE Go(Lose(m2, x), frames, Throw)
  <2>1. PICK p : p = Lose(m2, x)
    OBVIOUS
  <2>2. Stays(mem, p)
    BY <1>11, <1>15, <2>1, GainsLost
  <2>3. Throw # Read
    BY DEF Throw, Read
  <2>. QED BY <1>11, <1>17, <2>1, <2>2, <2>3, ThrowKeeps
<1>. QED BY <1>10, <1>16, <1>17, DieKeeps

\* Properties of an argument are copied.
LEMMA CopyAlong ==
  ASSUME IInv, Operator, NEW k, k \in DOMAIN Arguments, NEW src, src = Arg(k), src # NULL,
         NEW m, Good(m), Holds(mem, m), m.heap[src].props = mem.heap[src].props,
         NEW a, Alive(m, a), a = Nil \/ Bal(m, a) # 0,
         NEW m2, m2 = SetProps(m, a, PropNames(src), PropValues(src))
  PROVE  Stays(m, m2) /\ Counted(m2) = Counted(m) /\ Good(m2) /\ Alive(m2, a)
<1>1. PICK ns, vs : ns = PropNames(src) /\ vs = PropValues(src)
  OBVIOUS
<1>2. Good(mem) /\ Maybe(mem, src) /\ Served(m)
  BY OperatorFacts DEF Served
<1>3. Alive(mem, src) /\ Alive(m, src)
  BY <1>2 DEF Maybe, Served
<1>4. src \in DOMAIN mem.heap /\ src \in DOMAIN m.heap
  BY <1>3 DEF Alive
<1>5. IsFiniteSet(DOMAIN mem.heap[src].props)
  BY <1>2, <1>4 DEF Good, Shape, Sound, Table
<1>6. Listing(DOMAIN m.heap[src].props, ns)
  BY <1>1, <1>5, SetToSeqFacts DEF PropNames
<1>7. \A i \in DOMAIN ns : vs[i] = m.heap[src].props[ns[i]]
  BY <1>1 DEF PropValues
<1>8. ASSUME NEW q, Along(m, q, a, ns, vs) PROVE Alive(q, src)
  <2>1. Stays(m, q)
    BY <1>8, AlongStays
  <2>2. Served(q)
    BY <2>1, HoldsMore, OperatorFacts
  <2>. QED BY <2>2 DEF Served, Maybe
<1>9. Along(m, m2, a, ns, vs)
  BY <1>1, <1>4, <1>6, <1>7, <1>8, CopyStep
<1>. QED BY <1>9, AlongStays

LEMMA CloneKeeps == ASSUME IInv, Clone PROVE IInv'
<1>1. PICK x : x = Fresh(mem)
  OBVIOUS
<1>2. PICK m : m = NewObject(at.self)
  OBVIOUS
<1>3. PICK src : src = Arg(1)
  OBVIOUS
<1>4. PICK m2 : m2 = SetProps(m, x, PropNames(src), PropValues(src))
  OBVIOUS
<1>5. Operator
  BY DEF Clone, Performs
<1>6. \/ Go(m, frames, Return(x))
      \/ Die
      \/ Stray
      \/ Arguments # <<>> /\ src # NULL /\ Go(m2, frames, Return(x))
  BY <1>1, <1>2, <1>3, <1>4 DEF Clone
<1>7. at.do = "call" /\ Good(mem) /\ Alive(mem, at.self) /\ IsSeq(Arguments)
  BY <1>5, OperatorFacts DEF Served
<1>8. /\ Good(m) /\ Gains(mem, m, x) /\ Alive(m, x) /\ Bal(m, x) # 0 /\ Holds(mem, m)
      /\ \A a \in DOMAIN mem.heap : a \in DOMAIN m.heap /\ m.heap[a].props = mem.heap[a].props
  BY <1>1, <1>2, <1>7, NewObjectFacts
<1>9. CASE Go(m, frames, Return(x))
  BY <1>7, <1>8, <1>9, ReturnKeeps
<1>10. CASE Arguments # <<>> /\ src # NULL /\ Go(m2, frames, Return(x))
  <2>1. PICK k : k = 1
    OBVIOUS
  <2>2. k \in DOMAIN Arguments
    BY <1>7, <1>10, <2>1, NullSeq, SeqFacts
  <2>3. m.heap[src].props = mem.heap[src].props
    <3>1. Maybe(mem, src)
      BY <1>3, <1>5, <2>1, <2>2, OperatorFacts DEF Served
    <3>. QED BY <1>8, <1>10, <3>1 DEF Maybe, Alive
  <2>4. Stays(m, m2) /\ Counted(m2) = Counted(m)
    BY <1>3, <1>4, <1>5, <1>8, <1>10, <2>1, <2>2, <2>3, CopyAlong
  <2>5. Gains(mem, m2, x)
    BY <1>8, <2>4, GainsStays
  <2>. QED BY <1>7, <1>10, <2>5, ReturnKeeps
<1>. QED BY <1>6, <1>9, <1>10, DieKeeps, StrayKeeps

\* The fields of a memory in which properties are set.
LEMMA SetPropRec ==
  ASSUME NEW m, Rec(m), NEW a, NEW n, NEW v, NEW p, p = SetProp(m, a, n, v)
  PROVE  Rec(p) /\ p.stray = m.stray
<1>1. PICK r : r = Retain(m, v)
  OBVIOUS
<1>2. PICK d : d = DropProp(r, a, n)
  OBVIOUS
<1>3. Rec(r) /\ r.stray = m.stray
  BY <1>1, RetainRec
<1>4. Rec(d) /\ d.stray = m.stray
  BY <1>2, <1>3, ReleaseRec DEF DropProp
<1>5. p = [d EXCEPT !.heap[a].props = Put(d.heap[a].props, n, v)]
  BY <1>1, <1>2 DEF SetProp
<1>. QED BY <1>4, <1>5 DEF Rec

LEMMA SetPropsRec ==
  ASSUME NEW m, Rec(m), NEW a, NEW ns, NEW vs, Len(ns) \in Nat
  PROVE  Rec(SetProps(m, a, ns, vs)) /\ SetProps(m, a, ns, vs).stray = m.stray
<1>. DEFINE w == CHOOSE f : f = [i \in 0 .. Len(ns) |-> IF i = 0 THEN m ELSE SetProp(f[i - 1], a, ns[i], vs[i])]
<1>1. SetProps(m, a, ns, vs) = w[Len(ns)]
  BY DEF SetProps
<1>2. w = [i \in 0 .. Len(ns) |-> IF i = 0 THEN m ELSE SetProp(w[i - 1], a, ns[i], vs[i])]
  BY SetPropsExist DEF SetsProps
<1>. HIDE DEF w
<1>. DEFINE S == {k \in Nat : k <= Len(ns) => Rec(w[k]) /\ w[k].stray = m.stray}
<1>3. 0 \in S
  <2>1. w[0] = m
    BY <1>2
  <2>. QED BY <2>1
<1>4. ASSUME NEW k \in Nat, k \in S PROVE k + 1 \in S
  <2>1. SUFFICES ASSUME k + 1 <= Len(ns) PROVE Rec(w[k + 1]) /\ w[k + 1].stray = m.stray
    OBVIOUS
  <2>2. k + 1 \in 0 .. Len(ns) /\ k + 1 # 0 /\ (k + 1) - 1 = k
    BY <2>1
  <2>3. w[k + 1] = SetProp(w[k], a, ns[k + 1], vs[k + 1])
    BY <1>2, <2>2
  <2>4. Rec(w[k]) /\ w[k].stray = m.stray
    BY <1>4, <2>1
  <2>5. PICK p, q, n, v : p = w[k] /\ q = w[k + 1] /\ n = ns[k + 1] /\ v = vs[k + 1]
    OBVIOUS
  <2>. QED BY <2>3, <2>4, <2>5, SetPropRec
<1>. HIDE DEF S
<1>5. Nat \subseteq S
  BY <1>3, <1>4, SetInduction
<1>. QED BY <1>1, <1>5 DEF S

LEMMA PatchKeeps == ASSUME IInv, Patch PROVE IInv'
<1>1. PICK m : m = (IF Len(Arguments) > 1 THEN Valued(mem, Arg(2)) ELSE mem)
  OBVIOUS
<1>2. PICK src : src = Arg(1)
  OBVIOUS
<1>3. PICK m2 : m2 = SetProps(m, at.self, PropNames(src), PropValues(src))
  OBVIOUS
<1>4. Operator /\ Unmet = {} /\ OpName = "Object.patch" /\ (Stray \/ Gives(m2, at.self))
  BY <1>1, <1>2, <1>3 DEF Patch, Performs
<1>5. /\ at.do = "call" /\ Good(mem) /\ Rec(mem) /\ Alive(mem, at.self) /\ (at.self = Nil \/ Bal(mem, at.self) # 0)
      /\ Len(Arguments) \in Nat /\ DOMAIN Arguments = 1 .. Len(Arguments)
  BY <1>4, OperatorFacts DEF Served
<1>6. 1 \in DOMAIN Arguments /\ Maybe(mem, src) /\ src # NULL
  BY <1>2, <1>4, DemandsAre, FirstThere
<1>7. /\ Rec(m) /\ m.heap = mem.heap
      /\ Straight(m) => Stays(mem, m)
  <2>1. CASE Len(Arguments) > 1
    <3>1. 2 \in DOMAIN Arguments
      BY <1>5, <2>1
    <3>2. Maybe(mem, Arg(2))
      BY <1>4, <3>1, OperatorFacts
    <3>3. m = Touch(mem, ValueOf(mem, Arg(2)))
      BY <1>1, <2>1 DEF Valued
    <3>4. Rec(m) /\ m.heap = mem.heap
      BY <1>5, <3>3, TouchRec
    <3>5. m = Valued(mem, Arg(2))
      BY <1>1, <2>1
    <3>. QED BY <1>5, <3>2, <3>4, <3>5, ValuedStays
  <2>2. CASE ~(Len(Arguments) > 1)
    BY <1>1, <1>5, <2>2, StaysSelf
  <2>. QED BY <2>1, <2>2
<1>8. Len(PropNames(src)) \in Nat
  <2>1. src \in DOMAIN mem.heap
    BY <1>6 DEF Maybe, Alive
  <2>2. IsFiniteSet(DOMAIN mem.heap[src].props)
    BY <1>5, <2>1 DEF Good, Shape, Sound, Table
  <2>. QED BY <2>2, SetToSeqFacts DEF PropNames, Listing
<1>9. Rec(m2) /\ m2.stray = m.stray
  BY <1>3, <1>7, <1>8, SetPropsRec
<1>10. ASSUME Straight(m2) PROVE Stays(mem, m2) /\ Maybe(m2, at.self)
  <2>1. Stays(mem, m)
    BY <1>7, <1>9, <1>10 DEF Straight
  <2>2. Holds(mem, m) /\ Good(m)
    BY <1>5, <2>1, StaysHolds
  <2>3. PICK b : b = at.self
    OBVIOUS
  <2>4. Alive(m, b) /\ (b = Nil \/ Bal(m, b) # 0)
    <3>1. Served(m)
      BY <1>4, <2>2, OperatorFacts
    <3>2. b # Nil => b \in Counted(m)
      BY <2>3, <3>1 DEF Served, Alive, Counted
    <3>. QED BY <1>5, <2>1, <2>3, <3>1, <3>2 DEF Served, Stays
  <2>5. m.heap[src].props = mem.heap[src].props
    BY <1>7
  <2>6. PICK k : k = 1
    OBVIOUS
  <2>7. Stays(m, m2) /\ Alive(m2, b)
    BY <1>2, <1>3, <1>4, <1>6, <2>2, <2>3, <2>4, <2>5, <2>6, CopyAlong
  <2>8. Stays(mem, m2)
    <3>1. Flows(mem, m2)
      BY <2>1, <2>7, FlowsMore DEF Stays
    <3>2. Counted(m) \subseteq Counted(m2) /\ Counted(m) = Counted(mem)
      BY <1>7, <2>7, LaterAddr DEF Stays, Flows, Counted
    <3>3. Counted(m2) = Counted(m)
      BY <1>2, <1>3, <1>4, <1>6, <2>2, <2>3, <2>4, <2>5, <2>6, CopyAlong
    <3>. QED BY <2>1, <2>7, <3>1, <3>2, <3>3 DEF Stays
  <2>. QED BY <2>3, <2>7, <2>8 DEF Maybe
<1>. QED BY <1>4, <1>5, <1>9, <1>10, GivesKeeps, StrayKeeps

\* What wrap and unwrap copy is a sequence.
PairsRun(from, n, w) == w = [k \in 0 .. n |-> IF k <= from THEN <<>> ELSE w[k - 1] \o Pairing(Arg(k))]

LEMMA PairsExist ==
  ASSUME NEW from \in Nat, NEW n \in Nat
  PROVE  \E w : PairsRun(from, n, w)
<1>. DEFINE S == {k \in Nat : \E w : PairsRun(from, k, w)}
<1>1. 0 \in S
  <2>1. PICK w : w = [i \in 0 .. 0 |-> <<>>]
    OBVIOUS
  <2>2. \A i \in 0 .. 0 : i <= from
    OBVIOUS
  <2>3. w = [i \in 0 .. 0 |-> IF i <= from THEN <<>> ELSE w[i - 1] \o Pairing(Arg(i))]
    BY <2>1, <2>2
  <2>. QED BY <2>3 DEF PairsRun
<1>2. ASSUME NEW k \in Nat, k \in S PROVE k + 1 \in S
  <2>1. PICK w : PairsRun(from, k, w)
    BY <1>2
  <2>2. PICK x : x = (IF k + 1 <= from THEN <<>> ELSE w[k] \o Pairing(Arg(k + 1)))
    OBVIOUS
  <2>3. PICK u : u = [i \in 0 .. k + 1 |-> IF i <= k THEN w[i] ELSE x]
    OBVIOUS
  <2>4. w = [i \in 0 .. k |-> IF i <= from THEN <<>> ELSE w[i - 1] \o Pairing(Arg(i))]
    BY <2>1 DEF PairsRun
  <2>5. ASSUME NEW i \in 0 .. k + 1
        PROVE  u[i] = IF i <= from THEN <<>> ELSE u[i - 1] \o Pairing(Arg(i))
    <3>1. CASE i = 0
      <4>1. u[0] = w[0] /\ w[0] = <<>> /\ 0 <= from
        BY <2>3, <2>4
      <4>. QED BY <3>1, <4>1
    <3>2. CASE i \in 1 .. k
      <4>1. u[i] = w[i] /\ u[i - 1] = w[i - 1] /\ i \in 0 .. k
        BY <2>3, <3>2
      <4>. QED BY <2>4, <4>1
    <3>3. CASE i = k + 1
      <4>1. u[k + 1] = x /\ u[k] = w[k] /\ (k + 1) - 1 = k
        BY <2>3
      <4>. QED BY <2>2, <3>3, <4>1
    <3>. QED BY <3>1, <3>2, <3>3
  <2>6. u = [i \in 0 .. k + 1 |-> IF i <= from THEN <<>> ELSE u[i - 1] \o Pairing(Arg(i))]
    BY <2>3, <2>5
  <2>7. PairsRun(from, k + 1, u)
    BY <2>6 DEF PairsRun
  <2>. QED BY <2>7
<1>. HIDE DEF S
<1>3. Nat \subseteq S
  BY <1>1, <1>2, SetInduction
<1>. QED BY <1>3 DEF S

LEMMA MadeSeq ==
  ASSUME NEW s, IsSeq(s), NEW t, t = [i \in DOMAIN s |-> t[i]]
  PROVE  IsSeq(t) /\ Len(t) = Len(s)
  BY SeqFacts, SeqMade

LEMMA PairingSeq ==
  ASSUME Good(mem), NEW a, Maybe(mem, a)
  PROVE  IsSeq(Pairing(a))
<1>1. CASE a = NULL
  BY <1>1, SeqOne DEF Pairing
<1>2. CASE a # NULL /\ Type(mem, a) = "list"
  <2>1. PICK s : s = Items(mem, a)
    OBVIOUS
  <2>2. IsSeq(s)
    BY <2>1, LaterSelf, ItemsStay
  <2>3. PICK t : t = Pairing(a)
    OBVIOUS
  <2>4. t = [i \in DOMAIN s |-> t[i]]
    BY <1>2, <2>1, <2>3 DEF Pairing
  <2>. QED BY <2>2, <2>3, <2>4, MadeSeq
<1>3. CASE a # NULL /\ Type(mem, a) # "list"
  <2>1. a \in DOMAIN mem.heap
    BY <1>3 DEF Maybe, Alive
  <2>2. IsFiniteSet(DOMAIN mem.heap[a].props)
    BY <2>1 DEF Good, Shape, Sound, Table
  <2>3. IsSeq(PropNames(a))
    BY <2>2, SetToSeqFacts DEF PropNames, Listing
  <2>4. PICK s, t : s = PropNames(a) /\ t = Pairing(a)
    OBVIOUS
  <2>5. t = [i \in DOMAIN s |-> t[i]]
    BY <1>3, <2>4 DEF Pairing
  <2>. QED BY <2>3, <2>4, <2>5, MadeSeq
<1>. QED BY <1>1, <1>2, <1>3

LEMMA PairingsSeq ==
  ASSUME IInv, Operator, NEW from \in Nat
  PROVE  IsSeq(Pairings(from))
<1>1. Good(mem) /\ Len(Arguments) \in Nat /\ DOMAIN Arguments = 1 .. Len(Arguments)
  BY OperatorFacts
<1>. DEFINE w == CHOOSE f : f = [k \in 0 .. Len(Arguments) |-> IF k <= from THEN <<>> ELSE f[k - 1] \o Pairing(Arg(k))]
<1>2. Pairings(from) = w[Len(Arguments)]
  BY DEF Pairings
<1>3. w = [k \in 0 .. Len(Arguments) |-> IF k <= from THEN <<>> ELSE w[k - 1] \o Pairing(Arg(k))]
  <2>1. Len(Arguments) \in Nat
    BY <1>1
  <2>. QED BY <2>1, PairsExist DEF PairsRun
<1>. HIDE DEF w
<1>. DEFINE S == {k \in Nat : k <= Len(Arguments) => IsSeq(w[k])}
<1>4. 0 \in S
  <2>1. 0 \in 0 .. Len(Arguments) /\ 0 <= from
    BY <1>1
  <2>2. w[0] = <<>>
    BY <1>3, <2>1
  <2>. QED BY <2>2, NoItems
<1>5. ASSUME NEW k \in Nat, k \in S PROVE k + 1 \in S
  <2>1. SUFFICES ASSUME k + 1 <= Len(Arguments) PROVE IsSeq(w[k + 1])
    OBVIOUS
  <2>2. Len(Arguments) \in Nat
    BY <1>1
  <2>3. k + 1 \in 0 .. Len(Arguments) /\ (k + 1) - 1 = k /\ k <= Len(Arguments) /\ k + 1 \in 1 .. Len(Arguments)
    BY <2>1, <2>2
  <2>4. w[k + 1] = IF k + 1 <= from THEN <<>> ELSE w[k] \o Pairing(Arg(k + 1))
    BY <1>3, <2>3
  <2>5. PICK j : j = k + 1
    OBVIOUS
  <2>6. Maybe(mem, Arg(j))
    BY <1>1, <2>3, <2>5, OperatorFacts DEF Served
  <2>7. IsSeq(Pairing(Arg(j)))
    BY <1>1, <2>6, PairingSeq
  <2>8. IsSeq(w[k])
    BY <1>5, <2>3
  <2>9. IsSeq(w[k] \o Pairing(Arg(j)))
    BY <2>7, <2>8, SeqJoin DEF Joined
  <2>. QED BY <2>4, <2>5, <2>9, NoItems
<1>. HIDE DEF S
<1>6. Nat \subseteq S
  BY <1>4, <1>5, SetInduction
<1>. QED BY <1>1, <1>2, <1>6 DEF S

LEMMA SettledHolds ==
  ASSUME NEW m, Good(m), NEW p, Settled(m, p)
  PROVE  Holds(m, p) /\ Stays(m, p)
<1>1. Follows(m, p)
  BY SettledFollows
<1>2. Holds(m, p)
  BY <1>1 DEF Follows, Holds, Later
<1>. QED BY <1>2, ChangedStays DEF Settled

LEMMA WrapKeeps == ASSUME IInv, Wrap PROVE IInv'
<1>1. PICK pairs : pairs = Pairings(0)
  OBVIOUS
<1>2. PICK m, x : m = NewObject(RawObject) /\ x = Fresh(mem)
  OBVIOUS
<1>3. PICK ns : ns = [i \in DOMAIN pairs |-> pairs[i].prop]
  OBVIOUS
<1>4. PICK vs : vs = [i \in DOMAIN pairs |-> Resolve(mem, Variable(pairs[i]))]
  OBVIOUS
<1>5. PICK m2 : m2 = SetProps(m, x, ns, vs)
  OBVIOUS
<1>6. Operator /\ Wrapped(pairs, m)
  BY <1>1, <1>2 DEF Wrap, Performs
<1>7. Go(m2, frames, Return(x)) \/ Die \/ Go(mem, frames, Throw)
  BY <1>2, <1>3, <1>4, <1>5, <1>6 DEF Wrapped
<1>8. at.do = "call" /\ Good(mem) /\ Secure(mem)
  BY <1>6, OperatorFacts
<1>9. IsSeq(pairs)
  BY <1>1, <1>6, PairingsSeq
<1>10. IsSeq(ns) /\ Len(ns) = Len(pairs) /\ DOMAIN pairs = 1 .. Len(pairs) /\ Len(pairs) \in Nat
  <2>1. ns = [i \in DOMAIN pairs |-> ns[i]]
    BY <1>3
  <2>. QED BY <1>9, <2>1, MadeSeq, SeqFacts
<1>11. Good(m) /\ Gains(mem, m, x) /\ Alive(m, x) /\ Bal(m, x) # 0 /\ Holds(mem, m)
  <2>1. RawObject = NULL \/ Alive(mem, RawObject)
    BY <1>8, RawAlive
  <2>. QED BY <1>2, <1>8, <2>1, NewObjectFacts
<1>12. m.bindings = mem.bindings /\ m.scopes = mem.scopes
  <2>1. PICK o : o = Made(RawObject)
    OBVIOUS
  <2>2. m = New(mem, o)
    BY <1>2, <2>1 DEF NewObject, Made
  <2>3. RawObject = NULL \/ Alive(mem, RawObject)
    BY <1>8, RawAlive
  <2>4. Newer(mem, o, x, m)
    BY <1>2, <1>8, <2>1, <2>2, <2>3, MadeProper, NewFacts
  <2>. QED BY <2>4 DEF Newer, Moved
<1>13. ASSUME NEW q, NEW k, Along(m, q, x, ns, vs), k \in 1 .. Len(ns)
       PROVE  vs[k] = NULL \/ Alive(q, vs[k])
  <2>1. Stays(m, q)
    BY <1>11, <1>13, AlongStays
  <2>2. Holds(mem, q)
    BY <1>11, <2>1, HoldsMore
  <2>3. q.bindings = mem.bindings /\ q.scopes = mem.scopes
    BY <1>12, <1>13 DEF Along, Moved
  <2>4. Follows(mem, q)
    BY <2>2, <2>3 DEF Holds, Later, Follows, Binds
  <2>5. PICK n : n = Variable(pairs[k])
    OBVIOUS
  <2>6. vs[k] = Resolve(mem, n)
    BY <1>4, <1>10, <1>13, <2>5
  <2>. QED BY <1>8, <2>3, <2>4, <2>6, ResolveAlive
<1>14. Along(m, m2, x, ns, vs)
  <2>1. Len(ns) \in Nat
    BY <1>10
  <2>. QED BY <1>5, <1>11, <1>13, <2>1, SetPropsStep
<1>15. Gains(mem, m2, x)
  <2>1. Stays(m, m2) /\ Counted(m2) = Counted(m)
    BY <1>11, <1>14, AlongStays
  <2>. QED BY <1>11, <2>1, GainsStays
<1>16. CASE Go(m2, frames, Return(x))
  BY <1>8, <1>15, <1>16, ReturnKeeps
<1>17. CASE Go(mem, frames, Throw)
  <2>1. Throw # Read
    BY DEF Throw, Read
  <2>. QED BY <1>8, <1>17, <2>1, StaysSelf, ThrowKeeps
<1>. QED BY <1>7, <1>16, <1>17, DieKeeps

LEMMA CheckedSeq ==
  ASSUME NEW pairs, IsSeq(pairs)
  PROVE  IsSeq(Checked(pairs))
<1>1. CASE Bad(pairs) = {}
  BY <1>1 DEF Checked
<1>2. CASE Bad(pairs) # {}
  <2>1. Len(pairs) \in Nat /\ DOMAIN pairs = 1 .. Len(pairs)
    BY SeqFacts
  <2>2. Bad(pairs) \subseteq DOMAIN pairs /\ Bad(pairs) \in SUBSET Nat
    BY <2>1 DEF Bad
  <2>3. FirstBad(pairs) \in Bad(pairs)
    BY <1>2, <2>2, Least DEF FirstBad
  <2>4. PICK n, k : n = Len(pairs) /\ k = FirstBad(pairs)
    OBVIOUS
  <2>5. n \in Nat /\ k \in 1 .. n
    BY <2>1, <2>2, <2>3, <2>4
  <2>6. PICK S : S = {pairs[i] : i \in DOMAIN pairs}
    OBVIOUS
  <2>7. pairs \in Seq(S)
    BY <2>6 DEF IsSeq
  <2>8. SubSeq(pairs, 1, k - 1) \in Seq(S)
    BY <2>4, <2>5, <2>7
  <2>9. Checked(pairs) = SubSeq(pairs, 1, k - 1)
    BY <1>2, <2>4 DEF Checked
  <2>. QED BY <2>8, <2>9, SeqAny
<1>. QED BY <1>1, <1>2

LEMMA UnwrapKeeps == ASSUME IInv, Unwrap PROVE IInv'
<1>1. PICK pairs, from : pairs = Pairings(1) /\ from = Arg(1)
  OBVIOUS
<1>2. PICK good : good = Checked(pairs)
  OBVIOUS
<1>3. PICK vs : vs = [i \in DOMAIN good |-> GetProp(mem, from, good[i].prop)]
  OBVIOUS
<1>4. PICK ns : ns = [i \in DOMAIN good |-> Variable(good[i])]
  OBVIOUS
<1>5. PICK m : m = RegisterAll(mem, ns, vs)
  OBVIOUS
<1>6. Operator /\ Unmet = {} /\ OpName \in {"unwrap"} /\ Unwrapped(pairs, good, from)
  BY <1>1, <1>2 DEF Unwrap, Performs
<1>7. \/ Die
      \/ (good = <<>> \/ from # NULL) /\ (Go(m, frames, Return(Nil)) \/ Go(m, frames, Throw))
  BY <1>3, <1>4, <1>5, <1>6 DEF Unwrapped
<1>8. at.do = "call" /\ Good(mem) /\ Secure(mem) /\ OddTop(mem)
  BY <1>6, OperatorFacts
<1>9. 1 \in DOMAIN Arguments /\ Maybe(mem, from)
  BY <1>1, <1>6, AnyFirst
<1>10. IsSeq(good)
  <2>1. PICK one : one = 1
    OBVIOUS
  <2>2. one \in Nat /\ pairs = Pairings(one)
    BY <1>1, <2>1
  <2>. QED BY <1>2, <1>6, <2>2, PairingsSeq, CheckedSeq
<1>11. IsSeq(ns) /\ Len(ns) = Len(good) /\ DOMAIN good = 1 .. Len(good) /\ Len(good) \in Nat
  <2>1. ns = [i \in DOMAIN good |-> ns[i]]
    BY <1>4
  <2>. QED BY <1>10, <2>1, MadeSeq, SeqFacts
<1>12. ASSUME good = <<>> \/ from # NULL, NEW p, NEW k, Settled(mem, p), k \in 1 .. Len(ns)
       PROVE  vs[k] = NULL \/ Alive(p, vs[k])
  <2>1. k \in DOMAIN good
    BY <1>11, <1>12
  <2>2. from # NULL
    BY <1>12, <2>1, NoItems
  <2>3. Served(p) /\ Good(p)
    BY <1>6, <1>8, <1>12, SettledHolds, OperatorFacts DEF Holds, Later
  <2>4. Alive(p, from) /\ from \in DOMAIN mem.heap
    BY <1>1, <1>9, <2>2, <2>3 DEF Served, Maybe, Alive
  <2>5. PICK n : n = good[k].prop
    OBVIOUS
  <2>6. vs[k] = GetProp(mem, from, n)
    BY <1>3, <2>1, <2>5
  <2>7. Fixed(mem, p)
    BY <1>12 DEF Settled
  <2>. QED BY <2>3, <2>4, <2>6, <2>7, PropStays
<1>13. ASSUME good = <<>> \/ from # NULL, Straight(m) PROVE Stays(mem, m)
  <2>1. Len(ns) \in Nat
    BY <1>11
  <2>2. Straight(RegisterAll(mem, ns, vs))
    BY <1>5, <1>13
  <2>3. \A p, k : Settled(mem, p) /\ k \in 1 .. Len(ns) => vs[k] = NULL \/ Alive(p, vs[k])
    BY <1>12, <1>13
  <2>4. Settled(mem, m)
    BY <1>5, <1>8, <2>1, <2>2, <2>3, RegisterAllStep
  <2>. QED BY <1>8, <2>4, SettledHolds
<1>14. CASE (good = <<>> \/ from # NULL) /\ Go(m, frames, Return(Nil))
  <2>1. ASSUME Straight(m) PROVE Gains(mem, m, Nil)
    <3>1. Stays(mem, m) /\ Good(m)
      BY <1>8, <1>13, <1>14, <2>1, StaysHolds
    <3>2. Nil \in Addr(m) /\ \A a \in Counted(m) : a # Nil
      BY <3>1, Addresses DEF Good, Counted
    <3>3. ASSUME NEW a \in Counted(m) PROVE Bal(m, a) = Bal(mem, a) + Ind(Nil, a)
      <4>1. Bal(m, a) = Bal(mem, a) /\ Ind(Nil, a) = 0
        BY <3>1, <3>2 DEF Stays, Ind
      <4>2. Bal(mem, a) \in Nat
        BY <1>8, BalType
      <4>. QED BY <4>1, <4>2
    <3>. QED BY <3>1, <3>2, <3>3 DEF Gains, Stays
  <2>. QED BY <1>8, <1>14, <2>1, ReturnKeeps
<1>15. CASE (good = <<>> \/ from # NULL) /\ Go(m, frames, Throw)
  <2>1. Throw # Read
    BY DEF Throw, Read
  <2>. QED BY <1>8, <1>13, <1>15, <2>1, ThrowKeeps
<1>. QED BY <1>7, <1>14, <1>15, DieKeeps

-----------------------------------------------------------------------------
(* sol_obj_evaluate. *)

\* What is evaluated.
LEMMA EvaluateFacts ==
  ASSUME IInv, at.do = "evaluate"
  PROVE  /\ Good(mem) /\ Straight(mem) /\ Secure(mem) /\ OddTop(mem) /\ Rec(mem)
         /\ World(mem, Front(frames), Top, at) /\ FrameAt(mem, Top) /\ Waits(Top)
         /\ at.obj \in Runs(mem, Top) /\ Maybe(mem, at.obj) /\ Nil # NULL
<1>1. Here(mem, Front(frames), Top, at)
  BY Now
<1>2. at.obj \in Runs(mem, Top) /\ Waits(Top)
  BY <1>1 DEF Here, AtOK
<1>3. Maybe(mem, at.obj)
  BY <1>1, <1>2, RunsAlive DEF Here
<1>. QED BY <1>1, <1>2, <1>3, NilAlive DEF Here

LEMMA EvaluateValueKeeps == ASSUME IInv, EvaluateValue PROVE IInv'
<1>1. at.do = "evaluate" /\ Gives(mem, at.obj)
  BY DEF EvaluateValue, Evaluating, Gives
<1>2. Good(mem) /\ Rec(mem) /\ Maybe(mem, at.obj)
  BY <1>1, EvaluateFacts
<1>3. Stays(mem, mem)
  BY <1>2, StaysSelf
<1>. QED BY <1>1, <1>2, <1>3, GivesKeeps

LEMMA EvaluateTokenKeeps == ASSUME IInv, EvaluateToken PROVE IInv'
<1>1. PICK a : a = Resolve(mem, mem.heap[at.obj].value)
  OBVIOUS
<1>2. at.do = "evaluate" /\ Gives(mem, a)
  BY <1>1 DEF EvaluateToken, Evaluating, Gives
<1>3. Good(mem) /\ Rec(mem) /\ Secure(mem)
  BY <1>2, EvaluateFacts
<1>4. Stays(mem, mem) /\ Maybe(mem, a)
  BY <1>1, <1>3, StaysSelf, Resolved
<1>. QED BY <1>2, <1>3, <1>4, GivesKeeps

LEMMA EvaluateUndefinedKeeps == ASSUME IInv, EvaluateUndefined PROVE IInv'
BY DieKeeps DEF EvaluateUndefined

LEMMA EvaluateNothingKeeps == ASSUME IInv, EvaluateNothing PROVE IInv'
<1>1. at.do = "evaluate" /\ Go(mem, frames, Return(Nil))
  BY DEF EvaluateNothing, Evaluating
<1>2. Good(mem)
  BY <1>1, EvaluateFacts
<1>3. Stays(mem, mem) /\ Nil \in Addr(mem)
  BY <1>2, StaysSelf, NilAlive, MaybeAddr DEF Maybe
<1>4. ASSUME NEW a \in Counted(mem) PROVE Bal(mem, a) = Bal(mem, a) + Ind(Nil, a)
  <2>1. a # Nil /\ Bal(mem, a) \in Nat
    BY <1>2, BalType DEF Counted
  <2>. QED BY <2>1 DEF Ind
<1>5. Gains(mem, mem, Nil)
  BY <1>3, <1>4 DEF Gains, Stays
<1>. QED BY <1>1, <1>5, ReturnKeeps

LEMMA EvaluateListKeeps == ASSUME IInv, EvaluateList PROVE IInv'
<1>1. PICK fn : fn = IF mem.heap[at.obj].value THEN "self" ELSE "first"
  OBVIOUS
<1>2. PICK f : f = [Frame(fn) EXCEPT !.code = at.obj]
  OBVIOUS
<1>3. PICK next : next = Evaluate(Items(mem, at.obj)[1])
  OBVIOUS
<1>4. /\ at.do = "evaluate" /\ Type(mem, at.obj) = "list" /\ Items(mem, at.obj) # <<>>
      /\ Go(mem, Push(f), next)
  BY <1>1, <1>2, <1>3 DEF EvaluateList, Evaluating
<1>5. fn \in {"self", "first"}
  BY <1>1
<1>6. /\ DOMAIN f = FrameFields /\ f.fn = fn /\ f.i = 0 /\ f.code = at.obj /\ f.func = NULL
      /\ f.self = Nil /\ f.first = NULL /\ f.slice = NULL /\ f.args = NULL /\ f.ans = Nil
  BY <1>2 DEF Frame, FrameFields
<1>7. /\ Good(mem) /\ FrameAt(mem, Top) /\ Waits(Top) /\ at.obj \in Runs(mem, Top)
      /\ Maybe(mem, at.obj) /\ Nil # NULL
  BY <1>4, EvaluateFacts
<1>8. Is(mem, at.obj, "list") /\ at.obj # NULL
  BY <1>4, <1>7 DEF Type, Maybe, Is
<1>9. IsSeq(Items(mem, at.obj)) /\ Items(mem, at.obj) = mem.heap[at.obj].items
  BY <1>7, <1>8, ItemsStay, LaterSelf DEF Items
<1>10. 1 \in DOMAIN Items(mem, at.obj)
  BY <1>4, <1>9, NullSeq, SeqFacts
<1>11. Fits(f)
  BY <1>5, <1>6, <1>7 DEF Fits, FrameNames
<1>12. Rely(mem, f)
  BY <1>5, <1>6, <1>8, <1>9, <1>10 DEF Rely
<1>13. Lent(mem, f) /\ Owns(mem, f)
  BY <1>6, <1>7, NilAlive DEF Lent, Owns, Maybe
<1>14. FrameAt(mem, f)
  BY <1>11, <1>12, <1>13 DEF FrameAt
<1>15. Link(mem, Top, f)
  BY <1>5, <1>6, <1>7 DEF Link
<1>16. next.do = "evaluate" /\ next.obj = Items(mem, at.obj)[1]
  BY <1>3 DEF Evaluate
<1>17. Runs(mem, f) = Range(Items(mem, at.obj)) /\ Waits(f)
  BY <1>5, <1>6 DEF Runs, Waits
<1>18. Ready(mem, f, next) /\ next.do \in Dos
  BY <1>10, <1>16, <1>17 DEF Ready, AtOK, Range, Dos
<1>19. Flows(mem, mem) /\ Sited(mem, f)
  BY <1>7, <1>13, StaysSelf, OwnsSited DEF Stays
<1>20. ASSUME NEW a \in Counted(mem) PROVE Bal(mem, a) + Back(at, a) = Bal(mem, a) + Tip(f, next, a)
  <2>1. a \notin {NULL, Nil}
    BY <1>7, Addresses DEF Counted, Good
  <2>2. Back(at, a) = 0 /\ Tip(f, next, a) = 0
    BY <1>4, <1>6, <1>16, <2>1 DEF Back, Tip, Hold, Ind
  <2>. QED BY <2>2
<1>21. Pushes(mem, Top, at, mem, f, next)
  BY <1>5, <1>6, <1>14, <1>15, <1>18, <1>19, <1>20 DEF Pushes
<1>. QED BY <1>4, <1>18, <1>21, PushKeeps

LEMMA LookStep ==
  ASSUME NEW m, Good(m), NEW a, Maybe(m, a), NEW p, p = Look(m, a), Straight(p)
  PROVE  Idle(m, p)
<1>1. PICK q : q = Lose(Retain(m, a), a) /\ p = ValueLost(q, a)
  BY DEF Look
<1>2. Idle(m, q)
  BY <1>1, RetainLost DEF Maybe
<1>3. Good(q) /\ (a = NULL \/ Alive(q, a))
  BY <1>2 DEF Idle, Moved, Maybe
<1>4. Idle(q, p)
  BY <1>1, <1>3, ValueLostStep
<1>. QED BY <1>2, <1>4, IdleMore

LEMMA LookRec ==
  ASSUME NEW m, Rec(m), NEW a
  PROVE  Rec(Look(m, a)) /\ (Straight(Look(m, a)) => Straight(m))
<1>1. PICK r, q : r = Retain(m, a) /\ q = Lose(r, a) /\ Look(m, a) = ValueLost(q, a)
  BY DEF Look
<1>2. Rec(r) /\ Rec(q) /\ q.stray = m.stray
  BY <1>1, RetainRec, LoseRec
<1>. QED BY <1>1, <1>2, ValueLostRec DEF Straight

\* Looking at the flags of a function changes nothing that is counted.
LEMMA LookedStep ==
  ASSUME NEW m, Good(m), NEW f, Alive(m, f), NEW p, p = Looked(m, f), Straight(p)
  PROVE  Idle(m, p)
<1>1. PICK a, b : a = GetProp(m, f, "$evaluate-tokens") /\ b = GetProp(m, f, "$evaluate-lists")
  OBVIOUS
<1>2. PICK q : q = Look(m, a) /\ p = Look(q, b)
  BY <1>1 DEF Looked
<1>3. Maybe(m, a) /\ Maybe(m, b)
  <2>1. f \in DOMAIN m.heap
    BY DEF Alive
  <2>. QED BY <1>1, <2>1, PropAlive DEF Maybe
<1>4. Rec(m) /\ Rec(q)
  BY <1>2, GoodRec, LookRec
<1>5. Straight(q)
  BY <1>2, <1>4, LookRec
<1>6. Idle(m, q)
  BY <1>2, <1>3, <1>5, LookStep
<1>7. Good(q) /\ Maybe(q, b)
  BY <1>3, <1>6 DEF Idle, Moved, Maybe
<1>8. Idle(q, p)
  BY <1>2, <1>7, LookStep
<1>. QED BY <1>6, <1>8, IdleMore

\* A list that C code makes for itself.
Lists(m, x, m2) ==
  /\ Good(m2) /\ Gains(m, m2, x) /\ x = Fresh(m) /\ x \notin {NULL, Nil} /\ x \in Counted(m2)
  /\ \A a : Bal(m2, a) = Bal(m, a) + Ind(x, a)
  /\ m2.stray = m.stray /\ Holds(m, m2)
  /\ \A a : Alive(m, a) => Alive(m2, a)
LEMMA MakesList ==
  ASSUME NEW m, Good(m), NEW mode \in BOOLEAN, NEW items, IsSeq(items), \A i \in DOMAIN items : Maybe(m, items[i]),
         NEW m2, m2 = NewList(m, mode, items)
  PROVE  Lists(m, Fresh(m), m2)
<1>1. PICK o : o = Obj("list", mode, items)
  OBVIOUS
<1>2. Proper(m, o)
  BY <1>1, ProperObj
<1>3. m2 = New(m, o)
  BY <1>1 DEF NewList
<1>4. PICK x : x = Fresh(m)
  OBVIOUS
<1>5. /\ Moved(m, m2) /\ x # NULL /\ x # Nil /\ Counted(m2) = Counted(m) \cup {x}
      /\ x \notin DOMAIN m.heap /\ DOMAIN m2.heap = DOMAIN m.heap \cup {x}
      /\ \A a : Alive(m, a) => Alive(m2, a)
      /\ \A a \in Counted(m2) : Bal(m2, a) = Bal(m, a) + Ind(x, a)
  BY <1>2, <1>3, <1>4, NewStep
<1>6. ASSUME NEW a PROVE Bal(m2, a) = Bal(m, a) + Ind(x, a)
  <2>1. CASE a \in Counted(m2)
    BY <1>5, <2>1
  <2>2. CASE a \notin Counted(m2)
    <3>1. a \notin Counted(m) /\ Ind(x, a) = 0
      BY <1>5, <2>2 DEF Ind
    <3>. QED BY <2>2, <3>1 DEF Bal
  <2>. QED BY <2>1, <2>2
<1>7. Flows(m, m2) /\ Good(m2)
  BY <1>5, MovedFlows DEF Moved
<1>8. x \in Addr(m2)
  BY <1>5, <1>7, Addresses DEF Good
<1>9. ASSUME NEW a PROVE Bal(m2, a) >= Bal(m, a)
  <2>1. Bal(m, a) \in Nat /\ Ind(x, a) \in Nat
    BY BalType DEF Ind
  <2>. QED BY <1>6, <2>1
<1>10. Holds(m, m2)
  BY <1>7, <1>9 DEF Holds, Flows
<1>. QED BY <1>4, <1>5, <1>6, <1>7, <1>8, <1>10 DEF Lists, Gains, Moved

\* What is called has been evaluated: it is first, and m what is left.
Opens(m, frame, first) ==
  /\ at.do = "return" /\ Top.fn \in {"first", "self"}
  /\ Holds(mem, m) /\ Flows(mem, m) /\ m.stray = mem.stray
  /\ Maybe(mem, first) /\ Maybe(m, first) /\ Maybe(m, frame.self)
  /\ DOMAIN frame = FrameFields /\ frame.fn = Top.fn /\ frame.i = Top.i
  /\ frame.code = Top.code /\ frame.func = Top.func /\ frame.first = Top.first
  /\ frame.slice = Top.slice /\ frame.args = Top.args /\ frame.ans = Top.ans
  /\ Fits(frame)
  /\ \A a : a \notin {NULL, Nil} => Bal(m, a) + Tip(Top, at, a) = Bal(mem, a) + Ind(frame.self, a) + Ind(first, a)

\* What the frame has besides.
LEMMA OpensFacts ==
  ASSUME IInv, NEW m, NEW frame, NEW first, Opens(m, frame, first)
  PROVE  /\ Here(mem, Front(frames), Top, at) /\ Good(m) /\ Good(mem) /\ Later(mem, m) /\ Straight(m)
         /\ frame.first = NULL /\ frame.slice = NULL /\ frame.args = NULL /\ frame.ans = Nil /\ frame.func = NULL
         /\ \A a : a \notin {NULL, Nil} => Hold(frame, a) = Ind(frame.self, a)
         /\ Is(m, frame.code, "list") /\ 1 \in DOMAIN m.heap[frame.code].items
         /\ \A a : Bal(m, a) \in Nat /\ Bal(mem, a) \in Nat /\ Tip(Top, at, a) \in Nat
         /\ \A a : a \notin {NULL, Nil} => Bal(mem, a) >= Tip(Top, at, a)
<1>1. Here(mem, Front(frames), Top, at)
  BY Now DEF Opens
<1>2. Good(mem) /\ Good(m) /\ Later(mem, m) /\ Straight(m)
  BY <1>1 DEF Here, Opens, Holds, Later, Straight
<1>3. frame.fn \in {"first", "self"} /\ Fits(frame)
  BY DEF Opens
<1>4. frame.first = NULL /\ frame.slice = NULL /\ frame.args = NULL /\ frame.ans = Nil /\ frame.func = NULL
  BY <1>3 DEF Fits
<1>5. ASSUME NEW a, a \notin {NULL, Nil} PROVE Hold(frame, a) = Ind(frame.self, a)
  BY <1>4, <1>5 DEF Hold, Ind
<1>6. World(mem, Front(frames), Top, at) /\ Holds(mem, m)
  BY <1>1 DEF Here, Opens
<1>7. FrameAt(m, Top)
  BY <1>6, FrameHolds
<1>8. Is(m, frame.code, "list") /\ 1 \in DOMAIN m.heap[frame.code].items
  BY <1>7 DEF Opens, FrameAt, Rely
<1>9. \A a : Bal(m, a) \in Nat /\ Bal(mem, a) \in Nat /\ Tip(Top, at, a) \in Nat
  BY <1>2, BalType, TipType
<1>10. ASSUME NEW a, a \notin {NULL, Nil} PROVE Bal(mem, a) >= Tip(Top, at, a)
  <2>1. Sums(mem, Front(frames), Top, at, a)
    BY <1>1, <1>10 DEF Here
  <2>2. Bal(mem, a) = Held(Front(frames), a) + Tip(Top, at, a) /\ Held(Front(frames), a) \in Nat /\ Tip(Top, at, a) \in Nat
    BY <2>1 DEF Sums
  <2>. QED BY <2>2
<1>. QED BY <1>1, <1>2, <1>4, <1>5, <1>8, <1>9, <1>10

\* There is nothing to call.
LEMMA OpensNothing ==
  ASSUME IInv, NEW m, NEW frame, Opens(m, frame, NULL), Go(m, With(frame), Throw)
  PROVE  IInv'
<1>1. at.do = "return" /\ Flows(mem, m) /\ frame.fn \in {"first", "self"} /\ Fits(frame)
  BY DEF Opens
<1>2. Alike(Top, frame)
  BY DEF Opens, Alike
<1>3. Here(mem, Front(frames), Top, at)
  BY OpensFacts
<1>4. Sited(m, frame)
  <2>1. Sited(m, Top)
    BY <1>1, <1>3, HereSited DEF Here
  <2>2. frame.self \in Addr(m)
    BY MaybeAddr, OpensFacts DEF Opens
  <2>. QED BY <2>1, <2>2 DEF Sited, Opens
<1>5. Throw.do = "throw" /\ Throw.do \in Dos
  BY DEF Throw, Dos
<1>6. Ready(m, frame, Throw)
  BY <1>5 DEF Ready, AtOK
<1>7. ASSUME NEW a \in Counted(m) PROVE Bal(m, a) + Tip(Top, at, a) = Bal(mem, a) + Tip(frame, Throw, a)
  <2>1. a \notin {NULL, Nil}
    BY OpensFacts, Addresses DEF Counted, Good
  <2>2. Bal(m, a) + Tip(Top, at, a) = Bal(mem, a) + Ind(frame.self, a) + Ind(NULL, a)
    BY <2>1 DEF Opens
  <2>3. Ind(NULL, a) = 0 /\ Ind(frame.self, a) \in Nat /\ Bal(mem, a) \in Nat
    BY <2>1, OpensFacts DEF Ind
  <2>4. Hold(frame, a) = Ind(frame.self, a)
    BY <2>1, OpensFacts
  <2>5. Tip(frame, Throw, a) = Ind(frame.self, a)
    BY <1>5, <2>3, <2>4 DEF Tip
  <2>. QED BY <2>2, <2>3, <2>5
<1>8. Onward(mem, Top, at, m, frame, Throw)
  BY <1>1, <1>2, <1>4, <1>6, <1>7 DEF Onward
<1>. QED BY <1>1, <1>5, <1>8, WithKeeps

\* It cannot be called.
LEMMA OpensWrong ==
  ASSUME IInv, NEW m, NEW frame, NEW first, Opens(m, frame, first),
         Go(ReleaseAll(m, <<frame.self, first>>), Pop, Throw)
  PROVE  IInv'
<1>1. at.do = "return" /\ Flows(mem, m) /\ Top.fn \in {"first", "self"}
  BY DEF Opens
<1>2. Good(m) /\ Good(mem)
  BY OpensFacts
<1>3. PICK x, y : x = frame.self /\ y = first
  OBVIOUS
<1>4. ASSUME NEW a, a \notin {NULL, Nil}
      PROVE /\ Bal(m, a) + Tip(Top, at, a) = Bal(mem, a) + Ind(x, a) + Ind(y, a)
            /\ Bal(m, a) \in Nat /\ Bal(mem, a) \in Nat /\ Tip(Top, at, a) \in Nat
            /\ Ind(x, a) \in Nat /\ Ind(y, a) \in Nat /\ Bal(mem, a) >= Tip(Top, at, a)
  <2>1. Bal(m, a) + Tip(Top, at, a) = Bal(mem, a) + Ind(frame.self, a) + Ind(first, a)
    BY <1>4 DEF Opens
  <2>. QED BY <1>3, <1>4, <2>1, OpensFacts DEF Ind
<1>5. ASSUME NEW a \in Counted(m) PROVE a \notin {NULL, Nil}
  BY <1>2, Addresses DEF Counted, Good
<1>6. ASSUME NEW a \in Counted(m) PROVE Bal(m, a) >= Ind(x, a) + Ind(y, a)
  BY <1>4, <1>5
<1>7. PICK m2 : m2 = ReleaseAll(m, <<x, y>>)
  OBVIOUS
<1>8. /\ Moved(m, m2) /\ Counted(m2) = Counted(m)
      /\ \A a \in Counted(m) : Bal(m2, a) = Bal(m, a) - (Ind(x, a) + Ind(y, a))
  BY <1>2, <1>6, <1>7, ReleaseTwoStep
<1>9. Flows(mem, m2)
  BY <1>1, <1>2, <1>8, MovedFlows, FlowsMore
<1>10. Throw.do = "throw" /\ Throw.do # "return"
  BY DEF Throw
<1>11. ASSUME NEW a \in Counted(m2) PROVE Bal(m2, a) + Tip(Top, at, a) = Bal(mem, a) + Back(Throw, a)
  <2>1. Bal(m2, a) = Bal(m, a) - (Ind(x, a) + Ind(y, a)) /\ Back(Throw, a) = 0
    BY <1>8, <1>10 DEF Back
  <2>2. a \notin {NULL, Nil}
    BY <1>5, <1>8
  <2>. QED BY <1>4, <2>1, <2>2
<1>12. Parting(mem, Top, at, m2, Throw)
  BY <1>9, <1>10, <1>11 DEF Parting
<1>. QED BY <1>1, <1>3, <1>7, <1>10, <1>12, PartKeeps

\* The lists for the arguments of a call: of those that the call has, and of
\* those that have been evaluated.
Prepared(m, frame, first, arguments, m2, f2) ==
  /\ m2 = NewList(Looked(NewList(m, m.heap[frame.code].value, arguments), first), FALSE, <<>>)
  /\ f2 = [frame EXCEPT !.fn = "arguments", !.i = 1, !.types = Wanted(m, first), !.first = first,
                        !.slice = Fresh(m),
                        !.args = Fresh(Looked(NewList(m, m.heap[frame.code].value, arguments), first))]

LEMMA OpensCall ==
  ASSUME IInv, NEW m, NEW frame, NEW first, Opens(m, frame, first), Type(m, first) = "function",
         NEW arguments, IsSeq(arguments), \A i \in DOMAIN arguments : Maybe(m, arguments[i]),
         NEW m2, NEW f2, Prepared(m, frame, first, arguments, m2, f2), Go(m2, With(f2), Resume)
  PROVE  IInv'
<1>1. /\ Here(mem, Front(frames), Top, at) /\ Good(m) /\ Good(mem) /\ Later(mem, m)
      /\ frame.first = NULL /\ frame.slice = NULL /\ frame.args = NULL /\ frame.ans = Nil /\ frame.func = NULL
      /\ Is(m, frame.code, "list")
  BY OpensFacts
<1>2. at.do = "return" /\ Flows(mem, m) /\ Top.fn \in {"first", "self"} /\ at.do # "end"
  BY DEF Opens
<1>3. first # NULL /\ Alive(m, first) /\ Is(mem, first, "function")
  <2>1. first # NULL
    BY DEF Type
  <2>2. Alive(m, first) /\ Alive(mem, first) /\ m.heap[first].type = "function"
    BY <2>1 DEF Type, Opens, Maybe
  <2>3. mem.heap[first].type = m.heap[first].type
    BY <1>1, <2>2 DEF Later, Grows, Alive
  <2>. QED BY <2>1, <2>2, <2>3 DEF Is
<1>4. m.heap[frame.code].value \in BOOLEAN
  <2>1. Kind(m, m.heap[frame.code])
    BY <1>1 DEF Is, Good
  <2>. QED BY <1>1, <2>1 DEF Is, Kind
<1>5. PICK mode \in BOOLEAN : mode = m.heap[frame.code].value
  BY <1>4
<1>6. PICK m0 : m0 = NewList(m, mode, arguments)
  OBVIOUS
<1>7. PICK m1 : m1 = Looked(m0, first)
  OBVIOUS
<1>8. PICK x : x = Fresh(m)
  OBVIOUS
<1>9. PICK y : y = Fresh(m1)
  OBVIOUS
<1>10. m2 = NewList(m1, FALSE, <<>>)
  BY <1>5, <1>6, <1>7 DEF Prepared
<1>11. f2 = [frame EXCEPT !.fn = "arguments", !.i = 1, !.types = Wanted(m, first), !.first = first,
                          !.slice = x, !.args = y]
  BY <1>5, <1>6, <1>7, <1>8, <1>9 DEF Prepared
<1>12. Lists(m, x, m0)
  BY <1>1, <1>5, <1>6, <1>8, MakesList
<1>13. Rec(m1)
  BY <1>7, <1>12, GoodRec, LookRec DEF Lists, Looked
<1>14. m2.stray = m1.stray
  BY <1>10, <1>13 DEF NewList, New, Rec, RetainAll
<1>20. SUFFICES ASSUME Straight(m2) PROVE Onward(mem, Top, at, m2, f2, Resume) /\ Resume.do \in Dos
  <2>1. Resume.do \in Dos
    BY DEF Resume, Dos
  <2>. QED BY <1>2, <2>1, WithKeeps
<1>21. Straight(m1)
  BY <1>14, <1>20 DEF Straight
<1>22. Idle(m0, m1) /\ Good(m1) /\ Good(m0)
  <2>1. Alive(m0, first)
    BY <1>3, <1>12 DEF Lists
  <2>2. Idle(m0, m1)
    BY <1>7, <1>12, <1>21, <2>1, LookedStep DEF Lists
  <2>. QED BY <1>12, <2>2 DEF Idle, Moved, Lists
<1>23. Lists(m1, y, m2)
  BY <1>9, <1>10, <1>22, NoItems, MakesList
<1>24. Flows(m0, m1) /\ Flows(m, m0) /\ Flows(m1, m2)
  BY <1>12, <1>22, <1>23, MovedFlows DEF Lists, Gains, Idle
<1>25. Flows(mem, m2) /\ Flows(m, m2) /\ Flows(m0, m2)
  BY <1>2, <1>24, FlowsMore
<1>26. Resume.do = "resume" /\ Resume.do \in Dos
  BY DEF Resume, Dos
<1>27. /\ DOMAIN f2 = FrameFields /\ f2.fn = "arguments" /\ f2.i = 1 /\ f2.code = frame.code /\ f2.func = frame.func
       /\ f2.self = frame.self /\ f2.first = first /\ f2.slice = x /\ f2.args = y /\ f2.ans = frame.ans
  BY <1>11 DEF Opens, FrameFields
<1>28. x \notin {NULL, Nil} /\ y \notin {NULL, Nil}
  BY <1>12, <1>23 DEF Lists
<1>29. Fits(f2)
  BY <1>1, <1>27, <1>28 DEF Fits, FrameNames, Opens
<1>30. Alike(Top, f2)
  BY <1>2, <1>27 DEF Opens, Alike
<1>31. Sited(m2, f2)
  <2>1. x \in Addr(m2)
    BY <1>12, <1>25, LaterAddr DEF Lists, Gains, Flows
  <2>2. y \in Addr(m2)
    BY <1>23 DEF Lists, Gains
  <2>3. frame.self \in Addr(m) /\ first \in Addr(m) /\ Nil \in Addr(m)
    BY <1>1, MaybeAddr, NilAlive DEF Opens, Maybe
  <2>4. Addr(m) \subseteq Addr(m2)
    BY <1>25, LaterAddr DEF Flows
  <2>. QED BY <1>1, <1>27, <2>1, <2>2, <2>3, <2>4 DEF Sited
<1>32. Ready(m2, f2, Resume)
  BY <1>26 DEF Ready, AtOK
<1>33. ASSUME NEW a \in Counted(m2) PROVE Bal(m2, a) + Tip(Top, at, a) = Bal(mem, a) + Tip(f2, Resume, a)
  <2>1. a \notin {NULL, Nil}
    BY <1>23, Addresses DEF Counted, Good, Lists
  <2>2. Bal(m, a) + Tip(Top, at, a) = Bal(mem, a) + Ind(frame.self, a) + Ind(first, a)
    BY <2>1 DEF Opens
  <2>3. Bal(m2, a) = Bal(m1, a) + Ind(y, a) /\ Bal(m0, a) = Bal(m, a) + Ind(x, a)
    BY <1>12, <1>23 DEF Lists
  <2>4. Bal(m1, a) = Bal(m0, a)
    BY <1>22 DEF Idle, Bal
  <2>5. Tip(f2, Resume, a) = Ind(frame.self, a) + Ind(first, a) + Ind(x, a) + Ind(y, a)
    BY <1>1, <1>26, <1>27, <2>1 DEF Tip, Hold, Ind
  <2>6. Bal(m, a) \in Nat /\ Bal(mem, a) \in Nat /\ Tip(Top, at, a) \in Nat
    BY OpensFacts
  <2>7. PICK i \in Nat : i = Ind(frame.self, a)
    BY DEF Ind
  <2>8. PICK j \in Nat : j = Ind(first, a)
    BY DEF Ind
  <2>9. PICK k \in Nat : k = Ind(x, a)
    BY DEF Ind
  <2>10. PICK l \in Nat : l = Ind(y, a)
    BY DEF Ind
  <2>11. PICK b \in Nat, c \in Nat, t \in Nat : b = Bal(m, a) /\ c = Bal(mem, a) /\ t = Tip(Top, at, a)
    BY <2>6
  <2>12. b + t = c + i + j /\ Bal(m2, a) = b + k + l /\ Tip(f2, Resume, a) = i + j + k + l
    BY <2>2, <2>3, <2>4, <2>5, <2>7, <2>8, <2>9, <2>10, <2>11
  <2>13. (b + k + l) + t = c + (i + j + k + l)
    BY <2>12
  <2>. QED BY <2>11, <2>12, <2>13
<1>. QED BY <1>3, <1>25, <1>26, <1>27, <1>29, <1>30, <1>31, <1>32, <1>33 DEF Onward

\* What has been evaluated is called, or not.
LEMMA BegunKeeps ==
  ASSUME IInv, NEW m, NEW frame, NEW first, Opens(m, frame, first),
         NEW arguments, IsSeq(arguments), \A i \in DOMAIN arguments : Maybe(m, arguments[i]),
         Begun(m, frame, first, arguments)
  PROVE  IInv'
<1>1. CASE first = NULL
  <2>1. Go(m, With(frame), Throw) /\ Opens(m, frame, NULL)
    BY <1>1 DEF Begun, Type
  <2>. QED BY <2>1, OpensNothing
<1>2. CASE first # NULL /\ Type(m, first) = "function"
  <2>1. PICK m2, f2 : Prepared(m, frame, first, arguments, m2, f2)
    BY DEF Prepared
  <2>2. Go(m2, With(f2), Resume)
    BY <1>2, <2>1 DEF Begun, Prepared
  <2>. QED BY <1>2, <2>1, <2>2, OpensCall
<1>3. CASE first # NULL /\ Type(m, first) # "function"
  <2>1. Go(ReleaseAll(m, <<frame.self, first>>), Pop, Throw)
    BY <1>3 DEF Begun
  <2>. QED BY <2>1, OpensWrong
<1>. QED BY <1>1, <1>2, <1>3

\* The items of the list that is evaluated.
LEMMA CodeItems ==
  ASSUME IInv, at.do # "end", Top.fn \in {"first", "self"}, NEW items, items = Items(mem, Top.code)
  PROVE  /\ IsSeq(items) /\ Len(items) \in Nat /\ Len(items) > 0 /\ DOMAIN items = 1 .. Len(items)
         /\ \A i \in DOMAIN items : Maybe(mem, items[i])
<1>1. Good(mem) /\ FrameAt(mem, Top)
  BY Now DEF Here
<1>2. Is(mem, Top.code, "list") /\ 1 \in DOMAIN mem.heap[Top.code].items
  BY <1>1 DEF FrameAt, Rely
<1>3. Top.code # NULL
  BY <1>1, <1>2, NilAlive DEF Is
<1>4. items = mem.heap[Top.code].items /\ Maybe(mem, Top.code)
  BY <1>2, <1>3 DEF Items, Is, Maybe
<1>7. Later(mem, mem)
  BY <1>1, LaterSelf
<1>8. /\ IsSeq(Items(mem, Top.code))
      /\ \A i \in DOMAIN Items(mem, Top.code) : Maybe(mem, Items(mem, Top.code)[i])
  BY <1>4, <1>7, ItemsStay
<1>5. IsSeq(items) /\ \A i \in DOMAIN items : Maybe(mem, items[i])
  BY <1>8
<1>6. Len(items) \in Nat /\ DOMAIN items = 1 .. Len(items)
  BY <1>5, SeqFacts
<1>. QED BY <1>2, <1>4, <1>5, <1>6

LEMMA FirstEvaluatedKeeps == ASSUME IInv, FirstEvaluated PROVE IInv'
<1>1. /\ at.do = "return" /\ Top.fn = "first" /\ at.do # "end"
      /\ Begun(mem, Top, at.obj, Tail(Items(mem, Top.code)))
  BY DEF FirstEvaluated, Returned
<1>2. Here(mem, Front(frames), Top, at)
  BY <1>1, Now
<1>3. Good(mem) /\ Maybe(mem, at.obj) /\ Maybe(mem, Top.self)
  BY <1>1, <1>2, LocalsLive DEF Here
<1>4. Holds(mem, mem) /\ Flows(mem, mem)
  BY <1>3, HoldsSelf, StaysSelf DEF Stays
<1>5. ASSUME NEW a, a \notin {NULL, Nil}
      PROVE Bal(mem, a) + Tip(Top, at, a) = Bal(mem, a) + Ind(Top.self, a) + Ind(at.obj, a)
  <2>1. Hold(Top, a) = 0 /\ Top.self = Nil
    BY <1>1, <1>2, <1>5, HoldOf DEF HoldsBy, Here, Fits
  <2>2. Tip(Top, at, a) = Ind(at.obj, a) /\ Ind(Top.self, a) = 0
    BY <1>1, <1>5, <2>1 DEF Tip, Ind
  <2>3. Bal(mem, a) \in Nat /\ Ind(at.obj, a) \in Nat
    BY <1>3, BalType DEF Ind
  <2>. QED BY <2>2, <2>3
<1>6. Opens(mem, Top, at.obj)
  BY <1>1, <1>2, <1>3, <1>4, <1>5 DEF Opens, Here, Fits
<1>7. PICK items : items = Items(mem, Top.code)
  OBVIOUS
<1>8. /\ IsSeq(items) /\ Len(items) \in Nat /\ Len(items) > 0 /\ DOMAIN items = 1 .. Len(items)
      /\ \A i \in DOMAIN items : Maybe(mem, items[i])
  BY <1>1, <1>7, CodeItems
<1>9. PICK t : t = Tail(items)
  OBVIOUS
<1>10. IsSeq(t) /\ DOMAIN t = 1 .. Len(items) - 1 /\ \A i \in DOMAIN t : t[i] = items[i + 1]
  BY <1>8, <1>9, SeqTail
<1>11. \A i \in DOMAIN t : Maybe(mem, t[i])
  <2>1. \A i \in DOMAIN t : i + 1 \in DOMAIN items
    BY <1>8, <1>10
  <2>. QED BY <1>8, <1>10, <2>1
<1>. QED BY <1>1, <1>6, <1>7, <1>9, <1>10, <1>11, BegunKeeps

\* The part of a sequence after some of its items.
Piece(s, t) == IsSeq(t) /\ \A i \in DOMAIN t : \E j \in DOMAIN s : t[i] = s[j]
LEMMA SeqAfter ==
  ASSUME NEW s, IsSeq(s), NEW k \in Nat \ {0}, NEW t, t = SubSeq(s, k, Len(s))
  PROVE  Piece(s, t)
<1>1. Len(s) \in Nat /\ DOMAIN s = 1 .. Len(s)
  BY SeqFacts
<1>3. PICK S : S = {s[i] : i \in DOMAIN s}
  OBVIOUS
<1>4. s \in Seq(S)
  BY <1>3 DEF IsSeq
<1>5. t \in Seq(S)
  BY <1>1, <1>4, SubSeqProperties
<1>6. IsSeq(t)
  BY <1>5, SeqAny
<1>7. Len(t) \in Nat /\ DOMAIN t = 1 .. Len(t)
  BY <1>6, SeqFacts
<1>8. ASSUME NEW i \in DOMAIN t PROVE t[i] \in S
  BY <1>5, <1>7, <1>8
<1>. QED BY <1>3, <1>6, <1>8 DEF Piece

\* A method is looked up, and retained.
LEMMA MethodOpens ==
  ASSUME IInv, at.do = "return", Top.fn = "self", at.obj # NULL,
         NEW n, NEW method, method = GetProp(mem, at.obj, n),
         NEW f, f = [Top EXCEPT !.self = at.obj]
  PROVE  Opens(Retain(mem, method), f, method)
<1>1. Here(mem, Front(frames), Top, at)
  BY Now
<1>2. Good(mem) /\ Maybe(mem, at.obj) /\ Nil # NULL
  BY <1>1, LocalsLive, NilAlive DEF Here
<1>3. Maybe(mem, method)
  <2>1. at.obj \in DOMAIN mem.heap
    BY <1>2 DEF Maybe, Alive
  <2>. QED BY <1>2, <2>1, PropAlive DEF Maybe
<1>4. PICK m : m = Retain(mem, method)
  OBVIOUS
<1>5. Shift(mem, m, method)
  BY <1>2, <1>3, <1>4, RetainShift DEF Maybe
<1>6. Flows(mem, m) /\ m.stray = mem.stray /\ Good(m)
  BY <1>2, <1>5, MovedFlows DEF Shift, Moved
<1>7. ASSUME NEW a PROVE Bal(m, a) = Bal(mem, a) + Ind(method, a) \/ a \in {NULL, Nil}
  <2>1. CASE a \in Counted(mem)
    BY <1>5, <2>1 DEF Shift
  <2>2. CASE a \notin Counted(mem) /\ a \notin {NULL, Nil}
    <3>1. Bal(mem, a) = 0 /\ Bal(m, a) = 0
      BY <1>5, <2>2 DEF Bal, Shift
    <3>2. Ind(method, a) = 0
      BY <1>3, <2>2 DEF Ind, Maybe, Alive, Counted
    <3>. QED BY <3>1, <3>2
  <2>. QED BY <2>1, <2>2
<1>8. Holds(mem, m)
  <2>1. ASSUME NEW a \in Counted(mem) PROVE Bal(m, a) >= Bal(mem, a)
    <3>1. Bal(m, a) = Bal(mem, a) + Ind(method, a) /\ Bal(mem, a) \in Nat /\ Ind(method, a) \in Nat
      BY <1>2, <1>5, BalType DEF Ind, Shift
    <3>. QED BY <3>1
  <2>. QED BY <1>6, <2>1 DEF Holds, Flows
<1>9. /\ DOMAIN f = FrameFields /\ f.fn = Top.fn /\ f.i = Top.i /\ f.code = Top.code /\ f.func = Top.func
      /\ f.first = Top.first /\ f.slice = Top.slice /\ f.args = Top.args /\ f.ans = Top.ans /\ f.self = at.obj
  BY <1>1 DEF Here, Fits, FrameFields
<1>10. Fits(f)
  BY <1>1, <1>9 DEF Here, Fits
<1>11. Top.self = Nil
  BY <1>1 DEF Here, AtOK, Waits
<1>12. ASSUME NEW a, a \notin {NULL, Nil}
       PROVE Bal(m, a) + Tip(Top, at, a) = Bal(mem, a) + Ind(f.self, a) + Ind(method, a)
  <2>1. Hold(Top, a) = 0
    BY <1>1, <1>11, <1>12, HoldOf DEF HoldsBy, Here, Ind
  <2>2. Tip(Top, at, a) = Ind(f.self, a)
    BY <1>9, <2>1 DEF Tip, Ind
  <2>3. PICK i \in Nat : i = Ind(method, a)
    BY DEF Ind
  <2>4. PICK j \in Nat : j = Ind(f.self, a)
    BY DEF Ind
  <2>5. PICK b \in Nat : b = Bal(mem, a)
    BY <1>2, BalType
  <2>6. Bal(m, a) = b + i
    BY <1>7, <1>12, <2>3, <2>5
  <2>7. (b + i) + j = b + j + i
    OBVIOUS
  <2>. QED BY <2>2, <2>3, <2>4, <2>5, <2>6, <2>7
<1>13. Maybe(m, method) /\ Maybe(m, f.self)
  BY <1>2, <1>3, <1>5, <1>9 DEF Maybe, Shift
<1>. QED BY <1>3, <1>4, <1>6, <1>8, <1>9, <1>10, <1>12, <1>13 DEF Opens

LEMMA SelfEvaluatedKeeps == ASSUME IInv, SelfEvaluated PROVE IInv'
<1>1. PICK items : items = Items(mem, Top.code)
  OBVIOUS
<1>2. PICK method : method = GetProp(mem, at.obj, mem.heap[items[2]].value)
  OBVIOUS
<1>3. at.do = "return" /\ Top.fn = "self" /\ at.do # "end"
  BY DEF SelfEvaluated, Returned
<1>4. /\ IsSeq(items) /\ Len(items) \in Nat /\ \A i \in DOMAIN items : Maybe(mem, items[i])
  BY <1>1, <1>3, CodeItems
<1>5. Here(mem, Front(frames), Top, at)
  BY <1>3, Now
<1>6. CASE at.obj = NULL
  <2>1. Go(mem, Pop, Throw)
    BY <1>6 DEF SelfEvaluated
  <2>2. Top.self = Nil /\ Good(mem)
    BY <1>3, <1>5 DEF Here, AtOK, Waits
  <2>3. Throw.do = "throw" /\ Throw.do # "return"
    BY DEF Throw
  <2>4. ASSUME NEW a \in Counted(mem) PROVE Bal(mem, a) + Tip(Top, at, a) = Bal(mem, a) + Back(Throw, a)
    <3>1. a \notin {NULL, Nil}
      BY <2>2, Addresses DEF Counted, Good
    <3>2. Hold(Top, a) = 0
      BY <1>3, <1>5, <2>2, <3>1, HoldOf DEF HoldsBy, Here, Ind
    <3>3. Tip(Top, at, a) = 0 /\ Back(Throw, a) = 0
      BY <1>3, <1>6, <2>3, <3>1, <3>2 DEF Tip, Ind, Back
    <3>. QED BY <3>3
  <2>5. Flows(mem, mem)
    BY <2>2, StaysSelf DEF Stays
  <2>6. Parting(mem, Top, at, mem, Throw)
    BY <2>3, <2>4, <2>5 DEF Parting
  <2>. QED BY <1>3, <2>1, <2>3, <2>6, PartKeeps
<1>7. CASE at.obj # NULL /\ (Len(items) < 2 \/ items[2] = NULL)
  <2>1. Die
    BY <1>1, <1>4, <1>7 DEF SelfEvaluated, Type
  <2>. QED BY <2>1, DieKeeps
<1>8. CASE at.obj # NULL /\ ~(Len(items) < 2 \/ items[2] = NULL) /\ Type(mem, items[2]) \notin {"token", "undefined"}
  <2>1. Stray
    BY <1>1, <1>4, <1>8 DEF SelfEvaluated
  <2>. QED BY <2>1, StrayKeeps
<1>9. CASE at.obj # NULL /\ ~(Len(items) < 2 \/ items[2] = NULL) /\ Type(mem, items[2]) \in {"token", "undefined"}
  <2>1. PICK f : f = [Top EXCEPT !.self = at.obj]
    OBVIOUS
  <2>2. PICK t : t = SubSeq(items, 3, Len(items))
    OBVIOUS
  <2>3. Begun(Retain(mem, method), f, method, t)
    BY <1>1, <1>2, <1>4, <1>9, <2>1, <2>2 DEF SelfEvaluated
  <2>4. PICK m : m = Retain(mem, method)
    OBVIOUS
  <2>5. Opens(m, f, method)
    BY <1>2, <1>3, <1>9, <2>1, <2>4, MethodOpens
  <2>10. PICK k \in Nat \ {0} : k = 3
    OBVIOUS
  <2>11. t = SubSeq(items, k, Len(items))
    BY <2>2, <2>10
  <2>6. IsSeq(t) /\ \A i \in DOMAIN t : \E j \in DOMAIN items : t[i] = items[j]
    <3>1. Piece(items, t)
      BY <1>4, <2>11, SeqAfter
    <3>. QED BY <3>1 DEF Piece
  <2>7. Good(mem) /\ Good(m) /\ Holds(mem, m) /\ Maybe(mem, Top.code)
    BY <1>3, <1>5, <2>5, LocalsLive, OpensFacts DEF Opens, Here
  <2>8. Maybe(m, Top.code)
    BY <2>5, OpensFacts DEF Opens, Is, Maybe
  <2>9. \A i \in DOMAIN t : Maybe(m, t[i])
    <3>1. DOMAIN items \subseteq DOMAIN Items(m, Top.code) /\ \A i \in DOMAIN items : Items(m, Top.code)[i] = items[i]
      BY <1>1, <2>7, <2>8, ItemsStay DEF Holds
    <3>2. \A i \in DOMAIN Items(m, Top.code) : Maybe(m, Items(m, Top.code)[i])
      BY <2>7, <2>8, LaterSelf, ItemsStay
    <3>. QED BY <2>6, <3>1, <3>2
  <2>. QED BY <2>3, <2>4, <2>5, <2>6, <2>9, BegunKeeps
<1>. QED BY <1>6, <1>7, <1>8, <1>9

\* The frame of a call whose arguments are looked at.
LEMMA ArgumentsFacts ==
  ASSUME IInv, at.do # "end", Top.fn \in {"arguments", "call"}, NEW f, f = Top
  PROVE  /\ Here(mem, Front(frames), f, at) /\ Good(mem) /\ World(mem, Front(frames), f, at)
         /\ DOMAIN f = FrameFields /\ Fits(f) /\ FrameAt(mem, f) /\ f.i \in Nat
         /\ f.args \notin {NULL, Nil} /\ Alive(mem, f.args) /\ Is(mem, f.first, "function")
         /\ f.ans = Nil /\ f.func = NULL /\ f.code \in Addr(mem)
         /\ f.fn = "arguments" => f.i # 0 /\ f.slice # NULL
         /\ Maybe(mem, f.slice) /\ Maybe(mem, f.self) /\ Nil # NULL
         /\ \A a : a \notin {NULL, Nil} => HoldsBy(f, a)
<1>1. Here(mem, Front(frames), f, at)
  BY Now
<1>2. World(mem, Front(frames), f, at) /\ Fits(f) /\ FrameAt(mem, f) /\ Good(mem)
  BY <1>1 DEF Here
<1>3. DOMAIN f = FrameFields /\ f.i \in Nat /\ f.args \notin {NULL, Nil} /\ f.ans = Nil /\ f.func = NULL
      /\ (f.fn = "arguments" => f.i # 0 /\ f.slice # NULL)
  BY <1>2 DEF Fits
<1>4. Maybe(mem, f.args) /\ Maybe(mem, f.slice) /\ Maybe(mem, f.self) /\ Maybe(mem, f.code)
  BY <1>2, LocalsLive
<1>5. f.code \in Addr(mem)
  BY <1>2, <1>4, MaybeAddr
<1>6. Is(mem, f.first, "function")
  BY <1>2 DEF FrameAt, Rely
<1>. QED BY <1>1, <1>2, <1>3, <1>4, <1>5, <1>6, HoldOf, NilAlive DEF Maybe

\* The argument that is looked at.
LEMMA ArgumentFacts ==
  ASSUME IInv, NextArgument
  PROVE  /\ at.do = "resume" /\ at.do # "end" /\ Top.fn = "arguments"
         /\ Argument \in Range(Items(mem, Top.slice)) /\ Maybe(mem, Argument)
<1>1. at.do = "resume" /\ Top.fn = "arguments" /\ Top.i <= Len(Items(mem, Top.slice))
  BY DEF NextArgument, Resumed, Resume
<1>2. Good(mem) /\ Maybe(mem, Top.slice) /\ Top.i \in Nat /\ Top.i # 0
  BY <1>1, ArgumentsFacts
<1>3. Later(mem, mem)
  BY <1>2, LaterSelf
<1>4. /\ IsSeq(Items(mem, Top.slice))
      /\ \A i \in DOMAIN Items(mem, Top.slice) : Maybe(mem, Items(mem, Top.slice)[i])
  BY <1>2, <1>3, ItemsStay
<1>5. Len(Items(mem, Top.slice)) \in Nat /\ DOMAIN Items(mem, Top.slice) = 1 .. Len(Items(mem, Top.slice))
  BY <1>4, SeqFacts
<1>6. Top.i \in DOMAIN Items(mem, Top.slice)
  BY <1>1, <1>2, <1>5
<1>. QED BY <1>1, <1>4, <1>6 DEF Argument, Range

LEMMA ArgumentUndefinedKeeps == ASSUME IInv, ArgumentUndefined PROVE IInv'
BY DieKeeps DEF ArgumentUndefined

\* The frame with the next argument.
Further(f) == [f EXCEPT !.i = @ + 1]
LEMMA FurtherFacts ==
  ASSUME NEW f, DOMAIN f = FrameFields, Fits(f), f.fn = "arguments", NEW f2, f2 = Further(f)
  PROVE  /\ Fits(f2) /\ Alike(f, f2)
         /\ f2.fn = f.fn /\ f2.code = f.code /\ f2.func = f.func /\ f2.self = f.self /\ f2.first = f.first
         /\ f2.slice = f.slice /\ f2.args = f.args /\ f2.ans = f.ans
<1>1. /\ DOMAIN f2 = FrameFields /\ f2.fn = f.fn /\ f2.i = f.i + 1 /\ f2.code = f.code /\ f2.func = f.func
      /\ f2.self = f.self /\ f2.first = f.first /\ f2.slice = f.slice /\ f2.args = f.args /\ f2.ans = f.ans
  BY DEF Further, FrameFields
<1>2. f.i \in Nat
  BY DEF Fits
<1>3. f2.i \in Nat /\ f2.i # 0
  BY <1>1, <1>2
<1>. QED BY <1>1, <1>3 DEF Fits, Alike

\* An argument is added to those that the function gets.
LEMMA ArgumentAdded ==
  ASSUME IInv, at.do \in {"resume", "return"}, Top.fn = "arguments", NEW m, Flows(mem, m),
         \A a \in Counted(m) : Bal(m, a) + Back(at, a) = Bal(mem, a),
         NEW f, f = Further(Top)
  PROVE  Onward(mem, Top, at, m, f, Resume)
<1>1. /\ Here(mem, Front(frames), Top, at) /\ World(mem, Front(frames), Top, at)
      /\ Fits(Top) /\ DOMAIN Top = FrameFields /\ Is(mem, Top.first, "function")
  BY ArgumentsFacts
<1>2. /\ Fits(f) /\ Alike(Top, f)
      /\ f.fn = Top.fn /\ f.code = Top.code /\ f.func = Top.func /\ f.self = Top.self /\ f.first = Top.first
      /\ f.slice = Top.slice /\ f.args = Top.args /\ f.ans = Top.ans
  BY <1>1, FurtherFacts
<1>3. Sited(m, f)
  BY <1>1, <1>2, HereSited DEF Sited
<1>4. Resume.do = "resume" /\ Ready(m, f, Resume)
  BY DEF Resume, Ready, AtOK
<1>5. ASSUME NEW a \in Counted(m) PROVE Bal(m, a) + Tip(Top, at, a) = Bal(mem, a) + Tip(f, Resume, a)
  <2>1. Hold(f, a) = Hold(Top, a)
    BY <1>2 DEF Hold
  <2>2. Tip(Top, at, a) = Hold(Top, a) + Back(at, a) /\ Back(at, a) \in Nat
    BY BackType
  <2>3. Tip(f, Resume, a) = Hold(f, a)
    BY <1>4, LocalsOcc DEF Tip
  <2>4. PICK h \in Nat : h = Hold(Top, a)
    BY LocalsOcc
  <2>5. PICK b \in Nat : b = Bal(m, a)
    BY BalType DEF Flows, Later
  <2>6. PICK c \in Nat : c = Back(at, a)
    BY <2>2
  <2>7. Bal(mem, a) = b + c
    BY <2>5, <2>6
  <2>8. b + (h + c) = (b + c) + h
    OBVIOUS
  <2>. QED BY <2>1, <2>2, <2>3, <2>4, <2>5, <2>6, <2>7, <2>8
<1>. QED BY <1>1, <1>2, <1>3, <1>4, <1>5 DEF Onward

LEMMA ArgumentKeptKeeps == ASSUME IInv, ArgumentKept PROVE IInv'
<1>1. at.do = "resume" /\ at.do # "end" /\ Top.fn = "arguments" /\ Maybe(mem, Argument)
  BY ArgumentFacts DEF ArgumentKept
<1>2. Good(mem) /\ Alive(mem, Top.args) /\ Top.args # Nil
  BY <1>1, ArgumentsFacts
<1>3. PICK m, f : m = ListAdd(mem, Top.args, Argument) /\ f = Further(Top)
  OBVIOUS
<1>4. Go(m, With(f), Resume)
  BY <1>3 DEF ArgumentKept, Further
<1>5. Moved(mem, m) /\ Counted(m) = Counted(mem) /\ \A x \in Counted(mem) : Bal(m, x) = Bal(mem, x)
  BY <1>1, <1>2, <1>3, ListAddStep DEF Maybe
<1>6. Flows(mem, m)
  BY <1>2, <1>5, MovedFlows
<1>7. ASSUME NEW a \in Counted(m) PROVE Bal(m, a) + Back(at, a) = Bal(mem, a)
  <2>1. Back(at, a) = 0
    BY <1>1, BackNone
  <2>2. Bal(m, a) = Bal(mem, a) /\ Bal(m, a) \in Nat
    BY <1>2, <1>5, BalType
  <2>. QED BY <2>1, <2>2
<1>8. Onward(mem, Top, at, m, f, Resume)
  BY <1>1, <1>3, <1>6, <1>7, ArgumentAdded
<1>9. Resume.do \in Dos
  BY DEF Resume, Dos
<1>. QED BY <1>1, <1>4, <1>8, <1>9, WithKeeps

LEMMA EvaluateArgumentKeeps == ASSUME IInv, EvaluateArgument PROVE IInv'
<1>1. at.do = "resume" /\ at.do # "end" /\ Top.fn = "arguments" /\ Argument \in Range(Items(mem, Top.slice))
  BY ArgumentFacts DEF EvaluateArgument
<1>2. PICK next : next = Evaluate(Argument)
  OBVIOUS
<1>3. next.do = "evaluate" /\ next.obj = Argument
  BY <1>2 DEF Evaluate
<1>4. Go(mem, frames, next)
  BY <1>2 DEF EvaluateArgument
<1>5. AtOK(mem, Top, next)
  BY <1>1, <1>3 DEF AtOK, Runs, Waits
<1>6. World(mem, Front(frames), Top, at)
  BY <1>1, Now DEF Here
<1>7. World(mem, Front(frames), Top, next)
  BY <1>1, <1>3, <1>5, <1>6, PlainStep
<1>8. next.do \in Dos
  BY <1>3 DEF Dos
<1>. QED BY <1>1, <1>4, <1>7, <1>8, GoTop

LEMMA ArgumentEvaluatedKeeps == ASSUME IInv, ArgumentEvaluated PROVE IInv'
<1>1. at.do = "return" /\ at.do # "end" /\ Top.fn = "arguments"
  BY DEF ArgumentEvaluated, Returned
<1>2. Good(mem) /\ Alive(mem, Top.args) /\ Top.args # Nil /\ World(mem, Front(frames), Top, at)
  BY <1>1, ArgumentsFacts
<1>3. Maybe(mem, at.obj)
  BY <1>1, <1>2, LocalsLive
<1>4. PICK m1, m, f : m1 = ListAdd(mem, Top.args, at.obj) /\ m = Release(m1, at.obj) /\ f = Further(Top)
  OBVIOUS
<1>5. Go(m, With(f), Resume)
  BY <1>4 DEF ArgumentEvaluated, Further
<1>6. Moved(mem, m1) /\ Counted(m1) = Counted(mem) /\ \A x \in Counted(mem) : Bal(m1, x) = Bal(mem, x)
  BY <1>2, <1>3, <1>4, ListAddStep DEF Maybe
<1>7. Loses(m1, m, at.obj)
  <2>1. \A a \in Counted(mem) : Bal(mem, a) >= Ind(at.obj, a)
    BY <1>1, <1>2, ReleasesTip
  <2>2. \A a \in Counted(m1) : Bal(m1, a) >= Ind(at.obj, a)
    BY <1>6, <2>1
  <2>. QED BY <1>4, <1>6, <2>2, Releases DEF Moved
<1>8. Flows(mem, m)
  BY <1>2, <1>6, <1>7, MovedFlows, FlowsMore DEF Loses
<1>9. ASSUME NEW a \in Counted(m) PROVE Bal(m, a) + Back(at, a) = Bal(mem, a)
  BY <1>1, <1>6, <1>7 DEF Back, Loses
<1>10. Onward(mem, Top, at, m, f, Resume)
  BY <1>1, <1>4, <1>8, <1>9, ArgumentAdded
<1>11. Resume.do \in Dos
  BY DEF Resume, Dos
<1>. QED BY <1>1, <1>5, <1>10, <1>11, WithKeeps

\* The frame, once its arguments have been evaluated.
Toward(f) == [f EXCEPT !.fn = "call", !.slice = NULL]
LEMMA TowardFacts ==
  ASSUME NEW f, DOMAIN f = FrameFields, Fits(f), f.fn = "arguments", NEW f2, f2 = Toward(f)
  PROVE  /\ Fits(f2) /\ Alike(f, f2)
         /\ f2.fn = "call" /\ f2.code = f.code /\ f2.func = f.func /\ f2.self = f.self /\ f2.first = f.first
         /\ f2.slice = NULL /\ f2.args = f.args /\ f2.ans = f.ans
<1>1. /\ DOMAIN f2 = FrameFields /\ f2.fn = "call" /\ f2.i = f.i /\ f2.code = f.code /\ f2.func = f.func
      /\ f2.self = f.self /\ f2.first = f.first /\ f2.slice = NULL /\ f2.args = f.args /\ f2.ans = f.ans
  BY DEF Toward, FrameFields
<1>. QED BY <1>1 DEF Fits, Alike, FrameNames

LEMMA CallFirstKeeps == ASSUME IInv, CallFirst PROVE IInv'
<1>1. at.do = "resume" /\ at.do # "end" /\ Top.fn = "arguments"
  BY DEF CallFirst, Resumed, Resume
<1>2. PICK m, f, next : m = Release(mem, Top.slice) /\ f = Toward(Top) /\ next = Call(Top.first, Top.args, Top.self)
  OBVIOUS
<1>3. Go(m, With(f), next)
  BY <1>2 DEF CallFirst, Toward
<1>4. /\ World(mem, Front(frames), Top, at) /\ DOMAIN Top = FrameFields /\ Fits(Top) /\ Good(mem)
      /\ Is(mem, Top.first, "function") /\ Nil # NULL
      /\ \A a : a \notin {NULL, Nil} => HoldsBy(Top, a)
  BY <1>1, ArgumentsFacts
<1>5. /\ Fits(f) /\ Alike(Top, f)
      /\ f.fn = "call" /\ f.code = Top.code /\ f.func = Top.func /\ f.self = Top.self /\ f.first = Top.first
      /\ f.slice = NULL /\ f.args = Top.args /\ f.ans = Top.ans
  BY <1>1, <1>2, <1>4, TowardFacts
<1>6. Loses(mem, m, Top.slice)
  BY <1>2, <1>4, ReleasesTip
<1>7. Flows(mem, m) /\ Good(m)
  BY <1>6 DEF Loses, Moved
<1>8. Sited(m, f)
  <2>1. Sited(m, Top) /\ NULL \in Addr(m)
    BY <1>4, <1>7, HereSited
  <2>. QED BY <1>5, <2>1 DEF Sited
<1>9. next.do = "call" /\ next.func = Top.first /\ next.args = Top.args /\ next.self = Top.self
  BY <1>2 DEF Call
<1>10. Passed(m, f, next.func, next.args, next.self)
  <2>1. Callees(m, f) = {f.first} /\ Given(f) = f.args
    BY <1>5 DEF Callees, Given
  <2>. QED BY <1>5, <1>9, <2>1 DEF Passed
<1>11. Ready(m, f, next) /\ next.do \in Dos
  BY <1>9, <1>10 DEF Ready, AtOK, Dos
<1>12. ASSUME NEW a \in Counted(m) PROVE Bal(m, a) + Tip(Top, at, a) = Bal(mem, a) + Tip(f, next, a)
  <2>1. a \notin {NULL, Nil}
    BY <1>7, Addresses DEF Counted, Good
  <2>2. HoldsBy(Top, a) /\ HoldsBy(f, a)
    BY <1>4, <1>5, <2>1, HoldOf
  <2>3. Hold(Top, a) = Ind(Top.self, a) + Ind(Top.first, a) + Ind(Top.slice, a) + Ind(Top.args, a)
    BY <1>1, <2>2 DEF HoldsBy
  <2>4. Hold(f, a) = Ind(Top.self, a) + Ind(Top.first, a) + Ind(Top.args, a)
    BY <1>5, <2>2 DEF HoldsBy
  <2>5. Tip(Top, at, a) = Hold(Top, a)
    BY <1>1, LocalsOcc DEF Tip
  <2>6. Tip(f, next, a) = Hold(f, a)
    BY <1>9, LocalsOcc DEF Tip
  <2>7. PICK i \in Nat : i = Ind(Top.self, a)
    BY DEF Ind
  <2>8. PICK j \in Nat : j = Ind(Top.first, a)
    BY DEF Ind
  <2>9. PICK k \in Nat : k = Ind(Top.args, a)
    BY DEF Ind
  <2>10. PICK s \in Nat : s = Ind(Top.slice, a)
    BY DEF Ind
  <2>11. PICK b \in Nat : b = Bal(m, a)
    BY <1>7, BalType
  <2>12. Bal(mem, a) = b + s
    BY <1>6, <2>10, <2>11 DEF Loses
  <2>13. b + (i + j + s + k) = (b + s) + (i + j + k)
    OBVIOUS
  <2>. QED BY <2>3, <2>4, <2>5, <2>6, <2>7, <2>8, <2>9, <2>10, <2>11, <2>12, <2>13
<1>13. Onward(mem, Top, at, m, f, next)
  BY <1>4, <1>5, <1>7, <1>8, <1>11, <1>12 DEF Onward
<1>. QED BY <1>1, <1>3, <1>11, <1>13, WithKeeps

LEMMA CallReturnsKeeps == ASSUME IInv, CallReturns PROVE IInv'
<1>1. at.do = "return" /\ at.do # "end" /\ Top.fn = "call" /\ Go(Called, Pop, Return(at.obj))
  BY DEF CallReturns, Returned
<1>2. PICK x, y, z : x = Top.args /\ y = Top.self /\ z = Top.first
  OBVIOUS
<1>3. PICK m, next : m = ReleaseAll(mem, <<x, y, z>>) /\ next = Return(at.obj)
  OBVIOUS
<1>4. Go(m, Pop, next)
  BY <1>1, <1>2, <1>3 DEF Called
<1>5. World(mem, Front(frames), Top, at) /\ Good(mem) /\ \A a : a \notin {NULL, Nil} => HoldsBy(Top, a)
  BY <1>1, ArgumentsFacts
<1>6. ASSUME NEW a \in Counted(mem)
      PROVE /\ a \notin {NULL, Nil} /\ Tip(Top, at, a) = (Ind(x, a) + Ind(y, a) + Ind(z, a)) + Ind(at.obj, a)
            /\ Bal(mem, a) >= Ind(x, a) + Ind(y, a) + Ind(z, a)
            /\ Ind(x, a) \in Nat /\ Ind(y, a) \in Nat /\ Ind(z, a) \in Nat /\ Ind(at.obj, a) \in Nat
            /\ Bal(mem, a) \in Nat
  <2>1. a \notin {NULL, Nil} /\ Bal(mem, a) >= Tip(Top, at, a) /\ Bal(mem, a) \in Nat
    BY <1>5, <1>6, Enough
  <2>2. Hold(Top, a) = Ind(y, a) + Ind(z, a) + Ind(x, a)
    BY <1>1, <1>2, <1>5, <2>1 DEF HoldsBy
  <2>3. Tip(Top, at, a) = Hold(Top, a) + Ind(at.obj, a)
    BY <1>1 DEF Tip
  <2>4. Ind(x, a) \in Nat /\ Ind(y, a) \in Nat /\ Ind(z, a) \in Nat /\ Ind(at.obj, a) \in Nat
    BY DEF Ind
  <2>5. PICK i \in Nat : i = Ind(x, a)
    BY <2>4
  <2>6. PICK j \in Nat : j = Ind(y, a)
    BY <2>4
  <2>7. PICK k \in Nat : k = Ind(z, a)
    BY <2>4
  <2>8. PICK o \in Nat : o = Ind(at.obj, a)
    BY <2>4
  <2>9. PICK b \in Nat : b = Bal(mem, a)
    BY <2>1
  <2>10. b >= (j + k + i) + o
    BY <2>1, <2>2, <2>3, <2>5, <2>6, <2>7, <2>8, <2>9
  <2>11. b >= i + j + k /\ (j + k + i) + o = (i + j + k) + o
    BY <2>10
  <2>. QED BY <2>1, <2>2, <2>3, <2>4, <2>5, <2>6, <2>7, <2>8, <2>9, <2>11
<1>7. \A a \in Counted(mem) : Bal(mem, a) >= Ind(x, a) + Ind(y, a) + Ind(z, a)
  BY <1>6
<1>8. /\ Moved(mem, m) /\ Counted(m) = Counted(mem)
      /\ \A a \in Counted(mem) : Bal(m, a) = Bal(mem, a) - (Ind(x, a) + Ind(y, a) + Ind(z, a))
  BY <1>3, <1>5, <1>7, ReleaseThreeStep
<1>9. Flows(mem, m)
  BY <1>5, <1>8, MovedFlows
<1>10. next.do = "return" /\ next.obj = at.obj
  BY <1>3 DEF Return
<1>11. next.obj \in Addr(m)
  BY <1>1, <1>5, <1>9, <1>10, HereSited
<1>12. ASSUME NEW a \in Counted(m) PROVE Bal(m, a) + Tip(Top, at, a) = Bal(mem, a) + Back(next, a)
  <2>1. PICK h : h = Ind(x, a) + Ind(y, a) + Ind(z, a)
    OBVIOUS
  <2>2. h \in Nat /\ Bal(mem, a) \in Nat /\ Ind(at.obj, a) \in Nat
    BY <1>6, <1>8, <2>1
  <2>3. Bal(m, a) = Bal(mem, a) - h /\ Tip(Top, at, a) = h + Ind(at.obj, a)
    BY <1>6, <1>8, <2>1
  <2>4. Back(next, a) = Ind(at.obj, a)
    BY <1>10 DEF Back
  <2>5. PICK b \in Nat : b = Bal(mem, a)
    BY <2>2
  <2>6. PICK o \in Nat : o = Ind(at.obj, a)
    BY <2>2
  <2>7. (b - h) + (h + o) = b + o
    BY <2>2
  <2>. QED BY <2>3, <2>4, <2>5, <2>6, <2>7
<1>13. Parting(mem, Top, at, m, next)
  BY <1>9, <1>11, <1>12 DEF Parting
<1>. QED BY <1>1, <1>4, <1>10, <1>13, PartKeeps

-----------------------------------------------------------------------------
(* sol_func_execute. *)

LEMMA NotBuiltin == Range(BuiltinNames) \cap {"function", "macro"} = {}
<1>1. DOMAIN BuiltinNames = 1 .. 39
  BY BuiltinList
<1>2. ASSUME NEW i \in 1 .. 39 PROVE BuiltinNames[i] \notin {"function", "macro"}
  BY <1>2, BuiltinEach DEF Named39
<1>. QED BY <1>1, <1>2 DEF Range

LEMMA SeqThree ==
  ASSUME NEW x, NEW y, NEW z
  PROVE  IsSeq(<<x, y, z>>) /\ Len(<<x, y, z>>) = 3 /\ <<x, y, z>>[1] = x /\ <<x, y, z>>[2] = y /\ <<x, y, z>>[3] = z
BY DEF IsSeq

\* The scopes of f are pushed: p owns what m owns.
Entering(m, f, p) ==
  /\ Scoped(m, p) /\ OddTop(p) /\ Secure(p) /\ p.heap = m.heap /\ Len(p.scopes) = Len(m.scopes) + 2
  /\ p.scopes[Len(m.scopes) + 1] = m.heap[f].closure
  /\ \A i \in 1 .. Len(m.scopes) : p.scopes[i] = m.scopes[i]

LEMMA EnterSecure ==
  ASSUME NEW m, Good(m), OddTop(m), Secure(m), NEW f, Alive(m, f), \A m2 : Follows(m, m2) => Alive(m2, f),
         NEW p, p = PushScope(PushScope(m, m.heap[f].closure), <<>>)
  PROVE  Entering(m, f, p)
<1>1. PICK t : t = m.heap[f].closure
  OBVIOUS
<1>2. Table(t, DOMAIN m.bindings)
  BY <1>1 DEF Good, Shape, Sound, Alive
<1>3. /\ Scoped(m, p) /\ OddTop(p) /\ p.heap = m.heap
      /\ Len(p.scopes) = Len(m.scopes) + 2 /\ p.scopes[Len(m.scopes) + 1] = t
      /\ \A i \in 1 .. Len(m.scopes) : p.scopes[i] = m.scopes[i]
  BY <1>1, <1>2, EnterStep
<1>4. PICK n \in Nat : n = Len(m.scopes)
  <2>1. Len(m.scopes) \in Nat
    BY SeqFacts DEF Good, Shape
  <2>. QED BY <2>1
<1>5. DOMAIN m.scopes = 1 .. n /\ DOMAIN p.scopes = 1 .. n + 2
  <2>1. IsSeq(m.scopes) /\ IsSeq(p.scopes)
    BY <1>3 DEF Good, Shape, Scoped
  <2>. QED BY <1>3, <1>4, <2>1, SeqFacts
<1>6. n % 2 = 1 /\ (n + 2) % 2 = 1
  BY <1>4, OddEven DEF OddTop
<1>7. ASSUME NEW m2, Follows(p, m2), NEW i \in DOMAIN p.scopes \ OwnScopes(p), NEW k \in DOMAIN p.scopes[i]
      PROVE  p.bindings[p.scopes[i][k]] = NULL \/ Alive(m2, p.bindings[p.scopes[i][k]])
  <2>1. p.bindings = m.bindings /\ Counted(p) = Counted(m) /\ \A x \in Counted(m) : Bal(p, x) = Bal(m, x)
    BY <1>3 DEF Scoped
  <2>2. Follows(m, m2)
    <3>1. Grows(m, m2)
      BY <1>3, <1>7 DEF Follows, Grows, Alive, Count
    <3>2. Binds(m, m2)
      BY <1>7, <2>1 DEF Follows, Binds
    <3>. QED BY <1>7, <2>1, <3>1, <3>2 DEF Follows
  <2>3. i % 2 # 1 /\ i \in 1 .. n + 2
    BY <1>5, <1>7 DEF OwnScopes
  <2>4. CASE i \in 1 .. n
    <3>1. p.scopes[i] = m.scopes[i] /\ i \in DOMAIN m.scopes \ OwnScopes(m)
      BY <1>3, <1>4, <1>5, <2>3, <2>4 DEF OwnScopes
    <3>. QED BY <1>7, <2>1, <2>2, <3>1 DEF Secure
  <2>5. CASE i \notin 1 .. n
    <3>1. i # n + 2
      BY <1>6, <2>3
    <3>2. i = n + 1
      BY <2>3, <2>5, <3>1
    <3>3. p.scopes[i] = t
      BY <1>3, <1>4, <3>2
    <3>4. Alive(m2, f) /\ Good(m2)
      BY <2>2 DEF Follows
    <3>5. f \in DOMAIN m2.heap /\ f \in DOMAIN m.heap
      BY <3>4 DEF Alive
    <3>6. m2.heap[f].closure = t
      BY <1>1, <2>2, <3>4, <3>5 DEF Follows, Grows
    <3>7. Shape(m2) /\ \A a \in DOMAIN m2.heap \ {Nil} : Balance(m2, a) >= 0
      BY <3>4 DEF Good
    <3>8. \A j \in DOMAIN m2.heap[f].closure :
            m2.bindings[m2.heap[f].closure[j]] = NULL \/ Alive(m2, m2.bindings[m2.heap[f].closure[j]])
      BY <3>5, <3>7, OwnedAlive
    <3>9. k \in DOMAIN t /\ (m2.bindings[t[k]] = NULL \/ Alive(m2, m2.bindings[t[k]]))
      BY <1>7, <3>3, <3>6, <3>8
    <3>10. m2.bindings[t[k]] = p.bindings[t[k]]
      BY <1>2, <1>7, <2>1, <3>9 DEF Follows, Binds, Table
    <3>. QED BY <3>3, <3>9, <3>10
  <2>. QED BY <2>4, <2>5
<1>8. Secure(p)
  BY <1>7 DEF Secure
<1>. QED BY <1>1, <1>3, <1>8 DEF Entering

\* The parameters and the other names of a function have been registered.
Entrance(m, f, r) ==
  /\ Holds(m, r) /\ Counted(r) = Counted(m) /\ \A x \in Counted(m) : Bal(r, x) = Bal(m, x)
  /\ Len(r.scopes) = Len(m.scopes) + 2 /\ r.scopes[Len(m.scopes) + 1] = m.heap[f].closure
  /\ \A i \in 1 .. Len(m.scopes) : r.scopes[i] = m.scopes[i]

LEMMA EnteredStep ==
  ASSUME NEW m, Good(m), NEW f, NEW p, Entering(m, f, p),
         NEW ns, Len(ns) \in Nat, NEW vs, \A q : Follows(m, q) => \A k \in 1 .. Len(ns) : Maybe(q, vs[k]),
         NEW r, r = RegisterAll(p, ns, vs), Straight(r)
  PROVE  Entrance(m, f, r)
<1>1. /\ Scoped(m, p) /\ OddTop(p) /\ Secure(p) /\ Good(p) /\ p.bindings = m.bindings
      /\ Grows(m, p) /\ Counted(p) = Counted(m)
  BY DEF Entering, Scoped
<1>2. Follows(m, p)
  <2>1. \A x \in Counted(m) : Bal(p, x) >= Bal(m, x)
    <3>1. ASSUME NEW x \in Counted(m) PROVE Bal(p, x) >= Bal(m, x)
      <4>1. Bal(p, x) = Bal(m, x) /\ Bal(m, x) \in Nat
        BY <1>1, BalType DEF Scoped
      <4>. QED BY <4>1
    <3>. QED BY <3>1
  <2>. QED BY <1>1, <2>1 DEF Follows, Binds
<1>3. ASSUME NEW q, NEW k, Settled(p, q), k \in 1 .. Len(ns) PROVE vs[k] = NULL \/ Alive(q, vs[k])
  <2>1. Follows(p, q)
    BY <1>1, <1>3, SettledFollows
  <2>2. Follows(m, q)
    BY <1>2, <2>1, FollowsMore
  <2>. QED BY <1>3, <2>2 DEF Maybe
<1>4. Settled(p, r)
  BY <1>1, <1>3, RegisterAllStep
<1>5. Changed(p, r) /\ \A x \in Counted(p) : Bal(r, x) = Bal(p, x)
  BY <1>4 DEF Settled
<1>6. Follows(m, r)
  BY <1>1, <1>2, <1>4, SettledFollows, FollowsMore
<1>7. Counted(r) = Counted(m) /\ \A x \in Counted(m) : Bal(r, x) = Bal(m, x)
  BY <1>1, <1>5 DEF Changed, Scoped
<1>8. Holds(m, r)
  BY <1>6 DEF Holds, Later, Follows
<1>9. PICK n \in Nat : n = Len(m.scopes)
  <2>1. Len(m.scopes) \in Nat
    BY SeqFacts DEF Good, Shape
  <2>. QED BY <2>1
<1>10. Len(p.scopes) = n + 2 /\ Len(r.scopes) = n + 2
  BY <1>5, <1>9 DEF Entering, Changed
<1>11. ASSUME NEW i \in 1 .. n + 1 PROVE r.scopes[i] = p.scopes[i]
  <2>1. i \in 1 .. Len(p.scopes) /\ i # Len(p.scopes)
    BY <1>10
  <2>. QED BY <1>5, <2>1 DEF Changed
<1>12. n + 1 \in 1 .. n + 1 /\ \A i \in 1 .. n : i \in 1 .. n + 1
  OBVIOUS
<1>. QED BY <1>7, <1>8, <1>9, <1>10, <1>11, <1>12 DEF Entering, Entrance

\* What a function of the program has: parameters and statements.
Has(m, f, parameters, code) ==
  /\ Is(m, f, "function") /\ {1, 2} \subseteq DOMAIN m.heap[f].items
  /\ parameters = m.heap[f].items[1] /\ code = m.heap[f].items[2]
  /\ Maybe(m, parameters) /\ Maybe(m, code) /\ code # NULL /\ parameters # NULL
  /\ IsSeq(Items(m, parameters)) /\ Items(m, f) = m.heap[f].items

LEMMA FunctionHas ==
  ASSUME NEW m, Good(m), NEW f, Is(m, f, "function"), m.heap[f].value \in {"function", "macro"},
         NEW parameters, parameters = m.heap[f].items[1], NEW code, code = m.heap[f].items[2]
  PROVE  Has(m, f, parameters, code)
<1>1. Kind(m, m.heap[f]) /\ m.heap[f].type = "function"
  BY DEF Is, Good
<1>2. m.heap[f].value \notin Range(BuiltinNames)
  BY NotBuiltin
<1>3. /\ {1, 2} \subseteq DOMAIN m.heap[f].items
      /\ Type(m, parameters) = "list" /\ Type(m, code) = "list"
  BY <1>1, <1>2 DEF Kind
<1>4. parameters # NULL /\ code # NULL
  BY <1>3 DEF Type
<1>5. Maybe(m, f) /\ f # NULL
  BY NilAlive DEF Is, Maybe
<1>6. Items(m, f) = m.heap[f].items
  BY <1>5 DEF Items
<1>7. \A i \in DOMAIN Items(m, f) : Maybe(m, Items(m, f)[i])
  BY <1>5, LaterSelf, ItemsStay
<1>8. Maybe(m, parameters) /\ Maybe(m, code)
  BY <1>3, <1>6, <1>7
<1>9. IsSeq(Items(m, parameters))
  BY <1>8, LaterSelf, ItemsStay
<1>. QED BY <1>3, <1>4, <1>6, <1>8, <1>9 DEF Has

\* The names that a call registers, and their values.
Registering(f, args, self, ns, vs) ==
  /\ ns = <<"this", "self", "arguments">> \o [i \in DOMAIN Parameters(f) |-> mem.heap[Parameters(f)[i]].value]
  /\ vs = <<f, self, args>> \o Argued(f, Items(mem, args))
Provided(ns, vs) ==
  Len(ns) \in Nat /\ \A q : Follows(mem, q) => \A k \in 1 .. Len(ns) : Maybe(q, vs[k])

LEMMA RegisteringAlive ==
  ASSUME IInv, Calling, NEW ns, NEW vs, Registering(at.func, at.args, at.self, ns, vs)
  PROVE  Provided(ns, vs)
<1>1. at.do = "call" /\ at.do # "end" /\ mem.heap[at.func].value \in {"function", "macro"}
  BY DEF Calling, IsOperator
<1>2. World(mem, Front(frames), Top, at) /\ Good(mem)
  BY <1>1, Now DEF Here
<1>3. /\ CallOK(mem, Top, at, mem) /\ \A m2 : Holds(mem, m2) => CallOK(mem, Top, at, m2)
      /\ IsSeq(Items(mem, at.args))
  BY <1>1, <1>2, CallFacts
<1>4. Is(mem, at.func, "function")
  BY <1>3 DEF CallOK
<1>5. PICK parameters : parameters = mem.heap[at.func].items[1]
  OBVIOUS
<1>6. PICK code : code = mem.heap[at.func].items[2]
  OBVIOUS
<1>7. Has(mem, at.func, parameters, code)
  BY <1>1, <1>2, <1>4, <1>5, <1>6, FunctionHas
<1>8. PICK P : P = Items(mem, parameters)
  OBVIOUS
<1>9. Parameters(at.func) = P /\ IsSeq(P)
  BY <1>5, <1>7, <1>8 DEF Parameters, Has
<1>10. PICK n \in Nat : n = Len(P)
  <2>1. Len(P) \in Nat
    BY <1>9, SeqFacts
  <2>. QED BY <2>1
<1>11. DOMAIN P = 1 .. n
  BY <1>9, <1>10, SeqFacts
<1>12. PICK t : t = [i \in DOMAIN P |-> mem.heap[P[i]].value]
  OBVIOUS
<1>13. PICK w : w = [i \in DOMAIN P |-> IF i <= Len(Items(mem, at.args)) THEN Items(mem, at.args)[i] ELSE Nil]
  OBVIOUS
<1>14. IsSeq(t) /\ Len(t) = n
  <2>1. t = [i \in 1 .. n |-> t[i]]
    BY <1>11, <1>12
  <2>. QED BY <2>1, SeqMade
<1>15. IsSeq(w) /\ Len(w) = n
  <2>1. w = [i \in 1 .. n |-> w[i]]
    BY <1>11, <1>13
  <2>. QED BY <2>1, SeqMade
<1>16. PICK a, b : a = <<"this", "self", "arguments">> /\ b = <<at.func, at.self, at.args>>
  OBVIOUS
<1>17. /\ IsSeq(a) /\ Len(a) = 3 /\ IsSeq(b) /\ Len(b) = 3
       /\ b[1] = at.func /\ b[2] = at.self /\ b[3] = at.args
  BY <1>16, SeqThree
<1>18. ns = a \o t
  BY <1>9, <1>12, <1>16 DEF Registering
<1>19. vs = b \o w
  BY <1>9, <1>13, <1>16 DEF Registering, Argued
<1>20. Joined(a, t, ns) /\ Joined(b, w, vs)
  BY <1>14, <1>15, <1>17, <1>18, <1>19, SeqJoin
<1>21. Len(ns) = 3 + n
  BY <1>14, <1>17, <1>20 DEF Joined
<1>22. ASSUME NEW q, Follows(mem, q), NEW k \in 1 .. Len(ns) PROVE Maybe(q, vs[k])
  <2>1. Holds(mem, q)
    BY <1>2, <1>22 DEF Follows, Holds, Later
  <2>2. CallOK(mem, Top, at, q) /\ Good(q)
    BY <1>3, <2>1 DEF Holds, Later
  <2>3. CASE k \in 1 .. 3
    <3>1. vs[k] = b[k]
      BY <1>17, <1>20, <2>3 DEF Joined
    <3>2. k = 1 \/ k = 2 \/ k = 3
      BY <2>3
    <3>3. b[k] \in {at.func, at.self, at.args}
      BY <1>17, <3>2
    <3>. QED BY <2>2, <3>1, <3>3 DEF CallOK, Is, Maybe
  <2>4. CASE k \notin 1 .. 3
    <3>1. PICK i \in 1 .. n : k = 3 + i
      <4>1. k \in 1 .. 3 + n /\ k - 3 \in 1 .. n /\ k = 3 + (k - 3)
        BY <1>21, <2>4
      <4>. QED BY <4>1
    <3>2. vs[k] = w[i]
      BY <1>15, <1>17, <1>20, <3>1 DEF Joined
    <3>3. w[i] = IF i <= Len(Items(mem, at.args)) THEN Items(mem, at.args)[i] ELSE Nil
      BY <1>11, <1>13
    <3>4. CASE i <= Len(Items(mem, at.args))
      <4>1. i \in DOMAIN Items(mem, at.args)
        BY <1>3, <3>4, SeqFacts
      <4>. QED BY <2>2, <3>2, <3>3, <3>4, <4>1 DEF CallOK
    <3>5. CASE ~(i <= Len(Items(mem, at.args)))
      BY <2>2, <3>2, <3>3, <3>5, NilAlive DEF Maybe
    <3>. QED BY <3>4, <3>5
  <2>. QED BY <2>3, <2>4
<1>. QED BY <1>21, <1>22 DEF Provided

\* The frame of a function.
Entrant(func, code, f) ==
  /\ DOMAIN f = FrameFields /\ f.fn = "function" /\ f.i = 0 /\ f.code = code /\ f.func = func
  /\ f.self = Nil /\ f.first = NULL /\ f.slice = NULL /\ f.args = NULL /\ f.ans = Nil

LEMMA EntersWorld ==
  ASSUME NEW m, NEW base, NEW g, NEW next, World(m, base, g, next), next.do = "call",
         NEW func, func = next.func, NEW parameters, NEW code, Has(m, func, parameters, code),
         NEW r, Straight(r), Entrance(m, func, r),
         NEW f, Entrant(func, code, f), NEW fs, fs = Append(base, g)
  PROVE  World(r, fs, f, Resume)
<1>1. Stable(m, base, g) /\ Here(m, base, g, next)
  BY WorldHere DEF World
<1>2. /\ Good(m) /\ IsSeq(base) /\ IsSeq(fs) /\ Chain(m, base) /\ FrameAt(m, g) /\ Rests(m, base, g)
      /\ Covers(m, fs) /\ Len(m.scopes) = 2 * Running(fs) + 1
  BY <1>1, StableFacts
<1>3. Chain(m, fs) /\ Shelf(m, fs)
  BY <1>1 DEF Stable
<1>4. Holds(m, r) /\ Later(m, r) /\ Good(r) /\ Grows(m, r)
  BY DEF Entrance, Holds, Later
<1>5. Covers(r, fs)
  BY <1>2, <1>4, CoversLater DEF Holds
<1>6. Chain(r, fs)
  BY <1>2, <1>3, <1>4, <1>5, ChainStays
<1>7. Waits(g) /\ func \in Callees(m, g)
  BY <1>1, CallFacts DEF Here, Waits
<1>8. FrameAt(r, g) /\ Callees(r, g) = Callees(m, g) /\ Is(r, func, "function")
  BY <1>4, <1>7, FrameHolds
<1>9. r.heap[func].closure = m.heap[func].closure /\ func \in DOMAIN m.heap
      /\ DOMAIN m.heap[func].items \subseteq DOMAIN r.heap[func].items
      /\ \A i \in DOMAIN m.heap[func].items : r.heap[func].items[i] = m.heap[func].items[i]
  BY <1>4, <1>8 DEF Grows, Is, Has, Alive
<1>10. 2 \in DOMAIN r.heap[func].items /\ code = r.heap[func].items[2] /\ code # NULL
  BY <1>9 DEF Has
<1>11. Maybe(r, code)
  <2>1. Maybe(r, func) /\ func # NULL
    BY <1>4, <1>8, NilAlive DEF Is, Maybe
  <2>2. Items(r, func) = r.heap[func].items /\ Later(r, r)
    BY <1>4, <2>1, LaterSelf DEF Items
  <2>3. \A i \in DOMAIN Items(r, func) : Maybe(r, Items(r, func)[i])
    BY <2>1, <2>2, ItemsStay
  <2>. QED BY <1>10, <2>2, <2>3
<1>12. Nil # NULL
  BY <1>2, NilAlive
<1>13. Fits(f)
  BY <1>12 DEF Entrant, Fits, FrameNames
<1>14. Rely(r, f)
  BY <1>8, <1>10 DEF Entrant, Rely
<1>15. Owns(r, f) /\ Lent(r, f)
  BY <1>4, <1>8, <1>11, NilAlive DEF Entrant, Owns, Lent, Maybe, Is
<1>16. FrameAt(r, f)
  BY <1>13, <1>14, <1>15 DEF FrameAt
<1>17. Link(r, g, f)
  BY <1>7, <1>8, <1>10 DEF Entrant, Link
<1>18. fs # <<>> /\ fs[Len(fs)] = g
  BY <1>2, AppendFacts, NullSeq DEF Longer
<1>19. Rests(r, fs, f)
  BY <1>17, <1>18 DEF Rests
<1>20. PICK n \in Nat : n = Running(fs)
  BY <1>2, RunningMore
<1>21. Running(Append(fs, f)) = n + 1
  <2>1. f.fn = "function"
    BY DEF Entrant
  <2>. QED BY <1>2, <1>20, <2>1, RunningMore
<1>22. Len(m.scopes) = 2 * n + 1
  BY <1>2, <1>20
<1>23. Len(r.scopes) = 2 * (n + 1) + 1 /\ r.scopes[2 * (n + 1)] = r.heap[func].closure
  <2>1. 2 * n + 1 + 2 = 2 * (n + 1) + 1 /\ 2 * n + 1 + 1 = 2 * (n + 1)
    OBVIOUS
  <2>. QED BY <1>9, <1>22, <2>1 DEF Entrance
<1>24. \A i \in 1 .. 2 * Running(fs) : r.scopes[i] = m.scopes[i]
  <2>1. \A i \in 1 .. 2 * n : i \in 1 .. Len(m.scopes)
    BY <1>22
  <2>. QED BY <1>20, <2>1 DEF Entrance
<1>25. Shelf(r, fs)
  BY <1>2, <1>3, <1>4, <1>6, <1>24, ShelfStays
<1>26. Shelf(r, Append(fs, f))
  BY <1>2, <1>21, <1>23, <1>25, ShelfMore DEF Entrant
<1>27. Resume.do = "resume" /\ Ready(r, f, Resume)
  BY DEF Resume, Ready, AtOK
<1>28. ASSUME NEW a, a \notin {NULL, Nil} PROVE Bal(r, a) = Held(fs, a) + Tip(f, Resume, a)
  <2>1. Bal(r, a) = Bal(m, a)
    BY DEF Entrance, Bal
  <2>2. Bal(m, a) = Held(base, a) + Tip(g, next, a)
    BY <1>28 DEF World
  <2>3. Tip(g, next, a) = Hold(g, a)
    BY LocalsOcc DEF Tip
  <2>4. Held(fs, a) = Held(base, a) + Hold(g, a) /\ Held(fs, a) \in Nat
    BY <1>2, HeldMore, HeldType
  <2>5. Tip(f, Resume, a) = 0
    BY <1>27, <1>28 DEF Entrant, Tip, Hold, Ind
  <2>. QED BY <2>1, <2>2, <2>3, <2>4, <2>5
<1>29. Len(r.scopes) = 2 * Running(Append(fs, f)) + 1
  BY <1>21, <1>23
<1>. QED BY <1>2, <1>4, <1>6, <1>16, <1>19, <1>26, <1>27, <1>28, <1>29, Arrive

LEMMA FunctionCallKeeps == ASSUME IInv, FunctionCall PROVE IInv'
<1>1. PICK m, base, g, next : m = mem /\ base = Front(frames) /\ g = Top /\ next = at
  OBVIOUS
<1>2. Calling /\ next.do = "call" /\ m.heap[at.func].value \in {"function", "macro"}
  BY <1>1 DEF FunctionCall, Calling, IsOperator
<1>3. Here(m, base, g, next) /\ Stack(base, g) /\ World(m, base, g, next)
  BY <1>1, <1>2, Now DEF Here
<1>4. PICK parameters : parameters = m.heap[at.func].items[1]
  OBVIOUS
<1>5. PICK code : code = m.heap[at.func].items[2]
  OBVIOUS
<1>6. CallOK(m, g, next, m) /\ \A m2 : Holds(m, m2) => CallOK(m, g, next, m2)
  BY <1>2, <1>3, CallFacts
<1>7. Is(m, at.func, "function") /\ Alive(m, at.func)
  BY <1>1, <1>6 DEF CallOK, Is
<1>8. Has(m, at.func, parameters, code)
  BY <1>2, <1>3, <1>4, <1>5, <1>7, FunctionHas DEF Here
<1>9. CASE Odd(at.func, Items(mem, at.args)) # {}
  <2>1. Die \/ Stray
    BY <1>9 DEF FunctionCall
  <2>. QED BY <2>1, DieKeeps, StrayKeeps
<1>10. CASE Odd(at.func, Items(mem, at.args)) = {}
  <2>1. PICK f : f = [Frame("function") EXCEPT !.func = at.func, !.code = code]
    OBVIOUS
  <2>2. PICK r : r = Entered(at.func, at.args, at.self)
    OBVIOUS
  <2>3. Items(m, at.func)[2] = code
    BY <1>5, <1>8 DEF Has
  <2>4. Go(r, Push(f), Resume)
    BY <1>1, <1>10, <2>1, <2>2, <2>3 DEF FunctionCall
  <2>5. Entrant(at.func, code, f)
    BY <2>1 DEF Frame, Entrant, FrameFields
  <2>6. PICK p : p = PushScope(PushScope(m, m.heap[at.func].closure), <<>>)
    OBVIOUS
  <2>7. \A m2 : Follows(m, m2) => Alive(m2, at.func)
    <3>1. \A m2 : Follows(m, m2) => Holds(m, m2)
      BY <1>3 DEF Follows, Holds, Later, Here
    <3>. QED BY <1>1, <1>6, <3>1 DEF CallOK, Is
  <2>8. Entering(m, at.func, p)
    BY <1>3, <1>7, <2>6, <2>7, EnterSecure DEF Here
  <2>9. PICK ns : ns = <<"this", "self", "arguments">>
                       \o [i \in DOMAIN Parameters(at.func) |-> mem.heap[Parameters(at.func)[i]].value]
    OBVIOUS
  <2>10. PICK vs : vs = <<at.func, at.self, at.args>> \o Argued(at.func, Items(mem, at.args))
    OBVIOUS
  <2>11. Registering(at.func, at.args, at.self, ns, vs)
    BY <2>9, <2>10 DEF Registering
  <2>12. Provided(ns, vs)
    BY <1>2, <2>11, RegisteringAlive
  <2>13. r = RegisterAll(p, ns, vs)
    BY <1>1, <2>2, <2>6, <2>9, <2>10 DEF Entered
  <2>14. ASSUME Straight(r) PROVE World(r, frames, f, Resume)
    <3>1. Entrance(m, at.func, r)
      BY <1>1, <1>3, <2>8, <2>12, <2>13, <2>14, EnteredStep DEF Here, Provided
    <3>2. frames = Append(base, g)
      BY <1>3 DEF Stack
    <3>. QED BY <1>1, <1>2, <1>3, <1>8, <2>5, <2>14, <3>1, <3>2, EntersWorld
  <2>15. at.do # "end" /\ Resume.do \in Dos
    BY <1>1, <1>2 DEF Resume, Dos
  <2>. QED BY <2>4, <2>14, <2>15, GoPush
<1>. QED BY <1>9, <1>10

\* The frame of a function, and what it is left with.
LEMMA LeavingFacts ==
  ASSUME IInv, at = Resume, Top.fn = "function"
  PROVE  /\ Drained(mem, Left, Front(frames)) /\ World(mem, Front(frames), Top, at) /\ Good(mem) /\ Straight(mem)
         /\ Maybe(mem, Top.ans) /\ Top.ans \in Addr(mem) /\ at.do = "resume" /\ at.do # "end"
         /\ \A a \in Counted(mem) : /\ Tip(Top, at, a) = Ind(Top.ans, a)
                                    /\ Bal(mem, a) \in Nat /\ Bal(mem, a) >= Ind(Top.ans, a)
<1>1. at.do = "resume" /\ at.do # "end"
  BY DEF Resume
<1>2. Here(mem, Front(frames), Top, at)
  BY <1>1, Now
<1>3. World(mem, Front(frames), Top, at) /\ Good(mem) /\ Straight(mem) /\ Fits(Top)
  BY <1>2 DEF Here
<1>4. Drained(mem, Left, Front(frames))
  BY <1>3, Leaving DEF Left
<1>5. Maybe(mem, Top.ans) /\ Top.ans \in Addr(mem)
  BY <1>3, LocalsLive, MaybeAddr
<1>6. ASSUME NEW a \in Counted(mem)
      PROVE  Tip(Top, at, a) = Ind(Top.ans, a) /\ Bal(mem, a) \in Nat /\ Bal(mem, a) >= Ind(Top.ans, a)
  <2>1. a \notin {NULL, Nil} /\ Bal(mem, a) \in Nat /\ Bal(mem, a) >= Tip(Top, at, a)
    BY <1>3, <1>6, Enough
  <2>2. Hold(Top, a) = Ind(Top.ans, a) /\ Hold(Top, a) \in Nat
    BY <1>3, <2>1, HoldOf, LocalsOcc DEF HoldsBy
  <2>3. Tip(Top, at, a) = Hold(Top, a)
    BY <1>1, <2>2 DEF Tip
  <2>. QED BY <2>1, <2>2, <2>3
<1>. QED BY <1>1, <1>3, <1>4, <1>5, <1>6

LEMMA FunctionReturnsKeeps == ASSUME IInv, FunctionReturns PROVE IInv'
<1>1. at = Resume /\ Top.fn = "function" /\ Go(Left, Pop, Return(Top.ans))
  BY DEF FunctionReturns, BodyDone, Resumed
<1>2. PICK m, base, f, next, next2 : m = mem /\ base = Front(frames) /\ f = Top /\ next = at /\ next2 = Return(f.ans)
  OBVIOUS
<1>3. PICK p : p = Left
  OBVIOUS
<1>4. /\ Drained(m, p, base) /\ World(m, base, f, next) /\ Good(m) /\ f.ans \in Addr(m) /\ at.do # "end"
      /\ \A a \in Counted(m) : Tip(f, next, a) = Ind(f.ans, a) /\ Bal(m, a) \in Nat
  BY <1>1, <1>2, <1>3, LeavingFacts
<1>5. next2.do = "return" /\ next2.obj = f.ans
  BY <1>2 DEF Return
<1>6. Falls(m, p, base) /\ Counted(p) = Counted(m)
  BY <1>4 DEF Drained
<1>7. f.ans \in Addr(p)
  BY <1>4, <1>6, LaterAddr DEF Falls
<1>8. ASSUME NEW a \in Counted(p) PROVE Bal(p, a) + Tip(f, next, a) = Bal(m, a) + Back(next2, a)
  <2>1. Bal(p, a) = Bal(m, a) /\ Tip(f, next, a) = Ind(f.ans, a)
    BY <1>4, <1>6 DEF Drained
  <2>2. Back(next2, a) = Ind(f.ans, a)
    BY <1>5 DEF Back
  <2>. QED BY <2>1, <2>2
<1>9. Leaves(m, f, next, p, base, next2)
  BY <1>5, <1>6, <1>7, <1>8 DEF Leaves
<1>10. Top.fn # "program" /\ at.do # "end" /\ Go(p, Pop, next2)
  BY <1>1, <1>2, <1>3, <1>4
<1>. QED BY <1>2, <1>5, <1>9, <1>10, PopKeeps

\* The frame of an expansion.
Expanded(x, f) ==
  /\ DOMAIN f = FrameFields /\ f.fn = "expansion" /\ f.i = 0 /\ f.code = x /\ f.func = NULL
  /\ f.self = Nil /\ f.first = NULL /\ f.slice = x /\ f.args = NULL /\ f.ans = Nil

LEMMA MacroExpandsKeeps == ASSUME IInv, MacroExpands PROVE IInv'
<1>1. at = Resume /\ Top.fn = "function"
  BY DEF MacroExpands, BodyDone, Resumed
<1>2. PICK m, base, f, next : m = mem /\ base = Front(frames) /\ f = Top /\ next = at
  OBVIOUS
<1>3. PICK p : p = Left
  OBVIOUS
<1>4. /\ Drained(m, p, base) /\ World(m, base, f, next) /\ Good(m) /\ Straight(m)
      /\ Maybe(m, f.ans) /\ at.do # "end"
      /\ \A a \in Counted(m) : /\ Tip(f, next, a) = Ind(f.ans, a)
                               /\ Bal(m, a) \in Nat /\ Bal(m, a) >= Ind(f.ans, a)
  BY <1>1, <1>2, <1>3, LeavingFacts
<1>5. Falls(m, p, base) /\ Counted(p) = Counted(m) /\ Good(p) /\ \A a \in Counted(m) : Bal(p, a) = Bal(m, a)
  BY <1>4 DEF Drained
<1>6. CASE Type(mem, Top.ans) # "list"
  <2>1. PICK q : q = Lose(p, f.ans)
    OBVIOUS
  <2>2. Go(q, Pop, Throw)
    BY <1>2, <1>3, <1>6, <2>1 DEF MacroExpands
  <2>3. Loses(p, q, f.ans)
    BY <1>4, <1>5, <2>1, Losing
  <2>4. Falls(m, q, base) /\ Counted(q) = Counted(m)
    BY <1>5, <2>3, FallsMore DEF Loses
  <2>5. Throw.do = "throw"
    BY DEF Throw
  <2>6. ASSUME NEW a \in Counted(q) PROVE Bal(q, a) + Tip(f, next, a) = Bal(m, a) + Back(Throw, a)
    <3>1. Bal(q, a) \in Nat /\ Bal(q, a) + Ind(f.ans, a) = Bal(p, a) /\ Bal(p, a) = Bal(m, a)
      BY <1>5, <2>3, <2>4 DEF Loses
    <3>2. Back(Throw, a) = 0 /\ Tip(f, next, a) = Ind(f.ans, a) /\ Bal(m, a) \in Nat
      BY <1>4, <2>4, <2>5 DEF Back
    <3>. QED BY <3>1, <3>2
  <2>7. Leaves(m, f, next, q, base, Throw)
    BY <2>4, <2>5, <2>6 DEF Leaves
  <2>8. Top.fn # "program"
    BY <1>1
  <2>. QED BY <1>2, <1>4, <2>2, <2>5, <2>7, <2>8, PopKeeps
<1>7. CASE Type(mem, Top.ans) = "list"
  <2>1. PICK f2 : f2 = [Frame("expansion") EXCEPT !.code = f.ans, !.slice = f.ans]
    OBVIOUS
  <2>2. Go(p, With(f2), Resume)
    BY <1>2, <1>3, <1>7, <2>1 DEF MacroExpands
  <2>3. Expanded(f.ans, f2)
    BY <2>1 DEF Frame, Expanded, FrameFields
  <2>4. f.ans # NULL
    BY <1>2, <1>7 DEF Type
  <2>5. PICK g : g = base[Len(base)]
    OBVIOUS
  <2>6. Under(m, base, f, g) /\ f.fn # "program"
    BY <1>1, <1>2, <1>4, <2>5, UnderStep
  <2>7. Stable(m, base, f)
    BY <1>4 DEF World
  <2>8. IsSeq(base) /\ Chain(m, base) /\ Shelf(m, base)
    BY <2>7, StableFacts
  <2>9. PICK b : b = Front(base)
    OBVIOUS
  <2>10. base = Append(b, g) /\ Waits(g)
    BY <2>6, <2>9 DEF Under, Link
  <2>11. IsSeq(b)
    <3>1. base # <<>>
      BY <1>1, <1>2, <1>4, <2>6, WorldHere DEF Here, Rests
    <3>2. Len(base) > 0
      BY <2>8, <3>1, NullSeq
    <3>. QED BY <2>8, <2>9, <3>2, FrontLast
  <2>12. Nil # NULL
    BY DEF Nil, NULL
  <2>13. Fits(f2)
    BY <2>3, <2>4, <2>12 DEF Expanded, Fits, FrameNames
  <2>14. ASSUME FrameAt(p, g), Owns(p, f2) PROVE FrameAt(p, f2) /\ Link(p, g, f2)
    <3>1. Rely(p, f2)
      BY <2>3 DEF Expanded, Rely
    <3>2. Lent(p, f2)
      BY <2>3, <2>14 DEF Expanded, Lent, Owns, Maybe
    <3>3. Link(p, g, f2)
      BY <2>3, <2>10 DEF Expanded, Link
    <3>. QED BY <2>13, <2>14, <3>1, <3>2, <3>3 DEF FrameAt
  <2>15. Ready(p, f2, Resume) /\ Resume.do \in Dos /\ Resume.do # "return"
    BY DEF Resume, Ready, AtOK, Dos
  <2>16. ASSUME NEW a, a \notin {NULL, Nil} PROVE Bal(p, a) = Held(base, a) + Tip(f2, Resume, a)
    <3>1. Tip(f2, Resume, a) = Ind(f.ans, a)
      <4>1. HoldsBy(f2, a) /\ Hold(f2, a) \in Nat
        BY <2>13, <2>16, HoldOf, LocalsOcc
      <4>2. Ind(Nil, a) = 0
        BY <2>16 DEF Ind
      <4>3. Ind(f.ans, a) \in Nat
        BY DEF Ind
      <4>4. Hold(f2, a) = Ind(f.ans, a)
        BY <2>3, <4>1, <4>2, <4>3 DEF Expanded, HoldsBy
      <4>. QED BY <2>15, <4>1, <4>4 DEF Tip
    <3>2. Bal(m, a) = Held(base, a) + Tip(f, next, a)
      BY <1>4, <2>16 DEF World
    <3>3. CASE a \in Counted(m)
      BY <1>4, <1>5, <3>1, <3>2, <3>3
    <3>4. CASE a \notin Counted(m)
      <4>1. Bal(m, a) = 0 /\ Bal(p, a) = 0
        BY <1>4, <1>5, <2>16, <3>4, Nowhere
      <4>2. Tip(f, next, a) = Ind(f.ans, a)
        <5>1. HoldsBy(f, a) /\ Hold(f, a) \in Nat /\ Fits(f)
          BY <1>4, <2>16, WorldHere, HoldOf, LocalsOcc DEF Here
        <5>2. next.do # "return"
          BY <1>1, <1>2 DEF Resume
        <5>. QED BY <1>1, <1>2, <5>1, <5>2 DEF HoldsBy, Tip
      <4>. QED BY <3>1, <3>2, <4>1, <4>2
    <3>. QED BY <3>3, <3>4
  <2>17. ASSUME Straight(p) PROVE World(p, base, f2, Resume)
    <3>1. f2.fn # "function"
      BY <2>3 DEF Expanded
    <3>. QED BY <1>5, <2>8, <2>10, <2>11, <2>14, <2>15, <2>16, <2>17, <3>1, Onto
  <2>. QED BY <1>2, <1>4, <2>2, <2>15, <2>17, GoWith
<1>. QED BY <1>6, <1>7

LEMMA ExpansionReturnsKeeps == ASSUME IInv, ExpansionReturns PROVE IInv'
<1>1. at = Resume /\ Top.fn = "expansion" /\ Go(Release(mem, Top.slice), Pop, Return(Top.ans))
  BY DEF ExpansionReturns, BodyDone, Resumed
<1>2. at.do = "resume" /\ at.do # "end"
  BY <1>1 DEF Resume
<1>3. PICK m, base, f, next, next2 : m = mem /\ base = Front(frames) /\ f = Top /\ next = at /\ next2 = Return(f.ans)
  OBVIOUS
<1>4. Here(m, base, f, next) /\ World(m, base, f, next) /\ Good(m) /\ Fits(f)
  BY <1>2, <1>3, Now DEF Here
<1>5. PICK p : p = Release(m, f.slice)
  OBVIOUS
<1>6. Loses(m, p, f.slice)
  BY <1>4, <1>5, ReleasesTip
<1>7. Flows(m, p) /\ Counted(p) = Counted(m)
  BY <1>6 DEF Loses
<1>8. f.ans \in Addr(p)
  BY <1>4, <1>7, HereSited DEF Sited
<1>9. next2.do = "return" /\ next2.obj = f.ans
  BY <1>3 DEF Return
<1>10. ASSUME NEW a \in Counted(p) PROVE Bal(p, a) + Tip(f, next, a) = Bal(m, a) + Back(next2, a)
  <2>1. Bal(p, a) \in Nat /\ Bal(p, a) + Ind(f.slice, a) = Bal(m, a) /\ a \notin {NULL, Nil} /\ Bal(m, a) \in Nat
    BY <1>4, <1>6, <1>7, <1>10, Enough DEF Loses
  <2>2. HoldsBy(f, a) /\ Hold(f, a) \in Nat
    BY <1>4, <2>1, HoldOf, LocalsOcc
  <2>3. Hold(f, a) = Ind(f.slice, a) + Ind(f.ans, a)
    BY <1>1, <1>3, <2>2 DEF HoldsBy
  <2>4. Tip(f, next, a) = Hold(f, a)
    BY <1>2, <1>3, <2>2 DEF Tip
  <2>5. Back(next2, a) = Ind(f.ans, a)
    BY <1>9 DEF Back
  <2>6. Ind(f.ans, a) \in Nat /\ Ind(f.slice, a) \in Nat
    BY DEF Ind
  <2>. QED BY <2>1, <2>3, <2>4, <2>5, <2>6
<1>11. Parting(m, f, next, p, next2)
  BY <1>7, <1>8, <1>9, <1>10 DEF Parting
<1>12. Top.fn \notin {"program", "function"} /\ Go(p, Pop, next2)
  BY <1>1, <1>3, <1>5
<1>. QED BY <1>2, <1>3, <1>9, <1>11, <1>12, PartKeeps

-----------------------------------------------------------------------------
(* Every step keeps the invariant. *)

LEMMA RuntimeKeeps == ASSUME IInv, Runtime PROVE IInv'
<1>1. CASE Begin \/ NextObject \/ ObjectRead \/ ObjectEvaluated \/ ProgramEnds \/ Unwind \/ Catch
  BY <1>1, BeginKeeps, NextObjectKeeps, ObjectReadKeeps, ObjectEvaluatedKeeps, ProgramEndsKeeps, UnwindKeeps,
     CatchKeeps
<1>2. CASE ReadList \/ ReadItem \/ ItemRead \/ ListRead \/ ReadText \/ ReadNumber \/ ReadBoolean
  BY <1>2, ReadListKeeps, ReadItemKeeps, ItemReadKeeps, ListReadKeeps, ReadTextKeeps, ReadNumberKeeps,
     ReadBooleanKeeps
<1>3. CASE ReadEnd \/ ReadInvalid \/ ReadPast
  BY <1>3, ReadEndKeeps, ReadInvalidKeeps, ReadPastKeeps
<1>. QED BY <1>1, <1>2, <1>3 DEF Runtime

LEMMA EvaluationKeeps == ASSUME IInv, Evaluation PROVE IInv'
<1>1. CASE EvaluateValue \/ EvaluateToken \/ EvaluateUndefined \/ EvaluateNothing \/ EvaluateList
  BY <1>1, EvaluateValueKeeps, EvaluateTokenKeeps, EvaluateUndefinedKeeps, EvaluateNothingKeeps, EvaluateListKeeps
<1>2. CASE FirstEvaluated \/ SelfEvaluated \/ ArgumentUndefined \/ ArgumentKept \/ EvaluateArgument
  BY <1>2, FirstEvaluatedKeeps, SelfEvaluatedKeeps, ArgumentUndefinedKeeps, ArgumentKeptKeeps,
     EvaluateArgumentKeeps
<1>3. CASE ArgumentEvaluated \/ CallFirst \/ CallReturns \/ FunctionCall \/ NextStatement \/ StatementEvaluated
  BY <1>3, ArgumentEvaluatedKeeps, CallFirstKeeps, CallReturnsKeeps, FunctionCallKeeps, NextStatementKeeps,
     StatementEvaluatedKeeps
<1>4. CASE FunctionReturns \/ MacroExpands \/ ExpansionReturns
  BY <1>4, FunctionReturnsKeeps, MacroExpandsKeeps, ExpansionReturnsKeeps
<1>. QED BY <1>1, <1>2, <1>3, <1>4 DEF Evaluation

LEMMA OperationKeeps == ASSUME IInv, Operation PROVE IInv'
<1>1. CASE Refuse \/ Accumulate \/ Reduce \/ Compare \/ Equality \/ Not \/ Concatenate \/ Describe \/ Exit
  BY <1>1, RefuseKeeps, AccumulateKeeps, ReduceKeeps, CompareKeeps, EqualityKeeps, NotKeeps, ConcatenateKeeps,
     DescribeKeeps, ExitKeeps
<1>2. CASE Bind \/ IsBound \/ Set \/ Define \/ EvaluateArg \/ Freeze \/ MakeList
  BY <1>2, BindKeeps, IsBoundKeeps, SetKeeps, DefineKeeps, EvaluateArgKeeps, FreezeKeeps, MakeListKeeps
<1>3. CASE MakeFunction \/ ParametersEvaluated \/ Connect \/ NextOperand \/ OperandEvaluated \/ NoOperandLeft
  BY <1>3, MakeFunctionKeeps, ParametersEvaluatedKeeps, ConnectKeeps, NextOperandKeeps, OperandEvaluatedKeeps,
     NoOperandLeftKeeps
<1>4. CASE Choose \/ Chosen \/ Loop \/ ConditionEvaluated \/ LoopBodyEvaluated
  BY <1>4, ChooseKeeps, ChosenKeeps, LoopKeeps, ConditionEvaluatedKeeps, LoopBodyEvaluatedKeeps
<1>5. CASE Get \/ SetProperty \/ Create \/ Clone \/ Patch \/ Wrap \/ Unwrap
  BY <1>5, GetKeeps, SetPropertyKeeps, CreateKeeps, CloneKeeps, PatchKeeps, WrapKeeps, UnwrapKeeps
<1>. QED BY <1>1, <1>2, <1>3, <1>4, <1>5 DEF Operation

LEMMA StutterKeeps == ASSUME IInv, UNCHANGED vars PROVE IInv'
<1>1. input' = input /\ frames' = frames /\ at' = at /\ mem' = mem
  BY DEF vars
<1>2. Top' = Top
  BY <1>1 DEF Top
<1>. QED BY <1>1, <1>2 DEF IInv

LEMMA StepKeeps == ASSUME IInv, [Next]_vars PROVE IInv'
<1>1. CASE Runtime \/ Evaluation \/ Operation
  BY <1>1, RuntimeKeeps, EvaluationKeeps, OperationKeeps
<1>2. CASE UNCHANGED vars
  BY <1>2, StutterKeeps
<1>. QED BY <1>1, <1>2 DEF Next, Ended

(* Whatever a program does: the references of C locals are those of the    *)
(* frames and of what is returned, each frame has what its C function      *)
(* works with, and the scopes are those of the functions in progress.      *)
THEOREM Invariance == Spec => []IInv
<1>1. Init => IInv
  BY Starting
<1>2. IInv /\ [Next]_vars => IInv'
  BY StepKeeps
<1>. QED BY <1>1, <1>2, PTL DEF Spec

-----------------------------------------------------------------------------
(* What follows of the frames. *)

LEMMA EveryFrame ==
  ASSUME IInv, NEW i \in DOMAIN frames, NEW f, f = frames[i]
  PROVE  /\ Good(mem) /\ FrameAt(mem, f)
         /\ \A k \in DOMAIN Locals(f) : Maybe(mem, Locals(f)[k])
         /\ Maybe(mem, f.code) /\ Maybe(mem, f.func)
<1>1. Stable(mem, Front(frames), Top) /\ IsSeq(frames) /\ Len(frames) > 0
  BY DEF IInv
<1>2. frames = Append(Front(frames), Top)
  BY <1>1, FrontLast DEF Top
<1>3. Chain(mem, frames) /\ Good(mem)
  BY <1>1, <1>2 DEF Stable
<1>4. FrameAt(mem, f)
  BY <1>3 DEF Chain
<1>5. Owns(mem, f) /\ Lent(mem, f)
  BY <1>4 DEF FrameAt
<1>6. DOMAIN Locals(f) = 1 .. 5
  BY DEF Locals
<1>7. \A k \in 1 .. 5 : Locals(f)[k] \in {f.self, f.first, f.slice, f.args, f.ans}
  BY DEF Locals
<1>. QED BY <1>3, <1>4, <1>5, <1>6, <1>7 DEF Owns, Lent

\* Wherever a program is, until it dies or goes astray.
LEMMA Anywhere ==
  ASSUME IInv
  PROVE  /\ Good(mem) /\ Stable(mem, Front(frames), Top) /\ IsSeq(frames) /\ IsSeq(Front(frames))
         /\ frames = Append(Front(frames), Top)
         /\ Chain(mem, frames) /\ Depth(mem, frames) /\ Shelf(mem, frames) /\ Secure(mem)
         /\ at \notin {End("null"), End("stray")} => World(mem, Front(frames), Top, at)
<1>1. Stable(mem, Front(frames), Top) /\ IsSeq(frames) /\ Len(frames) > 0
  BY DEF IInv
<1>2. frames = Append(Front(frames), Top)
  BY <1>1, FrontLast DEF Top
<1>. QED BY <1>1, <1>2, StableFacts DEF IInv, Stable

LEMMA ObjectIsOK ==
  ASSUME NEW o \in Range(mem.heap), Good(mem)
  PROVE  ObjectOK(o)
<1>1. PICK x \in DOMAIN mem.heap : o = mem.heap[x]
  BY DEF Range
<1>2. Shape(mem) /\ Sound(mem, o)
  BY <1>1 DEF Good, Shape
<1>3. o.count \in Nat /\ o.lost \in Nat
  BY <1>2 DEF Sound
<1>4. Range(Owned(mem, o)) \subseteq Address
  <2>1. ASSUME NEW s \in Slots(o) PROVE At(mem, o, s) \in Addr(mem)
    BY <1>1, <1>2, OwnedAlive, Addresses DEF Good, Alive
  <2>2. DOMAIN Owned(mem, o) = Slots(o) /\ \A s \in Slots(o) : Owned(mem, o)[s] = At(mem, o, s)
    BY DEF Owned
  <2>. QED BY <2>1, <2>2 DEF Range, Addr, Address
<1>5. Range(o.closure) \subseteq DOMAIN mem.bindings
  BY <1>2 DEF Sound, Table, Range
<1>6. CASE o.count = 0
  <2>1. o.type = "gone"
    BY <1>2, <1>6 DEF Sound, Empty
  <2>. QED BY <1>3, <1>4, <1>5, <2>1 DEF ObjectOK
<1>7. CASE o.count # 0
  <2>1. Alive(mem, x)
    BY <1>1, <1>3, <1>7 DEF Alive, Count
  <2>2. Kind(mem, o)
    BY <1>1, <2>1 DEF Good
  <2>3. CASE o.type = "number"
    BY <1>3, <1>4, <1>5, <2>2, <2>3 DEF Kind, ObjectOK, Numbers
  <2>4. CASE o.type \in {"boolean", "list"}
    BY <1>3, <1>4, <1>5, <2>2, <2>4 DEF Kind, ObjectOK
  <2>5. CASE o.type = "token"
    BY <1>3, <1>4, <1>5, <2>2, <2>5 DEF Kind, ObjectOK
  <2>6. CASE o.type = "function"
    BY <1>3, <1>4, <1>5, <2>2, <2>6 DEF Kind, ObjectOK
  <2>7. CASE o.type \notin {"number", "boolean", "list", "token", "function"}
    <3>1. o.type \in {"string", "object"}
      BY <2>2, <2>7 DEF Kind
    <3>. QED BY <1>3, <1>4, <1>5, <3>1 DEF ObjectOK
  <2>. QED BY <2>3, <2>4, <2>5, <2>6, <2>7
<1>. QED BY <1>6, <1>7

(* An address in an object, a variable or a C local is of an object that   *)
(* was created, and what a function has as parameters and statements are   *)
(* lists, whatever the program gave it (solfunc.h, solop.c:237-282).       *)
THEOREM TypeCorrect == Spec => []TypeOK
<1>1. IInv => TypeOK
  <2>. SUFFICES ASSUME IInv PROVE TypeOK
    OBVIOUS
  <2>1. Good(mem) /\ Shape(mem)
    BY Anywhere DEF Good
  <2>2. \A a \in DOMAIN mem.heap : ObjectOK(mem.heap[a])
    BY <2>1, ObjectIsOK DEF Range
  <2>3. Range(mem.bindings) \subseteq Address
    BY <2>1 DEF Shape, Range, Addr, Address
  <2>4. \A i \in DOMAIN mem.scopes : Range(mem.scopes[i]) \subseteq DOMAIN mem.bindings
    BY <2>1 DEF Shape, Table, Range
  <2>5. ASSUME NEW i \in DOMAIN frames
        PROVE  Range(Locals(frames[i])) \cup {frames[i].code, frames[i].func} \subseteq Address
    <3>1. PICK f : f = frames[i]
      OBVIOUS
    <3>2. /\ \A k \in DOMAIN Locals(f) : Maybe(mem, Locals(f)[k])
          /\ Maybe(mem, f.code) /\ Maybe(mem, f.func)
      BY <2>5, <3>1, EveryFrame
    <3>3. \A a : Maybe(mem, a) => a \in Address
      BY <2>1, MaybeAddr DEF Addr, Address
    <3>. QED BY <3>1, <3>2, <3>3 DEF Range
  <2>6. input \in Seq(Byte) /\ at.do \in Dos
    BY DEF IInv
  <2>. QED BY <2>2, <2>3, <2>4, <2>5, <2>6 DEF TypeOK, Dos
<1>. QED BY <1>1, Invariance, PTL

(* The count of an object is the references that objects, scopes and C     *)
(* locals own, those that locals took with them, and those of the runtime  *)
(* itself: whatever a function or operator takes over, passes on, returns  *)
(* or throws away, and wherever an error leaves it, until the process dies *)
(* or goes astray (sol.c:150-228, solfunc.c:28-74, solop.c).               *)
THEOREM ReferencesCounted == Spec => []ObjectCount
<1>1. IInv => ObjectCount
  <2>. SUFFICES ASSUME IInv, at \notin {End("null"), End("stray")}, NEW a \in DOMAIN mem.heap \ {Nil}
                PROVE  mem.heap[a].count =
                         Occurrences(OwnedBy(mem, DOMAIN mem.heap), a) + Occurrences(ScopeRefs(mem), a)
                           + Occurrences(LocalRefs(frames), a) + Occurrences(ReturnRefs, a)
                           + mem.heap[a].lost + (IF a \in DOMAIN Kept THEN Kept[a] ELSE 0)
    BY DEF ObjectCount
  <2>1. PICK base, f : base = Front(frames) /\ f = Top
    OBVIOUS
  <2>2. Good(mem) /\ IsSeq(base) /\ frames = Append(base, f) /\ World(mem, base, f, at)
    BY <2>1, Anywhere
  <2>3. a \in Counted(mem) /\ a \notin {NULL, Nil}
    BY <2>2, Addresses DEF Counted, Good
  <2>4. Bal(mem, a) = Held(base, a) + Tip(f, at, a)
    BY <2>2, <2>3 DEF World
  <2>5. Held(frames, a) = Held(base, a) + Hold(f, a) /\ Held(base, a) \in Nat /\ Hold(f, a) \in Nat
    BY <2>2, HeldMore
  <2>6. Tip(f, at, a) = Hold(f, a) + Occurrences(ReturnRefs, a) /\ Occurrences(ReturnRefs, a) \in Nat
    <3>1. CASE at.do = "return"
      <4>1. ReturnRefs = <<at.obj>>
        BY <3>1 DEF ReturnRefs
      <4>2. Occurrences(ReturnRefs, a) = Ind(at.obj, a)
        BY <4>1, OccOne
      <4>. QED BY <3>1, <4>2 DEF Tip, Ind
    <3>2. CASE at.do # "return"
      <4>1. ReturnRefs = <<>>
        BY <3>2 DEF ReturnRefs
      <4>2. Occurrences(ReturnRefs, a) = 0
        BY <4>1, OccNone
      <4>. QED BY <2>5, <3>2, <4>2 DEF Tip
    <3>. QED BY <3>1, <3>2
  <2>7. Bal(mem, a) = Count(mem, a) - HeapOcc(mem, a) - ScopeOcc(mem, a) - Lost(mem, a) - Keeps(a)
    BY <2>3 DEF Bal, Balance
  <2>8. Count(mem, a) \in Nat /\ HeapOcc(mem, a) \in Nat /\ ScopeOcc(mem, a) \in Nat /\ Lost(mem, a) \in Nat
        /\ Keeps(a) \in Nat
    BY <2>2, BalanceType DEF Good
  <2>9. Count(mem, a) = HeapOcc(mem, a) + ScopeOcc(mem, a) + Held(frames, a) + Occurrences(ReturnRefs, a)
                          + Lost(mem, a) + Keeps(a)
    BY <2>4, <2>5, <2>6, <2>7, <2>8
  <2>. QED BY <2>9 DEF Count, HeapOcc, ScopeOcc, Held, Lost, Keeps
<1>. QED BY <1>1, Invariance, PTL

\* What is done next uses what lives.
LEMMA NextAlive ==
  ASSUME IInv
  PROVE  /\ at.do \in {"evaluate", "return"} => Maybe(mem, at.obj)
         /\ at.do = "call" => Maybe(mem, at.func) /\ Maybe(mem, at.args) /\ Maybe(mem, at.self)
<1>1. CASE at.do = "end"
  BY <1>1
<1>2. CASE at.do # "end"
  <2>1. World(mem, Front(frames), Top, at)
    BY <1>2, Now DEF Here
  <2>2. ASSUME at.do = "call" PROVE Maybe(mem, at.func) /\ Maybe(mem, at.args) /\ Maybe(mem, at.self)
    <3>1. CallOK(mem, Top, at, mem)
      BY <2>1, <2>2, CallFacts
    <3>. QED BY <3>1 DEF CallOK, Is, Maybe
  <2>3. at.do = "evaluate" => Maybe(mem, at.obj)
    BY EvaluateFacts
  <2>4. at.do = "return" => Maybe(mem, at.obj)
    BY <2>1, LocalsLive
  <2>. QED BY <2>2, <2>3, <2>4
<1>. QED BY <1>1, <1>2

(* What C code holds without a reference of its own lives as long as it    *)
(* may be used: the function that runs and its statements, also when the   *)
(* program binds its name to something else meanwhile, the list that is    *)
(* evaluated, the arguments of a call, the closures among the scopes, and  *)
(* all that lives refers only to what lives                                *)
(* (sol.c:174-209, solfunc.c:34-54, solop.c:145, 265, 324-353).            *)
THEOREM NothingDangles == Spec => []Borrowed
<1>1. IInv => Borrowed
  <2>. SUFFICES ASSUME IInv PROVE Borrowed
    OBVIOUS
  <2>1. Good(mem) /\ Shape(mem) /\ IsSeq(frames) /\ Secure(mem)
    BY Anywhere DEF Good
  <2>2. ASSUME NEW a \in Range(OwnedBy(mem, DOMAIN mem.heap)) PROVE Maybe(mem, a)
    <3>1. PICK p \in DOMAIN OwnedBy(mem, DOMAIN mem.heap) : a = OwnedBy(mem, DOMAIN mem.heap)[p]
      BY <2>2 DEF Range
    <3>2. PICK x \in DOMAIN mem.heap : \E s \in Slots(mem.heap[x]) : p = <<x, s>>
      BY <3>1, OwnedFacts
    <3>3. PICK s \in Slots(mem.heap[x]) : p = <<x, s>>
      BY <3>2
    <3>4. a = At(mem, mem.heap[x], s)
      BY <3>1, <3>3, OwnedFacts
    <3>. QED BY <2>1, <3>4, OwnedAlive DEF Good, Maybe
  <2>3. ASSUME NEW a \in Range(LocalRefs(frames)) PROVE Maybe(mem, a)
    <3>1. Placed(LocalRefs(frames), frames)
      BY <2>1, LocalRefsFacts
    <3>2. PICK p \in DOMAIN LocalRefs(frames) : a = LocalRefs(frames)[p]
      BY <2>3 DEF Range
    <3>3. PICK i \in DOMAIN frames : \E k \in Five : p = <<i, k>>
      BY <3>1, <3>2 DEF Placed
    <3>4. PICK k \in Five : p = <<i, k>>
      BY <3>3
    <3>5. a = Locals(frames[i])[k]
      BY <3>1, <3>2, <3>4 DEF Placed
    <3>6. k \in DOMAIN Locals(frames[i])
      BY DEF Five, Locals
    <3>. QED BY <3>5, <3>6, EveryFrame
  <2>4. ASSUME NEW i \in DOMAIN mem.scopes, NEW k \in DOMAIN mem.scopes[i]
        PROVE  Maybe(mem, mem.bindings[mem.scopes[i][k]])
    <3>1. CASE i \in OwnScopes(mem)
      BY <2>1, <3>1, ScopedAlive DEF Good, Maybe
    <3>2. CASE i \notin OwnScopes(mem)
      <4>1. Follows(mem, mem)
        BY <2>1, FollowsSelf
      <4>. QED BY <2>1, <3>2, <4>1 DEF Secure, Maybe
    <3>. QED BY <3>1, <3>2
  <2>5. ASSUME NEW i \in DOMAIN frames PROVE Maybe(mem, frames[i].code) /\ Maybe(mem, frames[i].func)
    BY EveryFrame
  <2>6. PICK next : next = CASE at.do \in {"evaluate", "return"} -> {at.obj}
                             [] at.do = "call" -> {at.func, at.args, at.self}
                             [] OTHER -> {}
    OBVIOUS
  <2>7. \A a \in next : Maybe(mem, a)
    <3>1. CASE at.do \in {"evaluate", "return"}
      BY <2>6, <3>1, NextAlive
    <3>2. CASE at.do = "call"
      BY <2>6, <3>2, NextAlive
    <3>3. CASE at.do \notin {"evaluate", "return", "call"}
      BY <2>6, <3>3
    <3>. QED BY <3>1, <3>2, <3>3
  <2>8. \A a : Maybe(mem, a) /\ a # NULL => mem.heap[a].count > 0
    BY DEF Maybe, Alive, Count
  <2>9. ASSUME NEW a \in UNION {{mem.bindings[b] : b \in Range(mem.scopes[i])} : i \in DOMAIN mem.scopes}
        PROVE  Maybe(mem, a)
    <3>1. PICK i \in DOMAIN mem.scopes : a \in {mem.bindings[b] : b \in Range(mem.scopes[i])}
      OBVIOUS
    <3>2. PICK k \in DOMAIN mem.scopes[i] : a = mem.bindings[mem.scopes[i][k]]
      BY <3>1 DEF Range
    <3>. QED BY <2>4, <3>2
  <2>10. ASSUME NEW a \in UNION {{frames[i].code, frames[i].func} : i \in DOMAIN frames} PROVE Maybe(mem, a)
    BY <2>5
  <2>. QED BY <2>2, <2>3, <2>6, <2>7, <2>8, <2>9, <2>10 DEF Borrowed
<1>. QED BY <1>1, Invariance, PTL

(* The scopes are those of the functions in progress, each over its        *)
(* closure, and the global one: an error on its way out takes away what    *)
(* the functions that it leaves had pushed (solfunc.c:37-60).              *)
THEOREM ScopesFollow == Spec => []ScopesMatch
<1>1. IInv => ScopesMatch
  <2>. SUFFICES ASSUME IInv PROVE ScopesMatch
    OBVIOUS
  <2>1. Depth(mem, frames) /\ Shelf(mem, frames)
    BY Anywhere
  <2>2. \A h : Functions(h) = FunctionsIn(frames, h)
    BY DEF Functions, FunctionsIn
  <2>. QED BY <2>1, <2>2 DEF ScopesMatch, Depth, Shelf, Calls
<1>. QED BY <1>1, Invariance, PTL

(* A length below the capacity of a form is read back from it as it was    *)
(* written, with nothing of the program that follows, although the widest  *)
(* form has 60 bits and keeps 28 (runtime.c:276-312).                      *)
THEOREM LengthsKept == Spec => []LengthsRead
<1>1. IInv => LengthsRead
  <2>. SUFFICES ASSUME IInv, NEW form \in Forms, NEW n \in {k \in Edges : k < Capacity[form]}
                PROVE  LET bytes == WriteLength(n, form) \o input IN
                       LengthType(bytes) = form /\ Length(bytes) = n /\ AfterLength(bytes) = input
    BY DEF LengthsRead
  <2>1. n \in Nat /\ n < Capacity[form]
    BY DEF Edges
  <2>2. input \in Seq(Byte)
    BY DEF IInv
  <2>3. ReadBack(WriteLength(n, form) \o input, n, form, input)
    BY <2>1, <2>2, LengthReadBack
  <2>. QED BY <2>3 DEF ReadBack
<1>. QED BY <1>1, Invariance, PTL
=============================================================================
