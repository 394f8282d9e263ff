---------------------------- MODULE SolSequences ----------------------------
(***************************************************************************)
(* What sollist.h promises: a list is a sequence of objects, indexed from  *)
(* 0.  Nothing is said of nodes.                                           *)
(***************************************************************************)
EXTENDS Integers, Sequences

CONSTANTS Lists, Values, NoList, None

VARIABLES
  contents,  \* contents[l]: the elements of list l, or NoList if it does not exist
  result     \* what the last call returned, None if nothing

vars == <<contents, result>>

\* The index of the first occurrence of v in s, or -1.
IndexIn(s, v) ==
  IF \E i \in DOMAIN s : s[i] = v
    THEN CHOOSE i \in 0 .. Len(s) - 1 : s[i + 1] = v /\ \A j \in 1 .. i : s[j] # v
    ELSE -1

Existing == {l \in Lists : contents[l] # NoList}

Set(l, s, r) == contents' = [contents EXCEPT ![l] = s] /\ result' = r

Init == contents = [l \in Lists |-> NoList] /\ result = None

\* sol_list_create, and the lists that the slices return.
Create(l) == contents[l] = NoList /\ Set(l, <<>>, None)

Slice(l, m, start, end) ==
  /\ contents[m] = NoList
  /\ start <= end /\ end <= Len(contents[l])
  /\ Set(m, SubSeq(contents[l], start + 1, end), None)

Insert(l, v, i) ==
  Set(l, SubSeq(contents[l], 1, i) \o <<v>> \o SubSeq(contents[l], i + 1, Len(contents[l])), None)

Remove(l, i) ==
  /\ i < Len(contents[l])
  /\ Set(l, SubSeq(contents[l], 1, i) \o SubSeq(contents[l], i + 2, Len(contents[l])),
         contents[l][i + 1])

Get(l, i) ==
  /\ i < Len(contents[l])
  /\ result' = contents[l][i + 1] /\ UNCHANGED contents

IndexOf(l, v) == result' = IndexIn(contents[l], v) /\ UNCHANGED contents

Destroy(l) == Set(l, NoList, None)

Next ==
  \/ \E l \in Lists : Create(l)
  \/ \E l \in Existing :
       \/ \E v \in Values : IndexOf(l, v)
       \/ \E i \in 0 .. Len(contents[l]) :
            \/ \E v \in Values : Insert(l, v, i)
            \/ Remove(l, i)
            \/ Get(l, i)
            \/ \E m \in Lists, j \in 0 .. Len(contents[l]) : Slice(l, m, i, j)
       \/ Destroy(l)

Spec == Init /\ [][Next]_vars
=============================================================================
