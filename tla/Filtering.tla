------------------------------- MODULE Filtering -------------------------------
(***************************************************************************)
(* A list with some of its elements left out, as a list comprehension or a *)
(* loop that removes elements does it.  A recursive function, and a set of *)
(* what is kept, where SelectSeq takes an operator: facts about it can be  *)
(* stated for all sets and proved.                                         *)
(***************************************************************************)
EXTENDS Naturals, Sequences

(* The elements of s that are in S, in their order. *)
Filter(s, S) ==
  LET kept[i \in 0..Len(s)] ==
        IF i = 0 THEN <<>>
        ELSE IF s[i] \in S THEN Append(kept[i - 1], s[i]) ELSE kept[i - 1]
  IN kept[Len(s)]
=============================================================================
