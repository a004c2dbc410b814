------------------------------- MODULE Orders -------------------------------
(***************************************************************************)
(* Lists in ascending order: what SELECT ... ORDER BY id returns, what an  *)
(* INSERT of many rows appends, what a filter keeps of a slice.  InOrder   *)
(* says what SequencesExt's SetToSortSeq computes, in a form that can be   *)
(* reasoned about (SetToSortSeq rests on TLC's own SortSeq).               *)
(***************************************************************************)
EXTENDS Integers, Sequences, FiniteSets

Elems(s) == {s[i] : i \in DOMAIN s}

Ascending(s) == \A i, j \in DOMAIN s : i < j => s[i] < s[j]

\* The elements of a finite set of numbers, each once, the least first.
InOrder(S) == CHOOSE s \in [1..Cardinality(S) -> S] : Ascending(s) /\ Elems(s) = S
=============================================================================
