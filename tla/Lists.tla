---------------------------------- MODULE Lists ----------------------------------
(* Two lists that several modules need: numbers in their order, and the    *)
(* elements of a list that pass a test.  The provers have no definition of *)
(* SortSeq and SelectSeq, which would be the other way to write them.      *)
EXTENDS Integers, SequencesExt

Ascending(numbers) ==
  [k \in 1..Cardinality(numbers) |->
     CHOOSE n \in numbers : Cardinality({ m \in numbers : m < n }) = k - 1]

Filter(seq, Test(_)) ==
  FoldLeft(LAMBDA kept, e : IF Test(e) THEN Append(kept, e) ELSE kept, << >>, seq)
=============================================================================
