------------------------------- MODULE MCQsort -------------------------------
(***************************************************************************)
(* The quicksort harness on arrays of 7 elements of three values.  With    *)
(* MAX_THRESH scaled to 1, 7 elements give partitions of 3 and 4 whose    *)
(* halves are both long, so both push branches, the sentinel pop and the  *)
(* insertion sort all run, over every input, duplicates included.         *)
(***************************************************************************)
EXTENDS QsortHarness, TLC

MCVals == 1..3
=============================================================================
