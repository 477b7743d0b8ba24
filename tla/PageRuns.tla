------------------------------ MODULE PageRuns ------------------------------
(***************************************************************************)
(* Runs of free pages in the page array of one arena: "used" is the set of *)
(* the indices with CX_PAGE_OCCUPIED, "size" the length of the array.      *)
(***************************************************************************)
EXTENDS Integers

(* A run of n free pages that starts at index s.                           *)
IsFreeRun(used, size, s, n) ==
  \A i \in s .. s + n - 1 : i \in 0 .. size - 1 /\ i \notin used

(* The runs allocate_contiguous can find: the loop compares the length of  *)
(* a run with the count only when it looks at the page AFTER the run, so a *)
(* run that ends with the last page of the arena is not among them.        *)
(* ContigScan derives this set from the loop.                              *)
FoundRuns(used, size, n) ==
  {s \in 0 .. size - 1 : s + n \in 0 .. size - 1 /\ IsFreeRun(used, size, s, n)}
=============================================================================
