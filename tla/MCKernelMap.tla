---------------------------- MODULE MCKernelMap ----------------------------
(* Tables of six entries.  With one directory table 0 maps the first       *)
(* frames, tables 1 and 2 are the window, 3 and 4 the kernel's, table 5    *)
(* the directory itself.  With two, tables 0 and 1 map the first frames, 2 *)
(* and 3 are the window, 6 and 7 (in the other directory) the kernel's and *)
(* the last two the directories.                                           *)
EXTENDS KernelMapProps

(* Conventional memory and the rest, with one hole or three.               *)
MCRegionsLow == <<<<0, 2>>, <<4, 17>>>>
MCRegions == <<<<0, 2>>, <<4, 8>>, <<9, 11>>, <<13, 18>>>>

(* A segment of the image, and one with memory after the file's contents:  *)
(* apart, or sharing a page, which is then mapped twice.                   *)
Seg(page, pages, frame, bss) ==
  [page |-> page, pages |-> pages, frame |-> frame, bss |-> bss]
MCWindow == [d \in 1 .. 2 |-> 6 * d]
MCVirt == [d \in 1 .. 2 |-> 18 * d]

MCApart == <<Seg(1, 1, 5, FALSE), Seg(2, 1, 6, TRUE)>>
MCSegments == <<Seg(1, 1, 5, FALSE), Seg(1, 2, 5, TRUE)>>
=============================================================================
