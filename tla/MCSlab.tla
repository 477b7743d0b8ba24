------------------------------- MODULE MCSlab -------------------------------
(* Pages of sixteen units, four of them a slab's header: four objects of 2 *)
(* units in a slab, two of 4, one of 8, and objects of 16 units of which   *)
(* one fits in a slab of two pages.  The caches' own structures are objects*)
(* of 5 units, two in a slab.                                              *)
EXTENDS SlabProps
=============================================================================
