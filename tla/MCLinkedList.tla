---------------------------- MODULE MCLinkedList ----------------------------
(* Two heads, four nodes and one caller: a list, a second one a node can   *)
(* move to, and one taken away; the nodes are interchangeable.             *)
EXTENDS LinkedList, TLC

Symmetry == Permutations(Node)
=============================================================================
