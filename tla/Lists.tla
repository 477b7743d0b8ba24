-------------------------------- MODULE Lists --------------------------------
(***************************************************************************)
(* The operations of lib/ebl/include/linked_list.h as operations on the    *)
(* sequence of the nodes after a list head, first node first.  LinkedList  *)
(* derives them from the pointer manipulations.                            *)
(***************************************************************************)
EXTENDS Integers, FiniteSets, SequencesExt

(* list_append(head, node) puts the node right after the head.             *)
ListAppend(s, node) == Cons(node, s)

(* list_insert(at, node) puts the node in front of the k-th one.           *)
ListInsert(s, k, node) == InsertAt(s, k, node)

(* list_remove(node) for a node that is on the list; the mutant leaves it. *)
ListRemoveNothing(s, node) == s
ListRemove(s, node) == RemoveAt(s, CHOOSE i \in DOMAIN s : s[i] = node)
=============================================================================
