------------------------------ MODULE ListStore ------------------------------
(***************************************************************************)
(* Lists as the allocators use them: a head has the sequence of its nodes, *)
(* and a caller may take a whole list away and put it back.  LinkedList    *)
(* implements this with prev and next pointers.                            *)
(***************************************************************************)
EXTENDS Lists

CONSTANTS Anchor, Node, Caller

VARIABLES
  listed,  \* the nodes after each head
  taken    \* the list each caller took

Init ==
  /\ listed = [h \in Anchor |-> <<>>]
  /\ taken = [c \in Caller |-> <<>>]

OnSome(n) ==
  \/ \E h \in Anchor : n \in ToSet(listed[h])
  \/ \E c \in Caller : n \in ToSet(taken[c])

AddFirst(h, n) ==
  /\ ~OnSome(n)
  /\ listed' = [listed EXCEPT ![h] = ListAppend(@, n)]
  /\ UNCHANGED taken

(* A node goes right behind or right before the k-th one.                  *)
AddAt(h, k, n) ==
  /\ ~OnSome(n)
  /\ listed' = [listed EXCEPT ![h] = ListInsert(@, k, n)]
  /\ UNCHANGED taken

Drop(h, n) ==
  /\ n \in ToSet(listed[h])
  /\ listed' = [listed EXCEPT ![h] = ListRemove(@, n)]
  /\ UNCHANGED taken

Take(h, c) ==
  /\ taken[c] = <<>> /\ listed[h] # <<>>
  /\ taken' = [taken EXCEPT ![c] = listed[h]]
  /\ listed' = [listed EXCEPT ![h] = <<>>]

Put(h, c) ==
  /\ taken[c] # <<>> /\ listed[h] = <<>>
  /\ listed' = [listed EXCEPT ![h] = taken[c]]
  /\ taken' = [taken EXCEPT ![c] = <<>>]

Next ==
  \/ \E h \in Anchor, n \in Node :
       AddFirst(h, n) \/ Drop(h, n) \/ \E k \in 1 .. Len(listed[h]) + 1 : AddAt(h, k, n)
  \/ \E h \in Anchor, c \in Caller : Take(h, c) \/ Put(h, c)

Spec == Init /\ [][Next]_<<listed, taken>>
=============================================================================
