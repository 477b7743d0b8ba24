----------------------------- MODULE LinkedList -----------------------------
(***************************************************************************)
(* lib/ebl/include/linked_list.h, pointer by pointer.  A list_node_t has   *)
(* prev and next; a head is a node whose prev is itself, the last node's   *)
(* next is NULL.  A node that was removed keeps its pointers.  "taken" is  *)
(* what PmmNode does with the list it returns: the first node becomes its  *)
(* own head.                                                               *)
(***************************************************************************)
EXTENDS Integers, FiniteSets, Sequences

CONSTANTS
  Anchor,  \* list_head_t of arenas, caches and running calls
  Node,    \* list_node_t of pages, arenas and slabs
  Caller,  \* pointers callers keep a list in
  NULL

Cell == Anchor \cup Node

ASSUME LinkedListAssumption ==
  /\ IsFiniteSet(Cell) /\ Anchor \cap Node = {} /\ NULL \notin Cell

VARIABLES
  link,   \* prev and next of each cell
  first   \* the node a caller's pointer refers to

vars == <<link, first>>

Links == [Cell -> [prev : Cell \cup {NULL}, next : Cell \cup {NULL}]]

-----------------------------------------------------------------------------
(* INIT_LLIST *)
INIT_LLIST(l, a) == [l EXCEPT ![a] = [prev |-> a, next |-> NULL]]

(* list_append                                                             *)
list_append(l, head, node) ==
  LET m == IF l[head].next # NULL THEN [l EXCEPT ![l[head].next].prev = node] ELSE l
  IN [m EXCEPT ![node] = [prev |-> head, next |-> m[head].next], ![head].next = node]

(* list_insert before a node; before a head, the node becomes the head.    *)
(* The mutant does not change the node before.                             *)
list_insert_alone(l, at, node) ==
  [l EXCEPT ![node] = [prev |-> l[at].prev, next |-> at], ![at].prev = node]

list_insert(l, at, node) ==
  IF l[at].prev = at
  THEN [l EXCEPT ![node] = [prev |-> node, next |-> at], ![at].prev = node]
  ELSE [l EXCEPT ![node] = [prev |-> l[at].prev, next |-> at],
                 ![l[at].prev].next = node, ![at].prev = node]

(* list_remove; the mutant leaves the prev of the node after.              *)
list_remove_one_way(l, node) == [l EXCEPT ![l[node].prev].next = l[node].next]

list_remove(l, node) ==
  LET m == [l EXCEPT ![l[node].prev].next = l[node].next]
  IN IF m[node].next # NULL THEN [m EXCEPT ![m[node].next].prev = m[node].prev] ELSE m

(* The walks: following prev until it does not lead on, and the cells that *)
(* next leads to.  More steps than cells are never needed.                 *)
Steps == Cardinality(Cell)

list_begin(l, a) ==
  LET at[n \in 0 .. Steps] == IF n = 0 THEN a ELSE l[at[n - 1]].prev IN at[Steps]

After(l, a) ==
  LET at[n \in 0 .. Steps] ==
        IF n = 0 THEN a ELSE IF at[n - 1] = NULL THEN NULL ELSE l[at[n - 1]].next
      length == Cardinality({n \in 1 .. Steps : at[n] # NULL})
  IN [n \in 1 .. length |-> at[n]]

list_end(l, a) ==
  LET s == After(l, a) IN IF s = <<>> THEN a ELSE s[Len(s)]

list_count(l, a) == Len(After(l, list_begin(l, a)))

list_isempty(l, a) == l[list_begin(l, a)].next = NULL

-----------------------------------------------------------------------------
(* A cell nobody has set up may hold anything; the code initialises a node *)
(* before it is put on a list, or finds it on another one.                 *)
Init ==
  /\ link = [a \in Cell |-> [prev |-> a, next |-> NULL]]
  /\ first = [c \in Caller |-> NULL]

OnList(h) == {After(link, h)[n] : n \in DOMAIN After(link, h)}

(* The list of a caller: its first node and the nodes after it.            *)
Held(c) == IF first[c] = NULL THEN {} ELSE {first[c]} \cup
             {After(link, first[c])[n] : n \in DOMAIN After(link, first[c])}

Unlisted(n) == (\A h \in Anchor : n \notin OnList(h)) /\ (\A c \in Caller : n \notin Held(c))

AppendNode(h, n) ==
  /\ Unlisted(n)
  /\ link' = list_append(link, h, n)
  /\ UNCHANGED first

(* add_arena of PmmNode appends each page to the one before, after         *)
(* INIT_LLIST.                                                             *)
AppendAfter(h, at, n) ==
  /\ at \in OnList(h)
  /\ Unlisted(n)
  /\ link' = list_append(INIT_LLIST(link, n), at, n)
  /\ UNCHANGED first

InsertBefore(h, at, n) ==
  /\ at \in OnList(h)
  /\ Unlisted(n)
  /\ link' = list_insert(INIT_LLIST(link, n), at, n)
  /\ UNCHANGED first

RemoveNode(h, n) ==
  /\ n \in OnList(h)
  /\ link' = list_remove(link, n)
  /\ UNCHANGED first

(* The end of allocate: the first node is stored for the caller and its    *)
(* prev set to itself.  The head is a local: a later call sets it up again.*)
Detach(h, c) ==
  /\ first[c] = NULL /\ link[h].next # NULL
  /\ first' = [first EXCEPT ![c] = link[h].next]
  /\ link' = INIT_LLIST([link EXCEPT ![link[h].next].prev = link[h].next], h)

(* The beginning of free: pages->next = pglist; pglist->prev = pages.      *)
Attach(h, c) ==
  /\ first[c] # NULL /\ link[h].next = NULL
  /\ link' = [link EXCEPT ![h].next = first[c], ![first[c]].prev = h]
  /\ first' = [first EXCEPT ![c] = NULL]

Next ==
  \/ \E h \in Anchor, n \in Node :
       \/ AppendNode(h, n)
       \/ RemoveNode(h, n)
       \/ \E at \in Node : AppendAfter(h, at, n) \/ InsertBefore(h, at, n)
  \/ \E h \in Anchor, c \in Caller : Detach(h, c) \/ Attach(h, c)

Spec == Init /\ [][Next]_vars

-----------------------------------------------------------------------------
(* Every cell has both pointers.                                           *)
TypeOK == link \in Links /\ first \in [Caller -> Node \cup {NULL}]

(* The pointers spell sequences on which list_append, list_insert and      *)
(* list_remove do what Lists says, taking a list away and putting it back  *)
(* included: the allocators' models may use sequences.                     *)
TakenList(c) == IF first[c] = NULL THEN <<>> ELSE <<first[c]>> \o After(link, first[c])

Store == INSTANCE ListStore WITH
  listed <- [h \in Anchor |-> After(link, h)],
  taken <- [c \in Caller |-> TakenList(c)]

Implements == Store!Spec

(* prev is the inverse of next: list_remove needs nothing but the node to  *)
(* find its neighbours, whatever list it is on.                            *)
BackLinks ==
  /\ \A h \in Anchor : link[h].prev = h
  /\ \A c \in Caller : first[c] # NULL => link[first[c]].prev = first[c]
  /\ \A a \in Cell : (a \in Anchor \/ ~Unlisted(a)) /\ link[a].next # NULL
       => link[link[a].next].prev = a

(* The count, the emptiness and the ends of a list are the same from the   *)
(* head and from every node of it.                                         *)
CountAnywhere ==
  \A h \in Anchor :
    LET s == After(link, h)
    IN \A a \in OnList(h) \cup {h} :
         /\ list_count(link, a) = Len(s)
         /\ list_begin(link, a) = h
         /\ list_end(link, a) = IF s = <<>> THEN h ELSE s[Len(s)]
         /\ list_isempty(link, a) <=> s = <<>>

PointersInv == TypeOK /\ BackLinks /\ CountAnywhere
=============================================================================
