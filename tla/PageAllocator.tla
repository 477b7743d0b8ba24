---------------------------- MODULE PageAllocator ----------------------------
(***************************************************************************)
(* What a physical page allocator promises its callers, each call one      *)
(* step: a page is available or belongs to one caller; taking pages        *)
(* returns either as many as were asked for or all that an arena has; what *)
(* a caller gives back is available again.  core/mm/pmm_node.cc implements *)
(* this (PmmNode).                                                         *)
(***************************************************************************)
EXTENDS Integers, FiniteSets

CONSTANTS
  Arena,     \* arenas
  Caller,    \* holders of pages
  PagesOf(_), \* the pages of an arena
  MaxCount   \* bound: the largest request

VARIABLES
  known,     \* arenas added so far
  avail,     \* pages that can be handed out
  owned      \* the pages each caller has

absVars == <<known, avail, owned>>

Init ==
  /\ known = {}
  /\ avail = {}
  /\ owned = [c \in Caller |-> {}]

(* An arena brings the pages that were not in use when it was added.       *)
Add(a) ==
  /\ a \notin known
  /\ known' = known \cup {a}
  /\ \E S \in SUBSET PagesOf(a) : avail' = avail \cup S
  /\ UNCHANGED owned

(* A request for n pages is met in full, or with the rest of one arena.    *)
Take(c, n) ==
  /\ owned[c] = {}
  /\ \E a \in known : \E S \in SUBSET (avail \cap PagesOf(a)) :
       /\ S # {}
       /\ Cardinality(S) <= n
       /\ Cardinality(S) < n => S = avail \cap PagesOf(a)
       /\ avail' = avail \ S
       /\ owned' = [owned EXCEPT ![c] = S]
  /\ UNCHANGED known

Give(c) ==
  /\ avail' = avail \cup owned[c]
  /\ owned' = [owned EXCEPT ![c] = {}]
  /\ UNCHANGED known

Next ==
  \/ \E a \in Arena : Add(a)
  \/ \E c \in Caller, n \in 1 .. MaxCount : Take(c, n)
  \/ \E c \in Caller : Give(c)

Spec == Init /\ [][Next]_absVars
=============================================================================
