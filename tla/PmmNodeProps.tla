----------------------------- MODULE PmmNodeProps -----------------------------
(***************************************************************************)
(* Correctness properties of the page allocator PmmNode.                   *)
(***************************************************************************)
EXTENDS PmmNode

(* The loop over the bitmap indexes the page array with the frame number   *)
(* and not with the distance from the base.  platform.cc gives a bitmap    *)
(* only with kmap, which starts at frame 0.                                *)
ASSUME BitmapAssumption ==
  \A a \in Arena : \A bt \in Bitmaps[a] : bt = {} \/ Base[a] = 0

Op == {"idle", "fault", "load", "allocate", "contiguous", "free"}

CallRecord ==
  [op : {"none"}]
    \cup [op : {"load"}, arena : Arena, i : Nat, bt : SUBSET Nat]
    \cup [op : {"allocate"}, caller : Caller, cnt : Nat]
    \cup [op : {"contiguous"}, caller : Caller, cnt : Nat, arena : Arena, idx : Nat]
    \cup [op : {"free"}, caller : Caller]

(* The type of every variable: lists are sequences of pages, and a free    *)
(* list only ever has pages of its own arena.                              *)
TypeOK ==
  /\ arena_list \in Seq(Arena)
  /\ occupied \subseteq Page
  /\ free_list \in [Arena -> Seq(Page)]
  /\ \A a \in Arena : ToSet(free_list[a]) \subseteq PagesOf(a)
  /\ free \in [Arena -> Int]
  /\ held \in [Caller -> Seq(Page)]
  /\ reserved \subseteq Page
  /\ null_store \in BOOLEAN
  /\ pc \in Op
  /\ call \in CallRecord
  /\ pc \in {"idle", "fault"} <=> call.op = "none"
  /\ call.op # "none" => pc = call.op
  /\ head \in Seq(Page)
  /\ ret \in Nat

(* The counter arena->free is the length of the free list at every step of *)
(* every loop: prealloc_checks, postalloc_checks and postfree_checks of    *)
(* tests/unit_nodealloc.cc compare the two between calls.                  *)
CountsMatch == \A a \in Arena : free[a] = Len(free_list[a])

(* No list has a page twice, and no page is on two lists: a page that      *)
(* allocate handed out belongs to one caller until free.                   *)
Exclusive ==
  /\ \A a \in Arena : IsInjective(free_list[a])
  /\ \A c \in Caller : IsInjective(held[c])
  /\ IsInjective(head)
  /\ \A a \in Arena : ToSet(free_list[a]) \cap ToSet(head) = {}
  /\ \A a \in Arena, c \in Caller : ToSet(free_list[a]) \cap ToSet(held[c]) = {}
  /\ \A c \in Caller : ToSet(held[c]) \cap ToSet(head) = {}
  /\ \A c, d \in Caller : c # d => ToSet(held[c]) \cap ToSet(held[d]) = {}

OnList(p) ==
  \/ p \in ToSet(free_list[p[1]])
  \/ p \in ToSet(head)
  \/ \E c \in Caller : p \in ToSet(held[c])

(* No page is lost and no page the boot bitmap marked is handed out: the   *)
(* pages of the added arenas that are on a list are exactly the others,    *)
(* whatever was allocated and freed since.                                 *)
NoneLost ==
  pc # "load" =>
    \A a \in ToSet(arena_list) : \A p \in PagesOf(a) :
      OnList(p) <=> p \notin reserved

(* CX_PAGE_OCCUPIED, which allocate_contiguous searches, says of a page    *)
(* exactly that it is not on the free list, which allocate uses.           *)
FlagsMatch ==
  \A a \in ToSet(arena_list) : \A p \in PagesOf(a) :
    p \in occupied <=> p \notin ToSet(free_list[a])

(* allocate_contiguous returns the number of pages asked for, adjacent and *)
(* lowest first.                                                           *)
ContiguousResult ==
  [][pc = "contiguous" /\ pc' # pc =>
       LET list == held'[call.caller]
       IN /\ ret = call.cnt
          /\ Len(list) = call.cnt
          /\ \A i \in 1 .. Len(list) - 1 : Frame(list[i + 1]) = Frame(list[i]) + 1]_vars

(* A short count from allocate means that the arena the search starts with *)
(* has been emptied: no page of it is left on its free list.  And the      *)
(* store through NULL comes of an allocation that found nothing, or of a   *)
(* free of nothing; never of one that has something to return.             *)
ShortMeansEmpty ==
  [][/\ pc = "allocate" /\ pc' # pc /\ ret < call.cnt /\ arena_list # <<>> =>
          free_list[Head(arena_list)] = <<>>
     /\ null_store' # null_store =>
          /\ head = <<>> /\ held' = held
          /\ pc = "allocate" => arena_list = <<>> \/ free_list[Head(arena_list)] = <<>>
          /\ pc = "contiguous" => ret = 0]_vars

(* Each call as one step of PageAllocator: the pages in a call's own list  *)
(* are still available until an allocation returns and available again     *)
(* from the moment a free begins; an arena counts once its bitmap is read. *)
Loaded == ToSet(arena_list) \ (IF pc = "load" THEN {call.arena} ELSE {})

Avail == (UNION {ToSet(free_list[a]) : a \in Loaded}) \cup ToSet(head)
Owned == [c \in Caller |-> ToSet(held[c])]

Abstract == INSTANCE PageAllocator WITH known <- Loaded, avail <- Avail, owned <- Owned

Implements == Abstract!Spec

(* Every loop of the allocator ends: a call returns, or halts the system   *)
(* in the page-fault handler.                                              *)
CallsEnd == pc \notin {"idle", "fault"} ~> pc \in {"idle", "fault"}

-----------------------------------------------------------------------------
(* The inductive invariant, in three parts.  The lists: between the steps  *)
(* of a call it says where the call has got to: add_arena has not yet      *)
(* taken the pages from bit i on off the free list, and                    *)
(* allocate_contiguous finds the rest of the run it chose still on it,     *)
(* because nothing but this call removes pages.                            *)
ListsInv ==
  /\ TypeOK
  /\ CountsMatch
  /\ Exclusive
  /\ FlagsMatch
  /\ \A a \in Arena : a \notin ToSet(arena_list) => free_list[a] = <<>>
  /\ \A c \in Caller : \A p \in ToSet(held[c]) : p[1] \in ToSet(arena_list)
  /\ \A p \in ToSet(head) : p[1] \in ToSet(arena_list)
  /\ pc \in {"idle", "fault", "load"} => head = <<>>
  /\ pc = "load" =>
       /\ call.arena \in ToSet(arena_list)
       /\ \A i \in Index(call.arena) :
            i >= call.i => <<call.arena, i>> \in ToSet(free_list[call.arena])
  /\ pc = "contiguous" =>
       /\ call.arena \in ToSet(arena_list)
       /\ ret <= call.cnt
       /\ \A j \in ret .. call.cnt - 1 :
            <<call.arena, call.idx - j>> \in ToSet(free_list[call.arena])

(* The result of an allocation while it grows: ret counts it, its pages    *)
(* are of the one arena the call takes from, and those of a run are in     *)
(* order, the lowest first.  The caller has nothing meanwhile.             *)
ResultInv ==
  /\ pc \in {"allocate", "contiguous"} =>
       /\ held[call.caller] = <<>>
       /\ call.cnt \in 1 .. MaxCount
       /\ ret = Len(head)
       /\ ret <= call.cnt
  /\ pc = "allocate" => \A p \in ToSet(head) : p[1] = Head(arena_list)
  /\ pc = "contiguous" =>
       \A k \in 1 .. Len(head) : head[k] = <<call.arena, call.idx - ret + k>>

(* The pages that must be on a list: all but the reserved ones, and while  *)
(* add_arena still reads the bitmap, also those it has not come to.        *)
Kept(p) ==
  \/ p \notin reserved
  \/ pc = "load" /\ p[1] = call.arena /\ p[2] >= call.i

PagesInv ==
  /\ \A p \in reserved : p[1] \in ToSet(arena_list)
  /\ pc = "load" =>
       /\ call.bt \in Bitmaps[call.arena]
       /\ \A p \in PagesOf(call.arena) : p \in reserved <=> Frame(p) \in call.bt
  /\ \A a \in ToSet(arena_list) : \A p \in PagesOf(a) : OnList(p) <=> Kept(p)

IInv == ListsInv /\ ResultInv /\ PagesInv
=============================================================================
