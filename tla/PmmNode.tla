------------------------------- MODULE PmmNode -------------------------------
(***************************************************************************)
(* The linked-list page allocator of the kernel, core/mm/pmm_node.cc.      *)
(*                                                                         *)
(* An arena is a range of physical page frames: it owns an array of page_t *)
(* structures (one per frame), a free list threaded through them, and a    *)
(* counter of the pages on that list.  A page_t is the pair <<arena, index *)
(* in arena->pages>>.  A list is the sequence of its nodes, first node     *)
(* first: list_append(head, n) puts n right AFTER the head, so it prepends.*)
(*                                                                         *)
(* One processor runs this code with interrupts disabled, so calls do not  *)
(* interleave.  Every loop iteration is a step of its own all the same:    *)
(* what a loop does is then an invariant of its steps, and PageAllocator   *)
(* is the atomic specification these steps implement.                      *)
(***************************************************************************)
EXTENDS Lists, PageRuns

CONSTANTS
  Arena,      \* the arena_t structures
  Caller,     \* the list_head_t* variables callers keep a page list in
  Size,       \* arena->size, in pages
  Base,       \* arena->base, in page frames
  Priority,   \* arena->priority
  Bitmaps,    \* the bitmaps (sets of occupied frames) add_arena may be given
              \* with an arena; the empty one stands for a NULL bitmap too
  MaxCount    \* bound: the largest page count a caller asks for

ASSUME PmmNodeAssumption ==
  /\ Size \in [Arena -> Nat]
  /\ Base \in [Arena -> Nat]
  /\ Priority \in [Arena -> Int]
  /\ Bitmaps \in [Arena -> SUBSET SUBSET Nat]
  /\ MaxCount \in Nat

Index(a) == 0 .. Size[a] - 1
PagesOf(a) == {a} \X Index(a)
Page == UNION {PagesOf(a) : a \in Arena}

(* ADDRESS_FROM_ARENA, in frames. *)
Frame(p) == Base[p[1]] + p[2]

VARIABLES
  arena_list,   \* PmmNode::arena_list
  occupied,     \* the pages whose flags have CX_PAGE_OCCUPIED
  free_list,    \* arena->free_list
  free,         \* arena->free
  held,         \* the list each caller's pointer refers to, <<>> when NULL
  reserved,     \* history: pages whose frame the bitmap marked when added
  null_store,   \* a store through a NULL list pointer has happened
  pc,           \* the loop that is running, "idle" between calls
  call,         \* arguments and loop variables of the running call
  head,         \* the list whose head is a local of the running call
  ret           \* the value of ret, and after a call what it returned

vars == <<arena_list, occupied, free_list, free, held, reserved, null_store,
          pc, call, head, ret>>

arenas == <<arena_list, occupied, free_list, free, reserved>>

(* What a call keeps in locals: caller and count, or arena and index.      *)
NoCall == [op |-> "none"]

-----------------------------------------------------------------------------
Init ==
  /\ arena_list = <<>>
  /\ occupied = {}
  /\ free_list = [a \in Arena |-> <<>>]
  /\ free = [a \in Arena |-> 0]
  /\ held = [c \in Caller |-> <<>>]
  /\ reserved = {}
  /\ null_store = FALSE
  /\ pc = "idle"
  /\ call = NoCall
  /\ head = <<>>
  /\ ret = 0

(***************************************************************************)
(* The result's first node is stored in *pages and its prev is set to it:  *)
(* with an empty result that is a store through NULL.  A hosted build      *)
(* faults.  In the kernel virtual page 0 is writable (the loader maps the  *)
(* first 4 MiB), so the store lands in physical page 0 and the call        *)
(* returns.                                                                *)
(***************************************************************************)
StoreThroughNull ==
  /\ null_store' = TRUE
  /\ pc' \in {"fault", "idle"}

(* The mutant gives the caller the list without its first page.            *)
ReturnRest(c, list) ==
  /\ held' = [held EXCEPT ![c] = IF list = <<>> THEN list ELSE Tail(list)]
  /\ call' = NoCall
  /\ head' = <<>>
  /\ IF list = <<>> THEN StoreThroughNull
                    ELSE pc' = "idle" /\ UNCHANGED null_store

Return(c, list) ==
  /\ held' = [held EXCEPT ![c] = list]
  /\ call' = NoCall
  /\ head' = <<>>
  /\ IF list = <<>> THEN StoreThroughNull
                    ELSE pc' = "idle" /\ UNCHANGED null_store

-----------------------------------------------------------------------------
(* add_arena                                                               *)

(* The arena goes before the first one of larger priority; when the search *)
(* runs off the end of the list, list_append puts it first.                *)
Enlist(a) ==
  LET larger == {k \in DOMAIN arena_list : Priority[arena_list[k]] > Priority[a]}
  IN \/ /\ larger = {}
        /\ arena_list' = ListAppend(arena_list, a)
     \/ \E k \in larger :
          /\ \A j \in larger : k <= j
          /\ arena_list' = ListInsert(arena_list, k, a)

(* The pages of an arena in the order the first loop puts them on the list;*)
(* the mutant counts them from one.                                        *)
FullListFromOne(a) == [k \in 1 .. Size[a] |-> <<a, k>>]
FullList(a) == [k \in 1 .. Size[a] |-> <<a, k - 1>>]

(* The page array is cleared and every page put on the free list in order; *)
(* then the loop over the bitmap starts at index base / ARCH_PAGE_SIZE.    *)
AddArena(a, bt) ==
  /\ pc = "idle"
  /\ a \notin ToSet(arena_list)
  /\ Enlist(a)
  /\ occupied' = occupied \ PagesOf(a)
  /\ free_list' = [free_list EXCEPT ![a] = FullList(a)]
  /\ free' = [free EXCEPT ![a] = Size[a]]
  /\ reserved' = reserved \cup {p \in PagesOf(a) : Frame(p) \in bt}
  /\ pc' = "load"
  /\ call' = [op |-> "load", arena |-> a, i |-> Base[a], bt |-> bt]
  /\ UNCHANGED <<held, null_store, head, ret>>

(* The condition of the loop over the bitmap; the mutant stops one short.  *)
BitsLeftShort == call.i < Size[call.arena] - 1
BitsLeft == call.i < Size[call.arena]

(* One iteration over the bitmap: bit i takes pages[i] off the list.       *)
LoadBit ==
  /\ pc = "load"
  /\ BitsLeft
  /\ call' = [call EXCEPT !.i = @ + 1]
  /\ LET a == call.arena
         p == <<a, call.i>>
     IN IF call.i \in call.bt
        THEN /\ free_list' = [free_list EXCEPT ![a] = ListRemove(@, p)]
             /\ occupied' = occupied \cup {p}
             /\ free' = [free EXCEPT ![a] = @ - 1]
        ELSE UNCHANGED <<free_list, occupied, free>>
  /\ UNCHANGED <<arena_list, held, reserved, null_store, pc, head, ret>>

LoadEnd ==
  /\ pc = "load"
  /\ ~BitsLeft
  /\ pc' = "idle"
  /\ call' = NoCall
  /\ UNCHANGED <<arenas, held, null_store, head, ret>>

-----------------------------------------------------------------------------
(* allocate                                                                *)

(* A caller's pointer is overwritten by the call, so a caller that has     *)
(* several lists outstanding is several members of Caller.                 *)
Begin(locals) ==
  /\ pc' = locals.op
  /\ call' = locals
  /\ head' = <<>>
  /\ ret' = 0
  /\ UNCHANGED <<arenas, held, null_store>>

(* A count of zero returns before anything is touched.                     *)
AllocateNone(c) ==
  /\ pc = "idle"
  /\ held[c] = <<>>
  /\ ret' = 0
  /\ UNCHANGED <<arenas, held, null_store, pc, call, head>>

Allocate(c, n) ==
  /\ pc = "idle"
  /\ held[c] = <<>>
  /\ n > 0
  /\ Begin([op |-> "allocate", caller |-> c, cnt |-> n])

(* The inner loop leaves the function (goto end) as soon as an arena has   *)
(* no page left, so only the first arena of the list is ever used.  The    *)
(* mutant never gives the last page away.                                  *)
HasPageButOne ==
  /\ arena_list # <<>>
  /\ free[Head(arena_list)] > 1

HasPage ==
  /\ arena_list # <<>>
  /\ free[Head(arena_list)] # 0
  /\ free_list[Head(arena_list)] # <<>>

AllocatePage ==
  /\ pc = "allocate"
  /\ ret < call.cnt
  /\ HasPage
  /\ LET a == Head(arena_list)
         p == Head(free_list[a])
     IN /\ free_list' = [free_list EXCEPT ![a] = Tail(@)]
        /\ occupied' = occupied \cup {p}
        /\ free' = [free EXCEPT ![a] = @ - 1]
        /\ head' = ListAppend(head, p)
  /\ ret' = ret + 1
  /\ UNCHANGED <<arena_list, held, reserved, null_store, pc, call>>

(* The mutant has no goto end: it looks at the exhausted arena again.      *)
AllocateSpins ==
  /\ pc = "allocate"
  /\ HasPage => ret = call.cnt
  /\ IF ret < call.cnt THEN UNCHANGED vars
                       ELSE Return(call.caller, head) /\ UNCHANGED <<arenas, ret>>

AllocateEnd ==
  /\ pc = "allocate"
  /\ HasPage => ret = call.cnt
  /\ Return(call.caller, head)
  /\ UNCHANGED <<arenas, ret>>

-----------------------------------------------------------------------------
(* allocate_contiguous                                                     *)

(* The indices whose page has CX_PAGE_OCCUPIED.                            *)
Used(a) == {i \in Index(a) : <<a, i>> \in occupied}

(* The first pages of the runs the search can find in an arena.            *)
Runs(a, n) == FoundRuns(Used(a), Size[a], n)

ContiguousMiss(c, n) ==
  /\ pc = "idle"
  /\ held[c] = <<>>
  /\ n > 0
  /\ \A k \in DOMAIN arena_list : Runs(arena_list[k], n) = {}
  /\ ret' = 0
  /\ UNCHANGED <<arenas, held, null_store, pc, call, head>>

(* The first arena of the list that has a run, and its first run; i counts *)
(* down from the last page of the run.                                     *)
Contiguous(c, n) ==
  /\ pc = "idle"
  /\ held[c] = <<>>
  /\ n > 0
  /\ \E k \in DOMAIN arena_list :
       LET a == arena_list[k]
       IN /\ \A j \in 1 .. k - 1 : Runs(arena_list[j], n) = {}
          /\ \E s \in Runs(a, n) :
               /\ \A r \in Runs(a, n) : s <= r
               /\ Begin([op |-> "contiguous", caller |-> c, cnt |-> n,
                         arena |-> a, idx |-> s + n - 1])

(* Pages are taken from the last one down, because list_append prepends;   *)
(* the mutant takes them in ascending order.                               *)
RunPageUp == <<call.arena, call.idx - call.cnt + 1 + ret>>
RunPage == <<call.arena, call.idx - ret>>

ContiguousPage ==
  /\ pc = "contiguous"
  /\ ret < call.cnt
  /\ LET a == call.arena
         p == RunPage
     IN /\ free_list' = [free_list EXCEPT ![a] = ListRemove(@, p)]
        /\ occupied' = occupied \cup {p}
        /\ free' = [free EXCEPT ![a] = @ - 1]
        /\ head' = ListAppend(head, p)
  /\ ret' = ret + 1
  /\ UNCHANGED <<arena_list, held, reserved, null_store, pc, call>>

ContiguousEnd ==
  /\ pc = "contiguous"
  /\ ret = call.cnt
  /\ Return(call.caller, head)
  /\ UNCHANGED <<arenas, ret>>

-----------------------------------------------------------------------------
(* free                                                                    *)

(* The caller's list is joined to a head on the stack.  *p is read here    *)
(* and set to the NULL end of the emptied list on return.  When the list   *)
(* is empty, pglist->prev = pages is a store through NULL and the loop     *)
(* does not run.                                                           *)
Free(c) ==
  /\ pc = "idle"
  /\ ret' = 0
  /\ held' = [held EXCEPT ![c] = <<>>]
  /\ head' = held[c]
  /\ IF held[c] = <<>>
     THEN StoreThroughNull /\ UNCHANGED call
     ELSE /\ pc' = "free"
          /\ call' = [op |-> "free", caller |-> c]
          /\ UNCHANGED null_store
  /\ UNCHANGED arenas

(* PAGE_IS_IN_ARENA holds of the arena whose pages[] has the page_t: a     *)
(* page of an arena that was never added would stop the model here.        *)
(* The mutant leaves CX_PAGE_OCCUPIED set.                                 *)
FreePageKeepsFlag ==
  /\ pc = "free"
  /\ head # <<>>
  /\ LET a == Head(head)[1]
     IN /\ a \in ToSet(arena_list)
        /\ free_list' = [free_list EXCEPT ![a] = ListAppend(@, Head(head))]
        /\ free' = [free EXCEPT ![a] = @ + 1]
  /\ head' = Tail(head)
  /\ ret' = ret + 1
  /\ UNCHANGED <<arena_list, occupied, held, reserved, null_store, pc, call>>

FreePage ==
  /\ pc = "free"
  /\ head # <<>>
  /\ LET p == Head(head)
         a == p[1]
     IN /\ a \in ToSet(arena_list)
        /\ occupied' = occupied \ {p}
        /\ free_list' = [free_list EXCEPT ![a] = ListAppend(@, p)]
        /\ free' = [free EXCEPT ![a] = @ + 1]
  /\ head' = Tail(head)
  /\ ret' = ret + 1
  /\ UNCHANGED <<arena_list, held, reserved, null_store, pc, call>>

FreeEnd ==
  /\ pc = "free"
  /\ head = <<>>
  /\ pc' = "idle"
  /\ call' = NoCall
  /\ UNCHANGED <<arenas, held, null_store, head, ret>>

-----------------------------------------------------------------------------
(* The page-fault handler never returns (arch/x86/32/exceptions.cc).       *)
Halted == pc = "fault" /\ UNCHANGED vars

(* The rest of a call that has begun.                                      *)
Step ==
  \/ LoadBit \/ LoadEnd
  \/ AllocatePage \/ AllocateEnd
  \/ ContiguousPage \/ ContiguousEnd
  \/ FreePage \/ FreeEnd

Next ==
  \/ \E a \in Arena : \E bt \in Bitmaps[a] : AddArena(a, bt)
  \/ \E c \in Caller : AllocateNone(c) \/ Free(c)
  \/ \E c \in Caller, n \in 1 .. MaxCount :
       Allocate(c, n) \/ ContiguousMiss(c, n) \/ Contiguous(c, n)
  \/ Step
  \/ Halted

(* A call that has begun runs on; nobody is obliged to make another one.   *)
Spec == Init /\ [][Next]_vars /\ WF_vars(Step)
=============================================================================
