---------------------------- MODULE PmmNodeProofs ----------------------------
(***************************************************************************)
(* Proofs about the page allocator PmmNode, for every set of arenas and    *)
(* callers, every arena size and every bitmap: the invariant of its lists; *)
(* on top of that, that no page is lost and what an allocation returns;    *)
(* that the steps of a call together are one step of the atomic page       *)
(* allocator PageAllocator; and that the search of ContigScan, one page    *)
(* per step, returns the first run there is.                               *)
(***************************************************************************)
EXTENDS PmmNodeProps, ContigScan, ListLemmas, FiniteSetTheorems

(* The part of ListsInv about the arenas alone.                                *)
ArenasOK ==
  /\ arena_list \in Seq(Arena)
  /\ occupied \subseteq Page
  /\ free_list \in [Arena -> Seq(Page)]
  /\ free \in [Arena -> Int]
  /\ \A a \in Arena : ToSet(free_list[a]) \subseteq PagesOf(a)
  /\ \A a \in Arena : IsInjective(free_list[a])
  /\ CountsMatch
  /\ FlagsMatch
  /\ \A a \in Arena : a \notin ToSet(arena_list) => free_list[a] = <<>>

LEMMA PageFacts ==
  ASSUME NEW a \in Arena, NEW p \in PagesOf(a)
  PROVE  p \in Page /\ p[1] = a /\ p[2] \in Index(a) /\ p = <<a, p[2]>>
BY DEF PagesOf, Page

LEMMA ListedArenas ==
  ASSUME ArenasOK
  PROVE  ToSet(arena_list) \subseteq Arena
BY ElementsOfList DEF ArenasOK

(* A page goes off the free list of its arena, is marked and uncounted:    *)
(* the step that the three loops of add_arena, allocate and                *)
(* allocate_contiguous have in common.                                     *)
LEMMA TakePage ==
  ASSUME PmmNodeAssumption, ArenasOK,
         NEW a \in Arena, NEW p \in ToSet(free_list[a]), NEW rest \in Seq(Page),
         Len(rest) = Len(free_list[a]) - 1,
         ToSet(rest) = ToSet(free_list[a]) \ {p},
         IsInjective(rest),
         arena_list' = arena_list,
         free_list' = [free_list EXCEPT ![a] = rest],
         occupied' = occupied \cup {p},
         free' = [free EXCEPT ![a] = @ - 1]
  PROVE  /\ ArenasOK'
         /\ p \in PagesOf(a)
         /\ a \in ToSet(arena_list)
         /\ \A b \in Arena : ToSet(free_list'[b]) = ToSet(free_list[b]) \ {p}
<1>1. p \in PagesOf(a) /\ p \in Page /\ p[1] = a
  BY PageFacts DEF ArenasOK
<1>2. a \in ToSet(arena_list)
  BY EmptyList DEF ArenasOK
<1>3. \A b \in Arena : b # a => free_list'[b] = free_list[b]
  BY DEF ArenasOK
<1>4. free_list'[a] = rest
  BY DEF ArenasOK
<1>5. \A b \in Arena : b # a => p \notin ToSet(free_list[b])
  BY <1>1, PageFacts DEF ArenasOK
<1>6. \A b \in Arena : ToSet(free_list'[b]) = ToSet(free_list[b]) \ {p}
  BY <1>3, <1>4, <1>5
<1>7. CountsMatch'
  <2> SUFFICES ASSUME NEW b \in Arena PROVE free'[b] = Len(free_list'[b])
    BY DEF CountsMatch
  <2> QED
    BY <1>3, <1>4 DEF ArenasOK, CountsMatch
<1>8. FlagsMatch'
  <2> SUFFICES ASSUME NEW b \in ToSet(arena_list), NEW q \in PagesOf(b)
               PROVE  q \in occupied' <=> q \notin ToSet(free_list'[b])
    BY DEF FlagsMatch
  <2>1. b \in Arena
    BY ListedArenas
  <2> QED
    BY <1>6, <2>1 DEF ArenasOK, FlagsMatch
<1>9. \A b \in Arena : b \notin ToSet(arena_list') => free_list'[b] = <<>>
  BY <1>2, <1>3 DEF ArenasOK
<1>10. /\ occupied' \subseteq Page
       /\ free_list' \in [Arena -> Seq(Page)]
       /\ free' \in [Arena -> Int]
  BY <1>1 DEF ArenasOK
<1>11. \A b \in Arena : ToSet(free_list'[b]) \subseteq PagesOf(b) /\ IsInjective(free_list'[b])
  BY <1>3, <1>4, <1>6 DEF ArenasOK
<1> QED
  BY <1>1, <1>2, <1>6, <1>7, <1>8, <1>9, <1>10, <1>11 DEF ArenasOK

LEMMA RemovePage ==
  ASSUME PmmNodeAssumption, ArenasOK,
         NEW a \in Arena, NEW p \in ToSet(free_list[a]),
         arena_list' = arena_list,
         free_list' = [free_list EXCEPT ![a] = ListRemove(@, p)],
         occupied' = occupied \cup {p},
         free' = [free EXCEPT ![a] = @ - 1]
  PROVE  /\ ArenasOK'
         /\ p \in PagesOf(a)
         /\ a \in ToSet(arena_list)
         /\ \A b \in Arena : ToSet(free_list'[b]) = ToSet(free_list[b]) \ {p}
<1> PICK s : s = free_list[a]
  OBVIOUS
<1>1. s \in Seq(Page) /\ IsInjective(s) /\ p \in ToSet(s)
  BY DEF ArenasOK
<1> PICK rest : rest = ListRemove(s, p)
  OBVIOUS
<1>2. /\ rest \in Seq(Page)
      /\ Len(rest) = Len(s) - 1
      /\ ToSet(rest) = ToSet(s) \ {p}
      /\ IsInjective(rest)
  BY <1>1, RemoveOnce, ZenonT(60)
<1> QED
  BY <1>2, TakePage

-----------------------------------------------------------------------------
LEMMA InitInv == Init => ListsInv
<1> SUFFICES ASSUME Init PROVE ListsInv
  OBVIOUS
<1> USE EmptyList DEF Init
<1>1. TypeOK
  <2>1. call \in CallRecord /\ call.op = "none"
    BY DEF CallRecord, NoCall
  <2>2. /\ free_list \in [Arena -> Seq(Page)]
        /\ held \in [Caller -> Seq(Page)]
        /\ free \in [Arena -> Int]
    OBVIOUS
  <2>3. \A a \in Arena : ToSet(free_list[a]) \subseteq PagesOf(a)
    OBVIOUS
  <2> QED
    BY <2>1, <2>2, <2>3 DEF TypeOK, Op
<1>2. CountsMatch
  BY DEF CountsMatch
<1>3. Exclusive
  BY DEF Exclusive
<1>4. FlagsMatch
  BY DEF FlagsMatch
<1> QED
  BY <1>1, <1>2, <1>3, <1>4 DEF ListsInv

LEMMA ListsInvArenas == ListsInv => ArenasOK
BY DEF ListsInv, ArenasOK, TypeOK, Exclusive

LEMMA LoadBitInv == PmmNodeAssumption /\ ListsInv /\ LoadBit => ListsInv'
<1> SUFFICES ASSUME PmmNodeAssumption, ListsInv, LoadBit PROVE ListsInv'
  OBVIOUS
<1> PICK a : a = call.arena
  OBVIOUS
<1> PICK i : i = call.i
  OBVIOUS
<1> PICK p : p = <<a, i>>
  OBVIOUS
<1>1. /\ call \in [op : {"load"}, arena : Arena, i : Nat, bt : SUBSET Nat]
      /\ pc = "load"
      /\ head = <<>>
      /\ a \in ToSet(arena_list)
      /\ \A n \in Index(a) : n >= i => <<a, n>> \in ToSet(free_list[a])
  BY DEF ListsInv, TypeOK, LoadBit, CallRecord
<1>1a. a \in Arena /\ i \in Nat /\ i < Size[a] /\ Size[a] \in Nat
  BY <1>1 DEF LoadBit, BitsLeft, PmmNodeAssumption
<1>2. p \in ToSet(free_list[a])
  <2>1. i \in Index(a) /\ i >= i
    BY <1>1a DEF Index
  <2> QED
    BY <1>1, <2>1
<1>3. ArenasOK
  BY ListsInvArenas
<1>4. /\ ArenasOK'
      /\ \A b \in Arena : ToSet(free_list'[b]) \subseteq ToSet(free_list[b])
      /\ \A q \in ToSet(free_list[a]) : q # p => q \in ToSet(free_list'[a])
  <2>1. CASE call.i \in call.bt
    <3>2. /\ free_list' = [free_list EXCEPT ![a] = ListRemove(@, p)]
          /\ occupied' = occupied \cup {p}
          /\ free' = [free EXCEPT ![a] = @ - 1]
          /\ arena_list' = arena_list
      BY <2>1 DEF LoadBit
    <3>3. /\ ArenasOK'
          /\ \A b \in Arena : ToSet(free_list'[b]) = ToSet(free_list[b]) \ {p}
      BY <1>1a, <1>2, <1>3, <3>2, RemovePage
    <3> QED
      BY <1>1a, <3>3
  <2>2. CASE call.i \notin call.bt
    <3>1. UNCHANGED <<arena_list, free_list, occupied, free>>
      BY <2>2 DEF LoadBit
    <3> QED
      BY <1>3, <3>1 DEF ArenasOK, CountsMatch, FlagsMatch
  <2> QED
    BY <2>1, <2>2
<1>5. /\ UNCHANGED <<arena_list, held, reserved, null_store, pc, head, ret>>
      /\ pc = "load"
      /\ call' = [call EXCEPT !.i = @ + 1]
  BY DEF LoadBit
<1>6. TypeOK'
  <2>1. call' \in [op : {"load"}, arena : Arena, i : Nat, bt : SUBSET Nat]
    <3>1. call.i + 1 \in Nat
      BY <1>1a
    <3> QED
      BY <1>1, <1>5, <3>1
  <2>2. call' \in CallRecord
    BY <2>1 DEF CallRecord
  <2>3. call'.op = "load"
    BY <1>1, <1>5
  <2> QED
    BY <1>4, <1>5, <2>2, <2>3 DEF ArenasOK, ListsInv, TypeOK
<1>7. Exclusive'
  BY <1>4, <1>5 DEF ArenasOK, ListsInv, Exclusive
<1>8. /\ call'.arena = a
      /\ call'.i = i + 1
  BY <1>1, <1>5
<1>9. ASSUME NEW n \in Index(a), n >= i + 1
      PROVE  <<a, n>> \in ToSet(free_list'[a])
  <2>1. n >= i /\ n # i
    BY <1>1a, <1>9 DEF Index
  <2>2. <<a, n>> \in ToSet(free_list[a]) /\ <<a, n>> # p
    BY <1>1, <2>1
  <2> QED
    BY <1>4, <2>2
<1> QED
  BY <1>1, <1>4, <1>5, <1>6, <1>7, <1>8, <1>9 DEF ListsInv, ArenasOK, Index

LEMMA LoadEndInv == ListsInv /\ LoadEnd => ListsInv'
<1> SUFFICES ASSUME ListsInv, LoadEnd PROVE ListsInv'
  OBVIOUS
<1>1. /\ UNCHANGED <<arena_list, occupied, free_list, free, reserved, held, null_store, head, ret>>
      /\ pc = "load" /\ pc' = "idle" /\ call' = NoCall
  BY DEF LoadEnd, arenas
<1>2. call' \in CallRecord /\ call'.op = "none"
  BY <1>1 DEF CallRecord, NoCall
<1>3. TypeOK'
  BY <1>1, <1>2 DEF ListsInv, TypeOK, Op
<1> QED
  BY <1>1, <1>3 DEF ListsInv, CountsMatch, Exclusive, FlagsMatch

LEMMA AllocateNoneInv == ASSUME NEW c \in Caller, ListsInv, AllocateNone(c) PROVE ListsInv'
<1>1. /\ UNCHANGED <<arena_list, occupied, free_list, free, reserved, held, null_store, pc, call, head>>
      /\ pc = "idle" /\ ret' = 0
  BY DEF AllocateNone, arenas
<1>2. TypeOK'
  BY <1>1 DEF ListsInv, TypeOK
<1> QED
  BY <1>1, <1>2 DEF ListsInv, CountsMatch, Exclusive, FlagsMatch

LEMMA ContiguousMissInv ==
  ASSUME NEW c \in Caller, NEW n \in 1 .. MaxCount, ListsInv, ContiguousMiss(c, n) PROVE ListsInv'
<1>1. /\ UNCHANGED <<arena_list, occupied, free_list, free, reserved, held, null_store, pc, call, head>>
      /\ pc = "idle" /\ ret' = 0
  BY DEF ContiguousMiss, arenas
<1>2. TypeOK'
  BY <1>1 DEF ListsInv, TypeOK
<1> QED
  BY <1>1, <1>2 DEF ListsInv, CountsMatch, Exclusive, FlagsMatch

LEMMA AllocateInv ==
  ASSUME PmmNodeAssumption, NEW c \in Caller, NEW n \in 1 .. MaxCount, ListsInv, Allocate(c, n)
  PROVE  ListsInv'
<1>1. /\ UNCHANGED <<arena_list, occupied, free_list, free, reserved, held, null_store>>
      /\ pc = "idle" /\ pc' = "allocate" /\ head' = <<>> /\ ret' = 0
      /\ call' = [op |-> "allocate", caller |-> c, cnt |-> n]
  BY DEF Allocate, Begin, arenas
<1>2. call' \in CallRecord /\ call'.op = "allocate"
  BY <1>1 DEF CallRecord, PmmNodeAssumption
<1>3. TypeOK'
  BY <1>1, <1>2, EmptyList DEF ListsInv, TypeOK, Op
<1> QED
  BY <1>1, <1>3, EmptyList DEF ListsInv, CountsMatch, Exclusive, FlagsMatch

(* A page goes from a free list to the list a call is building.            *)
LEMMA TakenForCall ==
  ASSUME PmmNodeAssumption, ListsInv, ArenasOK', pc \in {"allocate", "contiguous"},
         NEW a \in Arena, NEW p \in PagesOf(a), a \in ToSet(arena_list),
         p \in ToSet(free_list[a]),
         \A b \in Arena : ToSet(free_list'[b]) = ToSet(free_list[b]) \ {p},
         head' = ListAppend(head, p), ret' = ret + 1,
         UNCHANGED <<arena_list, held, reserved, null_store, pc, call>>
  PROVE  /\ TypeOK' /\ Exclusive'
         /\ \A q \in ToSet(head') : q[1] \in ToSet(arena_list')
<1>1. p \in Page /\ p[1] = a
  BY PageFacts
<1>2. head \in Seq(Page) /\ IsInjective(head) /\ p \notin ToSet(head)
  BY DEF ListsInv, TypeOK, Exclusive
<1> PICK h : h = head
  OBVIOUS
<1> PICK g : g = head'
  OBVIOUS
<1>3. /\ g \in Seq(Page)
      /\ ToSet(g) = ToSet(h) \cup {p}
      /\ IsInjective(g)
  <2>1. h \in Seq(Page) /\ IsInjective(h) /\ p \notin ToSet(h)
    BY <1>2
  <2>2. g = ListAppend(h, p)
    OBVIOUS
  <2>3. p \in Page
    BY <1>1
  <2> QED
    BY <2>1, <2>2, <2>3, AppendOnce
<1>4. TypeOK'
  BY <1>3 DEF ListsInv, ArenasOK, TypeOK
<1>5. ASSUME NEW c \in Caller PROVE p \notin ToSet(held[c])
  <2>1. ToSet(free_list[a]) \cap ToSet(held[c]) = {}
    BY DEF ListsInv, Exclusive
  <2> QED
    BY <2>1
<1>6. /\ \A b \in Arena : ToSet(free_list'[b]) \cap ToSet(g) = {}
      /\ \A c \in Caller : ToSet(held[c]) \cap ToSet(g) = {}
  BY <1>3, <1>5, ZenonT(60) DEF ListsInv, Exclusive
<1>7. \A b \in Arena : IsInjective(free_list'[b])
  BY DEF ArenasOK
<1>8. Exclusive'
  BY <1>3, <1>6, <1>7 DEF ListsInv, Exclusive
<1> QED
  BY <1>1, <1>3, <1>4, <1>8 DEF ListsInv

(* What a step of the loops of allocate and allocate_contiguous does.      *)
PageTaken(a, p) ==
  /\ a \in ToSet(arena_list)
  /\ p \in ToSet(free_list[a])
  /\ \A b \in Arena : ToSet(free_list'[b]) = ToSet(free_list[b]) \ {p}
  /\ head' = ListAppend(head, p)
  /\ ret' = ret + 1
  /\ UNCHANGED <<arena_list, held, reserved, null_store, pc, call>>

LEMMA AllocatePageTakes ==
  ASSUME PmmNodeAssumption, ListsInv, AllocatePage
  PROVE  ArenasOK' /\ \E a \in Arena : \E p \in PagesOf(a) : PageTaken(a, p)
<1> PICK a : a = Head(arena_list)
  OBVIOUS
<1> PICK s : s = free_list[a]
  OBVIOUS
<1> PICK p : p = Head(s)
  OBVIOUS
<1>1. a \in Arena /\ arena_list # <<>> /\ s # <<>>
  BY PopList DEF AllocatePage, HasPage, ListsInv, TypeOK
<1>2. s \in Seq(Page) /\ IsInjective(s)
  BY <1>1 DEF ListsInv, TypeOK, Exclusive
<1> PICK rest : rest = Tail(s)
  OBVIOUS
<1>3. /\ p \in ToSet(s) /\ rest \in Seq(Page) /\ Len(rest) = Len(s) - 1
      /\ ToSet(rest) = ToSet(s) \ {p} /\ IsInjective(rest)
  BY <1>1, <1>2, PopList, ZenonT(60)
<1>4. /\ free_list' = [free_list EXCEPT ![a] = rest]
      /\ occupied' = occupied \cup {p}
      /\ free' = [free EXCEPT ![a] = @ - 1]
      /\ head' = ListAppend(head, p)
      /\ ret' = ret + 1
      /\ UNCHANGED <<arena_list, held, reserved, null_store, pc, call>>
  BY DEF AllocatePage
<1>5. /\ ArenasOK' /\ p \in PagesOf(a) /\ a \in ToSet(arena_list)
      /\ \A b \in Arena : ToSet(free_list'[b]) = ToSet(free_list[b]) \ {p}
  BY <1>1, <1>3, <1>4, ListsInvArenas, TakePage, ZenonT(60)
<1> QED
  BY <1>1, <1>3, <1>4, <1>5 DEF PageTaken

LEMMA AllocatePageInv ==
  ASSUME PmmNodeAssumption, ListsInv, AllocatePage PROVE ListsInv'
<1>1. ArenasOK' /\ \E a \in Arena : \E p \in PagesOf(a) : PageTaken(a, p)
  BY AllocatePageTakes
<1> PICK a \in Arena : \E p \in PagesOf(a) : PageTaken(a, p)
  BY <1>1
<1>2. PICK p \in PagesOf(a) : PageTaken(a, p)
  OBVIOUS
<1>3. pc = "allocate" /\ UNCHANGED <<arena_list, held, reserved, null_store, pc, call>>
  BY DEF AllocatePage
<1>4. /\ TypeOK' /\ Exclusive'
      /\ \A q \in ToSet(head') : q[1] \in ToSet(arena_list')
  BY <1>1, <1>2, <1>3, TakenForCall DEF PageTaken
<1> QED
  BY <1>1, <1>3, <1>4 DEF ListsInv, ArenasOK

(* The end of an allocation: its list becomes the caller's.                *)
LEMMA ReturnInv ==
  ASSUME ListsInv, NEW c \in Caller, pc \in {"allocate", "contiguous"},
         Return(c, head), UNCHANGED <<arenas, ret>>
  PROVE  ListsInv'
<1>1. /\ UNCHANGED <<arena_list, occupied, free_list, free, reserved, ret>>
      /\ held' = [held EXCEPT ![c] = head]
      /\ call' = NoCall
      /\ head' = <<>>
      /\ pc' \in {"fault", "idle"}
      /\ null_store' \in BOOLEAN
  BY DEF Return, StoreThroughNull, arenas, ListsInv, TypeOK
<1>2. call' \in CallRecord /\ call'.op = "none"
  BY <1>1 DEF CallRecord, NoCall
<1>3. TypeOK'
  BY <1>1, <1>2, EmptyList DEF ListsInv, TypeOK, Op
<1>4. /\ held'[c] = head
      /\ \A d \in Caller : d # c => held'[d] = held[d]
  BY <1>1 DEF ListsInv, TypeOK
<1>5. Exclusive'
  <2>1. \A d \in Caller : IsInjective(held'[d])
    BY <1>4 DEF ListsInv, Exclusive
  <2>2. \A a \in Arena, d \in Caller : ToSet(free_list[a]) \cap ToSet(held'[d]) = {}
    BY <1>4 DEF ListsInv, Exclusive
  <2>3. \A d, e \in Caller : d # e => ToSet(held'[d]) \cap ToSet(held'[e]) = {}
    BY <1>4 DEF ListsInv, Exclusive
  <2> QED
    BY <1>1, <2>1, <2>2, <2>3, EmptyList DEF ListsInv, Exclusive
<1>6. \A d \in Caller : \A p \in ToSet(held'[d]) : p[1] \in ToSet(arena_list)
  BY <1>4 DEF ListsInv
<1> QED
  BY <1>1, <1>3, <1>5, <1>6, EmptyList DEF ListsInv, CountsMatch, FlagsMatch

LEMMA AllocateEndInv == ListsInv /\ AllocateEnd => ListsInv'
<1> SUFFICES ASSUME ListsInv, AllocateEnd PROVE ListsInv'
  OBVIOUS
<1>1. pc = "allocate" /\ Return(call.caller, head) /\ UNCHANGED <<arenas, ret>>
  BY DEF AllocateEnd
<1>2. call.caller \in Caller
  BY <1>1 DEF ListsInv, TypeOK, CallRecord
<1> QED
  BY <1>1, <1>2, ReturnInv

LEMMA ContiguousEndInv == ListsInv /\ ContiguousEnd => ListsInv'
<1> SUFFICES ASSUME ListsInv, ContiguousEnd PROVE ListsInv'
  OBVIOUS
<1>1. pc = "contiguous" /\ Return(call.caller, head) /\ UNCHANGED <<arenas, ret>>
  BY DEF ContiguousEnd
<1>2. call.caller \in Caller
  BY <1>1 DEF ListsInv, TypeOK, CallRecord
<1> QED
  BY <1>1, <1>2, ReturnInv

LEMMA ContiguousInv ==
  ASSUME PmmNodeAssumption, NEW c \in Caller, NEW n \in 1 .. MaxCount, ListsInv, Contiguous(c, n)
  PROVE  ListsInv'
<1>1. PICK k \in DOMAIN arena_list :
        \E s \in Runs(arena_list[k], n) :
           Begin([op |-> "contiguous", caller |-> c, cnt |-> n,
                  arena |-> arena_list[k], idx |-> s + n - 1])
  BY DEF Contiguous
<1> PICK a : a = arena_list[k]
  OBVIOUS
<1>2. PICK s \in Runs(a, n) :
        Begin([op |-> "contiguous", caller |-> c, cnt |-> n, arena |-> a, idx |-> s + n - 1])
  BY <1>1
<1>3. a \in Arena /\ a \in ToSet(arena_list)
  BY DEF ListsInv, TypeOK, ToSet
<1>4. /\ n \in Nat /\ n > 0 /\ Size[a] \in Nat
      /\ s \in Nat
      /\ IsFreeRun(Used(a), Size[a], s, n)
  BY <1>3 DEF PmmNodeAssumption, Runs, FoundRuns
<1>5. s + n - 1 \in Nat
  BY <1>4
<1>6. /\ UNCHANGED <<arena_list, occupied, free_list, free, reserved, held, null_store>>
      /\ pc' = "contiguous" /\ head' = <<>> /\ ret' = 0 /\ pc = "idle"
      /\ call' = [op |-> "contiguous", caller |-> c, cnt |-> n, arena |-> a, idx |-> s + n - 1]
  BY <1>2 DEF Contiguous, Begin, arenas
<1>7. /\ call' \in CallRecord /\ call'.op = "contiguous"
      /\ call'.arena = a /\ call'.cnt = n /\ call'.idx = s + n - 1
  BY <1>3, <1>4, <1>5, <1>6 DEF CallRecord
<1>8. TypeOK'
  BY <1>6, <1>7, EmptyList DEF ListsInv, TypeOK, Op
<1>9. ASSUME NEW j \in 0 .. n - 1 PROVE <<a, (s + n - 1) - j>> \in ToSet(free_list[a])
  <2>1. (s + n - 1) - j \in s .. s + n - 1
    BY <1>4
  <2>2. (s + n - 1) - j \in Index(a) /\ <<a, (s + n - 1) - j>> \notin occupied
    BY <1>4, <2>1 DEF IsFreeRun, Used, Index
  <2>3. <<a, (s + n - 1) - j>> \in PagesOf(a)
    BY <2>2 DEF PagesOf
  <2> QED
    BY <1>3, <2>2, <2>3 DEF ListsInv, FlagsMatch
<1>10. CountsMatch' /\ Exclusive' /\ FlagsMatch'
  BY <1>6, EmptyList DEF ListsInv, CountsMatch, Exclusive, FlagsMatch
<1>11. pc' = "contiguous" =>
         /\ call'.arena \in ToSet(arena_list')
         /\ ret' <= call'.cnt
         /\ \A j \in ret' .. call'.cnt - 1 :
              <<call'.arena, call'.idx - j>> \in ToSet(free_list'[call'.arena])
  <2>1. a \in ToSet(arena_list') /\ free_list' = free_list /\ ret' = 0 /\ ret' <= n
    BY <1>3, <1>4, <1>6
  <2>2. \A j \in ret' .. n - 1 : <<a, (s + n - 1) - j>> \in ToSet(free_list'[a])
    BY <1>9, <2>1
  <2> QED
    BY <1>7, <2>1, <2>2
<1> QED
  BY <1>6, <1>8, <1>10, <1>11, EmptyList DEF ListsInv

LEMMA ContiguousPageTakes ==
  ASSUME PmmNodeAssumption, ListsInv, ContiguousPage
  PROVE  /\ ArenasOK'
         /\ call.arena \in Arena
         /\ <<call.arena, call.idx - ret>> \in PagesOf(call.arena)
         /\ PageTaken(call.arena, <<call.arena, call.idx - ret>>)
<1> PICK a : a = call.arena
  OBVIOUS
<1> PICK x : x = call.idx
  OBVIOUS
<1> PICK n : n = call.cnt
  OBVIOUS
<1> PICK p : p = <<a, x - ret>>
  OBVIOUS
<1>1. /\ pc = "contiguous" /\ ret < n /\ ret' = ret + 1
      /\ free_list' = [free_list EXCEPT ![a] = ListRemove(@, p)]
      /\ occupied' = occupied \cup {p}
      /\ free' = [free EXCEPT ![a] = @ - 1]
      /\ head' = ListAppend(head, p)
      /\ UNCHANGED <<arena_list, held, reserved, null_store, pc, call>>
  BY DEF ContiguousPage, RunPage
<1>2. a \in Arena /\ x \in Nat /\ n \in Nat /\ ret \in Nat
  BY <1>1 DEF ListsInv, TypeOK, CallRecord
<1>3. /\ a \in ToSet(arena_list)
      /\ \A j \in ret .. n - 1 : <<a, x - j>> \in ToSet(free_list[a])
  BY <1>1 DEF ListsInv
<1>4. p \in ToSet(free_list[a])
  <2>1. ret \in ret .. n - 1
    BY <1>1, <1>2
  <2> QED
    BY <1>3, <2>1
<1>5. /\ ArenasOK' /\ p \in PagesOf(a)
      /\ \A b \in Arena : ToSet(free_list'[b]) = ToSet(free_list[b]) \ {p}
  BY <1>1, <1>2, <1>4, ListsInvArenas, RemovePage
<1> QED
  BY <1>1, <1>2, <1>3, <1>4, <1>5 DEF PageTaken

LEMMA ContiguousPageInv ==
  ASSUME PmmNodeAssumption, ListsInv, ContiguousPage PROVE ListsInv'
<1> PICK a : a = call.arena
  OBVIOUS
<1> PICK x : x = call.idx
  OBVIOUS
<1> PICK n : n = call.cnt
  OBVIOUS
<1>1. /\ pc = "contiguous" /\ ret < n /\ ret' = ret + 1
      /\ UNCHANGED <<arena_list, held, reserved, null_store, pc, call>>
  BY DEF ContiguousPage
<1>2. a \in Arena /\ x \in Nat /\ n \in Nat /\ ret \in Nat
  BY <1>1 DEF ListsInv, TypeOK, CallRecord
<1>3. /\ a \in ToSet(arena_list)
      /\ \A j \in ret .. n - 1 : <<a, x - j>> \in ToSet(free_list[a])
  BY <1>1 DEF ListsInv
<1>4. ArenasOK' /\ <<a, x - ret>> \in PagesOf(a) /\ PageTaken(a, <<a, x - ret>>)
  BY ContiguousPageTakes
<1>5. \A b \in Arena : ToSet(free_list'[b]) = ToSet(free_list[b]) \ {<<a, x - ret>>}
  BY <1>4 DEF PageTaken
<1>6. /\ TypeOK' /\ Exclusive'
      /\ \A q \in ToSet(head') : q[1] \in ToSet(arena_list')
  BY <1>1, <1>2, <1>4, TakenForCall DEF PageTaken
<1>7. ASSUME NEW j \in ret + 1 .. n - 1 PROVE <<a, x - j>> \in ToSet(free_list'[a])
  <2>1. j \in ret .. n - 1 /\ x - j # x - ret
    BY <1>2
  <2> QED
    BY <1>2, <1>3, <1>5, <2>1
<1>8. ret + 1 <= n
  BY <1>1, <1>2
<1> QED
  BY <1>1, <1>3, <1>4, <1>6, <1>7, <1>8 DEF ListsInv, ArenasOK

LEMMA FreeInv == ASSUME NEW c \in Caller, ListsInv, Free(c) PROVE ListsInv'
<1>1. /\ UNCHANGED <<arena_list, occupied, free_list, free, reserved>>
      /\ pc = "idle"
      /\ ret' = 0
      /\ held' = [held EXCEPT ![c] = <<>>]
      /\ head' = held[c]
      /\ head = <<>>
  BY DEF Free, arenas, ListsInv
<1>2. /\ null_store' \in BOOLEAN
      /\ call' \in CallRecord
      /\ \/ /\ pc' \in {"fault", "idle"} /\ call'.op = "none" /\ held[c] = <<>>
         \/ /\ pc' = "free" /\ call'.op = "free"
  <2>1. CASE held[c] = <<>>
    <3>1. StoreThroughNull /\ call' = call
      BY <2>1 DEF Free
    <3> QED
      BY <1>1, <2>1, <3>1 DEF StoreThroughNull, ListsInv, TypeOK
  <2>2. CASE held[c] # <<>>
    <3>1. pc' = "free" /\ call' = [op |-> "free", caller |-> c] /\ null_store' = null_store
      BY <2>2 DEF Free
    <3> QED
      BY <3>1 DEF CallRecord, ListsInv, TypeOK
  <2> QED
    BY <2>1, <2>2
<1>3. held[c] \in Seq(Page)
  BY DEF ListsInv, TypeOK
<1>4. TypeOK'
  <2>1. held' \in [Caller -> Seq(Page)] /\ head' \in Seq(Page)
    BY <1>1, <1>3, EmptyList DEF ListsInv, TypeOK
  <2> QED
    BY <1>1, <1>2, <2>1 DEF ListsInv, TypeOK, Op
<1>5. /\ held'[c] = <<>>
      /\ \A d \in Caller : d # c => held'[d] = held[d]
  BY <1>1 DEF ListsInv, TypeOK
<1>6. Exclusive'
  <2>1. \A d \in Caller : IsInjective(held'[d])
    BY <1>5, EmptyList DEF ListsInv, Exclusive
  <2>2. IsInjective(head')
    BY <1>1 DEF ListsInv, Exclusive
  <2>3. \A a \in Arena : ToSet(free_list[a]) \cap ToSet(head') = {}
    BY <1>1 DEF ListsInv, Exclusive
  <2>4. \A a \in Arena, d \in Caller : ToSet(free_list[a]) \cap ToSet(held'[d]) = {}
    BY <1>5, EmptyList DEF ListsInv, Exclusive
  <2>5. \A d \in Caller : ToSet(held'[d]) \cap ToSet(head') = {}
    BY <1>1, <1>5, EmptyList DEF ListsInv, Exclusive
  <2>6. \A d, e \in Caller : d # e => ToSet(held'[d]) \cap ToSet(held'[e]) = {}
    BY <1>5, EmptyList DEF ListsInv, Exclusive
  <2> QED
    BY <1>1, <2>1, <2>2, <2>3, <2>4, <2>5, <2>6 DEF ListsInv, Exclusive
<1>7. /\ \A d \in Caller : \A p \in ToSet(held'[d]) : p[1] \in ToSet(arena_list')
      /\ \A p \in ToSet(head') : p[1] \in ToSet(arena_list')
  BY <1>1, <1>5, EmptyList DEF ListsInv
<1>8. pc' # "free" => head' = <<>>
  BY <1>1, <1>2
<1>9. CountsMatch' /\ FlagsMatch'
  BY <1>1 DEF ListsInv, CountsMatch, FlagsMatch
<1> QED
  BY <1>1, <1>2, <1>4, <1>6, <1>7, <1>8, <1>9 DEF ListsInv

LEMMA FreeEndInv == ListsInv /\ FreeEnd => ListsInv'
<1> SUFFICES ASSUME ListsInv, FreeEnd PROVE ListsInv'
  OBVIOUS
<1>1. /\ UNCHANGED <<arena_list, occupied, free_list, free, reserved, held, null_store, head, ret>>
      /\ pc = "free" /\ pc' = "idle" /\ head = <<>> /\ call' = NoCall
  BY DEF FreeEnd, arenas
<1>2. call' \in CallRecord /\ call'.op = "none"
  BY <1>1 DEF CallRecord, NoCall
<1>3. TypeOK'
  BY <1>1, <1>2 DEF ListsInv, TypeOK, Op
<1> QED
  BY <1>1, <1>3 DEF ListsInv, CountsMatch, Exclusive, FlagsMatch

LEMMA FreePageInv == PmmNodeAssumption /\ ListsInv /\ FreePage => ListsInv'
<1> SUFFICES ASSUME PmmNodeAssumption, ListsInv, FreePage PROVE ListsInv'
  OBVIOUS
<1> PICK h : h = head
  OBVIOUS
<1> PICK p : p = Head(h)
  OBVIOUS
<1> PICK a : a = p[1]
  OBVIOUS
<1> PICK s : s = free_list[a]
  OBVIOUS
<1> PICK g : g = Tail(h)
  OBVIOUS
<1> PICK r : r = ListAppend(s, p)
  OBVIOUS
<1>1. /\ pc = "free" /\ h # <<>> /\ a \in ToSet(arena_list)
      /\ occupied' = occupied \ {p}
      /\ free_list' = [free_list EXCEPT ![a] = r]
      /\ free' = [free EXCEPT ![a] = @ + 1]
      /\ head' = g
      /\ ret' = ret + 1
      /\ UNCHANGED <<arena_list, held, reserved, null_store, pc, call>>
  BY DEF FreePage
<1>2. /\ h \in Seq(Page) /\ IsInjective(h)
      /\ \A b \in Arena : ToSet(free_list[b]) \cap ToSet(h) = {}
      /\ \A c \in Caller : ToSet(held[c]) \cap ToSet(h) = {}
      /\ \A q \in ToSet(h) : q[1] \in ToSet(arena_list)
  BY DEF ListsInv, TypeOK, Exclusive
<1>3. /\ p \in Page /\ p \in ToSet(h) /\ g \in Seq(Page)
      /\ ToSet(g) = ToSet(h) \ {p} /\ IsInjective(g)
  BY <1>1, <1>2, PopList, ZenonT(60)
<1>4. a \in Arena /\ p \in PagesOf(a)
  BY <1>3 DEF Page, PagesOf
<1>5. s \in Seq(Page) /\ IsInjective(s) /\ p \notin ToSet(s)
  BY <1>2, <1>3, <1>4 DEF ListsInv, TypeOK, Exclusive
<1>6. /\ r \in Seq(Page) /\ Len(r) = Len(s) + 1 /\ ToSet(r) = ToSet(s) \cup {p}
      /\ IsInjective(r)
  <2>1. p \in Page /\ r = ListAppend(s, p)
    BY <1>3
  <2> QED
    BY <1>5, <2>1, AppendOnce
<1>7. /\ free_list'[a] = r
      /\ \A b \in Arena : b # a => free_list'[b] = free_list[b]
  BY <1>1, <1>4 DEF ListsInv, TypeOK
<1>8. TypeOK'
  <2>0. free_list \in [Arena -> Seq(Page)] /\ free \in [Arena -> Int] /\ occupied \subseteq Page
    BY DEF ListsInv, TypeOK
  <2>1. /\ free_list' \in [Arena -> Seq(Page)]
        /\ free' \in [Arena -> Int]
        /\ occupied' \subseteq Page
    BY <1>1, <1>4, <1>6, <2>0
  <2>2. \A b \in Arena : ToSet(free_list'[b]) \subseteq PagesOf(b)
    BY <1>4, <1>6, <1>7 DEF ListsInv, TypeOK
  <2> QED
    BY <1>1, <1>3, <2>1, <2>2, SMTT(60) DEF ListsInv, TypeOK
<1>9. CountsMatch'
  <2> SUFFICES ASSUME NEW b \in Arena PROVE free'[b] = Len(free_list'[b])
    BY DEF CountsMatch
  <2>1. CASE b = a
    BY <1>1, <1>4, <1>6, <1>7, <2>1 DEF ListsInv, TypeOK, CountsMatch
  <2>2. CASE b # a
    BY <1>1, <1>7, <2>2 DEF ListsInv, TypeOK, CountsMatch
  <2> QED
    BY <2>1, <2>2
<1>10. FlagsMatch'
  <2> SUFFICES ASSUME NEW b \in ToSet(arena_list), NEW q \in PagesOf(b)
               PROVE  q \in occupied' <=> q \notin ToSet(free_list'[b])
    BY <1>1 DEF FlagsMatch
  <2>1. b \in Arena
    BY ListsInvArenas, ListedArenas
  <2>2. q \in occupied <=> q \notin ToSet(free_list[b])
    BY DEF ListsInv, FlagsMatch
  <2>3. CASE b = a
    BY <1>1, <1>6, <1>7, <2>2, <2>3
  <2>4. CASE b # a
    <3>1. q # p
      BY <1>4, <2>4, <2>1 DEF PagesOf
    <3>2. free_list'[b] = free_list[b]
      BY <1>7, <2>1, <2>4
    <3>3. occupied' = occupied \ {p}
      BY <1>1
    <3>4. q \in occupied' <=> q \in occupied
      BY <3>1, <3>3
    <3> QED
      BY <2>2, <3>2, <3>4, ZenonT(60)
  <2> QED
    BY <2>3, <2>4
<1>11. Exclusive'
  <2>1. \A b \in Arena : IsInjective(free_list'[b])
    BY <1>6, <1>7 DEF ListsInv, Exclusive
  <2>2. \A b \in Arena : ToSet(free_list'[b]) \cap ToSet(g) = {}
    BY <1>2, <1>3, <1>6, <1>7
  <2>3. \A b \in Arena, c \in Caller : ToSet(free_list'[b]) \cap ToSet(held[c]) = {}
    <3>1. \A b \in Arena, c \in Caller : ToSet(free_list[b]) \cap ToSet(held[c]) = {}
      BY DEF ListsInv, Exclusive
    <3>2. ASSUME NEW c \in Caller PROVE ToSet(r) \cap ToSet(held[c]) = {}
      <4>1. ToSet(s) \cap ToSet(held[c]) = {}
        BY <1>4, <3>1
      <4>2. p \notin ToSet(held[c])
        BY <1>2, <1>3
      <4>3. ToSet(r) = ToSet(s) \cup {p}
        BY <1>6
      <4> QED
        BY <4>1, <4>2, <4>3
    <3> QED
      BY <1>7, <3>1, <3>2
  <2>4. \A c \in Caller : ToSet(held[c]) \cap ToSet(g) = {}
    BY <1>2, <1>3
  <2> QED
    BY <1>1, <1>3, <2>1, <2>2, <2>3, <2>4 DEF ListsInv, Exclusive
<1>12. \A b \in Arena : b \notin ToSet(arena_list') => free_list'[b] = <<>>
  BY <1>1, <1>7 DEF ListsInv
<1>13. \A q \in ToSet(head') : q[1] \in ToSet(arena_list')
  BY <1>1, <1>2, <1>3
<1> QED
  BY <1>1, <1>8, <1>9, <1>10, <1>11, <1>12, <1>13 DEF ListsInv

(* The arena list after add_arena, and the free list it starts with.       *)
LEMMA EnlistArena ==
  ASSUME NEW a \in Arena, arena_list \in Seq(Arena), Enlist(a)
  PROVE  /\ arena_list' \in Seq(Arena)
         /\ ToSet(arena_list') = ToSet(arena_list) \cup {a}
<1>1. CASE arena_list' = ListAppend(arena_list, a)
  BY <1>1, AppendList, ZenonT(60)
<1>2. ASSUME NEW k \in DOMAIN arena_list, arena_list' = ListInsert(arena_list, k, a)
      PROVE  /\ arena_list' \in Seq(Arena)
             /\ ToSet(arena_list') = ToSet(arena_list) \cup {a}
  BY <1>2, InsertList
<1> QED
  BY <1>1, <1>2 DEF Enlist

LEMMA AddArenaInv ==
  ASSUME PmmNodeAssumption, NEW a \in Arena, NEW bt \in Bitmaps[a], ListsInv, AddArena(a, bt)
  PROVE  ListsInv'
<1> PICK s : s = [k \in 1 .. Size[a] |-> <<a, k - 1>>]
  OBVIOUS
<1>1. /\ pc = "idle" /\ a \notin ToSet(arena_list) /\ Enlist(a)
      /\ occupied' = occupied \ PagesOf(a)
      /\ free_list' = [free_list EXCEPT ![a] = s]
      /\ free' = [free EXCEPT ![a] = Size[a]]
      /\ reserved' = reserved \cup {p \in PagesOf(a) : Frame(p) \in bt}
      /\ pc' = "load"
      /\ call' = [op |-> "load", arena |-> a, i |-> Base[a], bt |-> bt]
      /\ UNCHANGED <<held, null_store, head, ret>>
  BY DEF AddArena, FullList
<1>2. arena_list \in Seq(Arena)
  BY DEF ListsInv, TypeOK
<1>3. /\ arena_list' \in Seq(Arena)
      /\ ToSet(arena_list') = ToSet(arena_list) \cup {a}
  BY <1>1, <1>2, EnlistArena
<1>4. /\ Size[a] \in Nat /\ Base[a] \in Nat
      /\ bt \in SUBSET Nat
  BY DEF PmmNodeAssumption
<1>5. ASSUME NEW k \in 1 .. Size[a] PROVE k - 1 \in Index(a) /\ s[k] = <<a, k - 1>>
  <2>1. s[k] = <<a, k - 1>>
    OBVIOUS
  <2> QED
    BY <1>4, <2>1 DEF Index
<1>6. /\ DOMAIN s = 1 .. Size[a]
      /\ \A k \in 1 .. Size[a] : s[k] \in PagesOf(a) /\ s[k] \in Page
  BY <1>5 DEF PagesOf, Page
<1>7. s \in Seq(Page) /\ Len(s) = Size[a]
  <2>1. s \in [1 .. Size[a] -> Page]
    BY <1>6
  <2> QED
    BY <1>4, <2>1, FunctionList, ZenonT(60)
<1>8. ASSUME NEW i \in Index(a) PROVE <<a, i>> \in ToSet(s)
  <2>1. i + 1 \in 1 .. Size[a] /\ (i + 1) - 1 = i
    BY <1>4 DEF Index
  <2>2. s[i + 1] = <<a, i>>
    BY <1>5, <2>1
  <2> QED
    BY <1>6, <2>1, <2>2 DEF ToSet
<1>9. ToSet(s) = PagesOf(a)
  <2>1. ToSet(s) \subseteq PagesOf(a)
    BY <1>6 DEF ToSet
  <2>2. PagesOf(a) \subseteq ToSet(s)
    BY <1>8 DEF PagesOf
  <2> QED
    BY <2>1, <2>2
<1>10. IsInjective(s)
  <2> SUFFICES ASSUME NEW j \in 1 .. Size[a], NEW k \in 1 .. Size[a], s[j] = s[k]
               PROVE  j = k
    BY <1>6 DEF IsInjective
  <2>1. j - 1 = k - 1
    BY <1>5
  <2> QED
    BY <1>4, <2>1
<1>11. /\ free_list'[a] = s
       /\ \A b \in Arena : b # a => free_list'[b] = free_list[b]
  BY <1>1 DEF ListsInv, TypeOK
<1>12. TypeOK'
  <2>1. call' \in [op : {"load"}, arena : Arena, i : Nat, bt : SUBSET Nat]
    BY <1>1, <1>4
  <2>2. call' \in CallRecord /\ call'.op = "load"
    BY <1>1, <2>1 DEF CallRecord
  <2>3. free_list \in [Arena -> Seq(Page)] /\ free \in [Arena -> Int]
    BY DEF ListsInv, TypeOK
  <2>4. free_list' \in [Arena -> Seq(Page)] /\ free' \in [Arena -> Int]
    BY <1>1, <1>4, <1>7, <2>3
  <2>5. \A b \in Arena : ToSet(free_list'[b]) \subseteq PagesOf(b)
    BY <1>9, <1>11 DEF ListsInv, TypeOK
  <2>6. occupied' \subseteq Page /\ reserved' \subseteq Page
    BY <1>1 DEF ListsInv, TypeOK, Page
  <2> QED
    BY <1>1, <1>3, <2>2, <2>4, <2>5, <2>6 DEF ListsInv, TypeOK, Op
<1>13. CountsMatch'
  <2> SUFFICES ASSUME NEW b \in Arena PROVE free'[b] = Len(free_list'[b])
    BY DEF CountsMatch
  <2>1. CASE b = a
    BY <1>1, <1>7, <1>11, <2>1 DEF ListsInv, TypeOK
  <2>2. CASE b # a
    BY <1>1, <1>11, <2>2 DEF ListsInv, TypeOK, CountsMatch
  <2> QED
    BY <2>1, <2>2
<1>14. FlagsMatch'
  <2> SUFFICES ASSUME NEW b \in ToSet(arena_list'), NEW q \in PagesOf(b)
               PROVE  q \in occupied' <=> q \notin ToSet(free_list'[b])
    BY DEF FlagsMatch
  <2>1. CASE b = a
    BY <1>1, <1>9, <1>11, <2>1
  <2>2. CASE b # a
    <3>1. b \in ToSet(arena_list) /\ b \in Arena
      BY <1>2, <1>3, <2>2, ElementsOfList
    <3>2. q \notin PagesOf(a)
      BY <2>2 DEF PagesOf
    <3>3. free_list'[b] = free_list[b]
      BY <1>11, <2>2, <3>1
    <3>4. q \in occupied' <=> q \in occupied
      BY <1>1, <3>2
    <3>5. q \in occupied <=> q \notin ToSet(free_list[b])
      BY <3>1 DEF ListsInv, FlagsMatch
    <3> QED
      BY <3>3, <3>4, <3>5, ZenonT(60)
  <2> QED
    BY <2>1, <2>2
<1>15. /\ \A p \in PagesOf(a) : p[1] = a
       /\ \A b \in Arena : \A p \in PagesOf(b) : p[1] = b
  BY DEF PagesOf
<1>16. Exclusive'
  <2>1. \A b \in Arena : IsInjective(free_list'[b])
    BY <1>10, <1>11 DEF ListsInv, Exclusive
  <2>2. \A b \in Arena : ToSet(free_list'[b]) \cap ToSet(head) = {}
    <3>1. head = <<>>
      BY <1>1 DEF ListsInv
    <3> QED
      BY <3>1, EmptyList
  <2>3. ASSUME NEW b \in Arena, NEW c \in Caller
        PROVE  ToSet(free_list'[b]) \cap ToSet(held[c]) = {}
    <3>1. CASE b = a
      <4>1. \A p \in ToSet(held[c]) : p[1] # a
        BY <1>1 DEF ListsInv
      <4> QED
        BY <1>9, <1>11, <1>15, <3>1, <4>1, ZenonT(60)
    <3>2. CASE b # a
      BY <1>11, <3>2 DEF ListsInv, Exclusive
    <3> QED
      BY <3>1, <3>2
  <2> QED
    BY <1>1, <2>1, <2>2, <2>3 DEF ListsInv, Exclusive
<1>17. \A b \in Arena : b \notin ToSet(arena_list') => free_list'[b] = <<>>
  BY <1>3, <1>11 DEF ListsInv
<1>18. /\ call'.arena = a
       /\ \A i \in Index(a) : <<a, i>> \in ToSet(free_list'[a])
  BY <1>1, <1>8, <1>11
<1>19. /\ \A c \in Caller : \A p \in ToSet(held'[c]) : p[1] \in ToSet(arena_list')
       /\ head' = <<>>
  BY <1>1, <1>3 DEF ListsInv
<1> QED
  BY <1>1, <1>3, <1>12, <1>13, <1>14, <1>16, <1>17, <1>18, <1>19, EmptyList DEF ListsInv

-----------------------------------------------------------------------------
LEMMA NextInv == PmmNodeAssumption /\ ListsInv /\ [Next]_vars => ListsInv'
<1> SUFFICES ASSUME PmmNodeAssumption, ListsInv, [Next]_vars PROVE ListsInv'
  OBVIOUS
<1>1. ASSUME NEW a \in Arena, NEW bt \in Bitmaps[a], AddArena(a, bt) PROVE ListsInv'
  BY <1>1, AddArenaInv
<1>2. ASSUME NEW c \in Caller, AllocateNone(c) \/ Free(c) PROVE ListsInv'
  BY <1>2, AllocateNoneInv, FreeInv
<1>3. ASSUME NEW c \in Caller, NEW n \in 1 .. MaxCount,
             Allocate(c, n) \/ ContiguousMiss(c, n) \/ Contiguous(c, n)
      PROVE  ListsInv'
  BY <1>3, AllocateInv, ContiguousMissInv, ContiguousInv
<1>4. CASE Step
  BY <1>4, LoadBitInv, LoadEndInv, AllocatePageInv, AllocateEndInv, ContiguousPageInv,
     ContiguousEndInv, FreePageInv, FreeEndInv DEF Step
<1>5. CASE UNCHANGED vars
  <2>1. UNCHANGED <<arena_list, occupied, free_list, free, held, reserved, null_store,
                    pc, call, head, ret>>
    BY <1>5 DEF vars
  <2>2. TypeOK'
    BY <2>1 DEF ListsInv, TypeOK
  <2> QED
    BY <2>1, <2>2 DEF ListsInv, CountsMatch, Exclusive, FlagsMatch
<1> QED
  BY <1>1, <1>2, <1>3, <1>4, <1>5 DEF Next, Halted

(* The inductive invariant holds in every reachable state.                 *)
THEOREM Invariance == Spec => []ListsInv
<1>1. PmmNodeAssumption
  BY PmmNodeAssumption
<1>2. Init => ListsInv
  BY InitInv
<1>3. ListsInv /\ [Next]_vars => ListsInv'
  BY <1>1, NextInv
<1> QED
  BY <1>2, <1>3, PTL DEF Spec

(* Every variable keeps its type: in particular arena->free is an integer  *)
(* and every list a list of page structures of the right arena.            *)
THEOREM TypeCorrect == Spec => []TypeOK
<1>1. ListsInv => TypeOK
  BY DEF ListsInv
<1> QED
  BY <1>1, Invariance, PTL

(* arena->free is the length of the free list after every step of every    *)
(* loop, so it never underflows.                                           *)
THEOREM CounterCorrect == Spec => []CountsMatch
<1>1. ListsInv => CountsMatch
  BY DEF ListsInv
<1> QED
  BY <1>1, Invariance, PTL

(* No page is ever handed out twice.                                       *)
THEOREM NoPageTwice == Spec => []Exclusive
<1>1. ListsInv => Exclusive
  BY DEF ListsInv
<1> QED
  BY <1>1, Invariance, PTL

(* The flags allocate_contiguous searches always agree with the free       *)
(* lists, so it never takes a page that is not on its list.                *)
THEOREM FlagsCorrect == Spec => []FlagsMatch
<1>1. ListsInv => FlagsMatch
  BY DEF ListsInv
<1> QED
  BY <1>1, Invariance, PTL

-----------------------------------------------------------------------------
(* A list without repetition has as many nodes as elements.                *)
LEMMA CardinalityOfList ==
  ASSUME NEW S, NEW s \in Seq(S), IsInjective(s)
  PROVE  IsFiniteSet(ToSet(s)) /\ Cardinality(ToSet(s)) = Len(s)
<1> DEFINE I == 1 .. Len(s)
           T == ToSet(s)
<1>1. Len(s) \in Nat /\ DOMAIN s = I /\ s \in [I -> S]
  OBVIOUS
<1>2. IsFiniteSet(I) /\ Cardinality(I) = Len(s)
  BY <1>1, FS_Interval
<1>3. s \in [I -> T] /\ \A t \in T : \E i \in I : s[i] = t
  BY <1>1 DEF ToSet
<1>4. \A i, j \in I : s[i] = s[j] => i = j
  BY <1>1 DEF IsInjective
<1>5. s \in Bijection(I, T)
  BY <1>3, <1>4 DEF Bijection, Injection, Surjection, IsInjective
<1>6. ExistsBijection(I, T)
  BY <1>5 DEF ExistsBijection
<1> QED
  BY <1>2, <1>6, FS_Bijection

-----------------------------------------------------------------------------
(* What the allocating calls know of their result.                         *)

LEMMA AllocatePageResult ==
  ASSUME PmmNodeAssumption, ListsInv, ResultInv, AllocatePage
  PROVE  ResultInv'
<1>p. PICK p : p = Head(free_list[Head(arena_list)])
  OBVIOUS
<1>g. PICK g : g = ListAppend(head, p)
  OBVIOUS
<1>1. /\ pc = "allocate" /\ ret < call.cnt /\ ret' = ret + 1
      /\ head' = g
      /\ HasPage
      /\ UNCHANGED <<arena_list, held, reserved, null_store, pc, call>>
  BY <1>p, <1>g DEF AllocatePage
<1>2. Head(arena_list) \in Arena
  BY <1>1, PopList DEF HasPage, ListsInv, TypeOK
<1>3. p \in ToSet(free_list[Head(arena_list)])
  BY <1>p, <1>1, <1>2, PopList DEF HasPage, ListsInv, TypeOK
<1>4. p \in Page /\ p[1] = Head(arena_list)
  BY <1>2, <1>3, PageFacts DEF ListsInv, TypeOK
<1>5. /\ head \in Seq(Page) /\ ret \in Nat /\ ret = Len(head)
      /\ call.cnt \in Nat
  BY <1>1 DEF ListsInv, TypeOK, ResultInv, CallRecord
<1>6. Len(g) = Len(head) + 1 /\ ToSet(g) = ToSet(head) \cup {p}
  <2>1. IsInjective(head) /\ p \notin ToSet(head)
    BY <1>2, <1>3 DEF ListsInv, Exclusive
  <2> QED
    BY <1>g, <1>4, <1>5, <2>1, AppendOnce
<1>7. ret' = Len(g) /\ ret' <= call.cnt
  BY <1>1, <1>5, <1>6
<1>8. \A q \in ToSet(g) : q[1] = Head(arena_list)
  BY <1>1, <1>4, <1>6 DEF ResultInv
<1> QED
  BY <1>1, <1>7, <1>8 DEF ResultInv

LEMMA AppendedNodes ==
  ASSUME NEW S, NEW s \in Seq(S), NEW p
  PROVE  /\ Len(ListAppend(s, p)) = Len(s) + 1
         /\ \A k \in 1 .. Len(s) + 1 : ListAppend(s, p)[k] = IF k = 1 THEN p ELSE s[k - 1]
BY DEF ListAppend, Cons

(* A run is counted down: with one page more in front, both the count and  *)
(* the positions of the others have moved by one.                          *)
LEMMA ContiguousPageResult ==
  ASSUME PmmNodeAssumption, ListsInv, ResultInv, ContiguousPage
  PROVE  ResultInv'
<1>a. PICK a : a = call.arena
  OBVIOUS
<1>x. PICK x : x = call.idx
  OBVIOUS
<1>g. PICK g : g = ListAppend(head, <<a, x - ret>>)
  OBVIOUS
<1>1. /\ pc = "contiguous" /\ ret < call.cnt /\ ret' = ret + 1 /\ head' = g
      /\ UNCHANGED <<arena_list, held, reserved, null_store, pc, call>>
  BY <1>a, <1>x, <1>g DEF ContiguousPage, RunPage
<1>2. /\ head \in Seq(Page) /\ ret \in Nat /\ ret = Len(head) /\ x \in Nat
      /\ call.cnt \in Nat
      /\ \A k \in 1 .. ret : head[k] = <<a, x - ret + k>>
  BY <1>a, <1>x, <1>1 DEF ListsInv, TypeOK, ResultInv, CallRecord
<1>3. /\ Len(g) = ret + 1
      /\ \A k \in 1 .. ret + 1 : g[k] = IF k = 1 THEN <<a, x - ret>> ELSE head[k - 1]
  BY <1>g, <1>2, AppendedNodes
<1>4. ASSUME NEW k \in 1 .. ret + 1 PROVE g[k] = <<a, x - (ret + 1) + k>>
  <2>1. k \in Int /\ (k # 1 => k - 1 \in 1 .. ret)
    BY <1>2
  <2>2. k = 1 => x - (ret + 1) + k = x - ret
    BY <1>2, <2>1
  <2>3. k # 1 => x - (ret + 1) + k = x - ret + (k - 1)
    BY <1>2, <2>1
  <2> QED
    BY <1>2, <1>3, <2>1, <2>2, <2>3
<1>5. ret' <= call.cnt
  BY <1>1, <1>2
<1> QED
  BY <1>a, <1>x, <1>1, <1>3, <1>4, <1>5 DEF ResultInv

(* Every other step ends outside of the two loops or starts one of them.   *)
LEMMA ResultKept ==
  PmmNodeAssumption /\ ListsInv /\ ResultInv /\ [Next]_vars => ResultInv'
<1> SUFFICES ASSUME PmmNodeAssumption, ListsInv, ResultInv, [Next]_vars PROVE ResultInv'
  OBVIOUS
<1>1. pc' \notin {"allocate", "contiguous"} => ResultInv'
  BY DEF ResultInv
<1>2. ASSUME NEW a \in Arena, NEW bt \in Bitmaps[a], AddArena(a, bt) PROVE ResultInv'
  BY <1>1, <1>2 DEF AddArena
<1>3. ASSUME NEW c \in Caller, AllocateNone(c) \/ Free(c) PROVE ResultInv'
  BY <1>1, <1>3 DEF AllocateNone, Free, StoreThroughNull
<1>4. ASSUME NEW c \in Caller, NEW n \in 1 .. MaxCount, ContiguousMiss(c, n) PROVE ResultInv'
  BY <1>1, <1>4 DEF ContiguousMiss
<1>5. ASSUME NEW c \in Caller, NEW n \in 1 .. MaxCount, Allocate(c, n) PROVE ResultInv'
  <2>1. /\ pc' = "allocate" /\ head' = <<>> /\ ret' = 0 /\ held' = held /\ held[c] = <<>>
        /\ call' = [op |-> "allocate", caller |-> c, cnt |-> n]
    BY <1>5 DEF Allocate, Begin
  <2>2. n \in 1 .. MaxCount /\ 0 <= n
    BY DEF PmmNodeAssumption
  <2> QED
    BY <2>1, <2>2, EmptyList DEF ResultInv
<1>6. ASSUME NEW c \in Caller, NEW n \in 1 .. MaxCount, Contiguous(c, n) PROVE ResultInv'
  <2>1. PICK a, x : /\ pc' = "contiguous" /\ head' = <<>> /\ ret' = 0 /\ held' = held /\ held[c] = <<>>
                    /\ call' = [op |-> "contiguous", caller |-> c, cnt |-> n, arena |-> a, idx |-> x]
    BY <1>6 DEF Contiguous, Begin
  <2>2. n \in 1 .. MaxCount /\ 0 <= n
    BY DEF PmmNodeAssumption
  <2> QED
    BY <2>1, <2>2, EmptyList DEF ResultInv
<1>7. CASE LoadBit \/ LoadEnd \/ FreePage \/ FreeEnd
  BY <1>1, <1>7 DEF LoadBit, LoadEnd, FreePage, FreeEnd
<1>8. CASE AllocateEnd \/ ContiguousEnd
  BY <1>1, <1>8 DEF AllocateEnd, ContiguousEnd, Return, StoreThroughNull
<1>9. CASE UNCHANGED vars
  BY <1>9 DEF vars, ResultInv
<1> QED
  BY <1>2, <1>3, <1>4, <1>5, <1>6, <1>7, <1>8, <1>9, AllocatePageResult, ContiguousPageResult
     DEF Next, Step, Halted

-----------------------------------------------------------------------------
(* Where the pages of the added arenas are.                                *)

(* By the flags a free list is known without looking at its order.         *)
FlagsTell ==
  \A a \in ToSet(arena_list) : \A p \in PagesOf(a) :
    /\ a \in Arena /\ p[1] = a
    /\ p \in ToSet(free_list[a]) <=> p \notin occupied
    /\ OnList(p) <=> \/ p \notin occupied
                     \/ p \in ToSet(head)
                     \/ \E c \in Caller : p \in ToSet(held[c])

LEMMA FlagsTellLists == ListsInv => FlagsTell
<1> SUFFICES ASSUME ListsInv, NEW a \in ToSet(arena_list), NEW p \in PagesOf(a)
             PROVE  /\ a \in Arena /\ p[1] = a
                    /\ p \in ToSet(free_list[a]) <=> p \notin occupied
                    /\ OnList(p) <=> \/ p \notin occupied
                                     \/ p \in ToSet(head)
                                     \/ \E c \in Caller : p \in ToSet(held[c])
  BY DEF FlagsTell
<1>1. a \in Arena
  BY ListsInvArenas, ListedArenas
<1>2. p[1] = a
  BY <1>1, PageFacts
<1>3. p \in ToSet(free_list[a]) <=> p \notin occupied
  BY DEF ListsInv, FlagsMatch
<1> QED
  BY <1>1, <1>2, <1>3 DEF OnList

(* A step outside of add_arena that takes no page off every list and puts  *)
(* none on one.                                                            *)
LEMMA PagesStay ==
  ASSUME PagesInv, pc # "load", pc' # "load", UNCHANGED <<arena_list, reserved>>,
         \A a \in ToSet(arena_list) : \A p \in PagesOf(a) : OnList(p)' <=> OnList(p)
  PROVE  PagesInv'
BY DEF PagesInv, Kept

LEMMA PagesStayIfSame ==
  ASSUME PagesInv, pc # "load", pc' # "load", UNCHANGED <<arena_list, reserved>>,
         UNCHANGED <<free_list, held, head>>
  PROVE  PagesInv'
<1>1. \A p : OnList(p)' <=> OnList(p)
  BY DEF OnList
<1> QED
  BY <1>1, PagesStay

LEMMA TakenPages ==
  ASSUME PmmNodeAssumption, ListsInv, ListsInv', PagesInv, pc # "load",
         NEW a \in Arena, NEW p \in PagesOf(a), PageTaken(a, p)
  PROVE  PagesInv'
<1>1. FlagsTell /\ FlagsTell'
  BY FlagsTellLists, PTL
<1>2. UNCHANGED <<arena_list, held, reserved, pc>>
  BY DEF PageTaken
<1>3. ToSet(head') = ToSet(head) \cup {p}
  <2>1. head \in Seq(Page) /\ IsInjective(head) /\ p \in Page /\ p \notin ToSet(head)
    BY PageFacts DEF PageTaken, ListsInv, TypeOK, Exclusive
  <2>2. PICK g : g = ListAppend(head, p)
    OBVIOUS
  <2>3. ToSet(g) = ToSet(head) \cup {p}
    BY <2>1, <2>2, AppendOnce
  <2> QED
    BY <2>2, <2>3 DEF PageTaken
<1>4. ASSUME NEW b \in ToSet(arena_list), NEW q \in PagesOf(b)
      PROVE  OnList(q)' <=> OnList(q)
  <2>1. b \in Arena /\ q[1] = b
    BY <1>1 DEF FlagsTell
  <2>2. ToSet(free_list'[b]) = ToSet(free_list[b]) \ {p}
    BY <2>1 DEF PageTaken
  <2>3. p \in ToSet(free_list[a]) /\ p[1] = a
    BY PageFacts DEF PageTaken
  <2> QED
    BY <1>2, <1>3, <2>1, <2>2, <2>3 DEF OnList
<1> QED
  BY <1>2, <1>4, PagesStay

LEMMA ReturnedPages ==
  ASSUME ListsInv, ResultInv, PagesInv, pc \in {"allocate", "contiguous"},
         Return(call.caller, head), UNCHANGED <<arenas, ret>>
  PROVE  PagesInv'
<1>1. /\ UNCHANGED <<arena_list, free_list, reserved>>
      /\ held' = [held EXCEPT ![call.caller] = head] /\ head' = <<>>
      /\ pc' # "load"
  BY DEF Return, StoreThroughNull, arenas
<1>2. call.caller \in Caller /\ held[call.caller] = <<>> /\ held \in [Caller -> Seq(Page)]
  BY DEF ListsInv, TypeOK, CallRecord, ResultInv
<1>3. /\ held'[call.caller] = head
      /\ \A d \in Caller : d # call.caller => held'[d] = held[d]
  BY <1>1, <1>2
<1>4. \A q : OnList(q)' <=> OnList(q)
  BY <1>1, <1>2, <1>3, EmptyList DEF OnList
<1> QED
  BY <1>1, <1>4, PagesStay

LEMMA FreedPages ==
  ASSUME NEW c \in Caller, ListsInv, PagesInv, Free(c)
  PROVE  PagesInv'
<1>1. /\ UNCHANGED <<arena_list, free_list, reserved>>
      /\ held' = [held EXCEPT ![c] = <<>>] /\ head' = held[c] /\ head = <<>>
      /\ pc # "load" /\ pc' # "load"
  BY DEF Free, StoreThroughNull, arenas, ListsInv
<1>2. held'[c] = <<>> /\ \A d \in Caller : d # c => held'[d] = held[d]
  BY <1>1 DEF ListsInv, TypeOK
<1>3. \A q : OnList(q)' <=> OnList(q)
  BY <1>1, <1>2, EmptyList DEF OnList
<1> QED
  BY <1>1, <1>3, PagesStay

(* What a step of the loop of free does.                                   *)
LEMMA FreePageGives ==
  ASSUME PmmNodeAssumption, ListsInv, ListsInv', FreePage
  PROVE  \E a \in ToSet(arena_list) : \E p \in PagesOf(a) :
           /\ p \in ToSet(head)
           /\ ToSet(head') = ToSet(head) \ {p}
           /\ ToSet(free_list'[a]) = ToSet(free_list[a]) \cup {p}
           /\ \A b \in Arena : b # a => free_list'[b] = free_list[b]
<1>p. PICK p : p = Head(head)
  OBVIOUS
<1>a. PICK a : a = p[1]
  OBVIOUS
<1>1. /\ pc = "free" /\ head # <<>> /\ a \in ToSet(arena_list)
      /\ occupied' = occupied \ {p}
      /\ free_list' = [free_list EXCEPT ![a] = ListAppend(@, p)]
      /\ head' = Tail(head)
      /\ arena_list' = arena_list
  BY <1>p, <1>a DEF FreePage
<1>2. head \in Seq(Page) /\ IsInjective(head) /\ free_list \in [Arena -> Seq(Page)]
  BY DEF ListsInv, TypeOK, Exclusive
<1>3. p \in Page /\ p \in ToSet(head)
  BY <1>p, <1>1, <1>2, PopList
<1>4. a \in Arena /\ p \in PagesOf(a)
  BY <1>a, <1>3 DEF Page, PagesOf
<1>5. ToSet(head') = ToSet(head) \ {p}
  BY <1>p, <1>1, <1>2, PopList, ZenonT(60)
<1>6. \A b \in Arena : b # a => free_list'[b] = free_list[b]
  BY <1>1, <1>2
<1>7. ToSet(free_list'[a]) = ToSet(free_list[a]) \cup {p}
  <2>1. FlagsTell /\ FlagsTell'
    BY FlagsTellLists, PTL
  <2>2. /\ \A q \in PagesOf(a) : q \in ToSet(free_list[a]) <=> q \notin occupied
        /\ \A q \in PagesOf(a) : q \in ToSet(free_list'[a]) <=> q \notin occupied'
    BY <1>1, <2>1 DEF FlagsTell
  <2>3. ToSet(free_list[a]) \subseteq PagesOf(a) /\ ToSet(free_list'[a]) \subseteq PagesOf(a)
    BY <1>4 DEF ListsInv, TypeOK
  <2> QED
    BY <1>1, <1>4, <2>2, <2>3
<1> QED
  BY <1>1, <1>3, <1>4, <1>5, <1>6, <1>7

LEMMA GivenPages ==
  ASSUME PmmNodeAssumption, ListsInv, ListsInv', PagesInv, FreePage
  PROVE  PagesInv'
<1> PICK a \in ToSet(arena_list) : \E p \in PagesOf(a) :
           /\ p \in ToSet(head)
           /\ ToSet(head') = ToSet(head) \ {p}
           /\ ToSet(free_list'[a]) = ToSet(free_list[a]) \cup {p}
           /\ \A b \in Arena : b # a => free_list'[b] = free_list[b]
  BY FreePageGives
<1>1. PICK p \in PagesOf(a) :
           /\ p \in ToSet(head)
           /\ ToSet(head') = ToSet(head) \ {p}
           /\ ToSet(free_list'[a]) = ToSet(free_list[a]) \cup {p}
           /\ \A b \in Arena : b # a => free_list'[b] = free_list[b]
  OBVIOUS
<1>2. pc = "free" /\ UNCHANGED <<arena_list, held, reserved, pc>>
  BY DEF FreePage
<1>3. FlagsTell
  BY FlagsTellLists
<1>4. ASSUME NEW b \in ToSet(arena_list), NEW q \in PagesOf(b)
      PROVE  OnList(q)' <=> OnList(q)
  <2>1. b \in Arena /\ q[1] = b /\ p[1] = a
    BY <1>3 DEF FlagsTell
  <2>2. q \in ToSet(free_list'[b]) \/ q \in ToSet(head')
          <=> q \in ToSet(free_list[b]) \/ q \in ToSet(head)
    BY <1>1, <2>1
  <2> QED
    BY <1>2, <2>1, <2>2 DEF OnList
<1> QED
  BY <1>2, <1>4, PagesStay

(* add_arena puts every page on the free list...                           *)
LEMMA AddedPages ==
  ASSUME PmmNodeAssumption, BitmapAssumption, NEW a \in Arena, NEW bt \in Bitmaps[a],
         ListsInv, ListsInv', PagesInv, AddArena(a, bt)
  PROVE  PagesInv'
<1>1. /\ pc = "idle" /\ a \notin ToSet(arena_list) /\ Enlist(a)
      /\ occupied' = occupied \ PagesOf(a)
      /\ reserved' = reserved \cup {p \in PagesOf(a) : Frame(p) \in bt}
      /\ pc' = "load"
      /\ call' = [op |-> "load", arena |-> a, i |-> Base[a], bt |-> bt]
      /\ UNCHANGED <<held, head>>
  BY DEF AddArena
<1>2. ToSet(arena_list') = ToSet(arena_list) \cup {a}
  BY <1>1, EnlistArena DEF ListsInv, TypeOK
<1>3. FlagsTell /\ FlagsTell'
  BY FlagsTellLists, PTL
<1>4. \A b \in Arena : \A p \in PagesOf(b) : p[1] = b /\ p[2] \in Index(b)
  BY PageFacts
<1>5. Base[a] \in Nat /\ Size[a] \in Nat
  BY DEF PmmNodeAssumption
<1>6. \A p \in PagesOf(a) : p \in reserved' <=> Frame(p) \in bt
  BY <1>1, <1>4 DEF PagesInv
<1>7. ASSUME NEW p \in PagesOf(a) PROVE OnList(p)' /\ Kept(p)'
  <2>1. p \notin occupied' /\ p[1] = a /\ p[2] \in Index(a)
    BY <1>1, <1>4
  <2>2. OnList(p)'
    BY <1>2, <1>3, <2>1 DEF FlagsTell
  <2>3. bt = {} => Kept(p)'
    <3>1. bt = {} => p \notin reserved'
      BY <1>6
    <3> QED
      BY <3>1 DEF Kept
  <2>4. Base[a] = 0 => Kept(p)'
    <3>1. Base[a] = 0 => p[2] >= call'.i
      BY <1>1, <1>5, <2>1 DEF Index
    <3> QED
      BY <1>1, <2>1, <3>1 DEF Kept
  <2>5. bt = {} \/ Base[a] = 0
    BY DEF BitmapAssumption
  <2> QED
    BY <2>2, <2>3, <2>4, <2>5
<1>8. ASSUME NEW b \in ToSet(arena_list), b # a, NEW p \in PagesOf(b)
      PROVE  OnList(p)' <=> Kept(p)'
  <2>1. b \in Arena /\ p[1] = b /\ p \notin PagesOf(a)
    BY <1>3, <1>4, <1>8 DEF FlagsTell
  <2>2. p \in occupied' <=> p \in occupied
    BY <1>1, <2>1
  <2>3. OnList(p)' <=> OnList(p)
    BY <1>1, <1>2, <1>3, <2>2 DEF FlagsTell
  <2>4. Kept(p)' <=> p \notin reserved
    BY <1>1, <1>8, <2>1 DEF Kept
  <2>5. Kept(p) <=> p \notin reserved
    BY <1>1 DEF Kept
  <2> QED
    BY <2>3, <2>4, <2>5 DEF PagesInv
<1>9. \A p \in reserved' : p[1] \in ToSet(arena_list')
  BY <1>1, <1>2, <1>4 DEF PagesInv
<1> QED
  BY <1>1, <1>2, <1>6, <1>7, <1>8, <1>9 DEF PagesInv

(* ... and its loop takes off those the bitmap has.                        *)
LEMMA LoadedPages ==
  ASSUME PmmNodeAssumption, BitmapAssumption, ListsInv, ListsInv', PagesInv, LoadBit
  PROVE  PagesInv'
<1>a. PICK a : a = call.arena
  OBVIOUS
<1>i. PICK i : i = call.i
  OBVIOUS
<1>1. /\ pc = "load" /\ i < Size[a]
      /\ call' = [call EXCEPT !.i = @ + 1]
      /\ occupied' = IF i \in call.bt THEN occupied \cup {<<a, i>>} ELSE occupied
      /\ UNCHANGED <<arena_list, held, reserved, pc, head>>
  BY <1>a, <1>i DEF LoadBit, BitsLeft
<1>2. /\ call \in [op : {"load"}, arena : Arena, i : Nat, bt : SUBSET Nat]
      /\ a \in Arena /\ i \in Nat /\ a \in ToSet(arena_list)
      /\ head = <<>>
  BY <1>a, <1>i, <1>1 DEF ListsInv, TypeOK, CallRecord
<1>3. /\ call'.arena = a /\ call'.bt = call.bt /\ call'.i = i + 1
  BY <1>a, <1>i, <1>1, <1>2
<1>4. FlagsTell /\ FlagsTell'
  BY FlagsTellLists, PTL
<1>5. /\ call.bt \in Bitmaps[a]
      /\ \A p \in PagesOf(a) : p \in reserved <=> Frame(p) \in call.bt
  BY <1>a, <1>1 DEF PagesInv
<1>6. \A b \in Arena : \A p \in PagesOf(b) : p[1] = b /\ p[2] \in Index(b) /\ p = <<b, p[2]>>
  BY PageFacts
<1>7. Size[a] \in Nat /\ Base[a] \in Nat /\ Index(a) \subseteq Int
  BY <1>2 DEF PmmNodeAssumption, Index
<1>8. ASSUME NEW p \in PagesOf(a), p[2] = i PROVE OnList(p)' <=> Kept(p)'
  <2>1. p = <<a, i>> /\ p[1] = a
    BY <1>2, <1>6, <1>8
  <2>2. \A c \in Caller : p \notin ToSet(held[c])
    <3>1. p \in ToSet(free_list[a])
      BY <1>a, <1>i, <1>1, <1>2, <1>6, <1>8, <2>1 DEF ListsInv
    <3> QED
      BY <1>2, <3>1 DEF ListsInv, Exclusive
  <2>3. OnList(p)' <=> p \notin occupied'
    BY <1>1, <1>2, <1>4, <2>2, EmptyList DEF FlagsTell
  <2>4. p \notin occupied
    <3>1. p \in ToSet(free_list[a])
      BY <1>a, <1>i, <1>1, <1>2, <1>6, <1>8, <2>1 DEF ListsInv
    <3> QED
      BY <1>2, <1>4, <3>1 DEF FlagsTell
  <2>5. p \in occupied' <=> i \in call.bt
    BY <1>1, <2>1, <2>4
  <2>6. i \in call.bt <=> Frame(p) \in call.bt
    <3>1. CASE call.bt = {}
      BY <3>1
    <3>2. CASE Base[a] = 0
      BY <1>2, <1>8, <2>1, <3>2 DEF Frame
    <3> QED
      BY <1>2, <1>5, <3>1, <3>2 DEF BitmapAssumption
  <2>7. Kept(p)' <=> p \notin reserved
    <3>1. ~(p[2] >= call'.i)
      BY <1>2, <1>3, <1>8
    <3> QED
      BY <1>1, <3>1 DEF Kept
  <2> QED
    BY <1>5, <2>3, <2>5, <2>6, <2>7
<1>9. ASSUME NEW b \in ToSet(arena_list), NEW p \in PagesOf(b), b # a \/ p[2] # i
      PROVE  OnList(p)' <=> Kept(p)'
  <2>1. b \in Arena /\ p[1] = b /\ p # <<a, i>> /\ p[2] \in Index(b)
    BY <1>4, <1>6, <1>9 DEF FlagsTell
  <2>2. p \in occupied' <=> p \in occupied
    BY <1>1, <2>1
  <2>3. OnList(p)' <=> OnList(p)
    BY <1>1, <1>4, <2>2 DEF FlagsTell
  <2>4. Kept(p)' <=> Kept(p)
    <3>1. CASE b # a
      BY <1>a, <1>1, <1>3, <2>1, <3>1 DEF Kept
    <3>2. CASE b = a
      <4>1. p[2] \in Int /\ p[2] # i
        BY <1>7, <1>9, <2>1, <3>2
      <4>2. p[2] >= i + 1 <=> p[2] >= i
        BY <1>2, <4>1
      <4> QED
        BY <1>a, <1>i, <1>1, <1>3, <2>1, <4>2 DEF Kept
    <3> QED
      BY <3>1, <3>2
  <2> QED
    BY <2>3, <2>4 DEF PagesInv
<1>10. ASSUME NEW b \in ToSet(arena_list), NEW p \in PagesOf(b) PROVE OnList(p)' <=> Kept(p)'
  BY <1>8, <1>9
<1> QED
  BY <1>a, <1>1, <1>3, <1>5, <1>10 DEF PagesInv

LEMMA LoadedAllPages ==
  ASSUME PmmNodeAssumption, ListsInv, PagesInv, LoadEnd
  PROVE  PagesInv'
<1>1. /\ UNCHANGED <<arena_list, free_list, reserved, held, head>>
      /\ pc = "load" /\ pc' = "idle" /\ ~(call.i < Size[call.arena])
  BY DEF LoadEnd, BitsLeft, arenas
<1>2. call.arena \in Arena /\ call.i \in Nat /\ Size[call.arena] \in Nat
  BY <1>1 DEF ListsInv, TypeOK, CallRecord, PmmNodeAssumption
<1>3. FlagsTell
  BY FlagsTellLists
<1>4. ASSUME NEW b \in ToSet(arena_list), NEW p \in PagesOf(b)
      PROVE  OnList(p)' <=> Kept(p)'
  <2>1. OnList(p)' <=> OnList(p)
    BY <1>1 DEF OnList
  <2>2. p[1] = call.arena => ~(p[2] >= call.i)
    <3> SUFFICES ASSUME p[1] = call.arena PROVE ~(p[2] >= call.i)
      OBVIOUS
    <3>1. p[2] \in Index(call.arena)
      BY <1>2, <1>3, PageFacts DEF FlagsTell
    <3> QED
      BY <1>1, <1>2, <3>1 DEF Index
  <2>3. Kept(p)' <=> Kept(p)
    BY <1>1, <2>2 DEF Kept
  <2> QED
    BY <2>1, <2>3 DEF PagesInv
<1> QED
  BY <1>1, <1>4 DEF PagesInv

LEMMA PagesKept ==
  PmmNodeAssumption /\ BitmapAssumption /\ ListsInv /\ ListsInv' /\ ResultInv /\ PagesInv
    /\ [Next]_vars => PagesInv'
<1> SUFFICES ASSUME PmmNodeAssumption, BitmapAssumption, ListsInv, ListsInv', ResultInv,
                    PagesInv, [Next]_vars
             PROVE  PagesInv'
  OBVIOUS
<1>1. ASSUME NEW a \in Arena, NEW bt \in Bitmaps[a], AddArena(a, bt) PROVE PagesInv'
  BY <1>1, AddedPages
<1>2. ASSUME NEW c \in Caller, AllocateNone(c) PROVE PagesInv'
  BY <1>2, PagesStayIfSame DEF AllocateNone, arenas
<1>3. ASSUME NEW c \in Caller, Free(c) PROVE PagesInv'
  BY <1>3, FreedPages
<1>4. ASSUME NEW c \in Caller, NEW n \in 1 .. MaxCount, ContiguousMiss(c, n) PROVE PagesInv'
  BY <1>4, PagesStayIfSame DEF ContiguousMiss, arenas
<1>5. ASSUME NEW c \in Caller, NEW n \in 1 .. MaxCount, Allocate(c, n) \/ Contiguous(c, n)
      PROVE  PagesInv'
  <2>1. /\ pc = "idle" /\ pc' \in {"allocate", "contiguous"} /\ head' = <<>>
        /\ UNCHANGED <<arena_list, free_list, reserved, held>>
    BY <1>5 DEF Allocate, Contiguous, Begin, arenas
  <2>2. head = <<>>
    BY <2>1 DEF ListsInv
  <2> QED
    BY <2>1, <2>2, PagesStayIfSame
<1>6. CASE LoadBit
  BY <1>6, LoadedPages
<1>7. CASE LoadEnd
  BY <1>7, LoadedAllPages
<1>8. CASE AllocatePage
  <2>1. pc # "load"
    BY <1>8 DEF AllocatePage
  <2> QED
    BY <1>8, <2>1, AllocatePageTakes, TakenPages
<1>9. CASE ContiguousPage
  <2>1. pc # "load"
    BY <1>9 DEF ContiguousPage
  <2> QED
    BY <1>9, <2>1, ContiguousPageTakes, TakenPages
<1>10. CASE AllocateEnd \/ ContiguousEnd
  BY <1>10, ReturnedPages DEF AllocateEnd, ContiguousEnd
<1>11. CASE FreePage
  BY <1>11, GivenPages
<1>12. CASE FreeEnd
  BY <1>12, PagesStayIfSame DEF FreeEnd, arenas
<1>13. CASE UNCHANGED vars
  BY <1>13 DEF vars, PagesInv, OnList, Kept
<1> QED
  BY <1>1, <1>2, <1>3, <1>4, <1>5, <1>6, <1>7, <1>8, <1>9, <1>10, <1>11, <1>12, <1>13
     DEF Next, Step, Halted

-----------------------------------------------------------------------------
(* The whole inductive invariant holds in every reachable state.           *)
THEOREM InductiveInvariant == Spec => []IInv
<1>1. PmmNodeAssumption /\ BitmapAssumption
  BY PmmNodeAssumption, BitmapAssumption
<1>2. Init => IInv
  <2>1. Init => ResultInv
    BY DEF Init, ResultInv
  <2>2. Init => PagesInv
    BY EmptyList DEF Init, PagesInv
  <2> QED
    BY <2>1, <2>2, InitInv DEF IInv
<1>3. IInv /\ [Next]_vars => IInv'
  BY <1>1, NextInv, ResultKept, PagesKept DEF IInv
<1> QED
  BY <1>2, <1>3, PTL DEF Spec

(* Whatever was allocated and freed, every page of an added arena is on    *)
(* exactly those lists it should be on: a page the boot bitmap marked is   *)
(* never handed out, and no other page is ever lost.                       *)
THEOREM NothingLost == Spec => []NoneLost
<1>1. IInv => NoneLost
  <2> SUFFICES ASSUME IInv, pc # "load", NEW a \in ToSet(arena_list), NEW p \in PagesOf(a)
               PROVE  OnList(p) <=> p \notin reserved
    BY DEF NoneLost
  <2> QED
    BY DEF IInv, PagesInv, Kept
<1> QED
  BY <1>1, InductiveInvariant, PTL

(* The end of an allocation, from the invariant.                           *)
LEMMA AllocationEnds ==
  ASSUME IInv, AllocateEnd \/ ContiguousEnd
  PROVE  /\ call.caller \in Caller
         /\ held[call.caller] = <<>>
         /\ held' = [held EXCEPT ![call.caller] = head]
         /\ held'[call.caller] = head
         /\ head' = <<>>
         /\ call.cnt \in 1 .. MaxCount
         /\ head \in Seq(Page)
         /\ ret = Len(head) /\ ret <= call.cnt
         /\ UNCHANGED <<arena_list, occupied, free_list, free, reserved, ret>>
         /\ pc' \in {"idle", "fault"}
         /\ null_store' # null_store => head = <<>>
<1>1. /\ pc \in {"allocate", "contiguous"}
      /\ Return(call.caller, head) /\ UNCHANGED <<arenas, ret>>
  BY DEF AllocateEnd, ContiguousEnd
<1>2. /\ call.caller \in Caller
      /\ held \in [Caller -> Seq(Page)] /\ head \in Seq(Page)
      /\ call.cnt \in 1 .. MaxCount
      /\ held[call.caller] = <<>> /\ ret = Len(head) /\ ret <= call.cnt
  BY <1>1 DEF IInv, ListsInv, TypeOK, CallRecord, ResultInv
<1>3. /\ held' = [held EXCEPT ![call.caller] = head]
      /\ head' = <<>>
      /\ pc' \in {"idle", "fault"}
      /\ null_store' # null_store => head = <<>>
  BY <1>1 DEF Return, StoreThroughNull
<1> QED
  BY <1>1, <1>2, <1>3 DEF arenas

(* Only AllocateEnd leaves the loop of allocate, only ContiguousEnd that   *)
(* of allocate_contiguous.                                                 *)
LEMMA LoopExits ==
  ASSUME [Next]_vars
  PROVE  /\ pc = "allocate" /\ pc' # pc => AllocateEnd
         /\ pc = "contiguous" /\ pc' # pc => ContiguousEnd
<1> USE DEF AddArena, AllocateNone, Free, Allocate, ContiguousMiss, Contiguous, LoadBit,
            LoadEnd, AllocatePage, AllocateEnd, ContiguousPage, ContiguousEnd, FreePage,
            FreeEnd, Halted
<1>1. CASE UNCHANGED vars
  BY <1>1 DEF vars
<1>2. CASE Step
  BY <1>2 DEF Step
<1> QED
  BY <1>1, <1>2 DEF Next

(* allocate_contiguous hands out as many pages as were asked for, adjacent *)
(* and lowest first.                                                       *)
THEOREM ContiguousCorrect == Spec => ContiguousResult
<1> DEFINE A == pc = "contiguous" /\ pc' # pc =>
                  LET list == held'[call.caller]
                  IN /\ ret = call.cnt
                     /\ Len(list) = call.cnt
                     /\ \A i \in 1 .. Len(list) - 1 : Frame(list[i + 1]) = Frame(list[i]) + 1
<1>1. IInv /\ [Next]_vars => A
  <2> SUFFICES ASSUME IInv, [Next]_vars, pc = "contiguous", pc' # pc PROVE A
    OBVIOUS
  <2>1. ContiguousEnd
    BY LoopExits
  <2>2. held'[call.caller] = head /\ ret = Len(head) /\ ret \in Nat
    BY <2>1, AllocationEnds DEF IInv, ListsInv, TypeOK
  <2>3. ret = call.cnt
    BY <2>1 DEF ContiguousEnd
  <2>4. call.arena \in Arena /\ call.idx \in Nat /\ Base[call.arena] \in Nat
    BY PmmNodeAssumption DEF IInv, ListsInv, TypeOK, CallRecord, PmmNodeAssumption
  <2>5. ASSUME NEW i \in 1 .. Len(head) - 1
        PROVE  Frame(head[i + 1]) = Frame(head[i]) + 1
    <3>1. i \in 1 .. Len(head) /\ i + 1 \in 1 .. Len(head) /\ i \in Int
      BY <2>2
    <3>2. /\ head[i] = <<call.arena, call.idx - ret + i>>
          /\ head[i + 1] = <<call.arena, call.idx - ret + (i + 1)>>
      BY <3>1 DEF IInv, ResultInv
    <3>3. /\ Frame(head[i]) = Base[call.arena] + (call.idx - ret + i)
          /\ Frame(head[i + 1]) = Base[call.arena] + (call.idx - ret + (i + 1))
      BY <3>2 DEF Frame
    <3> QED
      BY <2>2, <2>4, <3>1, <3>3
  <2> QED
    BY <2>2, <2>3, <2>5
<1>2. IInv /\ [Next]_vars => [A]_vars
  BY <1>1
<1> HIDE DEF A
<1>3. Spec => [][A]_vars
  BY <1>2, InductiveInvariant, PTL DEF Spec
<1> QED
  BY <1>3 DEF A, ContiguousResult

(* A short count means an exhausted arena, and the store through NULL      *)
(* comes of nothing but an empty result.                                   *)
THEOREM ShortCorrect == Spec => ShortMeansEmpty
<1> DEFINE Short == pc = "allocate" /\ pc' # pc /\ ret < call.cnt /\ arena_list # <<>> =>
                      free_list[Head(arena_list)] = <<>>
           Store == null_store' # null_store =>
                      /\ head = <<>> /\ held' = held
                      /\ pc = "allocate" => arena_list = <<>> \/ free_list[Head(arena_list)] = <<>>
                      /\ pc = "contiguous" => ret = 0
           A == /\ pc = "allocate" /\ pc' # pc /\ ret < call.cnt /\ arena_list # <<>> =>
                     free_list[Head(arena_list)] = <<>>
                /\ null_store' # null_store =>
                     /\ head = <<>> /\ held' = held
                     /\ pc = "allocate" => arena_list = <<>> \/ free_list[Head(arena_list)] = <<>>
                     /\ pc = "contiguous" => ret = 0
<1>1. ASSUME IInv, AllocateEnd, ret < call.cnt, arena_list # <<>>
      PROVE  free_list[Head(arena_list)] = <<>>
  <2>a. PICK a : a = Head(arena_list)
    OBVIOUS
  <2>1. a \in Arena
    BY <1>1, <2>a, PopList DEF IInv, ListsInv, TypeOK
  <2>2. ret \in Int /\ call.cnt \in Int /\ ret # call.cnt
    BY <1>1 DEF IInv, ListsInv, TypeOK, ResultInv, AllocateEnd, CallRecord
  <2>3. ~HasPage
    BY <1>1, <2>2 DEF AllocateEnd
  <2>4. free[a] = Len(free_list[a])
    BY <1>1, <2>1 DEF IInv, ListsInv, CountsMatch
  <2>5. free_list[a] \in Seq(Page)
    BY <1>1, <2>1 DEF IInv, ListsInv, TypeOK
  <2> QED
    BY <1>1, <2>a, <2>3, <2>4, <2>5, ElementsOfList DEF HasPage
<1>2. IInv /\ [Next]_vars => Short
  BY <1>1, LoopExits
<1>3. ASSUME IInv, [Next]_vars, null_store' # null_store
      PROVE  \/ AllocateEnd \/ ContiguousEnd
             \/ pc = "idle" /\ \E c \in Caller : Free(c) /\ held[c] = <<>>
  <2> USE DEF AddArena, AllocateNone, Allocate, Begin, ContiguousMiss, Contiguous, LoadBit,
              LoadEnd, AllocatePage, ContiguousPage, FreePage, FreeEnd, Halted
  <2>1. CASE UNCHANGED vars
    BY <1>3, <2>1 DEF vars
  <2>2. CASE Step
    BY <1>3, <2>2 DEF Step
  <2>3. ASSUME NEW c \in Caller, Free(c) PROVE pc = "idle" /\ held[c] = <<>>
    BY <1>3, <2>3 DEF Free
  <2> QED
    BY <1>3, <2>1, <2>2, <2>3 DEF Next
<1>4. IInv /\ [Next]_vars => Store
  <2> SUFFICES ASSUME IInv, [Next]_vars, null_store' # null_store PROVE Store
    OBVIOUS
  <2>1. CASE AllocateEnd \/ ContiguousEnd
    <3>1. /\ head = <<>> /\ held[call.caller] = <<>>
          /\ held' = [held EXCEPT ![call.caller] = head]
          /\ ret = Len(head) /\ call.cnt \in 1 .. MaxCount
      BY <2>1, AllocationEnds
    <3>2. held' = held
      BY <3>1 DEF IInv, ListsInv, TypeOK
    <3>3. ret = 0 /\ ret < call.cnt
      BY <3>1, EmptyList, PmmNodeAssumption DEF PmmNodeAssumption
    <3>4. pc = "allocate" => AllocateEnd
      BY <2>1 DEF ContiguousEnd
    <3> QED
      BY <1>1, <3>1, <3>2, <3>3, <3>4
  <2>2. ASSUME pc = "idle", NEW c \in Caller, Free(c), held[c] = <<>>
        PROVE  Store
    <3>1. held' = held
      BY <2>2 DEF Free, IInv, ListsInv, TypeOK
    <3>2. head = <<>>
      BY <2>2 DEF IInv, ListsInv
    <3> QED
      BY <2>2, <3>1, <3>2
  <2> QED
    BY <1>3, <2>1, <2>2
<1>5. IInv /\ [Next]_vars => [A]_vars
  BY <1>2, <1>4
<1> HIDE DEF A
<1>6. Spec => [][A]_vars
  BY <1>5, InductiveInvariant, PTL DEF Spec
<1> QED
  BY <1>6 DEF A, ShortMeansEmpty

-----------------------------------------------------------------------------
(* The refinement of PageAllocator.                                        *)

AvailIs ==
  \A p : p \in Avail <=> (\E a \in Loaded : p \in ToSet(free_list[a])) \/ p \in ToSet(head)

LEMMA AvailMembers == AvailIs
<1> DEFINE U == UNION {ToSet(free_list[a]) : a \in Loaded}
<1>1. \A p : p \in U <=> \E a \in Loaded : p \in ToSet(free_list[a])
  BY Zenon
<1>2. Avail = U \cup ToSet(head)
  BY DEF Avail
<1> HIDE DEF U
<1> QED
  BY <1>1, <1>2 DEF AvailIs

(* Pages that move between a free list and the list of the running call    *)
(* stay available.                                                         *)
LEMMA Unseen ==
  ASSUME Loaded' = Loaded, held' = held,
         \A p : \/ (\E a \in Loaded : p \in ToSet(free_list'[a])) \/ p \in ToSet(head')
                <=> (\E a \in Loaded : p \in ToSet(free_list[a])) \/ p \in ToSet(head)
  PROVE  UNCHANGED Abstract!absVars
<1>1. AvailIs /\ AvailIs'
  BY AvailMembers, PTL
<1>2. \A p : p \in Avail' <=> p \in Avail
  BY <1>1 DEF AvailIs
<1>3. Avail' = Avail
  BY <1>2 DEF Avail
<1>4. Owned' = Owned
  BY DEF Owned
<1> QED
  BY <1>3, <1>4 DEF Abstract!absVars

LEMMA AddArenaUnseen ==
  ASSUME NEW a \in Arena, NEW bt \in Bitmaps[a], ListsInv, AddArena(a, bt)
  PROVE  UNCHANGED Abstract!absVars
<1>1. /\ pc = "idle" /\ pc' = "load" /\ a \notin ToSet(arena_list) /\ Enlist(a)
      /\ free_list' = [free_list EXCEPT ![a] = FullList(a)]
      /\ call'.arena = a
      /\ UNCHANGED <<held, head>>
  BY DEF AddArena
<1>2. ToSet(arena_list') = ToSet(arena_list) \cup {a}
  BY <1>1, EnlistArena DEF ListsInv, TypeOK
<1>3. Loaded = ToSet(arena_list) /\ Loaded' = Loaded
  BY <1>1, <1>2 DEF Loaded
<1>4. \A b \in Loaded : free_list'[b] = free_list[b]
  BY <1>1, <1>3, ListsInvArenas, ListedArenas DEF ListsInv, TypeOK
<1> QED
  BY <1>1, <1>3, <1>4, Unseen

LEMMA LoadBitUnseen ==
  ASSUME ListsInv, LoadBit
  PROVE  UNCHANGED Abstract!absVars
<1>1. /\ pc = "load" /\ pc' = pc
      /\ \/ free_list' = free_list
         \/ \E s : free_list' = [free_list EXCEPT ![call.arena] = s]
      /\ call' = [call EXCEPT !.i = @ + 1]
      /\ UNCHANGED <<arena_list, held, head>>
  BY DEF LoadBit
<1>2. call'.arena = call.arena
  BY <1>1 DEF ListsInv, TypeOK, CallRecord
<1>3. Loaded' = Loaded /\ call.arena \notin Loaded
  BY <1>1, <1>2 DEF Loaded
<1>4. Loaded \subseteq Arena
  BY ListsInvArenas, ListedArenas DEF Loaded
<1>5. \A b \in Loaded : free_list'[b] = free_list[b]
  BY <1>1, <1>3, <1>4 DEF ListsInv, TypeOK
<1> QED
  BY <1>1, <1>3, <1>5, Unseen

(* With the end of the bitmap the arena becomes known.                     *)
LEMMA LoadEndAdds ==
  ASSUME ListsInv, LoadEnd
  PROVE  \E a \in Arena : Abstract!Add(a)
<1>a. PICK a : a = call.arena
  OBVIOUS
<1>1. /\ UNCHANGED <<arena_list, free_list, held, head>>
      /\ pc = "load" /\ pc' = "idle"
  BY DEF LoadEnd, arenas
<1>2. a \in Arena /\ a \in ToSet(arena_list)
  BY <1>a, <1>1 DEF ListsInv, TypeOK, CallRecord
<1>3. Loaded = ToSet(arena_list) \ {a} /\ Loaded' = ToSet(arena_list)
  BY <1>a, <1>1 DEF Loaded
<1>4. ToSet(free_list[a]) \subseteq PagesOf(a)
  BY <1>2 DEF ListsInv, TypeOK
<1>5. Avail' = Avail \cup ToSet(free_list[a])
  <2>1. AvailIs /\ AvailIs'
    BY AvailMembers, PTL
  <2> QED
    BY <1>1, <1>2, <1>3, <2>1 DEF AvailIs
<1>6. Owned' = Owned
  BY <1>1 DEF Owned
<1> QED
  BY <1>2, <1>3, <1>4, <1>5, <1>6 DEF Abstract!Add

LEMMA PageTakenUnseen ==
  ASSUME ListsInv, pc # "load", NEW a \in Arena, NEW p \in PagesOf(a), PageTaken(a, p)
  PROVE  UNCHANGED Abstract!absVars
<1>1. /\ UNCHANGED <<arena_list, held, pc, call>>
      /\ a \in ToSet(arena_list) /\ p \in ToSet(free_list[a])
      /\ \A b \in Arena : ToSet(free_list'[b]) = ToSet(free_list[b]) \ {p}
  BY DEF PageTaken
<1>2. Loaded' = Loaded /\ a \in Loaded /\ Loaded \subseteq Arena
  BY <1>1, ListsInvArenas, ListedArenas DEF Loaded
<1>3. ToSet(head') = ToSet(head) \cup {p}
  <2>1. head \in Seq(Page) /\ IsInjective(head) /\ p \in Page /\ p \notin ToSet(head)
    BY PageFacts DEF PageTaken, ListsInv, TypeOK, Exclusive
  <2>2. PICK g : g = ListAppend(head, p)
    OBVIOUS
  <2>3. ToSet(g) = ToSet(head) \cup {p}
    BY <2>1, <2>2, AppendOnce
  <2> QED
    BY <2>2, <2>3 DEF PageTaken
<1> QED
  BY <1>1, <1>2, <1>3, Unseen

LEMMA FreePageUnseen ==
  ASSUME PmmNodeAssumption, ListsInv, ListsInv', FreePage
  PROVE  UNCHANGED Abstract!absVars
<1>1. pc = "free" /\ UNCHANGED <<arena_list, held, pc, call>>
  BY DEF FreePage
<1>2. Loaded = ToSet(arena_list) /\ Loaded' = Loaded /\ Loaded \subseteq Arena
  BY <1>1, ListsInvArenas, ListedArenas DEF Loaded
<1> PICK a \in ToSet(arena_list) : \E p \in PagesOf(a) :
           /\ p \in ToSet(head)
           /\ ToSet(head') = ToSet(head) \ {p}
           /\ ToSet(free_list'[a]) = ToSet(free_list[a]) \cup {p}
           /\ \A b \in Arena : b # a => free_list'[b] = free_list[b]
  BY FreePageGives
<1>3. PICK p \in PagesOf(a) :
           /\ p \in ToSet(head)
           /\ ToSet(head') = ToSet(head) \ {p}
           /\ ToSet(free_list'[a]) = ToSet(free_list[a]) \cup {p}
           /\ \A b \in Arena : b # a => free_list'[b] = free_list[b]
  OBVIOUS
<1> QED
  BY <1>1, <1>2, <1>3, Unseen

(* What an allocation took becomes the caller's: as many pages as it asked *)
(* for, or all the arena still had.                                        *)
LEMMA ReturnTakes ==
  ASSUME PmmNodeAssumption, IInv, AllocateEnd \/ ContiguousEnd, head # <<>>
  PROVE  \E c \in Caller, n \in 1 .. MaxCount : Abstract!Take(c, n)
<1>1. /\ call.caller \in Caller /\ held[call.caller] = <<>>
      /\ held' = [held EXCEPT ![call.caller] = head] /\ head' = <<>>
      /\ call.cnt \in 1 .. MaxCount /\ head \in Seq(Page)
      /\ ret = Len(head) /\ ret <= call.cnt
      /\ UNCHANGED <<arena_list, free_list>>
      /\ pc \in {"allocate", "contiguous"} /\ pc' \in {"idle", "fault"}
  BY AllocationEnds DEF AllocateEnd, ContiguousEnd
<1>2. Loaded = ToSet(arena_list) /\ Loaded' = Loaded /\ Loaded \subseteq Arena
  BY <1>1, ListsInvArenas, ListedArenas DEF Loaded, IInv
<1>s. PICK S : S = ToSet(head)
  OBVIOUS
<1>3. S # {} /\ Cardinality(S) = Len(head)
  BY <1>1, <1>s, ElementsOfList, CardinalityOfList DEF IInv, ListsInv, Exclusive
<1>4. \E a \in Loaded : /\ \A p \in S : p[1] = a
                        /\ ret < call.cnt => free_list[a] = <<>>
  <2>1. CASE AllocateEnd
    <3>a. PICK a : a = Head(arena_list)
      OBVIOUS
    <3>1. \A p \in S : p[1] = a
      BY <1>s, <2>1, <3>a DEF AllocateEnd, IInv, ResultInv
    <3>2. a \in Loaded
      BY <1>2, <1>3, <1>s, <3>1 DEF IInv, ListsInv
    <3>3. arena_list # <<>> /\ a \in Arena
      BY <1>2, <3>2, EmptyList
    <3>4. ASSUME ret < call.cnt PROVE free_list[a] = <<>>
      <4>1. ret \in Int /\ call.cnt \in Int /\ ret # call.cnt
        BY <1>1, <3>4
      <4>2. ~HasPage
        BY <2>1, <4>1 DEF AllocateEnd
      <4>3. free[a] = Len(free_list[a]) /\ free_list[a] \in Seq(Page)
        BY <3>3 DEF IInv, ListsInv, TypeOK, CountsMatch
      <4> QED
        BY <3>a, <3>3, <4>2, <4>3, ElementsOfList DEF HasPage
    <3> QED
      BY <3>1, <3>2, <3>4
  <2>2. CASE ContiguousEnd
    <3>1. pc = "contiguous" /\ ret = call.cnt /\ call.arena \in Loaded
      BY <1>2, <2>2 DEF ContiguousEnd, IInv, ListsInv
    <3>2. ASSUME NEW p \in S PROVE p[1] = call.arena
      <4>1. PICK k \in 1 .. Len(head) : p = head[k]
        BY <1>1, <1>s DEF ToSet
      <4>2. head[k] = <<call.arena, call.idx - ret + k>>
        BY <3>1 DEF IInv, ResultInv
      <4>3. PICK x : head[k] = <<call.arena, x>>
        BY <4>2
      <4> QED
        BY <4>1, <4>3
    <3>3. ~(ret < call.cnt)
      BY <1>1, <3>1
    <3> QED
      BY <3>1, <3>2, <3>3
  <2> QED
    BY <2>1, <2>2
<1> PICK a \in Loaded : /\ \A p \in S : p[1] = a
                        /\ ret < call.cnt => free_list[a] = <<>>
  BY <1>4
<1>5. S \subseteq Avail \cap PagesOf(a)
  <2> SUFFICES ASSUME NEW p \in S PROVE p \in Avail /\ p \in PagesOf(a)
    OBVIOUS
  <2>1. p \in Avail
    BY <1>s, AvailMembers DEF AvailIs
  <2>2. p \in Page /\ p[1] = a
    BY <1>1, <1>s, ElementsOfList
  <2> QED
    BY <2>1, <2>2 DEF Page, PagesOf
<1>6. ASSUME Cardinality(S) < call.cnt PROVE S = Avail \cap PagesOf(a)
  <2> SUFFICES ASSUME NEW p \in Avail, p \in PagesOf(a) PROVE p \in S
    BY <1>5
  <2>1. free_list[a] = <<>> /\ a \in Arena
    BY <1>1, <1>2, <1>3, <1>6
  <2>2. p[1] = a
    BY <2>1, PageFacts
  <2>3. ASSUME NEW b \in Loaded, p \in ToSet(free_list[b]) PROVE FALSE
    <3>1. p[1] = b
      BY <1>2, <2>3, PageFacts DEF IInv, ListsInv, TypeOK
    <3> QED
      BY <2>1, <2>2, <2>3, <3>1, EmptyList
  <2> QED
    BY <1>s, <2>3, AvailMembers DEF AvailIs
<1>7. Avail' = Avail \ S
  <2>1. AvailIs /\ AvailIs'
    BY AvailMembers, PTL
  <2>2. /\ \A p : p \in Avail <=> (\E b \in Loaded : p \in ToSet(free_list[b])) \/ p \in S
        /\ \A p : p \in Avail' <=> \E b \in Loaded : p \in ToSet(free_list[b])
    BY <1>1, <1>2, <1>s, <2>1, EmptyList DEF AvailIs
  <2>3. \A b \in Loaded : ToSet(free_list[b]) \cap S = {}
    BY <1>2, <1>s DEF IInv, ListsInv, Exclusive
  <2> QED
    BY <2>2, <2>3
<1>8. Owned[call.caller] = {} /\ Owned' = [Owned EXCEPT ![call.caller] = S]
  BY <1>1, <1>s, EmptyList DEF Owned, IInv, ListsInv, TypeOK
<1>9. Cardinality(S) <= call.cnt
  BY <1>1, <1>3
<1>10. Abstract!Take(call.caller, call.cnt)
  <2>0. Abstract!Cardinality(S) = Cardinality(S)
    BY DEF Abstract!Cardinality, Cardinality
  <2>1. a \in Loaded /\ S \in SUBSET (Avail \cap PagesOf(a)) /\ S # {}
    BY <1>3, <1>5
  <2> QED
    BY <1>2, <1>6, <1>7, <1>8, <1>9, <2>0, <2>1 DEF Abstract!Take
<1> QED
  BY <1>1, <1>10

LEMMA ReturnNothingUnseen ==
  ASSUME IInv, AllocateEnd \/ ContiguousEnd, head = <<>>
  PROVE  UNCHANGED Abstract!absVars
<1>1. /\ call.caller \in Caller /\ held[call.caller] = <<>>
      /\ held' = [held EXCEPT ![call.caller] = head] /\ head' = <<>>
      /\ UNCHANGED <<arena_list, free_list>>
      /\ pc \in {"allocate", "contiguous"} /\ pc' \in {"idle", "fault"}
  BY AllocationEnds DEF AllocateEnd, ContiguousEnd
<1>2. held' = held
  BY <1>1 DEF IInv, ListsInv, TypeOK
<1>3. Loaded' = Loaded
  BY <1>1 DEF Loaded
<1> QED
  BY <1>1, <1>2, <1>3, Unseen

(* All of a caller's pages are available again as soon as free has them.   *)
LEMMA FreeGives ==
  ASSUME NEW c \in Caller, ListsInv, Free(c)
  PROVE  Abstract!Give(c)
<1>1. /\ UNCHANGED <<arena_list, free_list>>
      /\ held' = [held EXCEPT ![c] = <<>>] /\ head' = held[c] /\ head = <<>>
      /\ pc # "load" /\ pc' # "load"
  BY DEF Free, StoreThroughNull, arenas, ListsInv
<1>2. Loaded' = Loaded
  BY <1>1 DEF Loaded
<1>3. Avail' = Avail \cup Owned[c]
  <2>1. AvailIs /\ AvailIs'
    BY AvailMembers, PTL
  <2>2. Owned[c] = ToSet(held[c])
    BY DEF Owned
  <2> QED
    BY <1>1, <1>2, <2>1, <2>2, EmptyList DEF AvailIs
<1>4. Owned' = [Owned EXCEPT ![c] = {}]
  BY <1>1, EmptyList DEF Owned, ListsInv, TypeOK
<1> QED
  BY <1>2, <1>3, <1>4 DEF Abstract!Give

LEMMA StepRefines ==
  PmmNodeAssumption /\ IInv /\ ListsInv' /\ [Next]_vars => [Abstract!Next]_(Abstract!absVars)
<1> SUFFICES ASSUME PmmNodeAssumption, IInv, ListsInv', [Next]_vars
             PROVE  Abstract!Next \/ UNCHANGED Abstract!absVars
  OBVIOUS
<1> USE DEF Abstract!Next
<1>0. ListsInv /\ ResultInv
  BY DEF IInv
<1>1. ASSUME NEW a \in Arena, NEW bt \in Bitmaps[a], AddArena(a, bt)
      PROVE  UNCHANGED Abstract!absVars
  BY <1>0, <1>1, AddArenaUnseen
<1>2. ASSUME UNCHANGED <<arena_list, free_list, held>>, ToSet(head') = ToSet(head),
             pc # "load", pc' # "load"
      PROVE  UNCHANGED Abstract!absVars
  <2>1. Loaded' = Loaded
    BY <1>2 DEF Loaded
  <2> QED
    BY <1>2, <2>1, Unseen
<1>3. ASSUME NEW c \in Caller, AllocateNone(c) PROVE UNCHANGED Abstract!absVars
  BY <1>2, <1>3 DEF AllocateNone, arenas
<1>4. ASSUME NEW c \in Caller, Free(c) PROVE Abstract!Next
  BY <1>0, <1>4, FreeGives
<1>5. ASSUME NEW c \in Caller, NEW n \in 1 .. MaxCount, ContiguousMiss(c, n)
      PROVE  UNCHANGED Abstract!absVars
  BY <1>2, <1>5 DEF ContiguousMiss, arenas
<1>6. ASSUME NEW c \in Caller, NEW n \in 1 .. MaxCount, Allocate(c, n) \/ Contiguous(c, n)
      PROVE  UNCHANGED Abstract!absVars
  <2>1. /\ pc = "idle" /\ pc' \in {"allocate", "contiguous"} /\ head' = <<>>
        /\ UNCHANGED <<arena_list, free_list, held>>
    BY <1>6 DEF Allocate, Contiguous, Begin, arenas
  <2>2. head = <<>>
    BY <1>0, <2>1 DEF ListsInv
  <2> QED
    BY <1>2, <2>1, <2>2
<1>7. CASE LoadBit
  BY <1>0, <1>7, LoadBitUnseen
<1>8. CASE LoadEnd
  BY <1>0, <1>8, LoadEndAdds
<1>9. CASE AllocatePage
  <2>1. pc # "load"
    BY <1>9 DEF AllocatePage
  <2> QED
    BY <1>0, <1>9, <2>1, AllocatePageTakes, PageTakenUnseen
<1>10. CASE ContiguousPage
  <2>1. pc # "load"
    BY <1>10 DEF ContiguousPage
  <2> QED
    BY <1>0, <1>10, <2>1, ContiguousPageTakes, PageTakenUnseen
<1>11. CASE AllocateEnd \/ ContiguousEnd
  BY <1>11, ReturnTakes, ReturnNothingUnseen
<1>12. CASE FreePage
  BY <1>0, <1>12, FreePageUnseen
<1>13. CASE FreeEnd
  BY <1>2, <1>13 DEF FreeEnd, arenas
<1>14. CASE UNCHANGED vars
  <2>1. UNCHANGED <<arena_list, free_list, held, head, pc, call>>
    BY <1>14 DEF vars
  <2>2. Loaded' = Loaded
    BY <2>1 DEF Loaded
  <2> QED
    BY <2>1, <2>2, Unseen
<1> QED
  BY <1>1, <1>3, <1>4, <1>5, <1>6, <1>7, <1>8, <1>9, <1>10, <1>11, <1>12, <1>13, <1>14
     DEF Next, Step, Halted

(* Every call of the linked-list allocator, spread over as many steps as   *)
(* its loops take, is one step of the atomic page allocator.               *)
THEOREM Refinement == Spec => Implements
<1>1. PmmNodeAssumption
  BY PmmNodeAssumption
<1>2. Init => Abstract!Init
  <2> SUFFICES ASSUME Init PROVE Abstract!Init
    OBVIOUS
  <2>1. Loaded = {}
    BY EmptyList DEF Init, Loaded
  <2>2. Avail = {} /\ Owned = [c \in Caller |-> {}]
    BY <2>1, EmptyList DEF Init, Avail, Owned
  <2> QED
    BY <2>1, <2>2 DEF Abstract!Init
<1>3. IInv /\ IInv' /\ [Next]_vars => [Abstract!Next]_(Abstract!absVars)
  BY <1>1, StepRefines DEF IInv
<1> QED
  BY <1>2, <1>3, InductiveInvariant, PTL DEF Spec, Implements, Abstract!Spec

-----------------------------------------------------------------------------
(* The search loop of allocate_contiguous: ContigScan, which has constants *)
(* and variables of its own, for any arenas, flags and count.              *)

(* Membership in RunsIn, without set comprehension.                          *)
LEMMA ScanRunFacts ==
  ASSUME NEW a, NEW s
  PROVE  s \in RunsIn(a) <=>
           /\ s \in 0 .. Sizes[a] - 1
           /\ s + cnt \in 0 .. Sizes[a] - 1
           /\ \A j \in s .. s + cnt - 1 : j \in 0 .. Sizes[a] - 1 /\ j \notin used[a]
BY DEF RunsIn, FoundRuns, IsFreeRun

(* What a step of the loop leaves as it was.                               *)
LEMMA RunsKept ==
  ASSUME used' = used, cnt' = cnt
  PROVE  \A a : RunsIn(a)' = RunsIn(a)
BY DEF RunsIn

LEMMA ScanTypes ==
  ASSUME ContigScanAssumption, ScanInv
  PROVE  /\ Listed \in Nat /\ Unset \in Nat
         /\ at_arena \in Nat /\ at_arena >= 1 /\ at_arena <= Listed + 1
         /\ at_arena <= Listed => at_arena \in 1 .. Listed /\ Sizes[at_arena] \in Nat
         /\ cnt \in Nat /\ cnt >= 1 /\ cnt <= Unset
         /\ at_page \in Nat /\ r1 \in Nat /\ r2 \in Nat /\ idx \in Int /\ farena \in Nat
         /\ r2 <= cnt /\ r2 <= at_page
BY DEF ContigScanAssumption, ScanInv

LEMMA InitScan == ContigScanAssumption /\ ScanInit => ScanInv
<1> SUFFICES ASSUME ContigScanAssumption, ScanInit PROVE ScanInv
  OBVIOUS
<1>1. at_arena = 1 /\ at_page = 0 /\ r1 = Unset /\ r2 = 0 /\ idx = 0 /\ farena = 0 /\ done = FALSE
  BY DEF ScanInit
<1>2. Listed \in Nat /\ Unset \in Nat /\ (at_arena <= Listed => Sizes[at_arena] \in Nat)
  BY <1>1 DEF ContigScanAssumption
<1>3. cnt \in 1 .. MaxCnt /\ cnt \in Nat /\ cnt >= 1
  BY DEF ScanInit, ContigScanAssumption
<1>4. \A s \in RunsIn(at_arena) : s >= 0
  BY ScanRunFacts
<1>5. \A j \in at_page - r2 .. at_page - 1 : FALSE
  BY <1>1
<1>6. /\ at_arena \in 1 .. Listed + 1 /\ farena \in 0 .. Listed
      /\ at_arena <= Listed => at_page <= Sizes[at_arena]
      /\ \A a \in 1 .. at_arena - 1 : FALSE
      /\ at_arena <= Listed => \A s \in RunsIn(at_arena) : s >= at_page - r2
  BY <1>1, <1>2, <1>4
<1>7. /\ at_page \in Nat /\ r2 \in Nat /\ r1 \in Nat /\ idx \in Int /\ r2 <= cnt
      /\ r2 <= at_page /\ at_page = 0
  BY <1>1, <1>2, <1>3
<1>8. used \in [1 .. Listed -> SUBSET Indices]
  BY DEF ScanInit
<1>9. done = FALSE /\ r1 = Unset /\ farena = 0
  BY <1>1
<1> QED
  BY <1>3, <1>5, <1>6, <1>7, <1>8, <1>9 DEF ScanInv

LEMMA ExtendScan == ContigScanAssumption /\ ScanInv /\ Extend => ScanInv'
<1> SUFFICES ASSUME ContigScanAssumption, ScanInv, Extend PROVE ScanInv'
  OBVIOUS
<1>0. /\ Listed \in Nat /\ Unset \in Nat /\ at_arena \in Nat /\ cnt \in Nat /\ at_page \in Nat
      /\ r1 \in Nat /\ r2 \in Nat /\ idx \in Int /\ farena \in Nat
      /\ at_arena >= 1 /\ at_arena <= Listed + 1 /\ cnt >= 1 /\ cnt <= Unset
      /\ r2 <= cnt /\ r2 <= at_page
  BY ScanTypes
<1>1. /\ ~done /\ at_arena <= Listed /\ at_page < Sizes[at_arena]
      /\ at_page \notin used[at_arena] /\ r2 < cnt
      /\ r2' = r2 + 1 /\ at_page' = at_page + 1
      /\ UNCHANGED <<used, cnt, at_arena, r1, idx, farena, done>>
  BY DEF Extend, InArena, Extends
<1>size. at_arena \in 1 .. Listed /\ Sizes[at_arena] \in Nat
  BY <1>1, ScanTypes
<1>2. /\ at_page' - r2' = at_page - r2 /\ r2' <= cnt /\ r2' <= at_page'
      /\ at_page' <= Sizes[at_arena] /\ at_page' \in Nat /\ r2' \in Nat
  BY <1>1, <1>0, <1>size
<1>3. \A j \in at_page' - r2' .. at_page' - 1 : j \notin used[at_arena]
  <2> SUFFICES ASSUME NEW j \in at_page - r2 .. at_page PROVE j \notin used[at_arena]
    BY <1>1, <1>2, <1>0, <1>size
  <2>1. j = at_page \/ j \in at_page - r2 .. at_page - 1
    BY <1>0, <1>size
  <2> QED
    BY <1>1, <2>1 DEF ScanInv
<1>4. \A a : RunsIn(a)' = RunsIn(a)
  BY <1>1, RunsKept
<1> QED
  BY <1>1, <1>2, <1>3, <1>4 DEF ScanInv

LEMMA EndRunScan == ContigScanAssumption /\ ScanInv /\ EndRun => ScanInv'
<1> SUFFICES ASSUME ContigScanAssumption, ScanInv, EndRun PROVE ScanInv'
  OBVIOUS
<1>0. /\ Listed \in Nat /\ Unset \in Nat /\ at_arena \in Nat /\ cnt \in Nat /\ at_page \in Nat
      /\ r1 \in Nat /\ r2 \in Nat /\ idx \in Int /\ farena \in Nat
      /\ at_arena >= 1 /\ at_arena <= Listed + 1 /\ cnt >= 1 /\ cnt <= Unset
      /\ r2 <= cnt /\ r2 <= at_page
  BY ScanTypes
<1>1. /\ ~done /\ at_arena <= Listed /\ at_page < Sizes[at_arena]
      /\ at_page \in used[at_arena] \/ r2 >= cnt
      /\ UNCHANGED <<used, cnt, at_arena>>
  BY ScanTypes, SMTT(30) DEF EndRun, InArena, Extends
<1>size. at_arena \in 1 .. Listed /\ Sizes[at_arena] \in Nat
  BY <1>1, ScanTypes
<1>2. \A a : RunsIn(a)' = RunsIn(a)
  BY <1>1, RunsKept
<1>3. r1 = Unset /\ farena = 0
  BY <1>1 DEF ScanInv
<1>4. CASE r2 < cnt
  <2>1. r2' = 0 /\ at_page' = at_page + 1 /\ UNCHANGED <<idx, r1, farena, done>>
    BY <1>4, <1>0, <1>size DEF EndRun
  <2>2. ASSUME NEW s \in RunsIn(at_arena) PROVE s >= at_page + 1
    <3>1. /\ s \in Nat
          /\ \A j \in s .. s + cnt - 1 : j \notin used[at_arena]
      BY ScanRunFacts
    <3>2. s >= at_page - r2
      BY <1>1 DEF ScanInv
    <3>3. CASE s <= at_page
      <4>1. at_page \in s .. s + cnt - 1
        BY <1>4, <3>1, <3>2, <3>3, <1>0, <1>size
      <4> QED
        BY <1>1, <1>4, <3>1, <4>1, <1>0, <1>size
    <3> QED
      BY <3>1, <3>3, <1>0, <1>size
  <2>3. /\ at_page' <= Sizes[at_arena] /\ at_page' \in Nat /\ r2' <= cnt /\ r2' <= at_page'
        /\ at_page' - r2' = at_page + 1
    BY <1>1, <2>1, <1>0, <1>size
  <2>4. \A j \in at_page' - r2' .. at_page' - 1 : FALSE
    BY <2>1, <1>0, <1>size
  <2> QED
    BY <1>1, <1>2, <2>1, <2>2, <2>3, <2>4 DEF ScanInv
<1>5. CASE r2 = cnt
  <2>1. /\ idx' = at_page - 1 /\ r1' = cnt /\ farena' = at_arena /\ done' = TRUE
        /\ UNCHANGED <<at_page, r2>>
    <3>1. r2 <= r1 /\ r2 >= cnt
      BY <1>3, <1>5, <1>0, <1>size
    <3> QED
      BY <1>5, <3>1 DEF EndRun
  <2>2. idx' - cnt + 1 = at_page - cnt /\ idx' \in Int /\ farena' \in 0 .. Listed /\ farena' # 0
    BY <1>1, <2>1, <1>0, <1>size
  <2>3. at_page - cnt \in RunsIn(at_arena)
    <3>1. /\ at_page - cnt \in 0 .. Sizes[at_arena] - 1
          /\ (at_page - cnt) + cnt \in 0 .. Sizes[at_arena] - 1
      BY <1>1, <1>5, <1>0, <1>size
    <3>2. ASSUME NEW j \in at_page - cnt .. (at_page - cnt) + cnt - 1
          PROVE  j \in 0 .. Sizes[at_arena] - 1 /\ j \notin used[at_arena]
      <4>1. j \in at_page - r2 .. at_page - 1 /\ j \in 0 .. Sizes[at_arena] - 1
        BY <1>1, <1>5, <1>0, <1>size
      <4> QED
        BY <1>1, <4>1 DEF ScanInv
    <3> QED
      BY <3>1, <3>2, ScanRunFacts
  <2>4. \A s \in RunsIn(at_arena) : at_page - cnt <= s
    <3>1. ASSUME NEW s \in RunsIn(at_arena) PROVE at_page - cnt <= s
      <4>1. s >= at_page - r2 /\ s \in Int
        BY <1>1, ScanRunFacts DEF ScanInv
      <4> QED
        BY <1>5, <4>1, <1>0, <1>size
    <3> QED
      BY <3>1
  <2>5. FirstFit'
    <3>1. \A a \in 1 .. at_arena - 1 : RunsIn(a) = {}
      BY DEF ScanInv
    <3>2. at_arena \in 1 .. Listed
      BY <1>1, <1>0, <1>size
    <3> QED
      BY <1>1, <1>2, <2>1, <2>2, <2>3, <2>4, <3>1, <3>2 DEF FirstFit
  <2> QED
    BY <1>1, <1>2, <2>1, <2>2, <2>5, <1>0, <1>size DEF ScanInv
<1> QED
  BY <1>4, <1>5, <1>0, <1>size

LEMMA NextArenaScan == ContigScanAssumption /\ ScanInv /\ NextArena => ScanInv'
<1> SUFFICES ASSUME ContigScanAssumption, ScanInv, NextArena PROVE ScanInv'
  OBVIOUS
<1>0. /\ Listed \in Nat /\ Unset \in Nat /\ at_arena \in Nat /\ cnt \in Nat /\ at_page \in Nat
      /\ r1 \in Nat /\ r2 \in Nat /\ idx \in Int /\ farena \in Nat
      /\ at_arena >= 1 /\ at_arena <= Listed + 1 /\ cnt >= 1 /\ cnt <= Unset
      /\ r2 <= cnt /\ r2 <= at_page
  BY ScanTypes
<1>1. /\ ~done /\ at_arena <= Listed /\ at_page >= Sizes[at_arena]
      /\ at_arena' = at_arena + 1 /\ at_page' = 0 /\ r2' = 0
      /\ UNCHANGED <<used, cnt, r1, idx, farena, done>>
  BY DEF NextArena
<1>size. at_arena \in 1 .. Listed /\ Sizes[at_arena] \in Nat
  BY <1>1, ScanTypes
<1>2. \A a : RunsIn(a)' = RunsIn(a)
  BY <1>1, RunsKept
<1>3. RunsIn(at_arena) = {}
  <2> SUFFICES ASSUME NEW s \in RunsIn(at_arena) PROVE FALSE
    OBVIOUS
  <2>1. s \in Nat /\ s + cnt <= Sizes[at_arena] - 1
    BY <1>1, ScanRunFacts, <1>0, <1>size, SMTT(60)
  <2>2. s >= at_page - r2
    BY <1>1 DEF ScanInv
  <2> QED
    BY <1>1, <2>1, <2>2, <1>0, <1>size
<1>4. \A a \in 1 .. at_arena' - 1 : RunsIn(a)' = {}
  <2> SUFFICES ASSUME NEW a \in 1 .. at_arena PROVE RunsIn(a) = {}
    BY <1>1, <1>2, <1>0, <1>size
  <2>1. a = at_arena \/ a \in 1 .. at_arena - 1
    BY <1>0, <1>size
  <2> QED
    BY <1>3, <2>1 DEF ScanInv
<1>5. at_arena' \in 1 .. Listed + 1 /\ (at_arena' <= Listed => Sizes[at_arena'] \in Nat)
  BY <1>1, <1>0, <1>size DEF ContigScanAssumption
<1>6. \A s \in RunsIn(at_arena') : s >= 0
  BY ScanRunFacts
<1>7. /\ at_page' \in Nat /\ r2' \in Nat /\ r2' <= cnt' /\ r2' <= at_page'
      /\ at_arena' <= Listed => at_page' <= Sizes[at_arena']
      /\ at_arena' > Listed => at_page' = 0
      /\ \A j \in at_page' - r2' .. at_page' - 1 : FALSE
      /\ at_page' - r2' = 0
  BY <1>1, <1>5, <1>0, <1>size
<1>8. at_arena' <= Listed /\ ~done' => \A s \in RunsIn(at_arena)' : s >= at_page' - r2'
  BY <1>1, <1>6, <1>7 DEF RunsIn
<1> QED
  BY <1>1, <1>4, <1>5, <1>7, <1>8 DEF ScanInv

LEMMA EndOfListScan == ContigScanAssumption /\ ScanInv /\ EndOfList => ScanInv'
<1> SUFFICES ASSUME ContigScanAssumption, ScanInv, EndOfList PROVE ScanInv'
  OBVIOUS
<1>1. /\ ~done /\ at_arena > Listed /\ done' = TRUE
      /\ UNCHANGED <<used, cnt, at_arena, at_page, r1, r2, idx, farena>>
  BY DEF EndOfList
<1>2. \A a : RunsIn(a)' = RunsIn(a)
  BY <1>1, RunsKept
<1>3. \A a \in 1 .. Listed : RunsIn(a) = {}
  <2>1. at_arena - 1 = Listed
    BY <1>1, ScanTypes, SMTT(60)
  <2> QED
    BY <2>1 DEF ScanInv
<1>4. farena = 0
  BY <1>1 DEF ScanInv
<1>5. FirstFit'
  BY <1>1, <1>2, <1>3, <1>4 DEF FirstFit
<1> QED
  BY <1>1, <1>2, <1>5, ScanTypes DEF ScanInv

LEMMA NextScan == ContigScanAssumption /\ ScanInv /\ [ScanNext]_scan_vars => ScanInv'
<1> SUFFICES ASSUME ContigScanAssumption, ScanInv, [ScanNext]_scan_vars PROVE ScanInv'
  OBVIOUS
<1>1. CASE UNCHANGED scan_vars
  <2>1. UNCHANGED <<used, cnt, at_arena, at_page, r1, r2, idx, farena, done>>
    BY <1>1 DEF scan_vars
  <2>2. \A a : RunsIn(a)' = RunsIn(a)
    BY <2>1, RunsKept
  <2> QED
    BY <2>1, <2>2 DEF ScanInv, FirstFit
<1>2. CASE ScanStep
  BY <1>2, ExtendScan, EndRunScan, NextArenaScan, EndOfListScan DEF ScanStep
<1> QED
  BY <1>1, <1>2 DEF ScanNext, Returned

(* The loop invariant, for every list of arenas and every count.           *)
THEOREM ScanInvariance ==
  ScanSpec => []ScanInv
<1>1. ScanInit => ScanInv
  BY InitScan, ContigScanAssumption
<1>2. ScanInv /\ [ScanNext]_scan_vars => ScanInv'
  BY NextScan, ContigScanAssumption
<1> QED
  BY <1>1, <1>2, PTL DEF ScanSpec

(* The loop of allocate_contiguous finds the first run that ends before    *)
(* the last page of its arena, and none when there is none: the guards of  *)
(* Contiguous and ContiguousMiss in PmmNode.                               *)
THEOREM ScanCorrect ==
  ScanSpec => []FirstFit
<1>1. ScanInv => FirstFit
  BY DEF ScanInv, FirstFit
<1> QED
  BY <1>1, ScanInvariance, PTL
=============================================================================
