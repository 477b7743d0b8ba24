----------------------------- MODULE ContigScan -----------------------------
(***************************************************************************)
(* The search loop of PmmNode::allocate_contiguous, one page per step.     *)
(* PmmNode takes what the loop finds from FoundRuns of PageRuns; here the  *)
(* loop itself is modelled, and the theorem of PmmNodeProofs says that it  *)
(* finds exactly that.  An arena is its position in the arena list.        *)
(***************************************************************************)
EXTENDS PageRuns

CONSTANTS
  Listed,     \* the length of the arena list
  Sizes,      \* arena->size of each
  MaxCnt,     \* bound: the largest count asked for
  Unset       \* 0x7FFFFFFF, the value r1 starts with

ASSUME ContigScanAssumption ==
  /\ Listed \in Nat
  /\ Sizes \in [1 .. Listed -> Nat]
  /\ MaxCnt \in Nat /\ Unset \in Nat
  /\ MaxCnt <= Unset

VARIABLES
  used,       \* the indices with CX_PAGE_OCCUPIED in each arena
  cnt,        \* the argument
  at_arena,   \* the arena the outer loop is at
  at_page,    \* the page the inner loop is at
  r1, r2,     \* the length of the run found, and of the run being counted
  idx,        \* the last page of the run found
  farena,     \* its arena, 0 for NULL
  done        \* the loop was left

scan_vars == <<used, cnt, at_arena, at_page, r1, r2, idx, farena, done>>

Indices == UNION {0 .. Sizes[a] - 1 : a \in 1 .. Listed}

ScanInit ==
  /\ used \in [1 .. Listed -> SUBSET Indices]
  /\ cnt \in 1 .. MaxCnt
  /\ at_arena = 1 /\ at_page = 0
  /\ r1 = Unset /\ r2 = 0
  /\ idx = 0 /\ farena = 0
  /\ done = FALSE

InArena == ~done /\ at_arena <= Listed /\ at_page < Sizes[at_arena]

(* A free page, and the run is not long enough yet; the mutant looks at    *)
(* the flag only.                                                          *)
ExtendsAlways == at_page \notin used[at_arena]
Extends == at_page \notin used[at_arena] /\ r2 < cnt

Extend ==
  /\ InArena
  /\ Extends
  /\ r2' = r2 + 1
  /\ at_page' = at_page + 1
  /\ UNCHANGED <<used, cnt, at_arena, r1, idx, farena, done>>

(* Any other page ends the run, a free one too; the mutant does not forget *)
(* a run that was too short.                                               *)
EndRunKeeps ==
  /\ InArena
  /\ ~Extends
  /\ IF r2 <= r1 /\ r2 >= cnt
     THEN idx' = at_page - 1 /\ r1' = r2 /\ farena' = at_arena
     ELSE UNCHANGED <<idx, r1, farena>>
  /\ IF r2 = cnt THEN done' = TRUE /\ UNCHANGED at_page
                 ELSE at_page' = at_page + 1 /\ UNCHANGED done
  /\ UNCHANGED <<used, cnt, at_arena, r2>>

EndRun ==
  /\ InArena
  /\ ~Extends
  /\ IF r2 <= r1 /\ r2 >= cnt
     THEN idx' = at_page - 1 /\ r1' = r2 /\ farena' = at_arena
     ELSE UNCHANGED <<idx, r1, farena>>
  /\ IF r2 = cnt THEN done' = TRUE /\ UNCHANGED <<at_page, r2>>
                 ELSE r2' = 0 /\ at_page' = at_page + 1 /\ UNCHANGED done
  /\ UNCHANGED <<used, cnt, at_arena>>

(* The next arena of the list, or its end; the mutant starts over.         *)
NextArenaAgain ==
  /\ ~done /\ at_arena <= Listed /\ at_page >= Sizes[at_arena]
  /\ at_page' = 0 /\ r2' = 0
  /\ UNCHANGED <<used, cnt, at_arena, r1, idx, farena, done>>

NextArena ==
  /\ ~done /\ at_arena <= Listed /\ at_page >= Sizes[at_arena]
  /\ at_arena' = at_arena + 1 /\ at_page' = 0 /\ r2' = 0
  /\ UNCHANGED <<used, cnt, r1, idx, farena, done>>

EndOfList ==
  /\ ~done /\ at_arena > Listed
  /\ done' = TRUE
  /\ UNCHANGED <<used, cnt, at_arena, at_page, r1, r2, idx, farena>>

ScanStep == Extend \/ EndRun \/ NextArena \/ EndOfList

Returned == done /\ UNCHANGED scan_vars

ScanNext == ScanStep \/ Returned

ScanSpec == ScanInit /\ [][ScanNext]_scan_vars /\ WF_scan_vars(ScanStep)

-----------------------------------------------------------------------------
RunsIn(a) == FoundRuns(used[a], Sizes[a], cnt)

(* After the loop, the test r1 != cnt || !farena tells whether a run was   *)
(* found; it is the first one of the first arena that has any.             *)
FirstFit ==
  done =>
    IF r1 = cnt /\ farena # 0
    THEN /\ farena \in 1 .. Listed
         /\ \A a \in 1 .. farena - 1 : RunsIn(a) = {}
         /\ idx - cnt + 1 \in RunsIn(farena)
         /\ \A s \in RunsIn(farena) : idx - cnt + 1 <= s
    ELSE \A a \in 1 .. Listed : RunsIn(a) = {}

(* The loop ends.                                                          *)
Ends == <>done

(* Why: the pages just before it are the run being counted, no run ends    *)
(* earlier, and a run is recorded only by leaving the loop.                *)
ScanInv ==
  /\ used \in [1 .. Listed -> SUBSET Indices]
  /\ cnt \in 1 .. MaxCnt
  /\ at_arena \in 1 .. Listed + 1
  /\ at_page \in Nat /\ r2 \in Nat /\ r1 \in Nat /\ idx \in Int /\ farena \in 0 .. Listed
  /\ done \in BOOLEAN
  /\ at_arena <= Listed => at_page <= Sizes[at_arena]
  /\ at_arena > Listed => at_page = 0
  /\ r2 <= cnt /\ r2 <= at_page
  /\ ~done => r1 = Unset /\ farena = 0
  /\ \A a \in 1 .. at_arena - 1 : RunsIn(a) = {}
  /\ at_arena <= Listed => \A j \in at_page - r2 .. at_page - 1 : j \notin used[at_arena]
  /\ at_arena <= Listed /\ ~done => \A s \in RunsIn(at_arena) : s >= at_page - r2
  /\ done => FirstFit
=============================================================================
