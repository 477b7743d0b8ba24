------------------------------ MODULE KernelMap ------------------------------
(***************************************************************************)
(* The page tables of the 32-bit builds: loader/x86/mmu.cc sets them up    *)
(* and maps the kernel's image, page structures and stack                  *)
(* (loader/x86/loader.cc), the kernel's arch/x86/32/mmu.cc adds the window *)
(* of platform::init, through which the kernel reaches physical memory.    *)
(*                                                                         *)
(* Both MMUs of the source are one here: without PAE there is one page     *)
(* directory, with it there are several, and "dirs" says how many.  A      *)
(* table has E entries, so page v is entry v % E of the table that entry   *)
(* v \div E of the directories, taken together, names.  The last entries   *)
(* of the last directory are the directories themselves: a window through  *)
(* which every table is a page.                                            *)
(*                                                                         *)
(* Frames are taken as BootMem has it on a map that fits: the loader from  *)
(* the top, the kernel from the bottom.  When they have run out the next   *)
(* call panics, and here the system stops; BootMem has the panic.          *)
(***************************************************************************)
EXTENDS Integers, FiniteSetsExt, SequencesExt

CONSTANTS
  E,          \* entries of a table: 1024, with PAE 512
  Dirs,       \* page directories there may be: 1, with PAE 4
  Frames32,   \* frames in 4 GiB: map casts a physical address to uint32_t
  NFrames,    \* page frames there are
  Regions,    \* the usable regions of the memory map: <<first, last>> frames
  Reserved,   \* frames of the loader, the modules and the bitmap
  MapFrames,  \* frames the boot loader may have left the memory map in
  WindowPage, \* page of ARCH_KMALLOC_BASE, for each of Dirs
  WindowLen,  \* pages in ARCH_KMALLOC_LENGTH
  VirtPage,   \* page of ARCH_VIRT_BASE, for each of Dirs
  LowPages,   \* pages in the first MiB
  Segments,   \* program headers: [page, pages, frame, bss], page above VirtPage
  Structs,    \* page_t structures a page holds
  StackPage,  \* the page below ARCH_STACK_BOTTOM, above VirtPage
  TlbSize,    \* bound: translations the processor caches
  None, Junk, New  \* entry 0, an entry of uncleared memory, "take a frame"

Frame == 0 .. NFrames - 1
Index == 0 .. E - 1

(* init_pps32 rounds up by mapping one page more.                          *)
PpsPages == NFrames \div Structs + 1

(* The tables of the first 4 MiB: with PAE, whose entries are twice as     *)
(* long, there are two.                                                    *)
LowTablesOf(d) == IF d = 1 THEN 1 ELSE 2

(* Memory ends below 4 GiB: above, map casts away the top of an address.   *)
ASSUME KernelMapAssumption ==
  /\ E \in Nat \ {0, 1} /\ Dirs \subseteq Index \ {0} /\ Structs \in Nat \ {0}
  /\ Frames32 \in Nat /\ NFrames \in Nat /\ NFrames <= Frames32
  /\ MapFrames \subseteq Frame /\ Reserved \subseteq Frame
  /\ None \notin Nat \cup {Junk, New} /\ Junk \notin Frame \cup {New} /\ New \notin Frame

(* The memory map: bootmem.cc's num_pages reaches to its end.               *)
ASSUME RegionsAssumption ==
  Regions \in Seq(Nat \X Int) /\ \A r \in ToSet(Regions) : r[2] < NFrames

(* The address space, from bottom to top: the first 4 MiB, of which the    *)
(* machine has memory; ARCH_KMALLOC_BASE 0xC0000000, its length up to      *)
(* ARCH_VIRT_BASE 0xE0000000; the first MiB once more; the image, linked   *)
(* at 0xE0100000; its page structures; the stack, whose bottom 0xFF800000  *)
(* is below the recursive entries.                                         *)
ASSUME LayoutAssumption ==
  /\ LowPages \in Nat /\ WindowLen \in Nat /\ StackPage \in Nat
  /\ LowPages <= NFrames
  /\ Segments \in Seq([page : Nat, pages : Nat, frame : Nat, bss : BOOLEAN]) \ {<<>>}
  /\ \A s \in ToSet(Segments) :
       /\ LowPages <= s.page /\ s.page + s.pages + PpsPages <= StackPage
       /\ ~s.bss => s.frame + s.pages <= NFrames
  /\ \A d \in Dirs :
       /\ LowTablesOf(d) * E <= NFrames
       /\ WindowPage[d] \in Nat /\ VirtPage[d] \in Nat
       /\ LowTablesOf(d) * E <= WindowPage[d]
       /\ WindowPage[d] + WindowLen <= VirtPage[d]
       /\ VirtPage[d] + StackPage < (d * E - d) * E

VARIABLES
  mem,     \* the entries each frame holds when read as a table
  dirs,    \* page directories: more than one when get_mmu chooses PAE
  map_at,  \* the frame of the memory map
  root,    \* the frame of each directory
  tlb,     \* cached translations, <<page, frame>>
  taken,   \* the bitmap
  want,    \* history: where each page was mapped to last
  todo,    \* the loader's remaining calls of map
  left,    \* the regions platform::init has not finished
  pa, va,  \* its loop variables: the next frame and page of the window
  max_pa,  \* the end of the highest frame mapped
  phase

vars == <<mem, dirs, map_at, root, tlb, taken, want, todo, left, pa, va, max_pa, phase>>

-----------------------------------------------------------------------------
Page == 0 .. dirs * E * E - 1
Directory == 0 .. dirs - 1

(* The entry for page v in the directories: which one and where.           *)
DirOf(v) == v \div (E * E)
EntryOf(v) == (v \div E) % E

(* The processor's walk from directory to table to frame.                  *)
Walk(m, v) ==
  LET t == m[root[DirOf(v)]][EntryOf(v)] IN IF t \in Frame THEN m[t][v % E] ELSE t

Translate(m, cache, v) ==
  IF \E f \in Frame : <<v, f>> \in cache
  THEN CHOOSE f \in Frame : <<v, f>> \in cache
  ELSE Walk(m, v)

Invalidate(cache, v) == {e \in cache : e[1] # v}

(* ptvd, the page where the table of v is seen, and the one where its      *)
(* directory is.                                                           *)
TablePage(v) == (dirs * E - dirs) * E + v \div E
DirPage(v) == dirs * E * E - dirs + DirOf(v)

Cleared == [i \in Index |-> None]

(* Mmu::map: a missing table is a new frame f, put into the directory and  *)
(* then cleared through the recursive entry; the mutants do not clear it,  *)
(* and do not invalidate the page.                                         *)
Missing(v) == mem[Translate(mem, tlb, DirPage(v))][EntryOf(v)] = None

NewTableUncleared(v, f) ==
  [mem EXCEPT ![Translate(mem, tlb, DirPage(v))][EntryOf(v)] = f]

NewTable(v, f) ==
  LET m == [mem EXCEPT ![Translate(mem, tlb, DirPage(v))][EntryOf(v)] = f]
  IN [m EXCEPT ![Translate(m, Invalidate(tlb, TablePage(v)), TablePage(v))] = Cleared]

CacheAfterNothing(cache, v) == cache
CacheAfter(cache, v) == Invalidate(cache, v)

MapPage(v, p, f) ==
  LET m == IF Missing(v) THEN NewTable(v, f) ELSE mem
      cache == IF Missing(v) THEN Invalidate(tlb, TablePage(v)) ELSE tlb
  IN /\ mem' = [m EXCEPT ![Translate(m, cache, TablePage(v))][v % E] = p % Frames32]
     /\ tlb' = CacheAfter(cache, v)
     /\ want' = [want EXCEPT ![v] = p]

(* The bitmap after a table was made of frame f; the mutant does not mark it.*)
TableUnmarked(t, v, f) == t
TableMarked(t, v, f) == IF Missing(v) THEN t \cup {f} ELSE t

-----------------------------------------------------------------------------
Usable == UNION {Regions[k][1] .. Regions[k][2] : k \in DOMAIN Regions}

Free(t) == Frame \ t
Top(t) == Max(Free(t))
Bottom(t) == Min(Free(t))

(* run_program32: the calls of map in order.                               *)
SegmentMaps(s) ==
  [j \in 1 .. s.pages |-> <<VirtPage[dirs] + s.page + j - 1, IF s.bss THEN New ELSE s.frame + j - 1>>]

(* my_pps_hard.                                                            *)
PpsPage == Max({VirtPage[dirs] + s.page + s.pages : s \in ToSet(Segments)})

LoaderMaps ==
  [i \in 1 .. LowPages |-> <<VirtPage[dirs] + i - 1, i - 1>>]
    \o FlattenSeq([k \in DOMAIN Segments |-> SegmentMaps(Segments[k])])
    \o [i \in 1 .. PpsPages |-> <<PpsPage + i - 1, New>>]
    \o <<<<VirtPage[dirs] + StackPage, New>>>>

Init ==
  /\ mem = [f \in Frame |-> [i \in Index |-> Junk]]
  /\ dirs \in Dirs
  /\ map_at \in MapFrames
  /\ root = [d \in Directory |-> 0]
  /\ tlb = {}
  /\ taken = (Frame \ Usable) \cup Reserved
  /\ want = [v \in Page |-> None]
  /\ todo = LoaderMaps
  /\ left = Regions
  /\ pa = None /\ va = 0 /\ max_pa = 0
  /\ phase = "start"

(* The loader's Mmu::init: the directories, the tables of the first 4 MiB, *)
(* and paging on.  pmm_alloc_page clears every frame.                      *)
LowTables == LowTablesOf(dirs)
InitFrames == dirs + LowTables

TopFrame(k) ==
  CHOOSE f \in Free(taken) : Cardinality({g \in Free(taken) : g > f}) = k - 1

MmuInit ==
  /\ phase = "start"
  /\ Cardinality(Free(taken)) >= InitFrames
  /\ phase' = "loader"
  /\ LET fs == [k \in 1 .. InitFrames |-> TopFrame(k)]
         directory(d) ==
           [i \in Index |-> IF d = 0 /\ i < LowTables THEN fs[dirs + i + 1]
                            ELSE IF d = dirs - 1 /\ i >= E - dirs THEN fs[i - (E - dirs) + 1]
                            ELSE None]
         lowtable(t) == [i \in Index |-> t * E + i]
     IN /\ taken' = taken \cup ToSet(fs)
        /\ root' = [d \in Directory |-> fs[d + 1]]
        /\ mem' = [f \in Frame |->
             IF f \notin ToSet(fs) THEN mem[f]
             ELSE LET k == CHOOSE k \in DOMAIN fs : fs[k] = f
                  IN IF k <= dirs THEN directory(k - 1) ELSE lowtable(k - dirs - 1)]
  /\ want' = [v \in Page |-> IF v < LowTables * E THEN v ELSE None]
  /\ UNCHANGED <<dirs, map_at, tlb, todo, left, pa, va, max_pa>>

(* One call of map from run_program32.  The frame to map is taken before   *)
(* the frame of a table that is missing.                                   *)
LoaderMap ==
  /\ phase = "loader" /\ todo # <<>>
  /\ Head(todo)[2] = New => Free(taken) # {}
  /\ LET v == Head(todo)[1]
         p == IF Head(todo)[2] = New THEN Top(taken) ELSE Head(todo)[2]
         mine == taken \cup (IF Head(todo)[2] = New THEN {p} ELSE {})
     IN /\ Missing(v) => Free(mine) # {}
        /\ MapPage(v, p, Top(mine))
        /\ taken' = TableMarked(mine, v, Top(mine))
  /\ todo' = Tail(todo)
  /\ UNCHANGED <<dirs, map_at, root, left, pa, va, max_pa, phase>>

EnterKernel ==
  /\ phase = "loader" /\ todo = <<>>
  /\ phase' = "kernel"
  /\ UNCHANGED <<mem, dirs, map_at, root, tlb, taken, want, todo, left, pa, va, max_pa>>

(* platform::init.  The outer loop reads the next region from the memory   *)
(* map; when a page table has been laid over it, what is read there is     *)
(* never of type MULTIBOOT_MEMORY_AVAILABLE.  The mutant starts the window *)
(* again with each region.                                                 *)
VaAgain == 0
VaNext == va

NextRegion ==
  /\ phase = "kernel" /\ pa = None
  /\ left # <<>> /\ va < WindowLen
  /\ mem[map_at][0] = Junk
  /\ pa' = Head(left)[1]
  /\ va' = VaNext
  /\ UNCHANGED <<mem, dirs, map_at, root, tlb, taken, want, todo, left, max_pa, phase>>

WindowLeft == va < WindowLen

(* The inner loop.  A table's frame comes from the bottom of the bitmap.   *)
MapFrameOfRegion ==
  /\ phase = "kernel" /\ pa # None
  /\ pa <= Head(left)[2] /\ WindowLeft
  /\ LET v == WindowPage[dirs] + va
     IN /\ Missing(v) => Free(taken) # {}
        /\ MapPage(v, pa, Bottom(taken))
        /\ taken' = TableMarked(taken, v, Bottom(taken))
  /\ pa' = pa + 1 /\ va' = va + 1
  /\ max_pa' = IF pa + 1 > max_pa THEN pa + 1 ELSE max_pa
  /\ UNCHANGED <<dirs, map_at, root, todo, left, phase>>

EndRegion ==
  /\ phase = "kernel" /\ pa # None
  /\ pa > Head(left)[2] \/ ~WindowLeft
  /\ pa' = None /\ left' = Tail(left)
  /\ UNCHANGED <<mem, dirs, map_at, root, tlb, taken, want, todo, va, max_pa, phase>>

MemInit ==
  /\ phase = "kernel" /\ pa = None
  /\ left = <<>> \/ va >= WindowLen \/ mem[map_at][0] # Junk
  /\ phase' = "running"
  /\ UNCHANGED <<mem, dirs, map_at, root, tlb, taken, want, todo, left, pa, va, max_pa>>

(* The processor may cache the translation of any page at any time, and    *)
(* forget one to make room.                                                *)
Touch(v) ==
  /\ phase # "start"
  /\ Walk(mem, v) \in Frame
  /\ \E kept \in SUBSET Invalidate(tlb, v) :
       /\ Cardinality(kept) < TlbSize
       /\ tlb' = kept \cup {<<v, Translate(mem, tlb, v)>>}
  /\ UNCHANGED <<mem, dirs, map_at, root, taken, want, todo, left, pa, va, max_pa, phase>>

Next ==
  \/ MmuInit \/ LoaderMap \/ EnterKernel
  \/ NextRegion \/ MapFrameOfRegion \/ EndRegion \/ MemInit
  \/ \E v \in Page : Touch(v)

Spec == Init /\ [][Next]_vars
=============================================================================
