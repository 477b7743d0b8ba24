--------------------------- MODULE KernelMapProps ---------------------------
(* What the page tables owe the loader and the kernel.                     *)
EXTENDS KernelMap

Paging == phase # "start"

(* Every variable keeps its type.                                          *)
TypeOK ==
  /\ mem \in [Frame -> [Index -> Frame \cup {None, Junk}]]
  /\ dirs \in Dirs /\ map_at \in MapFrames /\ root \in [Directory -> Frame] /\ taken \subseteq Frame
  /\ tlb \subseteq Page \X Frame
  /\ want \in [Page -> Frame \cup {None}]
  /\ va \in 0 .. WindowLen /\ max_pa \in 0 .. NFrames
  /\ phase \in {"start", "loader", "kernel", "running"}

(* Outside of the recursive entries, the walk finds exactly what was       *)
(* mapped there last, and nothing where nothing was mapped: no call of map *)
(* disturbs another one, a new table never brings entries along.           *)
WalkExact ==
  Paging => \A v \in Page : v \div E < dirs * E - dirs => Walk(mem, v) = want[v]

(* No cached translation outlives the entry it was read from.              *)
TlbCoherent == \A e \in tlb : Walk(mem, e[1]) = e[2]

(* The directories and their tables are different frames, each marked in   *)
(* the bitmap, none of the modules' or unusable, and what was mapped to a  *)
(* new frame (page structures, the stack) does not share it with a table.  *)
Entries == {e \in Directory \X Index : mem[root[e[1]]][e[2]] # None}
Tables == {mem[root[e[1]]][e[2]] : e \in Entries}
NewPages ==
  {PpsPage + i : i \in 0 .. PpsPages - 1} \cup {VirtPage[dirs] + StackPage}

TablesOwn ==
  Paging =>
    /\ Tables \subseteq (Usable \cap taken) \ Reserved
    /\ Cardinality(Tables) = Cardinality(Entries)
    /\ \A v \in NewPages : want[v] \notin Tables
    /\ \A v, w \in NewPages : v # w /\ want[v] # None => want[v] # want[w]

TablesInv == TypeOK /\ TablesOwn

(* A memory map in the order of the addresses.  platform::init reads it as *)
(* it comes; the boot protocol does not promise the order.                 *)
Ascending ==
  \A i, j \in DOMAIN Regions :
    i < j => Regions[i][2] < Regions[j][1] /\ Regions[i][1] <= Regions[j][1]

(* platform.cc:148, "PHYSICALLY CONTINUOUS MEMORY WILL BE CONTINUOUS IN    *)
(* THE VIRTUAL ADDRESS SPACE AS WELL": adjacent frames of the window are   *)
(* adjacent pages of it.                                                   *)
Window == WindowPage[dirs] .. WindowPage[dirs] + WindowLen - 1
InWindow(f) == {v \in Window : want[v] = f}

Continuous ==
  \A f \in Frame : InWindow(f) # {} /\ InWindow(f + 1) # {} =>
    \E v \in InWindow(f) : v + 1 \in InWindow(f + 1)

(* Every frame that the page lists hand out (meminit gives them the frames *)
(* below max_pa whose bit is clear) can be reached through the window.     *)
PoolReachable ==
  phase = "running" => \A f \in (0 .. max_pa - 1) \ taken : InWindow(f) # {}

(* As long as the memory map is not overwritten, all of the usable memory  *)
(* is in the window, or the window is full; and the map is only            *)
(* overwritten where the boot loader left it in usable memory that nobody  *)
(* reserved.                                                               *)
Complete ==
  /\ phase = "running" /\ mem[map_at][0] = Junk =>
       Cardinality(Window) = va \/ \A f \in Usable : InWindow(f) # {}
  /\ mem[map_at][0] # Junk => map_at \in Usable \ Reserved

(* Every page_t the page lists use is on a page that is mapped.            *)
PpsMapped ==
  phase \in {"kernel", "running"} =>
    \A f \in 0 .. max_pa - 1 : want[PpsPage + f \div Structs] \in Frame

(* The window is right when it is reliable both ways: what platform.cc     *)
(* says of adjacent frames, and that nothing allocated is out of reach,    *)
(* neither a frame nor its page_t; and when it is as large as it can be.   *)
(* The first two are what it is on a memory map in order.                  *)
WindowRight == (Ascending => Continuous /\ PoolReachable) /\ Complete /\ PpsMapped

(* slab.cc:148 addresses the frame it got at ARCH_KMALLOC_BASE plus its    *)
(* physical address; where platform.cc:146 leaves out the holes, that is   *)
(* another frame.                                                          *)
SlabAddress ==
  phase = "running" =>
    \A f \in (0 .. max_pa - 1) \ taken : Walk(mem, WindowPage[dirs] + f) = f
=============================================================================
