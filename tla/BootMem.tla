------------------------------ MODULE BootMem ------------------------------
(***************************************************************************)
(* Physical memory until the page lists take over: the loader's page frame *)
(* allocator (loader/x86/bootmem.cc), which takes frames from the top, the *)
(* kernel's BootAllocator (core/mm/bootalloc.cc), which goes on from the   *)
(* bottom over the same bitmap, and the arena that platform::meminit       *)
(* fills with what is left.                                                *)
(*                                                                         *)
(* Addresses are counted in units of which a page has PageSize.            *)
(***************************************************************************)
EXTENDS Bitmap, Cpu, SequencesExt

CONSTANTS
  PageSize,       \* units in a page: region limits need not be page limits
  Maps,           \* memory maps: sequences of [addr, len, usable] regions
  ModsEnds,       \* values of MODS_END: modules end behind 0x100000
  KernelStart,    \* the page of address 0x100000
  PageBits,       \* bits of a bitmap that fill a page
  Limit32,        \* pages in 4 GiB, where 32-bit byte counters wrap
  Cpus,           \* processors the machine may have
  KmallocPages,   \* pages in ARCH_KMALLOC_LENGTH
  LoaderPages,    \* bound: the most frames the loader takes
  KernelPages,    \* bound: the most frames BootAllocator is asked for
  MinMem          \* units the region at KernelStart must have (0x4000000)

ASSUME BootMemAssumption ==
  /\ PageSize \in Nat \ {0} /\ PageBits \in Nat \ {0} /\ Limit32 \in Nat \ {0}
  /\ KernelStart \in Nat /\ KmallocPages \in Nat
  /\ LoaderPages \in Nat /\ KernelPages \in Nat
  /\ MinMem \in Nat
  /\ \A m \in Maps : /\ m \in Seq([addr : Nat, len : Nat, usable : BOOLEAN])
                      /\ m # <<>>
  /\ \A e \in ModsEnds : e \in Nat /\ e > (KernelStart - 1) * PageSize
  /\ \A c \in Cpus : c.max \in Nat /\ c.maxext \in Nat

VARIABLES
  cpu,        \* the processor
  mmap,       \* the multiboot memory map
  mods_end,   \* MODS_END
  phase,      \* who runs
  alloc_map,  \* the bitmap both allocators share: set bits are taken frames
  ptr,        \* _ptr of the allocator that runs
  handed,     \* history: the frames handed out, in order
  pool        \* the frames the arena of the page lists starts with

vars == <<cpu, mmap, mods_end, phase, alloc_map, ptr, handed, pool>>

-----------------------------------------------------------------------------
AlignUp(x) == (x + PageSize - 1) \div PageSize
AlignDown(x) == x \div PageSize

Detected(f) == FeatureTest(Detect(cpu), f)

End(r) == r.addr + r.len

(* The regions the loops over the map look at: without PAE they stop at    *)
(* the first one above 4 GiB.                                              *)
Seen(m) ==
  {k \in DOMAIN m : \A j \in 1 .. k : Detected(PAE) \/ m[j].addr < Limit32 * PageSize - 1}

UsableRegions(m) == {k \in Seen(m) : m[k].usable}

(* Whole pages of a region.                                                *)
PagesIn(r) == AlignUp(r.addr) .. AlignDown(End(r)) - 1

Usable(m) == UNION {PagesIn(m[k]) : k \in UsableRegions(m)}

NumPages(m) == AlignUp(Largest({End(m[k]) : k \in DOMAIN m}))
Length(m) == GetLength(NumPages(m))

(* avail_mem, in pages: the sizes of the regions are added up.             *)
AvailMem(m) ==
  MapThenSumSet(LAMBDA k : AlignDown(End(m[k])) - AlignUp(m[k].addr), UsableRegions(m))

(* The bitmap before the reservations, and _a: the clear bits, counted in  *)
(* bytes in a uint32_t.                                                    *)
FreeMap(m) == Bits(Length(m)) \ Usable(m)
Counted(m) == Cardinality({i \in 0 .. NumPages(m) - 1 : ~TestBit(FreeMap(m), i)}) % Limit32

(* The bitmap lies behind the modules.                                     *)
BitmapFrames(m, end) ==
  AlignUp(end) .. AlignUp(end) + (GetBits(Length(m)) - 1) \div PageBits

(* The bits that lie in a frame.                                           *)
BitsIn(f) == {b \in Bits(Length(mmap)) : AlignUp(mods_end) + b \div PageBits = f}

(* The kernel and the modules; the last page is the one the bitmap starts  *)
(* in.                                                                     *)
Reserved(end) == KernelStart .. AlignUp(end)

(* The frames platform::init maps: it goes through the regions in order,   *)
(* until it has mapped KmallocPages of them.  max_pa is the end of the     *)
(* highest.                                                                *)
MappedBefore(m, k) ==
  MapThenSumSet(LAMBDA j : Cardinality(PagesIn(m[j])), {j \in UsableRegions(m) : j < k})
Mapped(m) ==
  {f \in Usable(m) : \E k \in UsableRegions(m) :
     f \in PagesIn(m[k]) /\ MappedBefore(m, k) + (f - AlignUp(m[k].addr)) < KmallocPages}
MaxPa(m) == Largest({0} \cup {f + 1 : f \in Mapped(m)})

-----------------------------------------------------------------------------
Init ==
  /\ cpu \in Cpus
  /\ mmap \in Maps
  /\ mods_end \in ModsEnds
  /\ phase = "start"
  /\ alloc_map = {}
  /\ ptr = 0
  /\ handed = <<>>
  /\ pool = {}

Become(p) == phase' = p /\ UNCHANGED <<cpu, mmap, mods_end, alloc_map, ptr, handed, pool>>

(* update_all of both allocators: _ptr is set to the result of the search, *)
(* and without a clear bit the machine stops.                              *)
UpdateAll(z, next) ==
  /\ ptr' = z
  /\ phase' = IF z = -1 THEN "panic" ELSE next

(* init_bootmm32 *)
TooSmall(m) ==
  \E k \in DOMAIN m : /\ m[k].addr = KernelStart * PageSize
                      /\ ~(m[k].usable /\ m[k].len > MinMem)

NotEnoughMemory == phase = "start" /\ TooSmall(mmap) /\ Become("panic")

(* ASSERT_HARD(avail_mem == _a).                                        *)
AssertFails ==
  /\ phase = "start"
  /\ ~TooSmall(mmap)
  /\ AvailMem(mmap) # Counted(mmap)
  /\ Become("assert")

InitBootMM ==
  /\ phase = "start"
  /\ ~TooSmall(mmap)
  /\ AvailMem(mmap) = Counted(mmap)
  /\ alloc_map' = FreeMap(mmap) \cup Reserved(mods_end)
  /\ UpdateAll(LastZero(alloc_map', Length(mmap)), "loader")
  /\ UNCHANGED <<cpu, mmap, mods_end, handed, pool>>

(* A frame leaves: its bit is set, it is cleared when the caller wants it  *)
(* so, and it is appended to the history.  The mutant moves _ptr before it *)
(* sets the bit.                                                           *)
HandOutNext(f, nextptr, clear) ==
  /\ alloc_map' = SetBit(alloc_map, nextptr) \ (IF clear THEN BitsIn(f) ELSE {})
  /\ handed' = Append(handed, f)
  /\ ptr' = nextptr
  /\ UNCHANGED <<cpu, mmap, mods_end, phase, pool>>

HandOut(f, nextptr, clear) ==
  /\ alloc_map' = SetBit(alloc_map, f) \ (IF clear THEN BitsIn(f) ELSE {})
  /\ handed' = Append(handed, f)
  /\ ptr' = nextptr
  /\ UNCHANGED <<cpu, mmap, mods_end, phase, pool>>

NoFrame(z) ==
  /\ z = -1
  /\ UpdateAll(z, phase)
  /\ UNCHANGED <<cpu, mmap, mods_end, alloc_map, handed, pool>>

(* Whoever was given a frame the bitmap lies in clears it and writes page  *)
(* table entries, image or stack into it: its bits take any value.         *)
Fill ==
  /\ phase \in {"loader", "kernel"}
  /\ \E f \in ToSet(handed) \cap BitmapFrames(mmap, mods_end) :
       \E bits \in SUBSET BitsIn(f) : alloc_map' = (alloc_map \ BitsIn(f)) \cup bits
  /\ UNCHANGED <<cpu, mmap, mods_end, phase, ptr, handed, pool>>

(* pmm_alloc_page of the loader.  Below 0 the unsigned _ptr has wrapped: it *)
(* is above 1, and the bit tested is in the word before the bitmap.        *)
MustSearch ==
  IF ptr < 0 THEN BOOLEAN ELSE {TestBit(alloc_map, ptr) \/ ptr <= 1}

LoaderAlloc ==
  /\ phase = "loader"
  /\ Len(handed) < LoaderPages
  /\ \E search \in MustSearch, clear \in BOOLEAN :
       LET f == IF search THEN LastZero(alloc_map, Length(mmap)) ELSE ptr
       IN \/ search /\ NoFrame(f)
          \/ ~(search /\ f = -1) /\ HandOut(f, f - 1, clear)

(* kernel_main hands the bitmap on: BootAllocator::add_arena.              *)
EnterKernel ==
  /\ phase = "loader"
  /\ UpdateAll(FirstZero(alloc_map, Length(mmap)), "kernel")
  /\ UNCHANGED <<cpu, mmap, mods_end, alloc_map, handed, pool>>

(* BootAllocator::allocate_single; the mutant trusts _ptr.                 *)
PtrTrusted == ptr
KernelFrame ==
  IF TestBit(alloc_map, ptr) \/ ptr >= NumPages(mmap)
  THEN FirstZero(alloc_map, Length(mmap))
  ELSE ptr

KernelAlloc ==
  /\ phase = "kernel"
  /\ Len(handed) < LoaderPages + KernelPages
  /\ \/ NoFrame(KernelFrame)
     \/ KernelFrame # -1 /\ HandOut(KernelFrame, KernelFrame + 1, FALSE)

(* platform::meminit: the arena of max_pa frames is filled from the bitmap *)
(* (PmmNode has the loop); the boot allocators are not used any more.      *)
MemInit ==
  /\ phase = "kernel"
  /\ phase' = "running"
  /\ pool' = {f \in 0 .. MaxPa(mmap) - 1 : ~TestBit(alloc_map, f)}
  /\ UNCHANGED <<cpu, mmap, mods_end, alloc_map, ptr, handed>>

Stopped == phase \in {"panic", "assert", "running"} /\ UNCHANGED vars

Next ==
  \/ NotEnoughMemory \/ AssertFails \/ InitBootMM
  \/ LoaderAlloc \/ EnterKernel \/ KernelAlloc \/ Fill \/ MemInit
  \/ Stopped

Spec == Init /\ [][Next]_vars
=============================================================================
