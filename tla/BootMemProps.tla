---------------------------- MODULE BootMemProps ----------------------------
(* What the two boot allocators and the hand-over to the page lists owe.   *)
EXTENDS BootMem

CONSTANT MaxWords   \* bound: words of a bitmap that is searched

ASSUME PropsAssumption == MaxWords \in Nat

(* What is right of a search of bitmap.h: that of bitmap_firstz "Get's the *)
(* first occurence of a zeroth bit ... If none was found, returns -1", and *)
(* that of bitmap_lastz finds none exactly when none is clear.  The index  *)
(* bitmap_lastz does return is a matter of AllocatedWasFree.               *)
Right(bits, length, first, last) ==
  LET clear == Bits(length) \ bits
  IN IF clear = {} THEN first = -1 /\ last = -1
     ELSE first = Smallest(clear) /\ last # -1

Searches ==
  \A length \in 1 .. MaxWords : \A bits \in SUBSET Bits(length) :
    Right(bits, length, FirstZero(bits, length), LastZero(bits, length))

(* On every bitmap of one to MaxWords words bitmap_firstz finds the first  *)
(* clear bit, and both searches tell when there is none, so that neither   *)
(* allocator is told that memory is full while it is not.                  *)
SearchesRight == phase = "start" => Searches

(* The loader's search finds a frame in the last word of the bitmap that   *)
(* has a free one, but only its first frame: LoaderFits says that this one *)
(* and those below it, which the loader takes without a search, are free   *)
(* and none of the bitmap.                                                 *)
Free == Usable(mmap) \ Reserved(mods_end)
LoaderTop == GetBits(Largest({0} \cup Free) \div W)
LoaderFits ==
  \A k \in 0 .. LoaderPages - 1 :
    /\ LoaderTop - k > 1
    /\ LoaderTop - k \in Free \ BitmapFrames(mmap, mods_end)

(* Only the first page of the bitmap is reserved (bootmem.cc:106).  As     *)
(* long as no frame it lies in was given away, only the allocators write   *)
(* into it.                                                                *)
BitmapFits == GetBits(Length(mmap)) <= PageBits
Untouched == ToSet(handed) \cap BitmapFrames(mmap, mods_end) = {}

Booted == phase \in {"loader", "kernel", "running"}

(* Every variable keeps its type; the arena has no frame past the end of   *)
(* memory (arena->pages has a page_t for each of num_pages frames).        *)
TypeOK ==
  /\ mmap \in Maps /\ mods_end \in {0} \cup ModsEnds
  /\ phase \in {"start", "loader", "kernel", "running", "panic", "assert"}
  /\ alloc_map \subseteq Int /\ ptr \in Int
  /\ handed \in Seq(Int) /\ pool \subseteq 0 .. NumPages(mmap) - 1

(* A frame is only ever given away while its bit is clear.  pmm_alloc_page *)
(* says "If it is not a free page, find one" (bootmem.cc:143), and what it *)
(* takes then is bitmap_lastz's "last occurence of a zeroth bit"           *)
(* (bitmap.h:83), whose bit is clear.                                      *)
AllocatedWasFree ==
  [][handed' # handed => Last(handed') \in Bits(Length(mmap)) \ alloc_map]_vars

(* The same of the kernel's allocator, whatever the loader did, and of the *)
(* loader's on the memory maps that suit its search.                       *)
SearchedWasFree ==
  [][handed' # handed /\ (phase = "kernel" \/ LoaderFits)
       => Last(handed') \in Bits(Length(mmap)) \ alloc_map]_vars

(* "Mark the kernel and modules as not free", up to what "is really the    *)
(* end of the bitmap" (bootmem.cc:103): where the loader's search finds    *)
(* free frames, none that the bitmap lies in is ever given away.           *)
BitmapReserved == LoaderFits => Untouched

(* A frame of the bitmap only leaves when the bitmap is longer than the    *)
(* page that is reserved for it, and then not while there is a free frame  *)
(* below the kernel.                                                       *)
BitmapKept ==
  ~Untouched => /\ ~BitmapFits
                /\ \A low \in Free : low < KernelStart => low \in ToSet(handed)

(* On the maps that suit the loader no frame is given away twice, by the   *)
(* loader, by the kernel or by one after the other, unless a part of the   *)
(* bitmap was: page directories, page tables and page structures lie in    *)
(* frames of their own.  And none of the bitmap is while BitmapKept holds  *)
(* it back, so never when it fits its page.                                *)
HandedOnce ==
  LoaderFits => /\ Untouched => \A i, j \in DOMAIN handed : handed[i] = handed[j] => i = j
                /\ BitmapKept

(* And as long as no part of it was given away the bitmap says exactly     *)
(* what happened: a bit is clear when its frame is whole usable memory, is *)
(* not reserved and was not handed out.                                    *)
MarksExact ==
  Booted /\ Untouched => Bits(Length(mmap)) \ alloc_map = Free \ ToSet(handed)

(* The frame each allocator takes next: on the maps that suit it the       *)
(* loader's is the one below the last it gave away, and the kernel's is    *)
(* not above a free one.                                                   *)
PtrInv ==
  /\ phase \in {"start", "assert"} => handed = <<>>
  /\ Booted => mods_end \in ModsEnds
  /\ phase = "loader" /\ LoaderFits =>
       /\ Len(handed) <= LoaderPages
       /\ ptr = LoaderTop - Len(handed)
       /\ \A i \in DOMAIN handed : handed[i] = LoaderTop - i + 1
  /\ phase = "kernel" =>
       /\ ptr \in Nat
       /\ Untouched => \A f \in Bits(Length(mmap)) \ alloc_map : ptr <= f

BitmapInv == TypeOK /\ MarksExact /\ PtrInv

(* The page lists start with usable frames nobody was given, unless a part *)
(* of the bitmap was: no page table or page structure of the boot is       *)
(* allocated again.                                                        *)
PoolIsRest ==
  phase = "running" /\ Untouched =>
    /\ pool \cap ToSet(handed) = {}
    /\ pool \subseteq Free

(* "No free memory on boot!" is only said when no bit is clear.            *)
PanicOnlyWhenFull ==
  phase = "panic" => TooSmall(mmap) \/ Bits(Length(mmap)) \subseteq alloc_map
=============================================================================
