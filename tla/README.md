# Formal models of LiquiDOS (cxkernel)

TLA+ models of the boot, the memory management, the way of exceptions, the console
and the debugger stub of the kernel in `src/`, the TLC runs that check them on
small instances, and proofs, checked by TLAPS, for every value of the parameters: of the
page allocator and that it implements an atomic one, of the pointer lists under it, of the
slab allocator above it, of the boot from the loader's `main` to the halt of the kernel with
its two frame allocators, of exceptions and the interrupt controllers, of the page tables
with the TLB and the window, and of the console.

Contents: 1 the system, 2 the plan, 3 module by module, 4 the runs and their
bounds, 5 fairness, 6 the proofs, 7 disagreements between the code and what is
said of it, 8 what is not modelled, 9 what is left.  `PROJECT.json` has the
component list, the hazards with the properties that cover them, the source
lines behind every definition, and for each property a change to the code's
model that breaks it.

## 1. The system

LiquiDOS is a 32-bit x86 microkernel at an early stage: it boots from a
multiboot loader through a loader of its own, sets up paging and three memory
allocators one after the other, and stops.  One processor runs it, device
interrupts stay masked from the first instruction to the last, and nothing is
persistent.  The only thing that comes in between is an exception of the
processor.  What is hard is a boot in which every stage works on data the previous
stage left, memory that is handed from one allocator to the next, intrusive lists, arithmetic at region and word limits,
and long sequences of legal calls.  The one component that talks to somebody,
the GDB stub, does so over a line that spoils characters.

### How a boot runs

1. GRUB enters the loader (`loader/x86/main.cc`).  A constructor asks the
   processor for its features (`arch/x86/cpu.cc`); `main` checks the multiboot
   information, scans the modules for `cxkrnl32` and `cxkrnl64`, and chooses one
   from the command line and the processor's features.
2. `init32` builds the bitmap of page frames (`bootmem.cc`), has the ELF image
   parsed, and sets up page tables (`mmu.cc`); `run_program32` maps the image,
   the `page_t` structures and a stack, taking frames from the **top** of memory,
   and jumps to the kernel.
3. `kernel_main` installs `BootAllocator`, which takes frames from the **bottom**
   through the same bitmap; it checks the multiboot information again, loads the
   IDT, remaps and masks the interrupt controllers, and gives every exception its
   handler; `platform::init` takes frames from the allocator for the page tables of a
   window of virtual memory onto all usable physical memory.
4. `pmm::set_allocator` switches to `PmmNode`, and `platform::meminit` gives it an
   arena with the bitmap: what is still clear there is the page lists' stock.
5. `kmem::init` starts the slab allocator, whose slabs come from
   `allocate_contiguous`; `new` and `delete` are `kmalloc` and `kfree`.

### Components

| Component (source) | State | Operations | What makes it correct |
|---|---|---|---|
| Page lists (`core/mm/pmm_node.cc`) | arena list by priority, per arena a page array with flags, a free list and its counter | `add_arena`, `allocate`, `allocate_single`, `allocate_contiguous`, `free` | no page twice, none lost, flags, list and counter agree at every step, a run is a run, calls end, all of it is an atomic allocator |
| Linked lists (`lib/ebl/include/linked_list.h`) | `prev` and `next` of every node; removed nodes keep theirs | append, insert, remove, last, iteration | the pointers are always those of the sequences the callers believe in |
| Bitmap (`lib/ebl/include/bitmap.h`) | words | set, clear, test, `firstz`, `lastz` | `firstz` finds the lowest clear bit, `lastz` the last one, and each finds none exactly if none is clear |
| Loader frames (`loader/x86/bootmem.cc`) | bitmap, `_ptr` | `init_bootmm32`, `pmm_update_all`, `pmm_alloc_page` | usable, free, not reserved, once |
| BootAllocator (`core/mm/bootalloc.cc`) | the same bitmap, its own `_ptr` | `allocate`, `update_all` | the same, whatever the loader did |
| Loader main (`loader/x86/main.cc`, `lib/elf`) | modules, chosen kernel, ELF context | scan, choose, load, enter | the right image runs, with its symbol tables, below all frames handed out |
| Page tables (`loader/x86/mmu.cc`, `arch/x86/32/mmu.cc`, `platform/pc/platform.cc`) | directories, tables, TLB, the window | `init`, `map`, `platform::init` | the walk finds what was mapped, no stale translation, tables own their frames, the window reaches all the stock |
| Slab allocator (`core/mm/slab.cc`, `lib/ebl/alloc.cc`) | caches, slabs on three lists each, chains of free objects | `new_cache`, `cache_alloc`, `cache_free`, `kmalloc`, `kfree` | objects never overlap, each chain is exact, each slab on the right list, frames not shared |
| Streams (`lib/libc/printk.c`, `core/console.cc`) | two line buffers side by side in memory | `cxputc`, `fflush` | characters once and in order, finished lines are out |
| Screen (`platform/pc/vga.cc`) | cells, cursor | `putc`, scroll, clear | the screen is the tail of the text |
| Formatter (`lib/libc/vsprintf.c`) | none | `ssprintf`, `num` | a number printed reads back as that number |
| GDB stub (`arch/x86/32/i386-stub.c`) | two buffers, registers, memory, the line | `getpacket`, `putpacket`, every command | carried out as asked, own reply, no deadlock |
| Interrupts and exceptions (`core/interrupts.cc`, `arch/x86/32/*`, `platform/pc/pic.cc`) | handler table, masks, the interrupted stack | stubs, `isr_handler`, `exception_handler`, `pic::remap`, `pic::mask` | an exception is reported as it was raised, or returns to where it was raised; no line can be taken for an exception |
| CPU detection (`arch/x86/cpu.cc`) | the answers of CPUID | `x86_cpuid_init`, `x86_feature_test` | a feature is found exactly if the processor reports it |
| `kernel_main` (`core/kernel.cc`) | how far it is | its calls | each thing is there before what needs it |
| Strings (`lib/libc/string.c`) | none | copies, comparisons, searches | what the C library promises |
| Loader console, serial port (`loader/x86/vga.cc`, `platform/pc/serial.cc`) | cells, cursor | `putc` | the same text as on the kernel's screen |

The components interact by direct calls and by shared memory: the bitmap (loader
→ BootAllocator → PmmNode), the `page_t` array at a fixed virtual address
(loader → PmmNode → slab), the window (platform → slab), the page tables, and
the two stream buffers, of which the linker puts one behind the other.  There
are no messages except on the debugger's line.  Callbacks are the handlers in the
table that `isr_handler` looks into, which is empty until `arch::init` fills it
while exceptions can already come, and the fault handlers the stub installs around
memory accesses.

## 2. The plan

In order of importance; all of it is built.

1. `PmmNode` over `Lists` and `PageRuns`: the allocator in use while the kernel
   runs.  Abstract specification `PageAllocator`.  Proofs `PmmNodeProofs` over
   `ListLemmas`.
2. `ContigScan`, with its proofs in `PmmNodeProofs`: the search loop of
   `allocate_contiguous`, whose result (`FoundRuns` of `PageRuns`) `PmmNode` and
   `Slab` use as one step.
3. `BootMem` over `Bitmap`: both boot allocators and the hand-over.
4. `Slab`: objects, slabs, caches.
5. `KernelMap`: page tables of both MMUs, the window.
6. `LinkedList`, which implements `ListStore`, the sequences that `PmmNode` and
   `Slab` put in its place.  Proofs `LinkedListProofs`.
7. `Console` over `Vga` and `Format`.
8. `GdbStub`.
9. `Loader`, which extends `BootMem` to the whole boot.
10. `Kernel` over `Traps`, which extends `Loader` to the halt of `kernel_main`,
    with `KernelProofs`; `Cpu` under `Loader`.
11. `Strings`; the loader's console in `Vga`.
12. The refinement of `PageAllocator`, and the proofs about the boot, in `PmmNodeProofs`
    and `KernelProofs`.
13. `KernelMapProofs`, `ConsoleProofs`, `SlabProofs`.
14. Proofs about `Strings` and `Format`, in `ConsoleProofs`; then the protocol of `GdbStub`, in
    `GdbStubProofs`.

The compositions: `Kernel` runs `Loader`, and `Loader` runs `BootMem` inside the
boot; `Console` drives `Vga`; `PmmNode` implements `PageAllocator`; `LinkedList` implements `ListStore`.
Proofs are in modules of their own over these: `PmmNodeProofs` (with
`ContigScan`), `LinkedListProofs`, `SlabProofs`, `KernelMapProofs`, `ConsoleProofs`,
`GdbStubProofs`, and `KernelProofs` for `BootMem`, `Loader` and `Kernel`, which extend each other.

## 3. Module by module

Names are the source's where TLA+ has room for them.  A module `XProps` states
properties of `X`; `MCX` gives constants their values.

**PmmNode.**  A page is `<<arena, index>>`, the `page_t` at that index of the
arena's array; `occupied` is `CX_PAGE_OCCUPIED`, `free_list` and `free` the
arena's, `held` the list each caller's pointer refers to.  A list is its sequence
of nodes; `list_append` puts a node right *after* the head, so `ListAppend`
prepends.  Each iteration of each loop is an action of its own: `LoadBit`
(bitmap of `add_arena`), `AllocatePage`, `ContiguousPage`, `FreePage`, with an
action for the start and one for the end of each call.  Calls do not interleave
on this machine, but the steps make a loop's invariant an invariant of the model,
and give the refinement to `PageAllocator` something to say.  A caller that
holds several lists is several members of `Caller`.  Kept as the code has it:
the arena bitmap is walked from `base / PAGE_SIZE`; `goto end` leaves the loop
over arenas, so `allocate` uses the first arena only; a run that ends with the
last page is not found; the first node of an empty result is written through
NULL (`StoreThroughNull`), which faults in a hosted build and lands in physical
page 0 in the kernel.

**PageAllocator.**  What callers are promised, a call a step: pages are available
or owned by one caller, a request is met in full or with the rest of one arena.
The mapping (`Abstract` in `PmmNodeProps`) counts the pages of a running call as
available, until an allocation returns and from the moment a free begins.

**PageRuns, ContigScan.**  `FoundRuns` says declaratively which runs the search
can find.  `ContigScan` is the loop with its `r1`, `r2`, `idx` and its exits, a
page a step; `FirstFit` says that it ends with the least of `FoundRuns`.

**Bitmap, BootMem.**  A bitmap is the set of its set bits; word limits are kept,
because both searches go by words and `bitmap_lastz` never counts down its bits.
`BootMem` goes through `init_bootmm32` (regions rounded inwards, the memory below
the kernel's end reserved, the first page of the bitmap reserved, 32-bit wrap of
the address counter with its assertion), `pmm_alloc_page` from the top,
`EnterKernel`, `BootAllocator` from the bottom, and `meminit`.  Addresses have
`PageSize` units to a page, so that regions may begin and end between pages.  Only
the first page of the bitmap is reserved, whose size is `PageBits`; the pages a
longer one goes on in may be handed out.  Who is given one clears it and writes a page
table, an image or a stack there, which rewrites the bits: `HandOut` drops the bits of a
frame that is cleared when it is taken (`BitsIn`), and `Fill` gives them any value from
then on, in the loader and in the kernel (`FillFrames` of `Kernel`).  `Untouched` says that
no frame of the bitmap was given away; under it alone are `MarksExact`, `PoolIsRest` and
the uniqueness in `HandedOnce` claimed.  `BitmapKept`, the rest of `HandedOnce`, says when
`Untouched` can end on the maps that suit the loader: the bitmap is longer than
its page (`~BitmapFits`), and every free frame below the kernel is gone.  That it does end
is the violation `bitmap_taken`.  The loader's caller decides whether a frame is cleared,
and in `Right` the index `bitmap_lastz` returns is left open, because it is not the one
its comment promises (section 7).  `Seen` are
the regions of the map that the loops look at, without PAE those before the first above
4 GiB, `UsableRegions` those of them that count, by index; `Mapped` are the frames the window
reaches, a frame being in it by what the regions before its own hold (`MappedBefore`).

**Cpu.**  `Detect` is the constructor: the leaves of CPUID cut to the sizes of the
tables.  A processor whose first extended leaf answers below the extended base
makes the loop's unsigned bound wrap (`DetectRunsWild`); `RunCtors` then ends in
stage `wild`.  `LONGMODE` names a word 4 that no leaf has, as in `cpu.h`.

**Loader.**  The constructors, `main` with the multiboot checks, the scan of the modules (a step
each), the choice by command line and processor, the ELF image as its class and
section names, and the stop when symbol tables are missing.  Every step of
`BootMem` happens in it, guarded by the stage `main` has reached.  `GetSymbol` is
the look-up behind a stack trace: `best` is its loop, the symbol it holds after so many
entries, as a recursive function.

**Traps, Kernel.**  A stack is the sequence of its words.  `CpuFrame` is what the
processor pushes, `Stub` what `irq.asm` adds, `Regs` how `isr_handler` reads it.
`Kernel` has an action for each call of `kernel_main` and one for each step of an
exception: `Raise` (at any moment, in the loader too, where it resets the machine),
`IsrStub`, `Handled` or `Unhandled`, `ExceptionHandler`, which halts for good, and
`IsrReturn`.  `pic` are the two controllers with the word each expects next;
`Remap` and `Mask` are the words the code writes, `ChipWrite` what a chip does with one.  Exceptions that only occur
with features this kernel never enables (20, 21, 29) are excluded by
`KernelAssumption`.

**KernelMap.**  Physical memory is an array of frames, each a table of `E`
entries; a frame holds junk until it is cleared.  One directory is the MMU
without PAE, several the one with it.  `MapPage` is all of `map`: take a table's
frame if needed, enter it, invalidate, clear it *through the recursive entry*
(that is, wherever the walk leads), enter the page, invalidate.  The TLB may
cache any current translation at any time.  `NextRegion`, `MapFrameOfRegion` and `EndRegion` are
`platform::init`, which maps the n-th usable frame to the n-th page of the
window.  The memory map it reads is in the frame `map_at`; once a table is laid over
it, no further region is found there, and `WindowRight` says what is promised
then.

**Slab.**  Addresses are numbers.  Caches, slabs with base, colour, object base,
`bufctl` chain and `inuse`; the cache structures are objects of the first cache.
A `kmalloc` goes through the steps find cache, allocate its structure, initialise
it, allocate the object, and each may need a slab from `FoundRuns`.  `kfree`
searches the slabs as the code does, with its comparison (`IS_OBJECT_IN_SLAB`);
an object that is not found is `lost`.  Two ends: `OutOfPages` (the NULL result
of the page allocator is used) and `KfreeWild` (an object is taken for one of
another slab) set `broken`, after which memory is in no state the model has, and
nothing is promised.

**LinkedList, ListStore.**  The pointers of `linked_list.h` as they are, stale
ones included, with the calls the allocators make: append, insert, remove, and
`taken`, the way `PmmNode` gives a whole list away by making its first node its
own head.  `PointersInv` describes the pointers; `Implements` is refinement of
sequences.  It is what entitles the other modules to use sequences.

**Console, Vga.**  The buffers of OUT and LOG are rows of one array, so that a
store behind the first is a store at the start of the second, as in the build.
`PutOut`, `PutLog` and `PutErr` are `cxputc` with the flush on a newline or a full buffer; ERR passes
through.  Any interleaving of puts and flushes covers every program, and an
exception handler that prints in the middle of a line.  `Vga` is `putc`, `Wrap`
and `Scroll` on a screen of `Width` by `Height` cells; `ConsoleEmit` is the
loader's console, which never scrolls, and on a screen tall enough it is the
reference for the one that does (`ScreenInv`).

**Format.**  `ssprintf` as a recursive function, what it has `after` so many items of a
format; `num` in the code's order (sign, prefix, precision zeros, padding, digits).
Sizes of C types are constants, so wrap-around is modelled in small.

**Strings.**  Memory is a function from addresses to bytes.  `Strlen` goes by words
with the test for a zero byte done in arithmetic, a copy is a recursive function over the
offsets in the order the loop has, and `Strcpy` copies no terminator.  `LibcProps` says
what the C library promises, over all `Memories`.

**GdbStub.**  The stub reads a character a step (`start`, `data`, `sum1`,
`sum2`), and carries out a command in one step, in which nothing is awaited;
`ack` waits for `+`.  Buffers keep their old contents, `strcpy` copies no
terminator (as `lib/libc/string.c` has it) and `:` is looked for at position 2
of whatever is there.  The debugger is external: it sends, repeats after a
timeout, takes the reply, acknowledges; what it may ask is `Askable`.  The line loses
or garbles up to `MaxFaults` characters, anywhere.

## 4. The runs

All counts are of distinct states.

| Run | What it asks | Instance | States |
|---|---|---|---|
| `pmm_node` | invariants of the page lists, results of the calls, end of calls, refinement | arenas of 3 and 2 pages in either order, all 8 bitmaps of the first, 2 callers, requests up to 3 | 25 093 |
| `contig_scan` | the loop invariant, the result, the end of the search | arenas of 5 and 4 pages, all flags, counts up to 4 | 37 296 |
| `boot_mem` | choice of the kernel, features, searches of the bitmap, exactness of the bitmap, frames once, the arena's stock, symbols, handlers and controllers, reports of exceptions | 27 memory maps, 15 boots, 3 processors, exceptions 0, 2, 8 and 14 at any point; words of 4 bits, pages of 2 units; every bitmap of 1 to 3 words, every table of up to 3 symbols, 480 processors for the features | 429 583 |
| `boot_mem_free` | *violation*: is every frame handed out free? | the 27 maps | |
| `bitmap_taken` | *violation*: is the bitmap reserved to its end? | the 27 maps | |
| `kernel_map` | walk, TLB, tables, window, page structures | 19 frames, tables of 6 entries, 1 and 2 directories, 3 holes, TLB of 2, the memory map in frame 0 or 3 | 22 438 |
| `kernel_map_slab` | *violation*: is the slab's address the frame's? | 18 frames, one hole | |
| `slab` | objects, chains, lists, frames | 9 frames, objects of 3 sizes, 3 live at a time | 60 576 |
| `slab_full` | *violation*: does a full slab become partial? | one size, two objects a slab | |
| `linked_list` | pointers implement sequences | 2 heads, 4 nodes (symmetric), 1 list taken away | 3 175 |
| `console` | order and completeness of output, screen, every formatted number, every string function | buffers of 2, screen of 4 by 2, any 6 characters; types of 8, 16 and 64 values, widths -4, 2, 5; memories of 6 bytes, words of 2 | 342 435 |
| `gdb_stub` | carried out as asked, own reply, always answered | two requests of 13 kinds, one fault anywhere, 3 registers, buffers of 16 | 356 484 |

Why the bounds suffice.  *pmm_node*: with three pages and two callers a page is
first, middle and last of a free list, lists are returned in another order than
they were taken, memory runs out inside a request, and a run of two is blocked in
the middle; the second arena, with a base other than 0, is before or behind the
first.  *contig_scan*: two runs in one arena, and one in the second after a miss
in the first.  *boot_mem*: the maps place the end of memory on, before and behind
word limits, holes below and above the kernel, regions between pages,
overlapping regions, memory beyond the 32-bit limit; the boots have each outcome
of the choice, and the processors have fewer leaves than the tables, as many, and
more, without extended leaves, without and with PAE and long mode.  Of the
exceptions two push a code and two do not, and one of those with a code lies at the
end of the range the stubs test.  `LoaderPages` and `KernelPages` let the kernel's allocator run out
and panic on the small maps; on the one whose bitmap is longer than its page (`LongMap`) they
let the kernel come to the bitmap's second page and still take a frame after it, with every
value that may have been written there.  *kernel_map*: every table is new once and old once, a page is
mapped twice, the window ends inside a region, holes cut it.  *slab*: sizes
give slabs of four objects, of one, and of two pages, and nine frames are used
up.  *linked_list*: with four nodes one is first, last or in the middle while
another list holds a neighbour it points to.  *console*: six characters fill a
buffer, overflow it, wrap and scroll more than once; in a memory of three words a
string begins and ends at each place of a word, and blocks overlap both ways.  *gdb_stub*: a fault can hit
each character of request, acknowledgement and reply.  With two faults the 8-bit
checksum can be deceived, which is a limit of the protocol; hence one.

`gdb_stub` allows the system to stop (`CHECK_DEADLOCK FALSE`): after its last
request the debugger has nothing to say.  In all other runs a final state has an
explicit step, and deadlock is checked.

The properties are chosen so that a plausible slip in the code breaks each: the
`mutants` of `PROJECT.json` are such slips (a count not updated, a flag left
set, a loop one short, a forgotten invalidation, a lost last word, a repeated
reply taken for a new one), and each is detected.

## 5. Fairness

* `PmmNode` and `ContigScan`: weak fairness of the steps of a call that has
  begun.  One processor, no interrupts: a running function runs on.  No call
  is ever obliged to be made.
* `GdbStub`: weak fairness of the disjunction of the stub's steps, the
  debugger's reading and its timeout, and the program's stop.  The stub is the
  only thing that runs while it is in control; the debugger is a program with
  a timer.  Nothing forces the debugger to ask, and nothing forces or prevents
  faults.
* All other modules state safety only.  `Kernel` may be halted by an exception at
  any point, so that nothing is promised to happen in it.

## 6. Proofs

All theorems are checked by TLAPS to the last step, for every value of the
constants that the named assumptions admit.

Each component has its inductive invariant, one lemma per operation that says the step
keeps it, and one that puts the cases of the next-state relation together; the theorems
follow.  Every property of the passing runs that these invariants cover is a theorem
(`PROJECT.json` lists them).

**ListLemmas.**  What `ListAppend`, `ListInsert`, `ListRemove` and taking the
first node do to the elements, the length, the order and the injectivity of a list; and
`UpTo`, induction in the form that the provers can use: a *set* of naturals that has 0 and
with a number its successor has them all, from the least counterexample.  What a loop or a
recursive function computes is proved with it, by the set of the numbers of rounds after
which the claim holds.  `RunExists` says that a recursive function on the first naturals
follows its equation, which the provers only see through `CHOOSE`; `FollowsLoop` says of a
fold over a sequence that it is the last state of a run (`LoopOf`), `SetRunExists` of one over
a set, and `MaxUpTo` of the greatest number of a set.  The rest is
arithmetic that the SMT solver needs in small pieces: `DivMod`, `DivOfWord`, `TimesMonotone`.

**PmmNodeProofs** (assumption `PmmNodeAssumption`: sizes, bases and counts are
naturals, priorities integers, bitmaps sets of naturals).  `Invariance` is
`Spec => []ListsInv`; its parts are `TypeCorrect`, `CounterCorrect` (`arena->free` is the
length of the list), `NoPageTwice` (`Exclusive`: a page is on at most one list, once) and
`FlagsCorrect` (`CX_PAGE_OCCUPIED` is the complement of the free list).  None is
inductive alone: removing a page that is not on the list would break the counter,
appending one that is on another would break exclusiveness.  `ListsInv` adds what
makes each step legal: an arena not yet added has an empty list; pages in callers'
hands and in a running call belong to added arenas (so a `free` finds the arena);
while `add_arena` reads the bitmap, the pages from bit `i` on are still on the
list; while `allocate_contiguous` collects its run, the rest of the run is still
on the list.  `TakePage` is the effect that the three loops share on the arena, and
`RemovePage` the list's part of it.

*The refinement*, in the same module (also `BitmapAssumption` of `PmmNodeProps`: only an arena whose base
is 0 comes with a bitmap that has bits set, as `platform.cc:180` has it; of another arena
`add_arena` reads the bits of other pages).  `IInv` is `ListsInv` with two more parts, and
the run `pmm_node` checks all of it.  `ResultInv`: the result that grows is counted by
`ret`, is no longer than asked, and comes from the one arena, a run in order.  `PagesInv`:
the pages of an added arena that are on some list are exactly those not in its bitmap, and
while the bitmap is being read also those the loop has not come to.  From them
`NothingLost` (`NoneLost`), `ContiguousCorrect`, `ShortCorrect`, which look at the step
that ends a call, and `Refinement`: `Spec => Implements`.  In the mapping (`Avail`, `Owned`) the
steps inside a loop are stutters, because what a call has taken still counts as available
until it returns, and the page that `FreePage` moves was available since `Free`;
`AllocateEnd` and `ContiguousEnd` are the abstract `Take`, in which the `ret` pages
leave `avail` together, and are all of what was asked for or all that was left of the arena
(`ReturnTakes`); `LoadEnd` is the abstract `Add` (`LoadEndAdds`), `Free` its `Give`
(`FreeGives`).

**LinkedListProofs** (assumption `LinkedListAssumption`: finitely many cells, heads are not
nodes, NULL is no cell).  `Chain(l, n, t)` is a head and `n` different nodes behind it with
`next` forwards and `prev` back, the head its own `prev`.  `LinkedInv`: from each head, and
from the first node of each list a caller took away, there is a chain; no cell is on two
chains; no list has two takers.  Nothing is said of the pointers of removed nodes, so that
nothing can depend on them.  `AfterChain` and `BeginChain` are the walks `After` and `Begin`:
along a chain they give its nodes, by induction on the steps, and they come to an end within
the steps the model allows, because a chain is no longer than there are cells.
`ChainAppend` and `ChainRemove` follow every store of `list_append` and `list_remove`,
`InsertIsAppend` shows that inserting before a node is appending behind the one before it,
and `ChainSame` that a chain whose cells were not stored to stays.  `Appended`,
`Removed`, `Detached` and `Attached` say it of the lists: one changes as its sequence does, the others
stay.  The theorems are `LinksInvariance`, `ListsRefine`, that the pointers implement the sequences of
`ListStore`, and `PointersCorrect`.  So the sequences in `PmmNode` are not an assumption.

**PmmNodeProofs**, the search (module `ContigScan`, whose constants and variables are its own;
assumption `ContigScanAssumption`: counts are at most
`Unset`, the `0x7FFFFFFF` that `r1` starts with).  `ScanInv` says that
before page `i` the `r2` pages are free and the run cannot be extended downwards,
that no earlier run is long enough, and what `idx` and `farena` mean once one was.
`ScanCorrect`: the loop's result is the first run of the first arena with one, and
none if there is none, among runs that end before the last page.  That is the
definition `PmmNode` and `Slab` use.

**KernelProofs**, frames (assumptions `BitmapAssumption`: a word has a bit; `BootMemAssumption`:
a memory map is a sequence of regions and not empty, sizes and limits are naturals, modules
end behind the address the kernel's image is loaded to).  `SearchesAlwaysRight` is what `bitmap_firstz` and
`bitmap_lastz` find, for any width and any number of words: the lowest clear bit, and whether
there is one (`LastZeroRight` says which index `bitmap_lastz` returns, where `LoaderTop` comes
from).  `BootInv` is inductive as the
conjunction of what the runs check: `BitmapInv`, `HandedOnce`, `PoolIsRest`,
`PanicOnlyWhenFull`.  They need each other: that no frame leaves twice needs that the bits
clear are those of the frames not given away, and that the stock is what is left needs
both.  The conditions are those of the properties, because without them the code is wrong
(section 7): `LoaderFits` on the loader's search, and `Untouched`, that no frame of the
bitmap was given away.  The second is not an assumption about the map but a part of the state,
and `BitmapKept` is proved without it: while the bitmap fits its page or there
is a free frame below the kernel, `Untouched` holds on the maps that suit the loader.
`LoaderTakesNext` shows that the loader keeps it, `BehindBitmap` and `KernelKeeps` that the
kernel's allocator ends it only in that case, and `FillKeeps` that the writes change nothing
that is claimed after it.

**KernelProofs**, the loader (assumptions `LoaderAssumption`: a boot's modules end where `BootMem` may
have them end; `LoaderPropsAssumption`: addresses are naturals, the processors asked about
have extended leaves).  `MainInv` is `BootInv` with `ScannedInv`, what `main` knows of the
modules it has come to, and `StageInv`, how far `main` and the memory are.  `SymbolFound` is
the look-up in a symbol table, by induction on the table's length; `FeatureFound` the
detection for every leaf the tables hold.

**KernelProofs**, the kernel (assumption `KernelAssumption`: the vectors are exceptions other
than 20, 21 and 29, one that pushes no code has none, the interrupts begin behind the
exceptions as in `idt.h:18`, and the controllers are left in some state of theirs).
`MainInvariance` carries `MainInv` through every step of the kernel, an exception at any
point included; `SearchesCorrect`, `BitmapCorrect`, `NoFrameTwice`, `PoolCorrect`,
`PanicCorrect`, `SearchedCorrect` (an action property), `KernelChosen`, `FeaturesCorrect`
and `SymbolsCorrect` are the properties of `boot_mem` as theorems of `KernelSpec`.
`ReportedAlways` is `KernelSpec => []Reported`, for any set of exceptions and any boot, and
`KernelTypes` the type invariant.  `Reported` is about the moment a handler runs;
`KernelIInv` says what the stack is at each earlier one: empty while the kernel
runs, the processor's frame at the stub, and from then on the five words that make
a `regs_t`, whichever side pushed the code.  For the return it needs that
`kernel_main` waits where it was interrupted (`raised.at = at`), and for the reset
that the IDT stays loaded.  `TrapsCorrect` is `TrapInv`: `WrittenRun` turns the fold over the
words that are written into a run of states, `OneWrite` is what one word does, and
`Programmed` follows the twelve words of `remap` and `mask` from any state of the
controllers; `EoiKeeps` shows that the end of an interrupt changes nothing (`PicInv`).

**KernelMapProofs** (assumptions `KernelMapAssumption`: a table has at least two entries, one
directory or several, and memory ends where an address still fits into a page table entry,
because `map` casts the rest away (`mmu.cc:181`); `RegionsAssumption`: the map is a sequence of
regions, `NFrames` their end; `LayoutAssumption`: the order of window, image, page
structures, stack and recursive entries in the address space that `arch_defs.h` and `loader.cc` give them).  `MapIInv` is inductive: `Structure`, the last entries of the
last directory are the directories, and no two entries share a frame; `Owned`, the tables are frames taken from the
bitmap and nobody else's, any other frame still has what it had; `Coherent`, the TLB has
nothing the tables do not have; `WalkFinds`, the walk finds what was mapped last.  `map` writes through
the recursive entry, so that what it clears is whatever the walk leads to: that this is the
new table and no other needs `Structure`, and that a stale translation does not lead
elsewhere needs `Coherent` in the middle of a call.  The theorems are `TlbCorrect`, `WalkCorrect` and
`TablesCorrect`.  `WindowIInv` is the invariant of the loop of `platform::init`: pages below
`va` have usable frames and those from it on none; as long as the window is not full,
what is not in it is in a region still to come (`NothingLeftOut`); and on a map in ascending order the window grows in order and has no gap below `max_pa`
(`InOrder`).  `WindowCorrect` follows.  When no frame is left for a table the model has no
further step, as the code stops there with a panic.

**ConsoleProofs** (assumptions `VgaAssumption`, `ConsoleAssumption`: sizes are positive, the
terminator is no character that is printed).  `ConsoleInv` are `COut` and `CLog`, that what
was let through and what waits in the buffer together are the text of the stream, `CCount`, how much was
printed, and `CTail`, that the screen shows the last rows of the one that never scrolls.
The store behind a full line of OUT is in it: `CLog` stops at `intruded`.  A line is printed
by a fold, whose steps are those of `putc` (`LoopOf`); that `putc` keeps `CTail` needs what `Type` and `Wrap` do to the
cells and the cursor, and that scrolling moves rows by division and remainder of the
width.  The theorems are `OutCorrect`, `LogCorrect` and `ScreenCorrect`.

*Strings* (also `StringsAssumption`: a byte has an even number of values, a word some bytes;
`MemoriesAssumption`: a memory is made of whole words and its last byte is 0, so that every
string ends).  `StringsCorrect` is about functions, not steps.  That `strlen` finds the first
0 is the claim about `((longword - lomagic) & ~longword & himagic)`: below the lowest byte
that is 0 nothing borrows, so that byte is found (`MayEnd`), and a byte above it that is
found by mistake does no harm, since the word is then looked at byte by byte.  A copy is
shown by the set of rounds after which the bytes so far are in place and those still to be
read unchanged, upwards for `dest < src` and downwards else, which is what `memmove` chooses
its direction for.  The searches and comparisons are about the first place that differs.

*Numbers* (also `FormatAssumption`: a `short` has at most as many values as an `int`, a
`long long` at least twice as many; `DirectivesAssumption`: widths are integers and arguments
naturals).  `FormatsCorrect` needs that the loop of `num` makes digits of the base, without a
leading 0, whose value is the number (`DigitsAreRight`, by `UpTo` on numbers rather than
digits, as the recursion goes to the quotient); that sign, prefix, padding and digits are
together what a field has (`LayoutIs`, `FieldShows`), the width less the room for the sign;
that an unsigned argument comes back from its detour through the signed `long long`
(`UnsignedIs`); and that the four items are carried out one after the other (`FourItems`).

**SlabProofs** (assumption `SlabAssumption`: sizes are positive, frame 0 is taken, each size
has an order within `MaxOrder`).  `SlabIInv` is `MemInv`, the memory, and `CallInv`, what a running `kmalloc`
knows; TLC has checked it in each of the 60 576 states of the run `slab` before it was proved.
`MemInv` is stated for caches, slabs, frames, objects somebody has, and the slab that `cache_alloc`
holds in its hand between `list_remove` and `list_append`, so that each half of a
call is a lemma.  Its parts: header, control words, colours and objects fit into the pages
(`CacheFits`); what never changes of a slab, its `View`, is in frames that are its own
(`ViewsRight`); each object somebody has is at a place of a slab (`Placed`); the control words of a slab are a
chain through exactly the places that nobody has (`HasChain`), as many as `inuse` leaves; the
three lists of a cache have exactly the slabs their number of used objects calls for, each once
(`ListsRight`).  The chain is a function with an end, so that it needs no recursion: taking an object
cuts its first element off (`TakeChain`), giving one back puts it in front (`FreeChain`),
and that the object given back is not on the chain already comes from `Placed`.  `PopKeeps`, `GrowKeeps`,
`TakeKeeps`, `FreeKeeps` and `NewCacheKeeps` are the parts of `cache_alloc`, `cache_free` and
`new_cache`.  The theorems are `SlabCorrect`, `ObjectsStayApart` and `ListsCorrect`: for every
sequence of calls as long as no store has gone astray, whatever objects `kfree` fails to find.

**GdbStubProofs** (assumptions `GdbStubAssumption`: the buffer has room for more than four
characters, an address the program stops at is a byte; `RequestsAssumption`: what the debugger
asks is `Askable`, that is, without the characters that frame a packet, with room in the buffer
for a sequence ID and the terminator, and without a `:` among its first four characters).
The theorems are `GdbCorrect` and `RepliesCurrent`, and both have the hypothesis
`MaxFaults <= 1`: the checksum is a sum of bytes, and two spoilt characters can make it come out
as it was.  One cannot: `SumNext`, `AddByte` and `AddCode` say that a lost or garbled
character leaves a sum that differs from the right one until the packet's end.  The run
`gdb_stub` has the same bound, and checked `IInv` in each of its 356 484 states before it was
proved.  The parts of `IInv` (with `TypesOK`):

* `Line`: a packet on the line to the stub is complete (`Whole`) up to the acknowledgements
  behind it, is there only while the debugger waits for its acknowledgement, and one `+` or `-`
  of the stub's at most is under way, and then no copy of the request is.
* `Turns`: while a packet is read, the debugger waits for it to be acknowledged; while a command
  is carried out, nothing of the request is left on the line.
* `Reading`: how the packet being read compares with the one asked.  As long as nothing was
  spoilt the buffer is its beginning, the checksum the sum of it, and the line carries the rest
  (`OnCourse`).  After a fault the sum differs (`Differs`), or the garbled character is
  next (`AtBad`), or the end was lost and the stub reads on until another packet begins
  (`Unending`).  At the checksum the text is `Intact`, or the sum is wrong and the right one
  is what comes.
* `Replies`: every packet on the way back that the debugger will take for the reply, because it
  waits for one or will have read a `+` before it, is the one the stub put last; there is none
  while it reads a request.
* `Counted`: a request was carried out as often as there were faults, plus once when it is
  acknowledged.  `OnceEach` alone is not inductive, as it does not say that the debugger
  has stopped repeating.

Each action of the stub, the debugger and the line has its lemma (`Step` puts them together);
the commands share one, `Replying`, as what they do to buffers and memory is nothing to the line.

**Checked by TLC only.**

* Liveness (`CallsEnd`, `Ends`, `Answered`): the installed provers do not do it.
* `AsAsked`: that registers and memory end up as the debugger wants them relates the text of a
  request, which here is any `Askable` text, to the `put` and `store` that `Requests` lists
  beside it; a theorem would need an assumption on what each text means that says as much as
  the commands do.

## 7. Disagreements

Four runs show that the code does something else than a comment or test says.

* `boot_mem_free`: the loader takes the result of `bitmap_lastz`, the first bit
  of a word whether clear or not, and hands that frame out unchecked
  (`bootmem.cc:146`; line 143 says "If it is not a free page, find one").  The run's
  trace shows both halves: what `bitmap_lastz` returns is a set bit, while its comment
  (`bitmap.h:83`) says "Gets the last occurence of a zeroth bit" and promises "The index of
  the bit"; and the caller does not look.  The
  properties of frames are therefore stated for the maps where this bit and those
  below are free (`LoaderFits`), and without that condition for the kernel's part.
* `bitmap_taken`: `init_bootmm32` marks the frames up to MODS_END ("The kernel's end is
  really the end of the bitmap", `bootmem.cc:103`), but the bitmap begins there, so that only its first page
  is kept (`bootmem.cc:106`).  On a map whose bitmap is longer, the kernel's allocator gives the
  second page away when the frames below the kernel are used up; it becomes a page table
  (`arch/x86/32/mmu.cc:117`), and from then on the bits of the frames it stood for are
  anything.
* `slab_full`: `IS_OBJECT_IN_SLAB` (`slab.cc:24`) is true of no object of a slab
  but the first; others are lost when freed (line 247: "Full slabs must become
  partial").
* `kernel_map_slab`: `slab.cc:148` adds the window's base to a physical address,
  while `platform.cc:146` maps without holes.

Others met on the way, modelled as they are, without a run: `x86_FEATURE_LONGMODE` names
word 4 of a leaf that has words 0 to 3 (`cpu.h:129`), so the test always fails and the
32-bit kernel is started on any processor (`main.cc:144`: "based on the CPU
specifications"); a run at the end of an
arena is not found, while `tests/unit_nodealloc.cc:144` expects any run to be; the
second arena is never used by `allocate` (`pmm_node.cc:127`); the cast binds before the shift in
the cursor's high byte (`vga.cc:40`); the 513th character of a line is dropped and
its terminator falls on the log's first character (`printk.c:37`, `:60`;
`LogIntact` is stated up to that intrusion); a precision adds zeros instead of
being a minimum, and unsigned conversions print sign flags (`vsprintf.c`); a stale
`:` makes the stub misread a one-character request, so the debugger numbers all
requests or none; the reply to `c` and `s` is a T packet where the file's table
says S; `add_arena` of an arena with a base skips the end of the bitmap;
`strcpy` copies no terminator (`kernel.cc:72` prints the result); `strstr` finds an
empty string at the end of the other; a processor without extended leaves lets the
detection store far behind its table (`cpu.cc:54`).

Spots noted while reading and not covered by a property, because no caller gets
there or the state is outside of the models: `map` passes `PmmNode` a buffer for a
page where it expects one for a list (`arch/x86/32/mmu.cc:77`, never called after
the switch); `next_pow2l` shifts an `int` by its width and more
(`math.h:54`); a long line of the log is stored behind the array
(`printk.c:30`); the 32-bit address counter of `bootmem.cc:97` wraps at 4 GiB, where
the assertion stops the boot; a page-fault code above 7 indexes past the eight
messages (`exceptions.cc:77`); the handler table has 255 entries for 256 vectors
(`platform.cc:64`); the stub of vector 20 expects an error code and those of 21 and
29 do not (`irq.asm`); the length of a memory read is not compared with the buffer
(`i386-stub.c:776`); `enable_xd` has no `ret` and runs into `jump32`
(`start.asm:87`); the vendor is put together from three leaves instead of one
(`cpu.cc:39`); `irq_get_handler` returns nothing (`core/interrupts.cc:36`);
`isdigit` is true of everything (`ctype.c:31`); the two warnings about 64-bit
kernels have each other's text (`main.cc:139`).  The end of interrupt goes by vector
and not by line (`exceptions.cc:99`); `SendEoi` has it, and no line is open.

## 8. What is not modelled

* Device interrupts: they are never enabled.  The functions for them (`pic::ack`,
  `pic::autoremap`, removing a handler) have no caller; an exception inside the
  handling of another, the registers the stubs save, and the descriptor tables,
  which are writes of constants, are left out too.
* The walk along the frame pointers (`CallStackTrace`): it has no caller.
* Access rights of pages, colours of the screen, the wording of messages.
* `list_push_front` (no caller), `BootAllocator::free` (no caller), the debug
  dumps of the ELF parser.
* Long mode: `init64` only sets a flag and the loader stops.
* `vmm.cc` and the `dummy` architecture are empty; `icxxabi.cc` is compiler support;
  the vendor in `cpu.cc` is read by nobody; the tests use a vendored framework.
* `strdup`, which always returns NULL, and the character classes and conversions of
  `ctype.c` and `stdlib.c`.
* `serial.cc` is device programming; its line is where `Console` and `GdbStub` send
  to.
* In `PmmNode` an arena with both a base and a bitmap (`BitmapAssumption` there): the code has
  no such caller.
* In `KernelMap` a bitmap longer than the page reserved for it: `Reserved` holds all of it
  there; `BootMem` has the case.
* The content of the stub's `OK` and `ENN` replies: they keep the tail of the reply before, as
  `strcpy` copies no terminator (the file's header, `i386-stub.c:47`, shows replies without
  one), and no property looks at it.  The debugger gives up
  waiting only on an empty line, so that a timeout that comes too early, with the reply on
  its way, is outside of the model.
* Memory beyond what a model's state has: after a store gone astray (`broken`,
  `null_store`) the models say that it happened, not what it destroys.

## 9. What is left

* Models: the conversions of `stdlib.c`; the rest is listed in section 8 with the
  reason.
* Proofs: `AsAsked` and liveness stay with TLC (section 6).
