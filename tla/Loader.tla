------------------------------- MODULE Loader -------------------------------
(***************************************************************************)
(* main of the loader (loader/x86/main.cc): it scans the multiboot modules *)
(* for a kernel, decides which one to start, sets up physical memory       *)
(* (BootMem), parses the image (lib/elf/elf_parser.cc) and enters it.      *)
(*                                                                         *)
(* A module is [name, end, image]; its name is the first eight characters  *)
(* of its command line.  An image is [class, sections]; class is 32 or 64  *)
(* for an ELF file and 0 for anything else.                                *)
(***************************************************************************)
EXTENDS BootMem

CONSTANT Boots  \* what the boot loader passes: [intact, mods, cmdline] records

ASSUME LoaderAssumption ==
  \A b \in Boots : /\ b.intact \in BOOLEAN
                   /\ b.cmdline \in {"none", "exec32", "exec64", "other"}
                   /\ b.mods \in Seq(ToSet(b.mods))
                   /\ \A mod \in ToSet(b.mods) :
                        /\ mod.end \in ModsEnds
                        /\ mod.image.sections \in Seq(STRING)

VARIABLES
  boot,     \* the multiboot information
  stage,    \* where main is
  next,     \* the index of the module scanned next
  krnl32,   \* cxkrnl32: the index of a module, 0 when there is none
  krnl64,   \* cxkrnl64
  ctx       \* the tables of the image, indices of sections; 0 is NULL

mainvars == <<boot, stage, next, krnl32, krnl64, ctx>>

-----------------------------------------------------------------------------
(* elf_parser.cc *)

(* The first section of that name, NULL when there is none.                *)
FindSection(image, name) ==
  LET named == {k \in DOMAIN image.sections : image.sections[k] = name}
  IN IF named = {} THEN 0 ELSE Smallest(named)

(* load_img fills the context from a 32-bit image; any other leaves it     *)
(* alone.                                                                  *)
LoadImg(image, c) ==
  IF image.class = 32
  THEN [strtab |-> FindSection(image, ".strtab"), symtab |-> FindSection(image, ".symtab")]
  ELSE c

(* The symbol a stack trace shows for an address: the one of the highest   *)
(* value up to the address.  A symbol is [value, name]; the search keeps   *)
(* the best so far, and with no symbol the value is 0 and the name NULL.   *)
NoSymbol == [value |-> 0, name |-> "NULL"]
BetterBelow(s, best, addr) == s.value > best.value /\ s.value < addr
Better(s, best, addr) == s.value > best.value /\ s.value <= addr
GetSymbol(tab, addr) ==
  LET best[n \in 0 .. Len(tab)] ==
        IF n = 0 THEN NoSymbol
        ELSE IF Better(tab[n], best[n - 1], addr) THEN tab[n] ELSE best[n - 1]
  IN best[Len(tab)]

-----------------------------------------------------------------------------
MainInit ==
  /\ boot \in Boots
  /\ stage = "ctors"
  /\ next = 1
  /\ krnl32 = 0 /\ krnl64 = 0
  /\ ctx = [strtab |-> 0, symtab |-> 0]
  /\ cpu \in Cpus /\ mmap \in Maps /\ mods_end = 0 /\ phase = "start"
  /\ alloc_map = {} /\ ptr = 0 /\ handed = <<>> /\ pool = {}

Goto(s) == stage' = s /\ UNCHANGED <<boot, next, krnl32, krnl64, ctx>>

(* The constructors, of which one finds out about the processor.           *)
RunCtors ==
  /\ stage = "ctors"
  /\ Goto(IF DetectRunsWild(cpu) THEN "wild" ELSE "check")
  /\ UNCHANGED vars

(* ASSERT_HARDs on the multiboot flags.                                    *)
CheckIntegrity ==
  /\ stage = "check"
  /\ Goto(IF boot.intact /\ boot.mods # <<>> THEN "scan" ELSE "panic")
  /\ UNCHANGED vars

(* One module of the scan; a second kernel of a name is ignored.  The      *)
(* mutant takes the last one.                                              *)
TakeLast(found, mod, name) == IF mod.name = name THEN next ELSE found
Take(found, mod, name) == IF mod.name = name /\ found = 0 THEN next ELSE found

ScanModule ==
  /\ stage = "scan"
  /\ next <= Len(boot.mods)
  /\ LET mod == boot.mods[next]
     IN /\ mods_end' = Largest({mods_end, mod.end})
        /\ krnl32' = Take(krnl32, mod, "cxkrnl32")
        /\ krnl64' = Take(krnl64, mod, "cxkrnl64")
  /\ next' = next + 1
  /\ UNCHANGED <<boot, stage, ctx, cpu, mmap, phase, alloc_map, ptr, handed, pool>>

(* Which kernel to start: the command line decides, then the CPU.  init64  *)
(* only sets g_load64; main then hangs.                                    *)
Choice ==
  LET wants64 == /\ boot.cmdline \in {"none", "exec64"}
                 /\ krnl64 # 0 /\ Detected(LONGMODE)
      wants32 == boot.cmdline \in {"none", "exec32"} /\ krnl32 # 0
  IN IF wants64 THEN "hang" ELSE IF wants32 THEN "init32" ELSE "panic"

Choose ==
  /\ stage = "scan"
  /\ next > Len(boot.mods)
  /\ Goto(Choice)
  /\ UNCHANGED vars

(* init32: the frames first, then the image.                               *)
SetUpMemory ==
  /\ stage = "init32"
  /\ NotEnoughMemory \/ AssertFails \/ InitBootMM
  /\ Goto("image")

LoadKernel ==
  /\ stage = "image"
  /\ phase = "loader"
  /\ ctx' = LoadImg(boot.mods[krnl32].image, ctx)
  /\ stage' = IF ctx'.strtab # 0 /\ ctx'.symtab # 0 THEN "run" ELSE "panic"
  /\ UNCHANGED <<boot, next, krnl32, krnl64>>
  /\ UNCHANGED vars

(* The page tables, the segments, the page structures and the stack: their *)
(* frames are taken and filled.                                            *)
RunLoader ==
  /\ stage = "run"
  /\ LoaderAlloc \/ Fill
  /\ UNCHANGED mainvars

MainStopped ==
  /\ stage \in {"panic", "hang", "wild"} \/ phase \in {"panic", "assert"}
  /\ UNCHANGED <<vars, mainvars>>

MainNext ==
  \/ RunCtors \/ CheckIntegrity \/ ScanModule \/ Choose
  \/ SetUpMemory \/ LoadKernel \/ RunLoader
  \/ MainStopped
=============================================================================
