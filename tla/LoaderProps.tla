---------------------------- MODULE LoaderProps ----------------------------
(* What main of the loader owes, on top of what BootMemProps says of the   *)
(* frames.                                                                 *)
EXTENDS Loader, BootMemProps

CONSTANTS
  Tables, Addrs,   \* symbol tables and addresses that are looked up
  Processors,      \* processors that are asked for their features
  Questions        \* features they are asked for, with words 0 to 3

(* The values of symbols are addresses.  No basic leaf has the number of   *)
(* an extended one, and the features are in leaves the tables hold.        *)
ASSUME LoaderPropsAssumption ==
  /\ \A tab \in Tables : tab \in Seq([value : Nat, name : STRING])
  /\ Addrs \subseteq Nat
  /\ \A p \in Processors : p.max \in 0 .. ExtBase - 1 /\ p.maxext \in Nat
  /\ \A f \in Questions : /\ f[1] \in 0 .. MaxSupported \cup ExtBase .. MaxSupportedExt
                          /\ f[2] \in 0 .. 3 /\ f[3] \in 0 .. 31

(* Every module lies below the frames that are given away, whatever the    *)
(* order of the modules, and a kernel that runs is the first module of its *)
(* name, was not forbidden by the command line, and is a 32-bit image with *)
(* both of its symbol tables.                                              *)
ChosenKernel ==
  LET mods == boot.mods
      Named(name) == {k \in DOMAIN mods : mods[k].name = name}
  IN /\ phase # "start" =>
          /\ \A k \in DOMAIN mods : mods[k].end <= mods_end
          /\ \E k \in DOMAIN mods : mods[k].end = mods_end
     /\ phase \in {"kernel", "running"} =>
          /\ krnl32 = Smallest(Named("cxkrnl32"))
          /\ boot.cmdline \in {"none", "exec32"}
          /\ LET image == mods[krnl32].image
             IN /\ image.class = 32
                /\ image.sections[ctx.strtab] = ".strtab"
                /\ image.sections[ctx.symtab] = ".symtab"

(* What the processor has of a leaf it knows and the tables hold.          *)
Features ==
  \A p \in Processors :
    LET det == Detect(p)
        reported == {f \in Questions : f \in p.bits /\ (f[1] <= p.max \/ f[1] \in ExtBase .. p.maxext)}
    IN ~DetectRunsWild(p) => {f \in Questions : FeatureTest(det, f)} = reported

(* On every processor with extended leaves a feature bit in one of the     *)
(* four words is found exactly when the processor reports it, in the last  *)
(* leaf it knows as in the last one the tables hold.                       *)
FeaturesRight == stage = "check" => Features

(* The symbol that is found has the highest value that is not above the    *)
(* address, is the first of them when several do, and none is found only   *)
(* when none is there.                                                     *)
Symbols ==
  \A tab \in Tables, addr \in Addrs :
    LET below == {k \in 1 .. Len(tab) : tab[k].value \in 1 .. addr}
        highest == {k \in below : \A j \in below : tab[j].value <= tab[k].value}
    IN GetSymbol(tab, addr) = IF below = {} THEN NoSymbol ELSE tab[Smallest(highest)]

(* For every symbol table and address a stack trace names the function the *)
(* address lies in, and the value of get_symbol_addr32 that it prints is   *)
(* the one of the name of get_symbol_name32 beside it.                     *)
SymbolsRight == phase = "start" => Symbols
=============================================================================
