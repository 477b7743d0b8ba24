------------------------------ MODULE MCKernel ------------------------------
(* Small instances of the boot up to the halt of kernel_main: the memory   *)
(* maps of MCBootMem, the orders, names and images of modules that main    *)
(* tells apart, and exceptions with and without an error code.             *)
EXTENDS KernelProps, MCBootMem

Module(name, end, image) == [name |-> name, end |-> end, image |-> image]
Image(class, sections) == [class |-> class, sections |-> sections]

Good == Image(32, <<"", ".text", ".symtab", ".strtab", ".shstrtab">>)
Stripped == Image(32, <<"", ".text", ".shstrtab">>)
Half == Image(32, <<"", ".strtab">>)
Long == Image(64, <<>>)
Script == Image(0, <<>>)

Boot(mods, cmdline) == [intact |-> TRUE, mods |-> mods, cmdline |-> cmdline]

K32(end) == Module("cxkrnl32", end, Good)
K64(end) == Module("cxkrnl64", end, Long)
Other(end) == Module("other", end, Script)

MCBoots ==
  { Boot(<<K32(5)>>, "none"),
    Boot(<<Other(9), K32(5), K32(6)>>, "none"),
    Boot(<<K64(5), Module("cxkrnl32", 6, Good), Module("cxkrnl32", 9, Stripped)>>, "exec32"),
    Boot(<<K32(6), K64(5)>>, "none"),
    Boot(<<K64(5), K64(6)>>, "exec64"),
    Boot(<<K64(5)>>, "exec32"),
    Boot(<<K64(5)>>, "none"),
    Boot(<<K32(5)>>, "other"),
    Boot(<<Other(6)>>, "none"),
    Boot(<<Module("cxkrnl32", 5, Stripped)>>, "none"),
    Boot(<<Module("cxkrnl32", 5, Half)>>, "none"),
    Boot(<<Module("cxkrnl32", 5, Long)>>, "none"),
    Boot(<<Module("cxkrnl32", 5, Script)>>, "none"),
    Boot(<<>>, "none"),
    [Boot(<<K32(5)>>, "none") EXCEPT !.intact = FALSE] }

(* Processors that know fewer and more leaves than the tables hold.        *)
MCBits == {PAE, NX, LongModeBit, <<2, 0, 31>>, <<10, 2, 22>>}
MCQuestions == MCBits \cup {<<1, 2, 6>>, <<2, 3, 31>>, <<9, 3, 6>>, <<10, 3, 20>>}
MCProcessors ==
  {Processor(max, maxext, bits) : max \in 1 .. 3, maxext \in {3} \cup 8 .. 11, bits \in SUBSET MCBits}

(* Symbol tables of up to three symbols, the names tell equal values apart. *)
MCTables ==
  UNION {{[k \in 1 .. n |-> [value |-> v[k], name |-> <<"a", "b", "c">>[k]]] :
            v \in [1 .. n -> 0 .. 3]} : n \in 0 .. 3}
MCAddrs == 0 .. 4

(* Exceptions, and what the firmware leaves in the interrupt controllers.  *)
Exception(v, code) == [vector |-> v, code |-> code]
MCRaised == {Exception(0, 0), Exception(2, 0), Exception(8, 0), Exception(14, 2)}

Chip(offset, mask) == [expects |-> "mask", offset |-> offset, cascade |-> 0, mask |-> mask]
MCBiosPics == {<<Chip(8, 184), Chip(112, 142)>>}
=============================================================================
