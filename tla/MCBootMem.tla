----------------------------- MODULE MCBootMem -----------------------------
(* Small memory maps for BootMem.  A page has two units, so that region    *)
(* limits fall between pages, and a word of the bitmap four bits.          *)
EXTENDS BootMemProps

Region(from, to, usable) == [addr |-> from, len |-> to - from, usable |-> usable]

(* Conventional memory up to "low", a hole up to the kernel's region, which *)
(* ends at "top", and a reserved region.                                   *)
PcMap(low, top) ==
  <<Region(0, low, TRUE), Region(low, 4, FALSE), Region(4, top, TRUE), Region(top, top + 3, FALSE)>>

(* The same with more usable memory after the hole that follows "top".     *)
HighMap(low, top, last) == Append(PcMap(low, top), Region(top + 3, last, TRUE))

(* A firmware that reports a part of the conventional memory twice.        *)
TwiceMap(low, top) == <<Region(0, 2, TRUE)>> \o PcMap(low, top)

(* So much address space that the bitmap does not fit its page, whose rest *)
(* has the bits of frames at the top of memory.                            *)
LongMap ==
  <<Region(0, 3, TRUE), Region(3, 4, FALSE), Region(4, 10, TRUE), Region(10, 12, FALSE),
    Region(12, 18, TRUE), Region(18, 28, FALSE), Region(28, 34, TRUE)>>

MCMaps ==
  {TwiceMap(3, 20), HighMap(1, 12, 20), LongMap}
    \cup {PcMap(low, top) : low \in {1, 3}, top \in {5, 17, 18, 20, 23, 25}}
    \cup {HighMap(low, top, last) : low \in {1, 2}, top \in {14, 16, 19}, last \in {23, 24}}
MCModsEnds == {5, 6, 9}

(* One without extended leaves, one without PAE, one with 64 bits.         *)
Processor(max, maxext, bits) == [max |-> max, maxext |-> maxext, bits |-> bits]
MCCpus ==
  {Processor(2, 2, {}), Processor(1, 9, {NX}), Processor(3, 11, {PAE, NX, LongModeBit})}
=============================================================================
