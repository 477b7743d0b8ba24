------------------------------- MODULE Traps -------------------------------
(***************************************************************************)
(* From an exception to its handler and back: what the processor pushes,   *)
(* the stubs of irq.asm, which push an error code where the processor has  *)
(* not, the frame regs_t the handler reads, and the way back.  And the     *)
(* programming of the interrupt controller (platform/pc/pic.cc).           *)
(*                                                                         *)
(* A stack is the sequence of its words, the top last.                     *)
(***************************************************************************)
EXTENDS Integers, SequencesExt

-----------------------------------------------------------------------------
(* The processor.  Vectors that push an error code, the frame, and iret.   *)
HasErrorCode(v) == v \in {8, 17, 21, 29, 30} \cup 10 .. 14
CpuFrame(v, code, eip) ==
  <<"eflags", "cs", eip>> \o (IF HasErrorCode(v) THEN <<code>> ELSE <<>>)

IretTo(s) == s[Len(s)]
AfterIret(s) == SubSeq(s, 1, Len(s) - 3)

-----------------------------------------------------------------------------
(* irq.asm: a stub pushes a 0 for the vectors it takes for those without   *)
(* an error code, and its number.  The registers it pushes and pops after  *)
(* that are left out.  The mutant misses the last vector of the range.     *)
TakenForCodedButPF(v) == v \in {8, 17, 20, 30} \cup 10 .. 13
TakenForCoded(v) == v \in {8, 17, 20, 30} \cup 10 .. 14

Stub(v) == (IF TakenForCoded(v) THEN <<>> ELSE <<0>>) \o <<v>>

(* regs_t over the top of the stack, and "add esp, 8".                     *)
Regs(s) == [int_no |-> s[Len(s)], err_code |-> s[Len(s) - 1], eip |-> s[Len(s) - 2]]
DropCode(s) == SubSeq(s, 1, Len(s) - 2)

-----------------------------------------------------------------------------
(* The two 8259 controllers: ICW1 on the command port starts a sequence in *)
(* which the next three words on the data port are the vector offset, the  *)
(* cascade and the mode; otherwise a word there is the mask.               *)
Master == 1
Slave == 2
ICW1 == 17
EOI == 32

Pics ==
  [{Master, Slave} -> [expects : {"offset", "cascade", "mode", "mask"}, offset : Nat, cascade : Nat, mask : Nat]]

ChipWrite(chip, port, word) ==
  IF port = "command"
  THEN IF word = ICW1 THEN [chip EXCEPT !.expects = "offset", !.mask = 0] ELSE chip
  ELSE CASE chip.expects = "offset" -> [chip EXCEPT !.expects = "cascade", !.offset = word]
         [] chip.expects = "cascade" -> [chip EXCEPT !.expects = "mode", !.cascade = word]
         [] chip.expects = "mode" -> [chip EXCEPT !.expects = "mask"]
         [] chip.expects = "mask" -> [chip EXCEPT !.mask = word]

PicWrite(pic, w) == [pic EXCEPT ![w.chip] = ChipWrite(pic[w.chip], w.port, w.word)]

Command(chip, word) == [chip |-> chip, port |-> "command", word |-> word]
Data(chip, word) == [chip |-> chip, port |-> "data", word |-> word]

(* pic::remap; a1 and a2 are the masks it has read.                        *)
Remap(offset1, offset2, a1, a2) ==
  << Command(Master, ICW1), Command(Slave, ICW1),
     Data(Master, offset1), Data(Slave, offset2),
     Data(Master, 4), Data(Slave, 2),
     Data(Master, 1), Data(Slave, 1),
     Data(Master, a1), Data(Slave, a2) >>

Mask(mask1, mask2) == << Data(Master, mask1), Data(Slave, mask2) >>

(* pic::send_eoi of a vector, which it takes for a line.                   *)
SendEoi(v) ==
  (IF v >= 8 THEN << Command(Slave, EOI) >> ELSE <<>>) \o << Command(Master, EOI) >>

Written(pic, words) ==
  LET after[n \in 0 .. Len(words)] == IF n = 0 THEN pic ELSE PicWrite(after[n - 1], words[n])
  IN after[Len(words)]
=============================================================================
