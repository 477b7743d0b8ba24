-------------------------------- MODULE Cpu --------------------------------
(***************************************************************************)
(* Feature detection (arch/x86/cpu.cc, include/arch/x86/cpu.h), which runs *)
(* as a constructor, once in the loader and once in the kernel.            *)
(*                                                                         *)
(* A processor is what CPUID answers: [max, maxext, bits], the highest     *)
(* basic leaf, the answer to the first extended one, and the set of        *)
(* <<leaf, word, bit>> that are 1.  Words 0 to 3 are eax, ebx, ecx, edx.   *)
(***************************************************************************)
EXTENDS Integers

CONSTANTS
  ExtBase,          \* CPUID_EXT_BASE
  MaxSupported,     \* MAX_SUPPORTED_CPUID
  MaxSupportedExt   \* MAX_SUPPORTED_CPUID_EXT

ASSUME CpuAssumption ==
  /\ MaxSupported \in Nat /\ MaxSupported > 0
  /\ ExtBase \in Nat /\ ExtBase > MaxSupported
  /\ MaxSupportedExt \in Nat /\ MaxSupportedExt > ExtBase

LesserOf(a, b) == IF a < b THEN a ELSE b

(* The extended leaves that are read.  The mutant leaves out the last one. *)
ExtLeavesShort(maxext) == ExtBase .. maxext - 1
ExtLeaves(maxext) == ExtBase .. maxext

(* x86_cpuid_init: the highest leaves, cut to what the tables hold, and    *)
(* what the tables hold then.                                              *)
Detect(cpu) ==
  LET max == LesserOf(cpu.max, MaxSupported)
      maxext == LesserOf(cpu.maxext, MaxSupportedExt)
  IN [max |-> max, maxext |-> maxext,
      bits |-> {b \in cpu.bits : b[1] \in 0 .. max \cup ExtLeaves(maxext)}]

(* A processor without extended leaves answers with something below their  *)
(* base: max_ext_cpuid - CPUID_EXT_BASE is unsigned and wraps, and the     *)
(* loop stores far beyond the end of _cpuid_ext.                           *)
DetectRunsWild(cpu) == LesserOf(cpu.maxext, MaxSupportedExt) < ExtBase

(* x86_cpuid_leaf: is there a table entry for the leaf?                    *)
HasLeaf(det, leaf) == leaf <= det.max \/ leaf \in ExtBase .. det.maxext

FeatureTest(det, f) ==
  /\ f[2] <= 3 /\ f[3] <= 31
  /\ HasLeaf(det, f[1])
  /\ f \in det.bits

PAE == <<1, 3, 6>>
NX == <<ExtBase + 1, 3, 20>>
LONGMODE == <<ExtBase + 1, 4, 29>>

(* Where processors report long mode: bit 29 of edx.                       *)
LongModeBit == <<ExtBase + 1, 3, 29>>
=============================================================================
