---------------------------- MODULE KernelProps ----------------------------
(* What kernel_main and the way of an exception owe.                       *)
EXTENDS Kernel, LoaderProps

Calm == {"platform_init", "kmem_init", "halt"}
AfterIdt == {"platform_early_init", "arch_init"} \cup Calm

(* Every variable keeps its type.                                          *)
KernelTypeOK ==
  /\ at \in {"loader", "arch_early_init", "panic"} \cup AfterIdt
  /\ idt \in BOOLEAN
  /\ handlers \in [Exceptions -> {"none", "exception_handler"}]
  /\ trap \in {"none", "stub", "isr_handler", "exception_handler", "return", "halted", "reset"}

(* From arch::init on every exception has its handler and the controllers  *)
(* are out of their initialisation, with all lines masked and, should one  *)
(* be unmasked, on vectors that are no exceptions; and while the kernel    *)
(* runs nothing of an exception is left on the stack.                      *)
TrapInv ==
  /\ KernelTypeOK
  /\ at \in Calm => \A v \in Exceptions : handlers[v] # "none"
  /\ at \in {"arch_init"} \cup Calm =>
       \A chip \in {Master, Slave} :
         /\ pic[chip].expects = "mask" /\ pic[chip].mask = 255
         /\ Exceptions \cap (pic[chip].offset .. pic[chip].offset + 7) = {}
  /\ trap = "none" => stack = <<>>

(* An exception is reported with the vector, the error code and the        *)
(* address the processor gave, whether its vector has a code or not; one   *)
(* that comes before the handlers returns to the very instruction; and the *)
(* machine only resets on one that comes before the IDT.                   *)
Reported ==
  /\ trap \in {"exception_handler", "halted"} =>
       /\ Regs(stack).int_no = raised.vector
       /\ Regs(stack).err_code = raised.code
       /\ Regs(stack).eip = raised.at
       /\ trap = "halted" => shown = Regs(stack)
  /\ trap = "return" =>
       /\ AfterIret(DropCode(stack)) = <<>> /\ IretTo(DropCode(stack)) = raised.at
       /\ shown.int_no = raised.vector
       /\ raised.at \notin Calm
  /\ trap = "reset" => at \notin AfterIdt
=============================================================================
