------------------------------- MODULE Kernel -------------------------------
(***************************************************************************)
(* kernel_main (core/kernel.cc) after the loader: what it calls in order   *)
(* until the processor halts, with the exceptions the processor may raise  *)
(* anywhere in between, or already in the loader.  Interrupts stay masked. *)
(***************************************************************************)
EXTENDS Loader, Traps

CONSTANTS
  Raised,    \* exceptions: [vector, code], code 0 when none is pushed
  IRQ0,      \* the first vector of the interrupt lines
  BiosPics   \* states the firmware leaves the interrupt controllers in

(* 20, 21 and 29 are left out: they need features this kernel never turns  *)
(* on, and their stubs expect an error code where the processor pushes     *)
(* none (20), or none where it pushes one.                                 *)
Exceptions == 0 .. 31
ASSUME KernelAssumption ==
  /\ \A x \in Raised : /\ x.vector \in Exceptions \ {20, 21, 29}
                       /\ x.code \in Nat
                       /\ ~HasErrorCode(x.vector) => x.code = 0
  /\ IRQ0 \in Nat /\ IRQ0 > 31
  /\ BiosPics \subseteq Pics

VARIABLES
  at,         \* where kernel_main is
  idt,        \* whether the IDT with its gates is loaded
  handlers,   \* platform: the handler of each vector, "none" for NULL
  pic,        \* the interrupt controllers
  trap,       \* how far the handling of an exception is
  raised,     \* history: the exception that is handled
  stack,      \* the stack from the interrupted instruction on
  shown       \* what was printed about the exception

kernelvars == <<at, idt, handlers, pic, trap, raised, stack, shown>>
trapvars == <<trap, raised, stack, shown>>

Nothing == [int_no |-> -1, err_code |-> -1, eip |-> "nowhere"]
NoTrap == [vector |-> -1, code |-> -1, at |-> "nowhere"]
NoHandlers == [v \in Exceptions |-> "none"]

KernelInit ==
  /\ MainInit
  /\ at = "loader" /\ idt = FALSE /\ handlers = NoHandlers /\ pic \in BiosPics
  /\ trap = "none" /\ raised = NoTrap /\ stack = <<>> /\ shown = Nothing

-----------------------------------------------------------------------------
Stops == at = "panic" \/ stage \in {"panic", "hang", "wild"} \/ phase \in {"panic", "assert"}

(* kernel_main, a call a step.                                             *)
Calls(from, to) == trap = "none" /\ at = from /\ at' = to

RunsLoader ==
  /\ trap = "none" /\ at = "loader"
  /\ MainNext
  /\ UNCHANGED kernelvars

(* The jump to the kernel and, after the constructors, add_arena of        *)
(* BootAllocator.                                                          *)
AddArena ==
  /\ Calls("loader", "arch_early_init")
  /\ stage = "run"
  /\ EnterKernel
  /\ UNCHANGED <<mainvars, idt, handlers, pic, trapvars>>

(* early_init checks the multiboot information again, then gdt::init,      *)
(* idt::init and the gates.                                                *)
ChecksPass == boot.intact /\ boot.mods # <<>> /\ ~TooSmall(mmap)

ArchEarlyInit ==
  /\ phase = "kernel"
  /\ Calls("arch_early_init", IF ChecksPass THEN "platform_early_init" ELSE "panic")
  /\ idt' = ChecksPass
  /\ UNCHANGED <<vars, mainvars, handlers, pic, trapvars>>

(* platform::early_init: remap, mask, memset.                              *)
PlatformEarlyInit ==
  /\ Calls("platform_early_init", "arch_init")
  /\ pic' = Written(pic, Remap(IRQ0, IRQ0 + 8, pic[Master].mask, pic[Slave].mask)
                           \o Mask(255, 255))
  /\ handlers' = NoHandlers
  /\ UNCHANGED <<vars, mainvars, idt, trapvars>>

(* The loop of arch::init; the mutant's ends one too early.                *)
InstalledButLast == [v \in Exceptions |-> IF v < 31 THEN "exception_handler" ELSE handlers[v]]
Installed == [v \in Exceptions |-> IF v < 32 THEN "exception_handler" ELSE handlers[v]]

ArchInit ==
  /\ Calls("arch_init", "platform_init")
  /\ handlers' = Installed
  /\ UNCHANGED <<vars, mainvars, idt, pic, trapvars>>

(* init_mmu and platform::init take frames for the window's page tables.   *)
PlatformInit ==
  /\ Calls("platform_init", "platform_init")
  /\ KernelAlloc
  /\ UNCHANGED <<mainvars, idt, handlers, pic, trapvars>>

(* The frames the kernel runs in and those it takes are written to.        *)
FillFrames ==
  /\ phase = "kernel" /\ trap = "none" /\ ~Stops
  /\ Fill
  /\ UNCHANGED <<mainvars, kernelvars>>

(* meminit; kmem::init and the greeting (Slab, Strings) touch nothing here. *)
MemInitCall ==
  /\ Calls("platform_init", "kmem_init")
  /\ MemInit
  /\ UNCHANGED <<mainvars, idt, handlers, pic, trapvars>>

KmemInit ==
  /\ Calls("kmem_init", "halt")
  /\ UNCHANGED <<vars, mainvars, idt, handlers, pic, trapvars>>

-----------------------------------------------------------------------------
(* Exceptions.                                                             *)
TrapGoto(t) == trap' = t /\ UNCHANGED <<vars, mainvars, at, idt, handlers>>

(* The processor raises one: without an IDT it resets, otherwise it pushes *)
(* its frame and enters the stub.                                          *)
Raise ==
  /\ trap = "none" /\ ~Stops
  /\ IF ~idt
     THEN TrapGoto("reset") /\ UNCHANGED <<pic, raised, stack, shown>>
     ELSE \E x \in Raised :
            /\ TrapGoto("stub")
            /\ raised' = [vector |-> x.vector, code |-> x.code, at |-> at]
            /\ stack' = stack \o CpuFrame(x.vector, x.code, at)
            /\ UNCHANGED <<pic, shown>>

IsrStub ==
  /\ trap = "stub"
  /\ TrapGoto("isr_handler")
  /\ stack' = stack \o Stub(raised.vector)
  /\ UNCHANGED <<pic, raised, shown>>

(* isr_handler: the handler, or without one a line and the end of interrupt. *)
Handled ==
  /\ trap = "isr_handler"
  /\ handlers[Regs(stack).int_no] # "none"
  /\ TrapGoto("exception_handler")
  /\ UNCHANGED <<pic, raised, stack, shown>>

Unhandled ==
  /\ trap = "isr_handler"
  /\ handlers[Regs(stack).int_no] = "none"
  /\ TrapGoto("return")
  /\ pic' = Written(pic, SendEoi(Regs(stack).int_no))
  /\ shown' = [Nothing EXCEPT !.int_no = Regs(stack).int_no]
  /\ UNCHANGED <<raised, stack>>

(* It prints the registers and halts for good.                             *)
ExceptionHandler ==
  /\ trap = "exception_handler"
  /\ TrapGoto("halted")
  /\ shown' = Regs(stack)
  /\ UNCHANGED <<pic, raised, stack>>

(* The rest of the stub.                                                   *)
IsrReturn ==
  /\ trap = "return"
  /\ trap' = "none"
  /\ at' = IretTo(DropCode(stack))
  /\ stack' = AfterIret(DropCode(stack))
  /\ raised' = NoTrap /\ shown' = Nothing
  /\ UNCHANGED <<vars, mainvars, idt, handlers, pic>>

KernelStopped ==
  /\ trap \in {"halted", "reset"} \/ (trap = "none" /\ (Stops \/ at = "halt"))
  /\ UNCHANGED <<vars, mainvars, kernelvars>>

KernelNext ==
  \/ RunsLoader
  \/ AddArena \/ ArchEarlyInit \/ PlatformEarlyInit \/ ArchInit
  \/ PlatformInit \/ FillFrames \/ MemInitCall \/ KmemInit
  \/ Raise \/ IsrStub \/ Handled \/ Unhandled \/ ExceptionHandler \/ IsrReturn
  \/ KernelStopped

KernelSpec == KernelInit /\ [][KernelNext]_<<vars, mainvars, kernelvars>>
=============================================================================
