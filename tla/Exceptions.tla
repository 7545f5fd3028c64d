------------------------------ MODULE Exceptions ------------------------------
(***************************************************************************)
(* Exceptions, traps and the clock of one CPU that runs one process:       *)
(* trap and userret (trap.c), the interrupt entries, trap0 and rei         *)
(* (locore.s), and the one-shot timer (clock.c).  The copy routines and    *)
(* the faults that lead to trap (m68k), uvm_fault and the rest of the      *)
(* kernel are external.  ssir is never set in this port: what serves it is *)
(* left out.                                                               *)
(***************************************************************************)
EXTENDS Integers, Sequences

CONSTANTS
  Levels,           \* levels of the devices, the clock's CLK not among them
  CLK,
  MaxDepth,         \* bound on the frames on the kernel stack
  HandlersFault     \* TRUE lets an interrupt handler take a bus error

ASSUME ExceptionAssumption ==
  /\ Levels \subseteq 1 .. 6 /\ CLK \in (1 .. 6) \ Levels
  /\ MaxDepth \in Nat /\ HandlersFault \in BOOLEAN

VARIABLES
  pc,          \* what the CPU executes
  ipl,
  stack,       \* frames, the latest first: what was interrupted, and why
  onfault,     \* pcb_onfault is set
  astpending,
  clock,       \* the timer is "counting", "asserting" or has "stopped"
  sig,         \* signal and code trap has chosen
  panic        \* the frame of the trap that panicked

vars == <<pc, ipl, stack, onfault, astpending, clock, sig, panic>>

NoFrame == [pc |-> "none"]

Init ==
  /\ pc = "user" /\ ipl = 0 /\ stack = <<>> /\ onfault = FALSE /\ astpending = FALSE
  /\ clock = "counting" /\ sig = <<>> /\ panic = NoFrame

Frame == Head(stack)
FromUser == Frame.pc = "user"

(* An exception saves what it interrupts.  The frame also holds what the    *)
(* faulting access was to, and the pcb_onfault that trap found and keeps    *)
(* while uvm_fault works.                                                   *)
Exception(type, space, page0, to) ==
  /\ Len(stack) < MaxDepth
  /\ stack' = <<[pc |-> pc, ipl |-> ipl, type |-> type, space |-> space,
                 page0 |-> page0, onfault |-> FALSE]>> \o stack
  /\ pc' = to

-----------------------------------------------------------------------------
(* The process and the kernel that works for it.                            *)
Running == panic = NoFrame

UserTypes == {"BUSERR", "ADDRERR", "ILLINST", "PRIVINST", "ZERODIV", "CHKINST", "TRAPVINST",
              "FPERR", "COPERR", "FMTERR", "TRACE", "TRAP15", "MMUFLT"}

UserException ==
  /\ Running /\ pc = "user"
  /\ \E t \in UserTypes : Exception(t, "user", FALSE, "trap")
  /\ UNCHANGED <<ipl, onfault, astpending, clock, sig, panic>>

(* Kernel code faults on kernel memory, the copy routines also on the       *)
(* user's, and a bad floating point state shows when it is restored.        *)
KernelException ==
  /\ Running
  /\ \/ /\ pc \in {"kernel", "copy", "uvm"}
        /\ \E page0 \in BOOLEAN : Exception("MMUFLT", "kernel", page0, "trap")
     \/ pc = "copy" /\ \E page0 \in BOOLEAN : Exception("MMUFLT", "user", page0, "trap")
     \/ pc \in {"kernel", "copy"} /\ Exception("BUSERR", "kernel", FALSE, "trap")
     \/ pc = "handler" /\ HandlersFault /\ Exception("BUSERR", "kernel", FALSE, "trap")
     \/ pc = "kernel" /\ Exception("COPERR", "kernel", FALSE, "trap")
  /\ UNCHANGED <<ipl, onfault, astpending, clock, sig, panic>>

Syscall ==
  /\ Running /\ pc = "user" /\ Exception("TRAP0", "user", FALSE, "kernel")
  /\ UNCHANGED <<ipl, onfault, astpending, clock, sig, panic>>

(* The kernel wants the process rescheduled or signalled (aston), blocks    *)
(* interrupts for a while, or copies; it faults where it may.               *)
Kernel ==
  /\ Running /\ pc = "kernel"
  /\ \/ astpending' = TRUE /\ UNCHANGED <<pc, ipl, onfault>>
     \/ ipl = 0 /\ ipl' \in {4, 6} /\ UNCHANGED <<pc, onfault, astpending>>
     \/ ipl = 0 /\ pc' = "copy" /\ onfault' = TRUE /\ UNCHANGED <<ipl, astpending>>
  /\ UNCHANGED <<stack, clock, sig, panic>>

Splx ==
  /\ Running /\ pc = "kernel" /\ ipl # 0 /\ ipl' = 0
  /\ UNCHANGED <<pc, stack, onfault, astpending, clock, sig, panic>>

CopyDone ==
  /\ Running /\ pc \in {"copy", "error"} /\ pc' = "kernel" /\ onfault' = FALSE
  /\ UNCHANGED <<ipl, stack, astpending, clock, sig, panic>>

(* trap0 after syscall: an AST is served without a way through rei.         *)
SyscallDone ==
  /\ Running /\ pc = "kernel" /\ ipl = 0
  /\ pc' = IF astpending THEN "ast" ELSE "rte"
  /\ UNCHANGED <<ipl, stack, onfault, astpending, clock, sig, panic>>

-----------------------------------------------------------------------------
(* trap.                                                                    *)
Return == pc' = "rei" /\ UNCHANGED stack
DoPanic == panic' = Frame /\ UNCHANGED <<pc, stack>>

(* copyfault: the frame is made to return to the address in pcb_onfault.    *)
CopyFault ==
  pc' = "rei" /\ stack' = <<[Frame EXCEPT !.pc = "error"]>> \o Tail(stack)

(* Signal and code of an exception; for a coprocessor violation of the      *)
(* kernel the type has become the user's before it is compared.             *)
Signal(type, kernel) ==
  CASE type = "BUSERR" -> <<"SIGBUS", "BUS_OBJERR">>
    [] type = "ADDRERR" -> <<"SIGBUS", "BUS_ADRERR">>
    [] type = "FMTERR" \/ (type = "COPERR" /\ kernel) -> <<"SIGILL", "ILL_ILLOPC">>
    [] type = "COPERR" -> <<"SIGFPE", "FPE_FLTINV">>
    [] type = "FPERR" -> <<"SIGFPE", "fpsr">>
    [] type = "ILLINST" -> <<"SIGILL", "ILL_ILLOPC">>
    [] type = "PRIVINST" -> <<"SIGILL", "ILL_PRVOPC">>
    [] type = "ZERODIV" -> <<"SIGFPE", "FPE_FLTDIV">>
    [] type \in {"CHKINST", "TRAPVINST"} -> <<"SIGFPE", "none">>
    [] type \in {"TRACE", "TRAP15"} -> <<"SIGTRAP", "none">>

Signalled == UserTypes \ {"MMUFLT"}

(* trapsignal, which may post an AST, and userret.                          *)
Post(s) ==
  /\ sig' = s /\ astpending' \in {astpending, TRUE}
  /\ pc' = "userret" /\ UNCHANGED stack

\* A SunOS process flushes its caches by a trap.
CacheFlush == FromUser /\ Frame.type \in {"TRACE", "TRAP15"} /\ Return

Trap ==
  /\ Running /\ pc = "trap" /\ Frame.type # "MMUFLT"
  /\ \/ /\ FromUser \/ Frame.type = "COPERR"
        /\ IF Frame.type \in Signalled
           THEN Post(Signal(Frame.type, ~FromUser)) /\ UNCHANGED panic
           ELSE DoPanic /\ UNCHANGED <<astpending, sig>>
     \/ /\ ~FromUser /\ Frame.type # "COPERR"
        /\ IF onfault THEN CopyFault /\ UNCHANGED panic ELSE DoPanic
        /\ UNCHANGED <<astpending, sig>>
     \/ CacheFlush /\ UNCHANGED <<astpending, sig, panic>>
  /\ UNCHANGED <<ipl, onfault, clock>>

\* Mutant: pcb_onfault stays set while uvm_fault works.
DisarmedNot == onfault' = onfault /\ stack' = <<[Frame EXCEPT !.onfault = onfault]>> \o Tail(stack)

Disarmed == onfault' = FALSE /\ stack' = <<[Frame EXCEPT !.onfault = onfault]>> \o Tail(stack)

(* A fault is on the kernel's map unless a copy routine was at the user's;  *)
(* the kernel has no page 0.                                                *)
OnKernelMap == ~FromUser /\ (~onfault \/ Frame.space = "kernel")

MmuFault ==
  /\ Running /\ pc = "trap" /\ Frame.type = "MMUFLT"
  /\ IF OnKernelMap /\ Frame.page0
     THEN DoPanic /\ UNCHANGED onfault
     ELSE pc' = "uvm" /\ Disarmed /\ UNCHANGED panic
  /\ UNCHANGED <<ipl, astpending, clock, sig>>

Rearmed == onfault' = Frame.onfault

(* The signal for an error of uvm_fault: EACCES has become EFAULT.          *)
FaultSignal(rv) ==
  CASE rv = "ENOMEM" -> <<"SIGKILL", "SEGV_MAPERR">>
    [] rv = "EINVAL" -> <<"SIGBUS", "BUS_ADRERR">>
    [] rv \in {"EACCES", "EFAULT"} -> <<"SIGSEGV", "SEGV_MAPERR">>

UvmReturns ==
  /\ Running /\ pc = "uvm" /\ Rearmed
  /\ \E rv \in {"0", "ENOMEM", "EINVAL", "EACCES", "EFAULT"} :
       IF rv = "0"
       THEN /\ pc' = IF FromUser THEN "userret" ELSE "rei"
            /\ UNCHANGED <<stack, astpending, sig, panic>>
       ELSE IF FromUser THEN Post(FaultSignal(rv)) /\ UNCHANGED panic
       ELSE /\ IF Frame.onfault THEN CopyFault /\ UNCHANGED panic ELSE DoPanic
            /\ UNCHANGED <<astpending, sig>>
  /\ UNCHANGED <<ipl, clock>>

(* userret does what the process has to do before it goes on; ksi is gone.  *)
Userret ==
  /\ Running /\ pc = "userret" /\ Return /\ sig' = <<>>
  /\ UNCHANGED <<ipl, onfault, astpending, clock, panic>>

-----------------------------------------------------------------------------
(* rei: an AST is served on the way to user mode, with interrupts let in.   *)
\* Mutant: the mode that is returned to is not looked at.
AstDueAlways == astpending

AstDue == astpending /\ FromUser

Rei ==
  /\ Running /\ pc = "rei"
  /\ IF AstDue THEN pc' = "ast" /\ ipl' = 0 ELSE pc' = "rte" /\ UNCHANGED ipl
  /\ UNCHANGED <<stack, onfault, astpending, clock, sig, panic>>

(* trap, T_ASTFLT; with T_USER it goes on through spl1, spl0 and userret.   *)
Ast ==
  /\ Running /\ pc = "ast"
  /\ IF FromUser THEN astpending' = FALSE /\ pc' = "astret" /\ UNCHANGED <<stack, panic>>
     ELSE DoPanic /\ UNCHANGED astpending
  /\ UNCHANGED <<ipl, onfault, clock, sig>>

AstReturns ==
  /\ Running /\ pc = "astret" /\ pc' = "rte"
  /\ UNCHANGED <<ipl, stack, onfault, astpending, clock, sig, panic>>

Rte ==
  /\ Running /\ pc = "rte"
  /\ pc' = Frame.pc /\ ipl' = Frame.ipl /\ stack' = Tail(stack)
  /\ UNCHANGED <<onfault, astpending, clock, sig, panic>>

-----------------------------------------------------------------------------
(* Interrupts.                                                              *)
Interrupt(l) ==
  /\ Running /\ l > ipl /\ Exception("INTR", "kernel", FALSE, "handler") /\ ipl' = l
  /\ UNCHANGED <<onfault, astpending, clock, sig, panic>>

DeviceInterrupt == \E l \in Levels : Interrupt(l)
ClockInterrupt == clock = "asserting" /\ Interrupt(CLK)

(* The timer counts down once (clock.c), and asserts until it is reloaded.  *)
Tick ==
  /\ clock = "counting" /\ clock' = "asserting"
  /\ UNCHANGED <<pc, ipl, stack, onfault, astpending, sig, panic>>

\* Mutant: the handler only acknowledges the timer.
ReloadclockNot == clock' = "stopped"

Reloadclock == clock' = "counting"

(* clockintr and hardclock, or intrhand and isrdispatch: somebody may be    *)
(* woken who is to run next.                                                *)
Handler ==
  /\ Running /\ pc = "handler" /\ Return
  /\ IF ipl = CLK THEN Reloadclock ELSE UNCHANGED clock
  /\ astpending' \in {astpending, TRUE}
  /\ UNCHANGED <<ipl, onfault, sig, panic>>

Next ==
  \/ UserException \/ KernelException \/ Syscall \/ Kernel \/ Splx \/ CopyDone \/ SyscallDone
  \/ Trap \/ MmuFault \/ UvmReturns \/ Userret \/ Rei \/ Ast \/ AstReturns \/ Rte
  \/ DeviceInterrupt \/ ClockInterrupt \/ Tick \/ Handler

(* What is interrupted gets on between two interrupts, at every depth of    *)
(* the stack; the kernel ends what it does for a process; the timer runs.   *)
(* Nothing is asked of the process, which may never enter the kernel.       *)
Progress == Trap \/ MmuFault \/ UvmReturns \/ Userret \/ Rei \/ Ast \/ AstReturns \/ Rte \/ Handler

Fairness ==
  /\ \A n \in 1 .. MaxDepth : SF_vars(Len(stack) = n /\ Progress)
  /\ SF_vars(Splx) /\ SF_vars(CopyDone) /\ SF_vars(SyscallDone)
  /\ SF_vars(stack = <<>> /\ ClockInterrupt) /\ WF_vars(Tick)

Spec == Init /\ [][Next]_vars /\ Fairness

-----------------------------------------------------------------------------
(* A process that is to be rescheduled or signalled is, even if it computes *)
(* for ever and the AST was posted behind the test of rei or of trap0: the  *)
(* next clock interrupt returns to it through rei.                          *)
AstServed == astpending ~> (~astpending \/ ~Running)

(* trap returns to the address in pcb_onfault only what a copy routine has  *)
(* interrupted, never the code of uvm_fault or the kernel it works under.   *)
ResumesInCopy ==
  [][stack # <<>> /\ Len(stack') = Len(stack) /\ Head(stack').pc # Frame.pc
       => Frame.pc = "copy"]_vars

(* What a process does in user mode never panics the machine, nor a fault   *)
(* on the user's side of a copy, nor an AST ("cannot happen"): only kernel  *)
(* memory that is not there does.                                           *)
PanicsForKernel ==
  ~Running => /\ panic.pc \in {"kernel", "uvm"} \/ (panic.pc = "copy" /\ panic.page0)
              /\ panic.space = "kernel" /\ panic.type \in {"MMUFLT", "BUSERR"}
=============================================================================
