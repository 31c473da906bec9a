------------------------------ MODULE Context ------------------------------
(***************************************************************************)
(* Saved contexts and changes of mode: the way of the registers from a     *)
(* thread through the trap routine, setjmp, the handler on the kernel's    *)
(* stack and longjmp to the thread that runs next, and back to user mode.  *)
(*                                                                         *)
(* Registers are kept by kind.  "kept" stands for those the routine does   *)
(* not touch before setjmp stores them; ra (and s0, which has its way) is  *)
(* in the routine's frame, on the stack of the thread; a1 is the slot of   *)
(* results; a0 is not stored at all.  A stack is counted in frames of 16   *)
(* bytes and an address in it is <<whose stack, height>>.                  *)
(***************************************************************************)
EXTENDS Integers

CONSTANTS
  Proc,    \* the threads, the idle thread included
  First,   \* the thread main starts
  Kernel,  \* RiscV::kernelThread
  Boot,    \* the code of main
  Code,    \* addresses of the threads' instructions
  Entry,   \* where a thread starts: wrapper, behind the call of popSppSpie
  Value,   \* what registers and stacks hold
  Top      \* height of a stack, in frames

ASSUME ContextAssumption ==
  /\ First \in Proc
  /\ Kernel \notin Proc /\ Boot \notin Proc /\ Boot # Kernel
  /\ Code \subseteq Nat /\ Entry \in Code
  /\ Value # {}
  /\ Top \in Nat \ {0}

Owner == Proc \cup {Kernel, Boot}

VARIABLES
  cpu,      \* the hart's registers and its privilege
  sepc, spp, scause,  \* as the last trap left them
  at,       \* the code that is executed: "thread", or a part of the kernel
  stack,    \* the frames of each thread's stack
  ctx,      \* PCB::myContext of each thread and the kernel, mainContext
  runningThread,
  created   \* threads whose PCB exists

vars == <<cpu, sepc, spp, scause, at, stack, ctx, runningThread, created>>

-----------------------------------------------------------------------------
(***************************************************************************)
(* setjmp and longjmp.  Both pass over x10, which is a0.                   *)
(***************************************************************************)

(* The context old after setjmp, called by code that goes on at ret, with  *)
(* the stack pointer at sp.  The slot R0 is not a register's.              *)
setjmp(old, ret, sp) ==
  [old EXCEPT !.RA = ret, !.SP = sp, !.KEPT = cpu.kept, !.A1 = cpu.a1]

(* The registers after longjmp(c), and where it goes on.                   *)
SameStack(c) == [cpu EXCEPT !.ra = c.RA, !.kept = c.KEPT, !.a1 = c.A1]  \* wrong: x2 left out
longjmp(c) == [cpu EXCEPT !.ra = c.RA, !.sp = c.SP, !.kept = c.KEPT, !.a1 = c.A1]

(* The context the PCB's constructor makes: what the processor holds then, *)
(* the address of wrapper and the stack it was given.                      *)
NewContext(p, kept, a1) ==
  [R0 |-> 0, RA |-> "wrapper", SP |-> <<p, Top>>, KEPT |-> kept, A1 |-> a1]

-----------------------------------------------------------------------------
(***************************************************************************)
(* Threads.                                                                *)
(***************************************************************************)

InThread == at = "thread"
Height == cpu.sp[2]

(* Any instruction, but that a thread leaves room for one more frame.      *)
Compute ==
  /\ InThread
  /\ \E pc \in Code, v \in Value :
       \/ cpu' = [cpu EXCEPT !.pc = pc, !.ra = v]
       \/ cpu' = [cpu EXCEPT !.pc = pc, !.kept = v]
       \/ cpu' = [cpu EXCEPT !.pc = pc, !.a0 = v]
       \/ cpu' = [cpu EXCEPT !.pc = pc, !.a1 = v]
  /\ UNCHANGED <<sepc, spp, scause, at, stack, ctx, runningThread, created>>

Push ==
  /\ InThread
  /\ Height > 1
  /\ cpu' = [cpu EXCEPT !.sp = <<runningThread, Height - 1>>]
  /\ stack' = [stack EXCEPT ![runningThread][Height - 1] = cpu.ra]
  /\ UNCHANGED <<sepc, spp, scause, at, ctx, runningThread, created>>

Pop ==
  /\ InThread
  /\ Height < Top
  /\ cpu' = [cpu EXCEPT !.sp = <<runningThread, Height + 1>>,
                        !.ra = stack[runningThread][Height]]
  /\ UNCHANGED <<sepc, spp, scause, at, stack, ctx, runningThread, created>>

(* The hart's part of a trap.  An ecall needs an instruction behind it.    *)
Trap(cause) ==
  /\ InThread
  /\ cause = "ecall" => cpu.pc + 4 \in Code
  /\ sepc' = cpu.pc
  /\ spp' = cpu.priv
  /\ scause' = cause
  /\ cpu' = [cpu EXCEPT !.priv = "S"]
  /\ at' = "routine"
  /\ UNCHANGED <<stack, ctx, runningThread, created>>

-----------------------------------------------------------------------------
(***************************************************************************)
(* The kernel.                                                             *)
(***************************************************************************)

(* interruptRoutine2, timerRoutine2 and consoleRoutine2: a frame on the    *)
(* thread's stack, the registers into its context, and over to the handler *)
(* with the context of the kernel.                                         *)
Routine ==
  /\ at = "routine"
  /\ stack' = [stack EXCEPT ![cpu.sp[1]][Height - 1] = cpu.ra]
  /\ ctx' = [ctx EXCEPT ![runningThread] = setjmp(@, "resume", <<cpu.sp[1], Height - 1>>),
                        ![Kernel].RA = "handler"]
  /\ cpu' = longjmp(ctx'[Kernel])
  /\ at' = "handler"
  /\ UNCHANGED <<sepc, spp, scause, runningThread, created>>

(* What the handlers store in R0: an ecall is done, any other instruction  *)
(* still has to be executed.                                               *)
SkipsOne == sepc + 4  \* wrong: sepc+=4 before the slot is filled, for interrupts too
ReturnPc == IF scause = "ecall" THEN sepc + 4 ELSE sepc

(* The end of a handler that leaves the contexts c: back to the thread n.  *)
(* sstatus is written back as it was read.                                 *)
ReturnTo(n, c) ==
  /\ runningThread' = n
  /\ ctx' = c
  /\ sepc' = c[n].R0
  /\ cpu' = longjmp(c[n])
  /\ at' = c[n].RA
  /\ UNCHANGED <<spp, scause, stack>>

Filled == [ctx EXCEPT ![runningThread].R0 = ReturnPc]

(* A handler goes back to the same thread or, but at a console interrupt   *)
(* or a fault, to another; it may store a result, for whichever it is.     *)
Handler ==
  /\ at = "handler"
  /\ \E n \in IF scause = "other" THEN {runningThread} ELSE created :
       \/ ReturnTo(n, Filled)
       \/ \E v \in Value : scause = "ecall" /\ ReturnTo(n, [Filled EXCEPT ![n].A1 = v])
  /\ UNCHANGED created

(* thread_create: the new PCB's context takes its registers from here.     *)
CreateHandler(p) ==
  /\ at = "handler" /\ scause = "ecall"
  /\ p \in Proc \ created
  /\ created' = created \cup {p}
  /\ \E v \in Value :
       ReturnTo(runningThread, [Filled EXCEPT ![p] = NewContext(p, cpu.kept, cpu.a1),
                                              ![runningThread].A1 = v])

(* getThread finds nothing left to run and jumps to mainContext.           *)
Halt ==
  /\ at = "handler" /\ scause # "other"
  /\ ctx' = Filled
  /\ cpu' = longjmp(ctx[Boot])
  /\ at' = ctx[Boot].RA
  /\ UNCHANGED <<sepc, spp, scause, stack, runningThread, created>>

sret(status, pc) == [cpu EXCEPT !.priv = status, !.pc = pc]

(* The routine's second half: a0 is the slot A1, the frame is taken down.  *)
FrameLeft == cpu.sp  \* wrong: no addi sp,sp,16
FrameTaken == <<cpu.sp[1], Height + 1>>
Resume ==
  /\ at = "resume"
  /\ cpu' = [sret(spp, sepc) EXCEPT !.a0 = ctx[runningThread].A1,
               !.ra = stack[cpu.sp[1]][Height], !.sp = FrameTaken]
  /\ at' = "thread"
  /\ UNCHANGED <<sepc, spp, scause, stack, ctx, runningThread, created>>

(* wrapper calls popSppSpie, which returns in user mode.                   *)
KeepSpp == spp  \* wrong: no csrc sstatus
ClearedSpp == "U"
Wrapper ==
  /\ at = "wrapper"
  /\ sepc' = Entry
  /\ spp' = ClearedSpp
  /\ cpu' = sret(ClearedSpp, Entry)
  /\ at' = "thread"
  /\ UNCHANGED <<scause, stack, ctx, runningThread, created>>

-----------------------------------------------------------------------------

(* main has made the first threads and goes to the first by longjmp.  What *)
(* the machine left in its registers and in sstatus is not known.          *)
Init ==
  /\ \E v \in Value :
       /\ ctx = [p \in Owner |->
                   IF p = Boot THEN [R0 |-> 0, RA |-> "ended", SP |-> <<Boot, Top>>,
                                     KEPT |-> v, A1 |-> v]
                   ELSE NewContext(p, v, v)]
       /\ stack = [p \in Proc |-> [i \in 0..(Top - 1) |-> v]]
       /\ cpu = [priv |-> "S", pc |-> Entry, a0 |-> v, ra |-> "wrapper",
                 sp |-> <<First, Top>>, kept |-> v, a1 |-> v]
  /\ sepc = Entry
  /\ spp \in {"U", "S"}
  /\ scause = "other"
  /\ at = "wrapper"
  /\ runningThread = First
  /\ created = {First}

Ended == at = "ended" /\ UNCHANGED vars

Next ==
  \/ Compute \/ Push \/ Pop
  \/ \E cause \in {"ecall", "timer", "other"} : Trap(cause)
  \/ Routine \/ Handler \/ Resume \/ Wrapper \/ Halt \/ Ended
  \/ \E p \in Proc : CreateHandler(p)

Spec == Init /\ [][Next]_vars

-----------------------------------------------------------------------------

Word == Value \cup {"wrapper"}
Address == Owner \X (0..Top)
Hart == [priv : {"U", "S"}, pc : Code, sp : Address, kept : Value,
         ra : Word \cup {"resume", "handler", "ended"}, a0 : Value, a1 : Value]
Frames == [Proc -> [0..(Top - 1) -> Word]]
Slots == [R0 : Code \cup {0}, RA : {"wrapper", "resume", "handler", "ended"},
          SP : Address, KEPT : Value, A1 : Value]

(* Every variable stays within its type: in particular, however often a    *)
(* thread is interrupted, its stack pointer stays within its stack.        *)
TypeOK ==
  /\ cpu \in Hart
  /\ sepc \in Code \cup {0}
  /\ spp \in {"U", "S"}
  /\ scause \in {"ecall", "timer", "other"}
  /\ at \in {"thread", "routine", "handler", "resume", "wrapper", "ended"}
  /\ stack \in Frames
  /\ ctx \in [Owner -> Slots]
  /\ runningThread \in created
  /\ created \subseteq Proc

(* The code of a thread is executed in user mode, whatever mode the        *)
(* machine started in and whichever way the thread got the processor, and  *)
(* the kernel's code never is.                                             *)
UserMode == cpu.priv = IF InThread THEN "U" ELSE "S"

(* Every piece of code runs on its own stack: the handlers on the          *)
(* kernel's, always from its top, main on the one it was started with, a   *)
(* thread and the routine that saves its registers on the thread's.        *)
OwnStack ==
  CASE at = "handler" -> cpu.sp = <<Kernel, Top>>
    [] at = "ended"   -> cpu.sp = <<Boot, Top>>
    [] OTHER          -> cpu.sp[1] = runningThread

(* The registers of thread p, wherever they are kept at the moment: in its *)
(* context and its frame, or in the processor.                             *)
Parked(p) ==
  IF ctx[p].RA = "wrapper"
  THEN [pc |-> Entry, sp |-> ctx[p].SP[2], ra |-> "wrapper", kept |-> ctx[p].KEPT]
  ELSE [pc   |-> IF at = "handler" /\ p = runningThread THEN ReturnPc ELSE ctx[p].R0,
        sp   |-> ctx[p].SP[2] + 1,
        ra   |-> stack[p][ctx[p].SP[2]],
        kept |-> ctx[p].KEPT]
Registers(p) ==
  IF p # runningThread \/ at \in {"handler", "ended"} THEN Parked(p)
  ELSE CASE at = "thread"  -> [pc |-> cpu.pc, sp |-> Height, ra |-> cpu.ra, kept |-> cpu.kept]
         [] at = "routine" -> [pc |-> ReturnPc, sp |-> Height, ra |-> cpu.ra, kept |-> cpu.kept]
         [] at = "resume"  -> [pc |-> sepc, sp |-> Height + 1, ra |-> stack[p][Height],
                               kept |-> cpu.kept]
         [] at = "wrapper" -> [pc |-> Entry, sp |-> Height, ra |-> cpu.ra, kept |-> cpu.kept]
StackOf(p) == [i \in Registers(p).sp..(Top - 1) |-> stack[p][i]]

(* Saving and restoring is invisible to a thread but for a0 and a1: its    *)
(* other registers, its place in the program and its stack change by its   *)
(* own instructions alone, whoever runs in between and however it lost the *)
(* processor; a call is not executed twice, nor an instruction passed over.*)
Threads == INSTANCE Processes WITH
  Value <- Word,
  born <- created,
  owner <- IF InThread THEN runningThread ELSE Kernel,
  reason <- IF scause = "ecall" THEN "call" ELSE "interrupt",
  file <- [p \in Proc |-> Registers(p)],
  mem <- [p \in Proc |-> StackOf(p)]
PrivateRegisters == Threads!ProcessesSpec

=============================================================================
