----------------------------- MODULE Processes -----------------------------
(***************************************************************************)
(* What the kernel promises to the code of its threads: each has a         *)
(* processor and a stack of its own, which only its own instructions       *)
(* change.  Two registers are not part of the promise: a0 and a1 of a      *)
(* thread that the processor was taken from may come back changed.         *)
(***************************************************************************)
EXTENDS Integers

CONSTANTS
  Proc,    \* threads, the idle thread included
  Kernel,  \* the owner of the processor while no thread has it
  Code,    \* addresses of the threads' instructions
  Entry,   \* where a thread starts
  Value,   \* what registers and memory hold
  Top      \* height of a stack, in frames

VARIABLES
  born,    \* threads that exist
  owner,   \* the thread whose instructions are executed, or Kernel
  reason,  \* why the kernel got the processor last: "call" or "interrupt"
  file,    \* the registers of each thread
  mem      \* the part of each thread's stack that is in use

Registers == [pc : Code, sp : 0..Top, ra : Value, kept : Value]
Memory(sp) == [sp..(Top - 1) -> Value]

(* One instruction of a thread: its own registers and stack change.        *)
Instruction(p) ==
  /\ owner = p
  /\ \E f \in Registers :
       /\ file' = [file EXCEPT ![p] = f]
       /\ \E m \in Memory(f.sp) : mem' = [mem EXCEPT ![p] = m]
  /\ UNCHANGED <<born, owner, reason>>

(* The kernel takes over: at a call, which is not executed again, or at an *)
(* interrupt, before an instruction that still has to be.                  *)
Leave(p) ==
  /\ owner = p
  /\ owner' = Kernel
  /\ \/ reason' = "interrupt" /\ file' = file
     \/ reason' = "call" /\ file' = [file EXCEPT ![p].pc = @ + 4]
  /\ UNCHANGED <<born, mem>>

(* The kernel makes a thread, which is to start with an empty stack.       *)
Create(p) ==
  /\ owner = Kernel
  /\ p \notin born
  /\ born' = born \cup {p}
  /\ \E f \in Registers :
       f.pc = Entry /\ f.sp = Top /\ file' = [file EXCEPT ![p] = f]
  /\ UNCHANGED <<owner, reason, mem>>

(* A thread goes on where it was, with what it had.                        *)
Resume(p) ==
  /\ owner = Kernel
  /\ p \in born
  /\ owner' = p
  /\ UNCHANGED <<born, reason, file, mem>>

ProcessesInit ==
  /\ \E p \in Proc : born = {p}
  /\ owner = Kernel
  /\ reason = "interrupt"
  /\ file \in [Proc -> Registers]
  /\ \A p \in Proc : file[p].pc = Entry /\ file[p].sp = Top
  /\ mem \in [Proc -> Memory(Top)]

ProcessesNext ==
  \E p \in Proc : Instruction(p) \/ Leave(p) \/ Create(p) \/ Resume(p)

ProcessesSpec == ProcessesInit /\ [][ProcessesNext]_<<born, owner, reason, file, mem>>

=============================================================================
