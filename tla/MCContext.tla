----------------------------- MODULE MCContext -----------------------------
(***************************************************************************)
(* A small instance of Context for TLC.  Two states are taken for the same *)
(* if they differ only in what is overwritten before it is read again: the *)
(* context of a thread that has the processor, the slot R0 of one whose    *)
(* handler is about to fill it, the stack below the stack pointer, a0, and *)
(* sepc while no trap is handled.                                          *)
(***************************************************************************)
EXTENDS Context, TLC

HasProcessor(p) == p = runningThread /\ at \in {"thread", "routine", "resume", "wrapper"}
SlotsRead(p) ==
  IF HasProcessor(p) THEN IF at = "resume" THEN {"A1"} ELSE {}
  ELSE DOMAIN ctx[p] \ IF p = runningThread /\ at = "handler" THEN {"R0"} ELSE {}
LowestFrame(p) == IF HasProcessor(p) THEN Height ELSE ctx[p].SP[2]

View == <<[cpu EXCEPT !.a0 = cpu.a1], at, spp, scause, runningThread, created,
          IF at \in {"routine", "handler", "resume"} THEN sepc ELSE Entry,
          [p \in Owner |-> {<<r, ctx[p][r]>> : r \in SlotsRead(p)}],
          [p \in Proc |-> {<<i, stack[p][i]>> :
                             i \in {j \in 0..(Top - 1) : j >= LowestFrame(p)}}]>>

=============================================================================
