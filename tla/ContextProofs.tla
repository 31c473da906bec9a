--------------------------- MODULE ContextProofs ---------------------------
(***************************************************************************)
(* Proofs about saved contexts, for every number of threads, every program *)
(* and every height of the stacks: types, modes, stacks, and that the      *)
(* kernel gives every thread a processor of its own.                       *)
(***************************************************************************)
EXTENDS Context, TLAPS

(* A thread's context is as the constructor made it, or was filled by the  *)
(* routine, which left a frame on the thread's stack.                      *)
ContextOf(p) ==
  /\ ctx[p].SP \in {p} \X (0..Top)
  /\ \/ ctx[p].RA = "wrapper" /\ ctx[p].SP = <<p, Top>>
     \/ /\ ctx[p].RA = "resume" /\ p \in created
        /\ ctx[p].SP[2] < Top
        /\ ctx[p].R0 \in Code \/ p = runningThread

Contexts ==
  /\ \A p \in Proc : ContextOf(p)
  /\ ctx[Kernel].SP = <<Kernel, Top>>
  /\ ctx[Boot].SP = <<Boot, Top>> /\ ctx[Boot].RA = "ended"

(* Where the processor is, and what the thread that has it left there.     *)
Position ==
  CASE at = "thread"  -> /\ cpu.sp = <<runningThread, Height>> /\ Height \in 1..Top
                         /\ cpu.ra \in Word /\ cpu.priv = "U"
    [] at = "routine" -> /\ cpu.sp = <<runningThread, Height>> /\ Height \in 1..Top
                         /\ cpu.ra \in Word /\ cpu.priv = "S" /\ spp = "U"
                         /\ sepc \in Code /\ ReturnPc \in Code
    [] at = "handler" -> /\ cpu.sp = <<Kernel, Top>> /\ cpu.priv = "S" /\ spp = "U"
                         /\ sepc \in Code /\ ReturnPc \in Code
                         /\ ctx[runningThread].RA = "resume"
    [] at = "resume"  -> /\ cpu.sp = <<runningThread, Height>> /\ Height \in 0..(Top - 1)
                         /\ cpu.priv = "S" /\ spp = "U" /\ sepc \in Code
    [] at = "wrapper" -> /\ cpu.sp = <<runningThread, Top>>
                         /\ cpu.ra = "wrapper" /\ cpu.priv = "S"
    [] at = "ended"   -> /\ cpu.sp = <<Boot, Top>> /\ cpu.priv = "S"
                         /\ ctx[runningThread].RA = "resume"

IInv == TypeOK /\ Contexts /\ Position


-----------------------------------------------------------------------------
(***************************************************************************)
(* The invariant.                                                          *)
(***************************************************************************)

LEMMA InitIInv == Init => IInv
BY ContextAssumption
DEF Init, IInv, TypeOK, Contexts, ContextOf, Position, NewContext, Owner, Address,
    Word, Height, ReturnPc, Hart, Frames, Slots

(* A store into a thread's stack, and a stack pointer.                     *)
LEMMA StoreTyped ==
  ASSUME NEW s \in Frames, NEW p \in Proc, NEW i \in 0..(Top - 1), NEW w \in Word
  PROVE  [s EXCEPT ![p][i] = w] \in Frames
BY DEF Frames

LEMMA AddressTyped ==
  ASSUME NEW p \in Owner, NEW i \in 0..Top
  PROVE  <<p, i>> \in Address /\ <<p, i>>[1] = p /\ <<p, i>>[2] = i
BY DEF Address

(* What a thread may rely on while it has the processor.                   *)
LEMMA ThreadFacts ==
  ASSUME IInv, at \in {"thread", "routine"}
  PROVE  /\ runningThread \in Proc /\ runningThread \in Owner
         /\ cpu.sp = <<runningThread, Height>>
         /\ cpu.sp[1] = runningThread
         /\ Height \in 1..Top /\ Height - 1 \in 0..(Top - 1) /\ Height - 1 \in 0..Top
         /\ cpu.ra \in Word
         /\ Top \in Nat \ {0}
<1>1. runningThread \in Proc /\ Top \in Nat \ {0}
  BY ContextAssumption DEF IInv, TypeOK
<1>2. cpu.sp = <<runningThread, Height>> /\ Height \in 1..Top /\ cpu.ra \in Word
  BY DEF IInv, Position
<1> QED  BY <1>1, <1>2 DEF Owner

LEMMA ComputeIInv == ASSUME IInv, Compute PROVE IInv'
<1>1. TypeOK'
  BY DEF IInv, TypeOK, Compute, InThread, Word, Hart
<1>2. Contexts'
  BY DEF IInv, Contexts, ContextOf, Compute
<1>3. Position'
  BY DEF IInv, TypeOK, Position, Compute, InThread, Height, Word, Hart
<1> QED  BY <1>1, <1>2, <1>3 DEF IInv

LEMMA PushIInv == ASSUME IInv, Push PROVE IInv'
<1> DEFINE sp == <<runningThread, Height - 1>>
<1>1. /\ at = "thread" /\ Height > 1
      /\ cpu' = [cpu EXCEPT !.sp = sp]
      /\ stack' = [stack EXCEPT ![runningThread][Height - 1] = cpu.ra]
      /\ UNCHANGED <<sepc, spp, scause, at, ctx, runningThread, created>>
  BY DEF Push, InThread
<1>2. sp \in Address /\ sp[2] = Height - 1 /\ Height - 1 \in 1..Top
  BY <1>1, ThreadFacts, AddressTyped
<1> HIDE DEF sp
<1>3. cpu' \in Hart /\ cpu'.sp = sp /\ cpu'.ra = cpu.ra /\ cpu'.priv = cpu.priv
  BY <1>1, <1>2 DEF IInv, TypeOK, Hart
<1>4. stack' \in Frames
  BY <1>1, ThreadFacts, StoreTyped DEF IInv, TypeOK
<1>5. TypeOK'
  BY <1>1, <1>3, <1>4 DEF IInv, TypeOK
<1>6. Contexts'
  BY <1>1 DEF IInv, Contexts, ContextOf
<1>7. Position'
  BY <1>1, <1>2, <1>3 DEF IInv, Position, Height, sp
<1> QED  BY <1>5, <1>6, <1>7 DEF IInv

LEMMA PopIInv == ASSUME IInv, Pop PROVE IInv'
<1> DEFINE sp == <<runningThread, Height + 1>>
           ra == stack[runningThread][Height]
<1>1. /\ at = "thread" /\ Height < Top
      /\ cpu' = [cpu EXCEPT !.sp = sp, !.ra = ra]
      /\ UNCHANGED <<sepc, spp, scause, at, stack, ctx, runningThread, created>>
  BY DEF Pop, InThread
<1>2. Height + 1 \in 0..Top /\ Height + 1 \in 1..Top /\ Height \in 0..(Top - 1)
  BY <1>1, ThreadFacts
<1>3. sp \in Address /\ sp[2] = Height + 1
  BY <1>1, <1>2, ThreadFacts, AddressTyped
<1>4. ra \in Word
  BY <1>1, <1>2, ThreadFacts DEF IInv, TypeOK, Frames
<1> HIDE DEF sp, ra
<1>5. cpu' \in Hart /\ cpu'.sp = sp /\ cpu'.ra = ra /\ cpu'.priv = cpu.priv
  BY <1>1, <1>3, <1>4 DEF IInv, TypeOK, Hart
<1>6. TypeOK'
  BY <1>1, <1>5 DEF IInv, TypeOK
<1>7. Contexts'
  BY <1>1 DEF IInv, Contexts, ContextOf
<1>8. Position'
  BY <1>1, <1>2, <1>3, <1>4, <1>5 DEF IInv, Position, Height, sp
<1> QED  BY <1>6, <1>7, <1>8 DEF IInv

LEMMA TrapIInv ==
  ASSUME IInv, NEW cause \in {"ecall", "timer", "other"}, Trap(cause)
  PROVE  IInv'
<1>1. TypeOK'
  BY DEF IInv, TypeOK, Position, Trap, InThread, Hart
<1>2. Contexts'
  BY DEF IInv, Contexts, ContextOf, Trap
<1>3. Position'
  BY DEF IInv, TypeOK, Position, Trap, InThread, Height, ReturnPc, Hart
<1> QED  BY <1>1, <1>2, <1>3 DEF IInv

(* setjmp and longjmp move what has the types of a context and a hart.     *)
LEMMA SetjmpTyped ==
  ASSUME cpu \in Hart, NEW old \in Slots, NEW sp \in Address,
         NEW ret \in {"resume", "handler"}
  PROVE  LET c == setjmp(old, ret, sp)
         IN  /\ c \in Slots /\ c.RA = ret /\ c.SP = sp
             /\ c.KEPT = cpu.kept /\ c.R0 = old.R0 /\ c.A1 = cpu.a1
BY DEF setjmp, Hart, Slots

LEMMA LongjmpTyped ==
  ASSUME cpu \in Hart, NEW c \in Slots
  PROVE  /\ longjmp(c) \in Hart
         /\ longjmp(c).sp = c.SP /\ longjmp(c).ra = c.RA /\ longjmp(c).kept = c.KEPT
         /\ longjmp(c).priv = cpu.priv /\ longjmp(c).pc = cpu.pc
BY DEF longjmp, Hart, Slots, Word

(* The contexts after the routine.                                         *)
LEMMA RoutineContexts ==
  ASSUME IInv, Routine
  PROVE  LET sp == <<runningThread, Height - 1>>
         IN  /\ ctx' \in [Owner -> Slots]
             /\ ctx'[runningThread] = setjmp(ctx[runningThread], "resume", sp)
             /\ ctx'[Kernel] = [ctx[Kernel] EXCEPT !.RA = "handler"]
             /\ \A p \in Owner \ {runningThread, Kernel} : ctx'[p] = ctx[p]
<1> DEFINE sp == <<runningThread, Height - 1>>
           mine == setjmp(ctx[runningThread], "resume", sp)
           theirs == [ctx[Kernel] EXCEPT !.RA = "handler"]
<1>1. /\ runningThread \in Owner /\ Kernel \in Owner /\ runningThread # Kernel
      /\ sp \in Address /\ cpu.sp[1] = runningThread
  BY ContextAssumption, ThreadFacts, AddressTyped DEF Routine, Owner
<1>2. ctx \in [Owner -> Slots] /\ cpu \in Hart
  BY DEF IInv, TypeOK
<1>3. mine \in Slots
  BY <1>1, <1>2, SetjmpTyped
<1>4. theirs \in Slots
  BY <1>1, <1>2 DEF Slots
<1>5. ctx' = [ctx EXCEPT ![runningThread] = mine, ![Kernel].RA = "handler"]
  BY <1>1 DEF Routine
<1> HIDE DEF mine, sp
<1> QED  BY <1>1, <1>2, <1>3, <1>4, <1>5 DEF mine, sp

LEMMA RoutineIInv == ASSUME IInv, Routine PROVE IInv'
<1> DEFINE sp == <<runningThread, Height - 1>>
<1>1. /\ at = "routine" /\ at' = "handler"
      /\ stack' = [stack EXCEPT ![runningThread][Height - 1] = cpu.ra]
      /\ cpu' = longjmp(ctx'[Kernel])
      /\ UNCHANGED <<sepc, spp, scause, runningThread, created>>
  BY ThreadFacts DEF Routine
<1>2. /\ cpu \in Hart /\ ctx \in [Owner -> Slots] /\ stack \in Frames
      /\ created \subseteq Proc /\ runningThread \in created
  BY DEF IInv, TypeOK
<1>3. /\ ctx' \in [Owner -> Slots]
      /\ ctx'[runningThread] = setjmp(ctx[runningThread], "resume", sp)
      /\ ctx'[Kernel] = [ctx[Kernel] EXCEPT !.RA = "handler"]
      /\ \A p \in Owner \ {runningThread, Kernel} : ctx'[p] = ctx[p]
  BY RoutineContexts
<1>4. /\ sp \in Address /\ sp[2] = Height - 1 /\ sp[2] < Top
      /\ sp \in {runningThread} \X (0..Top)
  BY <1>1, ThreadFacts, AddressTyped
<1>5. ctx'[runningThread].RA = "resume" /\ ctx'[runningThread].SP = sp
  <2>1. ctx[runningThread] \in Slots
    BY <1>1, <1>2, ThreadFacts
  <2> HIDE DEF sp
  <2> QED  BY <1>2, <1>3, <1>4, <2>1, SetjmpTyped
<1>6. ctx'[Kernel].SP = ctx[Kernel].SP /\ Kernel \in Owner
  BY <1>2, <1>3 DEF Owner, Slots
<1>7. cpu' \in Hart /\ cpu'.sp = <<Kernel, Top>> /\ cpu'.priv = cpu.priv
  BY <1>1, <1>2, <1>3, <1>6, LongjmpTyped DEF IInv, Contexts
<1>8. stack' \in Frames
  BY <1>1, <1>2, ThreadFacts, StoreTyped
<1>9. TypeOK'
  BY <1>1, <1>3, <1>7, <1>8 DEF IInv, TypeOK
<1>10. Contexts'
  <2>1. ContextOf(runningThread)'
    BY <1>1, <1>2, <1>4, <1>5 DEF ContextOf
  <2>2. ASSUME NEW p \in Proc, p # runningThread PROVE ContextOf(p)'
    BY <1>1, <1>3, <2>2, ContextAssumption DEF IInv, Contexts, ContextOf, Owner
  <2>3. ctx'[Boot] = ctx[Boot]
    BY <1>2, <1>3, ContextAssumption DEF Owner
  <2> QED  BY <1>1, <1>6, <2>1, <2>2, <2>3 DEF IInv, Contexts
<1>11. Position'
  BY <1>1, <1>5, <1>7 DEF IInv, Position, ReturnPc
<1> QED  BY <1>9, <1>10, <1>11 DEF IInv

(* The contexts with the running thread's program counter stored: now each *)
(* thread that the routine stopped can go on.                              *)
LEMMA FilledContexts ==
  ASSUME IInv, at = "handler"
  PROVE  /\ Filled \in [Owner -> Slots]
         /\ Filled[runningThread].R0 = ReturnPc
         /\ \A p \in Owner : /\ Filled[p].RA = ctx[p].RA /\ Filled[p].SP = ctx[p].SP
                             /\ Filled[p].KEPT = ctx[p].KEPT
                             /\ p # runningThread => Filled[p] = ctx[p]
         /\ \A p \in Proc : Filled[p].RA = "resume" => Filled[p].R0 \in Code
<1>1. /\ ctx \in [Owner -> Slots] /\ runningThread \in Proc /\ Proc \subseteq Owner
      /\ ReturnPc \in Code
  BY DEF IInv, TypeOK, Owner, Position
<1>2. Filled \in [Owner -> Slots] /\ Filled[runningThread].R0 = ReturnPc
  BY <1>1 DEF Filled, Slots
<1>3. \A p \in Owner : /\ Filled[p].RA = ctx[p].RA /\ Filled[p].SP = ctx[p].SP
                       /\ Filled[p].KEPT = ctx[p].KEPT
                       /\ p # runningThread => Filled[p] = ctx[p]
  BY <1>1 DEF Filled, Slots
<1>4. \A p \in Proc : Filled[p].RA = "resume" => Filled[p].R0 \in Code
  BY <1>1, <1>2, <1>3 DEF IInv, Contexts, ContextOf
<1> QED  BY <1>2, <1>3, <1>4

(* A handler's end: the contexts c differ from the filled ones only in     *)
(* results and in those of threads that did not exist.                     *)
Handed(c, n) ==
  /\ c \in [Owner -> Slots]
  /\ \A p \in created \cup {Kernel, Boot} :
       /\ c[p].RA = Filled[p].RA /\ c[p].SP = Filled[p].SP
       /\ c[p].R0 = Filled[p].R0 /\ c[p].KEPT = Filled[p].KEPT
  /\ \A p \in Proc \ created : c[p].RA = "wrapper" /\ c[p].SP = <<p, Top>>
  /\ n \in created

LEMMA ReturnIInv ==
  ASSUME IInv, at = "handler", NEW n, NEW c, Handed(c, n), ReturnTo(n, c),
         created \subseteq created', created' \subseteq Proc
  PROVE  IInv'
<1>1. /\ cpu \in Hart /\ ctx \in [Owner -> Slots] /\ created \subseteq Proc
      /\ Proc \subseteq Owner /\ n \in created /\ n \in Owner /\ n \in Proc
      /\ Kernel \in Owner /\ Boot \in Owner
  BY DEF IInv, TypeOK, Owner, Handed
<1>2. /\ runningThread' = n /\ ctx' = c /\ sepc' = c[n].R0
      /\ cpu' = longjmp(c[n]) /\ at' = c[n].RA
      /\ UNCHANGED <<spp, scause, stack>>
  BY DEF ReturnTo
<1>3. c[n] \in Slots /\ c \in [Owner -> Slots]
  BY <1>1 DEF Handed
<1>4. /\ cpu' \in Hart /\ cpu'.sp = c[n].SP /\ cpu'.ra = c[n].RA
      /\ cpu'.priv = cpu.priv
  BY <1>1, <1>2, <1>3, LongjmpTyped
<1>5. \A p \in Proc : /\ ContextOf(p)
                      /\ p \in created => c[p].RA = ctx[p].RA /\ c[p].SP = ctx[p].SP
                      /\ p \in created /\ c[p].RA = "resume" => c[p].R0 \in Code
  BY <1>1, FilledContexts DEF IInv, Contexts, Handed
<1>6. c[n].RA \in {"wrapper", "resume"}
  BY <1>1, <1>5 DEF ContextOf
<1>7. TypeOK'
  BY <1>1, <1>2, <1>3, <1>4, <1>6 DEF IInv, TypeOK, Slots
<1>8. Contexts'
  <2>1. ASSUME NEW p \in Proc PROVE ContextOf(p)'
    <3>1. CASE p \in created
      BY <1>2, <1>5, <3>1 DEF ContextOf
    <3>2. CASE p \notin created
      <4>1. ctx'[p].RA = "wrapper" /\ ctx'[p].SP = <<p, Top>>
        BY <1>2, <3>2 DEF Handed
      <4>2. <<p, Top>> \in {p} \X (0..Top)
        BY ContextAssumption
      <4> QED  BY <4>1, <4>2 DEF ContextOf
    <3> QED  BY <3>1, <3>2
  <2>2. ctx'[Kernel].SP = ctx[Kernel].SP /\ ctx'[Boot].SP = ctx[Boot].SP
        /\ ctx'[Boot].RA = ctx[Boot].RA
    BY <1>1, <1>2, FilledContexts DEF Handed
  <2> QED  BY <2>1, <2>2 DEF IInv, Contexts
<1>9. Position'
  <2>1. cpu'.priv = "S" /\ spp' = "U"
    BY <1>2, <1>4 DEF IInv, Position
  <2>2. CASE c[n].RA = "wrapper"
    <3>1. c[n].SP = <<n, Top>>
      BY <1>1, <1>5, <2>2 DEF ContextOf
    <3> QED  BY <1>2, <1>4, <2>1, <2>2, <3>1 DEF Position
  <2>3. CASE c[n].RA = "resume"
    <3>1. c[n].SP \in {n} \X (0..Top) /\ c[n].SP[2] < Top
      BY <1>1, <1>5, <2>3 DEF ContextOf
    <3>2. c[n].SP = <<n, c[n].SP[2]>> /\ c[n].SP[2] \in 0..(Top - 1)
      BY <3>1, ContextAssumption
    <3>3. sepc' \in Code
      BY <1>1, <1>2, <1>5, <2>3
    <3> QED  BY <1>2, <1>4, <2>1, <2>3, <3>2, <3>3 DEF Position, Height
  <2> QED  BY <1>6, <2>2, <2>3
<1> QED  BY <1>7, <1>8, <1>9 DEF IInv

LEMMA HandlerIInv == ASSUME IInv, Handler PROVE IInv'
<1>1. /\ at = "handler" /\ created' = created
      /\ runningThread \in created /\ created \subseteq Proc
  BY DEF Handler, IInv, TypeOK
<1>2. PICK n \in created :
        \/ ReturnTo(n, Filled)
        \/ \E v \in Value : ReturnTo(n, [Filled EXCEPT ![n].A1 = v])
  BY <1>1 DEF Handler
<1>3. /\ Filled \in [Owner -> Slots] /\ n \in Owner /\ created \subseteq Proc
      /\ \A p \in Proc \ created : Filled[p].RA = "wrapper" /\ Filled[p].SP = <<p, Top>>
  BY <1>1, FilledContexts DEF IInv, TypeOK, Contexts, ContextOf, Owner
<1>4. CASE ReturnTo(n, Filled)
  <2>1. Handed(Filled, n)
    BY <1>3 DEF Handed
  <2> QED  BY <1>1, <1>4, <2>1, ReturnIInv
<1>5. ASSUME NEW v \in Value, ReturnTo(n, [Filled EXCEPT ![n].A1 = v]) PROVE IInv'
  <2> DEFINE c == [Filled EXCEPT ![n].A1 = v]
  <2>1. Handed(c, n)
    BY <1>3 DEF Handed, Slots, Owner
  <2> QED  BY <1>1, <1>5, <2>1, ReturnIInv
<1> QED  BY <1>2, <1>4, <1>5

LEMMA CreateIInv ==
  ASSUME IInv, NEW p \in Proc, CreateHandler(p)
  PROVE  IInv'
<1>1. /\ at = "handler" /\ created' = created \cup {p} /\ p \notin created
      /\ runningThread \in created /\ created \subseteq Proc /\ p # runningThread
  BY DEF CreateHandler, IInv, TypeOK
<1>2. PICK v \in Value :
        ReturnTo(runningThread, [Filled EXCEPT ![p] = NewContext(p, cpu.kept, cpu.a1),
                                               ![runningThread].A1 = v])
  BY DEF CreateHandler
<1> DEFINE new == NewContext(p, cpu.kept, cpu.a1)
           c == [Filled EXCEPT ![p] = new, ![runningThread].A1 = v]
<1>3. /\ Filled \in [Owner -> Slots]
      /\ \A t \in Proc \ created : Filled[t].RA = "wrapper" /\ Filled[t].SP = <<t, Top>>
  BY <1>1, FilledContexts DEF IInv, TypeOK, Contexts, ContextOf, Owner
<1>4. new \in Slots /\ new.RA = "wrapper" /\ new.SP = <<p, Top>>
  BY ContextAssumption DEF NewContext, Slots, Address, Owner, IInv, TypeOK, Hart
<1> HIDE DEF new
<1>5. Handed(c, runningThread)
  BY <1>1, <1>3, <1>4, ContextAssumption DEF Handed, Slots, Owner
<1> QED  BY <1>1, <1>2, <1>5, ReturnIInv DEF new

LEMMA HaltIInv == ASSUME IInv, Halt PROVE IInv'
<1>1. /\ at = "handler" /\ ctx' = Filled /\ cpu' = longjmp(ctx[Boot])
      /\ at' = ctx[Boot].RA
      /\ UNCHANGED <<sepc, spp, scause, stack, runningThread, created>>
  BY DEF Halt
<1>2. /\ cpu \in Hart /\ ctx[Boot] \in Slots /\ ctx[Boot].SP = <<Boot, Top>>
      /\ at' = "ended" /\ Proc \subseteq Owner /\ Kernel \in Owner /\ Boot \in Owner
  BY <1>1 DEF IInv, TypeOK, Contexts, Owner
<1>3. cpu' \in Hart /\ cpu'.sp = <<Boot, Top>> /\ cpu'.priv = cpu.priv
  BY <1>1, <1>2, LongjmpTyped
<1>4. /\ ctx' \in [Owner -> Slots]
      /\ \A p \in Owner : ctx'[p].RA = ctx[p].RA /\ ctx'[p].SP = ctx[p].SP
      /\ \A p \in Proc : ctx'[p].RA = "resume" => ctx'[p].R0 \in Code
  BY <1>1, FilledContexts
<1>5. TypeOK'
  BY <1>1, <1>2, <1>3, <1>4 DEF IInv, TypeOK
<1>6. Contexts'
  BY <1>1, <1>2, <1>4 DEF IInv, Contexts, ContextOf
<1>7. Position'
  BY <1>1, <1>2, <1>3, <1>4 DEF IInv, TypeOK, Position, Owner
<1> QED  BY <1>5, <1>6, <1>7 DEF IInv

LEMMA ResumeIInv == ASSUME IInv, Resume PROVE IInv'
<1> DEFINE a0 == ctx[runningThread].A1
           ra == stack[cpu.sp[1]][Height]
           sp == <<cpu.sp[1], Height + 1>>
<1>1. /\ at = "resume" /\ at' = "thread"
      /\ cpu' = [[cpu EXCEPT !.priv = spp, !.pc = sepc] EXCEPT !.a0 = a0, !.ra = ra, !.sp = sp]
      /\ UNCHANGED <<sepc, spp, scause, stack, ctx, runningThread, created>>
  BY DEF Resume, sret, FrameTaken
<1>2. /\ cpu.sp = <<runningThread, Height>> /\ cpu.sp[1] = runningThread
      /\ Height \in 0..(Top - 1) /\ spp = "U" /\ sepc \in Code
      /\ runningThread \in Proc /\ runningThread \in Owner /\ Top \in Nat
  BY <1>1, ContextAssumption DEF IInv, TypeOK, Position, Owner
<1>3. sp \in Address /\ sp = <<runningThread, Height + 1>> /\ sp[2] = Height + 1
      /\ Height + 1 \in 1..Top
  BY <1>2, AddressTyped
<1>4. ra \in Word
  BY <1>2 DEF IInv, TypeOK, Frames
<1>5. a0 \in Value
  BY <1>2 DEF IInv, TypeOK, Slots
<1> HIDE DEF a0, ra, sp
<1>6. cpu' \in Hart /\ cpu'.sp = sp /\ cpu'.ra = ra /\ cpu'.priv = "U"
  BY <1>1, <1>2, <1>3, <1>4, <1>5 DEF IInv, TypeOK, Hart
<1>7. TypeOK'
  BY <1>1, <1>6 DEF IInv, TypeOK
<1>8. Contexts'
  BY <1>1 DEF IInv, Contexts, ContextOf
<1>9. Position'
  BY <1>1, <1>3, <1>4, <1>6 DEF Position, Height
<1> QED  BY <1>7, <1>8, <1>9 DEF IInv

LEMMA WrapperIInv == ASSUME IInv, Wrapper PROVE IInv'
<1>1. /\ at = "wrapper" /\ at' = "thread" /\ sepc' = Entry /\ spp' = "U"
      /\ cpu' = [cpu EXCEPT !.priv = "U", !.pc = Entry]
      /\ UNCHANGED <<scause, stack, ctx, runningThread, created>>
  BY DEF Wrapper, sret, ClearedSpp
<1>2. cpu.sp = <<runningThread, Top>> /\ cpu.ra = "wrapper" /\ Top \in 1..Top
  BY <1>1, ContextAssumption DEF IInv, Position
<1>3. /\ cpu' \in Hart /\ cpu'.sp = cpu.sp /\ cpu'.ra = cpu.ra /\ cpu'.priv = "U"
  BY <1>1, ContextAssumption DEF IInv, TypeOK, Hart
<1>4. TypeOK'
  BY <1>1, <1>3, ContextAssumption DEF IInv, TypeOK
<1>5. Contexts'
  BY <1>1 DEF IInv, Contexts, ContextOf
<1>6. Position'
  BY <1>1, <1>2, <1>3 DEF Position, Height, Word
<1> QED  BY <1>4, <1>5, <1>6 DEF IInv

(* No step and no stutter leaves the invariant.                            *)
LEMMA NextIInv == IInv /\ [Next]_vars => IInv'
<1> SUFFICES ASSUME IInv, [Next]_vars PROVE IInv'
  OBVIOUS
<1>1. CASE UNCHANGED vars
  BY <1>1 DEF vars, IInv, TypeOK, Contexts, ContextOf, Position, Height, ReturnPc
<1>2. CASE Ended
  BY <1>1, <1>2 DEF Ended
<1>3. CASE Compute \/ Push \/ Pop
  BY <1>3, ComputeIInv, PushIInv, PopIInv
<1>4. ASSUME NEW cause \in {"ecall", "timer", "other"}, Trap(cause) PROVE IInv'
  BY <1>4, TrapIInv
<1>5. CASE Routine \/ Handler \/ Halt
  BY <1>5, RoutineIInv, HandlerIInv, HaltIInv
<1>6. CASE Resume \/ Wrapper
  BY <1>6, ResumeIInv, WrapperIInv
<1>7. ASSUME NEW p \in Proc, CreateHandler(p) PROVE IInv'
  BY <1>7, CreateIInv
<1> QED  BY <1>1, <1>2, <1>3, <1>4, <1>5, <1>6, <1>7 DEF Next

LEMMA Inductive == Spec => []IInv
BY InitIInv, NextIInv, PTL DEF Spec

(* However often threads are interrupted and resumed, every stack pointer  *)
(* stays within its stack and every address a thread goes on at is one of  *)
(* its program's.                                                          *)
THEOREM ContextTyped == Spec => []TypeOK
<1>1. IInv => TypeOK
  BY DEF IInv
<1> QED  BY <1>1, Inductive, PTL

(* Threads run in user mode and the kernel in supervisor mode, whatever    *)
(* sstatus was when the machine started.                                   *)
THEOREM ModesKept == Spec => []UserMode
<1>1. IInv => UserMode
  BY DEF IInv, TypeOK, Position, UserMode, InThread
<1> QED  BY <1>1, Inductive, PTL

(* The handlers always start at the top of the kernel's stack, and all     *)
(* other code is on the stack of the thread it belongs to.                 *)
THEOREM StacksApart == Spec => []OwnStack
<1>1. ASSUME IInv PROVE OwnStack
  <2>1. at \in {"thread", "routine", "resume", "wrapper"} => cpu.sp[1] = runningThread
    <3>1. CASE at = "wrapper"
      BY <1>1, <3>1, ContextAssumption DEF IInv, Position
    <3>2. CASE at \in {"thread", "routine", "resume"}
      <4>1. cpu.sp = <<runningThread, Height>>
        BY <1>1, <3>2 DEF IInv, Position
      <4> QED  BY <4>1
    <3> QED  BY <3>1, <3>2
  <2>2. at = "handler" => cpu.sp = <<Kernel, Top>>
    BY <1>1 DEF IInv, Position
  <2>3. at = "ended" => cpu.sp = <<Boot, Top>>
    BY <1>1 DEF IInv, Position
  <2> QED  BY <1>1, <2>1, <2>2, <2>3 DEF IInv, TypeOK, OwnStack
<1> QED  BY <1>1, Inductive, PTL

-----------------------------------------------------------------------------
(***************************************************************************)
(* Context implements Processes.                                           *)
(***************************************************************************)

Same(p) == Registers(p)' = Registers(p) /\ StackOf(p)' = StackOf(p)

(* A thread without the processor, before and after a step that leaves its *)
(* context and its stack alone.                                            *)
LEMMA ParkedSame ==
  ASSUME NEW p \in Proc, p # runningThread, p # runningThread',
         ctx'[p] = ctx[p], stack'[p] = stack[p]
  PROVE  Same(p)
BY DEF Same, Registers, StackOf, Parked

(* A step of the kernel that changes nothing a thread can see.             *)
LEMMA Stutter ==
  ASSUME ~InThread, ~InThread', UNCHANGED <<created, scause>>, \A p \in Proc : Same(p)
  PROVE  UNCHANGED <<created, IF InThread THEN runningThread ELSE Kernel,
                     IF scause = "ecall" THEN "call" ELSE "interrupt",
                     [p \in Proc |-> Registers(p)], [p \in Proc |-> StackOf(p)]>>
<1>1. [p \in Proc |-> Registers(p)]' = [p \in Proc |-> Registers(p)]
  BY DEF Same
<1>2. [p \in Proc |-> StackOf(p)]' = [p \in Proc |-> StackOf(p)]
  BY DEF Same
<1> QED  BY <1>1, <1>2

LEMMA InitMaps == Init => Threads!ProcessesInit
<1> SUFFICES ASSUME Init PROVE Threads!ProcessesInit
  OBVIOUS
<1>1. PICK v \in Value :
        /\ ctx = [p \in Owner |->
                    IF p = Boot THEN [R0 |-> 0, RA |-> "ended", SP |-> <<Boot, Top>>,
                                      KEPT |-> v, A1 |-> v]
                    ELSE NewContext(p, v, v)]
        /\ stack = [p \in Proc |-> [i \in 0..(Top - 1) |-> v]]
        /\ cpu = [priv |-> "S", pc |-> Entry, a0 |-> v, ra |-> "wrapper",
                  sp |-> <<First, Top>>, kept |-> v, a1 |-> v]
  BY DEF Init
<1>2. at = "wrapper" /\ runningThread = First /\ created = {First} /\ scause = "other"
  BY DEF Init
<1>3. ASSUME NEW p \in Proc
      PROVE  Registers(p) = [pc |-> Entry, sp |-> Top, ra |-> "wrapper", kept |-> v]
  BY <1>1, <1>2, ContextAssumption DEF Registers, Parked, NewContext, Owner, Height
<1>4. \A p \in Proc : Registers(p) \in Threads!Registers
  <2>1. Entry \in Code /\ Top \in 0..Top /\ "wrapper" \in Word /\ v \in Word
    BY ContextAssumption DEF Word
  <2>2. [pc |-> Entry, sp |-> Top, ra |-> "wrapper", kept |-> v] \in Threads!Registers
    BY <2>1 DEF Threads!Registers
  <2> QED  BY <1>3, <2>2
<1>5. ASSUME NEW p \in Proc PROVE StackOf(p) \in Threads!Memory(Top)
  <2>1. Registers(p).sp = Top
    BY <1>3
  <2>2. StackOf(p) = [i \in Top..(Top - 1) |-> stack[p][i]]
    BY <2>1 DEF StackOf
  <2> QED  BY <2>2, ContextAssumption DEF Threads!Memory
<1> QED  BY <1>2, <1>3, <1>4, <1>5, ContextAssumption DEF Threads!ProcessesInit, InThread

(* An instruction changes the registers and the stack of its thread.       *)
LEMMA InstructionMaps ==
  ASSUME IInv, IInv', Compute \/ Push \/ Pop
  PROVE  Threads!Instruction(runningThread)
<1> DEFINE t == runningThread
<1>1. /\ InThread /\ InThread' /\ at = "thread" /\ at' = "thread"
      /\ t \in Proc /\ t' = t
      /\ UNCHANGED <<scause, ctx, created>>
      /\ \A p \in Proc : p # t => stack'[p] = stack[p]
  BY DEF Compute, Push, Pop, InThread, IInv, TypeOK, Frames
<1>2. \A p \in Proc : p # t => Same(p)
  BY <1>1, ParkedSame
<1>3. Registers(t)' \in Threads!Registers
  <2>1. Registers(t)' = [pc |-> cpu'.pc, sp |-> Height', ra |-> cpu'.ra, kept |-> cpu'.kept]
    BY <1>1 DEF Registers
  <2>2. Height' \in 0..Top /\ cpu'.ra \in Word
    BY <1>1, ContextAssumption DEF IInv, Position
  <2>3. cpu'.pc \in Code /\ cpu'.kept \in Word
    BY DEF IInv, TypeOK, Hart, Word
  <2> QED  BY <2>1, <2>2, <2>3 DEF Threads!Registers
<1>4. StackOf(t)' \in Threads!Memory(Registers(t)'.sp)
  <2>1. Registers(t)'.sp \in 0..Top
    BY <1>3 DEF Threads!Registers
  <2>2. \A i \in Registers(t)'.sp..(Top - 1) : stack'[t][i] \in Word
    BY <1>1, <2>1, ContextAssumption DEF IInv, TypeOK, Frames
  <2> QED  BY <1>1, <2>2 DEF StackOf, Threads!Memory
<1>5. [p \in Proc |-> Registers(p)]'
        = [[p \in Proc |-> Registers(p)] EXCEPT ![t] = Registers(t)']
  BY <1>1, <1>2 DEF Same
<1>6. [p \in Proc |-> StackOf(p)]'
        = [[p \in Proc |-> StackOf(p)] EXCEPT ![t] = StackOf(t)']
  BY <1>1, <1>2 DEF Same
<1> QED  BY <1>1, <1>3, <1>4, <1>5, <1>6 DEF Threads!Instruction

(* A trap takes the processor away, behind an ecall and before any other   *)
(* instruction.                                                            *)
LEMMA TrapMaps ==
  ASSUME IInv, NEW cause \in {"ecall", "timer", "other"}, Trap(cause)
  PROVE  Threads!Leave(runningThread)
<1> DEFINE t == runningThread
           f == [p \in Proc |-> Registers(p)]
<1>1. /\ InThread /\ ~InThread' /\ at = "thread" /\ at' = "routine" /\ t \in Proc
      /\ sepc' = cpu.pc /\ scause' = cause /\ cpu' = [cpu EXCEPT !.priv = "S"]
      /\ UNCHANGED <<stack, ctx, runningThread, created>>
  BY DEF Trap, InThread, IInv, TypeOK
<1>2. \A p \in Proc : p # t => Same(p)
  BY <1>1, ParkedSame
<1>3. /\ cpu'.sp = cpu.sp /\ cpu'.ra = cpu.ra /\ cpu'.kept = cpu.kept
      /\ Height' = Height
  BY <1>1 DEF IInv, TypeOK, Hart, Height
<1>4. /\ Registers(t) = [pc |-> cpu.pc, sp |-> Height, ra |-> cpu.ra, kept |-> cpu.kept]
      /\ Registers(t)' = [pc |-> ReturnPc', sp |-> Height, ra |-> cpu.ra, kept |-> cpu.kept]
  BY <1>1, <1>3 DEF Registers
<1>5. [p \in Proc |-> StackOf(p)]' = [p \in Proc |-> StackOf(p)]
  <2>1. StackOf(t)' = StackOf(t)
    BY <1>1, <1>4 DEF StackOf
  <2> QED  BY <1>1, <1>2, <2>1 DEF Same
<1>6. CASE cause = "ecall"
  <2>1. ReturnPc' = cpu.pc + 4
    BY <1>1, <1>6 DEF ReturnPc
  <2>2. Registers(t)' = [Registers(t) EXCEPT !.pc = @ + 4]
    BY <1>4, <2>1
  <2>3. f' = [f EXCEPT ![t].pc = @ + 4]
    BY <1>1, <1>2, <2>2 DEF Same
  <2> QED  BY <1>1, <1>5, <1>6, <2>3 DEF Threads!Leave
<1>7. CASE cause # "ecall"
  <2>1. ReturnPc' = cpu.pc
    BY <1>1, <1>7 DEF ReturnPc
  <2>2. f' = f
    BY <1>1, <1>2, <1>4, <2>1 DEF Same
  <2> QED  BY <1>1, <1>5, <1>7, <2>2 DEF Threads!Leave
<1> QED  BY <1>6, <1>7

(* The routine moves the registers into the frame and the context.         *)
LEMMA RoutineMaps ==
  ASSUME IInv, Routine, NEW p \in Proc
  PROVE  Same(p)
<1> DEFINE t == runningThread
           sp == <<runningThread, Height - 1>>
<1>1. /\ at = "routine" /\ at' = "handler" /\ t \in Proc /\ t \in Owner /\ t' = t
      /\ Height \in 1..Top /\ Height - 1 \in 0..(Top - 1) /\ Top \in Nat
      /\ cpu.sp[1] = t /\ cpu.ra \in Word
      /\ stack' = [stack EXCEPT ![t][Height - 1] = cpu.ra] /\ stack \in Frames
      /\ UNCHANGED <<sepc, scause>>
  BY ThreadFacts DEF Routine, IInv, TypeOK
<1>2. CASE p # t
  <2>1. ctx'[p] = ctx[p]
    BY <1>2, RoutineContexts, ContextAssumption DEF Owner
  <2>2. stack'[p] = stack[p]
    BY <1>1, <1>2 DEF Frames
  <2> QED  BY <1>1, <1>2, <2>1, <2>2, ParkedSame
<1>3. CASE p = t
  <2>1. /\ ctx'[t].RA = "resume" /\ ctx'[t].SP = sp
        /\ ctx'[t].KEPT = cpu.kept
    <3>1. /\ ctx[t] \in Slots /\ cpu \in Hart /\ sp \in Address
          /\ ctx'[t] = setjmp(ctx[t], "resume", sp)
      BY <1>1, RoutineContexts, AddressTyped DEF IInv, TypeOK
    <3> HIDE DEF sp
    <3> QED  BY <3>1, SetjmpTyped
  <2>2. ctx'[t].SP[2] = Height - 1 /\ Height - 1 + 1 = Height
    BY <1>1, <2>1
  <2>3. stack'[t][Height - 1] = cpu.ra
    BY <1>1 DEF Frames
  <2>4. Registers(t) = [pc |-> ReturnPc, sp |-> Height, ra |-> cpu.ra, kept |-> cpu.kept]
    BY <1>1 DEF Registers
  <2>5. Registers(t)' = Parked(t)'
    BY <1>1 DEF Registers
  <2>6. Parked(t)' = [pc |-> ReturnPc', sp |-> Height, ra |-> cpu.ra, kept |-> cpu.kept]
    BY <1>1, <2>1, <2>2, <2>3 DEF Parked
  <2>7. Registers(t)' = Registers(t)
    BY <1>1, <2>4, <2>5, <2>6 DEF ReturnPc
  <2>8. Registers(t).sp = Height
    BY <2>4
  <2>9. \A i \in Height..(Top - 1) : stack'[t][i] = stack[t][i]
    BY <1>1 DEF Frames
  <2>10. StackOf(t)' = StackOf(t)
    BY <1>1, <2>7, <2>8, <2>9 DEF StackOf
  <2> QED  BY <1>1, <1>3, <2>7, <2>10 DEF Same
<1> QED  BY <1>2, <1>3

(* The registers of thread p as the contexts c have them.                  *)
Kept(c, p) ==
  IF c[p].RA = "wrapper"
  THEN [pc |-> Entry, sp |-> c[p].SP[2], ra |-> "wrapper", kept |-> c[p].KEPT]
  ELSE [pc |-> c[p].R0, sp |-> c[p].SP[2] + 1,
        ra |-> stack[p][c[p].SP[2]], kept |-> c[p].KEPT]

(* While a handler is executed all of them are there, but for the running  *)
(* thread's program counter, which the handler stores.                     *)
LEMMA HandlerKeeps ==
  ASSUME IInv, at = "handler", NEW p \in Proc
  PROVE  Registers(p) = Kept(Filled, p)
<1>1. /\ Filled[p].RA = ctx[p].RA /\ Filled[p].SP = ctx[p].SP
      /\ Filled[p].KEPT = ctx[p].KEPT
      /\ p # runningThread => Filled[p].R0 = ctx[p].R0
      /\ Filled[runningThread].R0 = ReturnPc
  BY FilledContexts DEF Owner
<1>2. Registers(p) = Parked(p)
  BY DEF Registers
<1> QED  BY <1>1, <1>2 DEF Parked, Kept

(* What a handler leaves is what the threads find: the one that runs next  *)
(* in the processor and its frame, the others in their contexts.           *)
LEMMA ReturnKeeps ==
  ASSUME IInv, at = "handler", NEW n, NEW c, Handed(c, n), ReturnTo(n, c),
         NEW p \in Proc
  PROVE  Registers(p)' = Kept(c, p)
<1>1. /\ runningThread' = n /\ ctx' = c /\ sepc' = c[n].R0
      /\ cpu' = longjmp(c[n]) /\ at' = c[n].RA /\ stack' = stack
  BY DEF ReturnTo
<1>2. /\ cpu \in Hart /\ c[n] \in Slots /\ n \in Proc
  BY DEF IInv, TypeOK, Handed, Owner
<1>3. cpu'.sp = c[n].SP /\ cpu'.ra = c[n].RA /\ cpu'.kept = c[n].KEPT
  BY <1>1, <1>2, LongjmpTyped
<1>4. c[n].SP \in {n} \X (0..Top) /\ c[n].RA \in {"wrapper", "resume"} /\ c[n].SP[1] = n
  BY <1>2, FilledContexts DEF IInv, Contexts, ContextOf, Handed, Owner
<1>5. CASE p # n
  <2>1. Registers(p)' = Parked(p)'
    BY <1>1, <1>5 DEF Registers
  <2> QED  BY <1>1, <1>5, <2>1 DEF Parked, Kept
<1>6. CASE p = n /\ c[n].RA = "wrapper"
  <2>1. Registers(p)' = [pc |-> Entry, sp |-> Height', ra |-> cpu'.ra, kept |-> cpu'.kept]
    BY <1>1, <1>6 DEF Registers
  <2> QED  BY <1>3, <1>6, <2>1 DEF Kept, Height
<1>7. CASE p = n /\ c[n].RA = "resume"
  <2>1. Registers(p)' = [pc |-> sepc', sp |-> Height' + 1, ra |-> stack'[p][Height'],
                         kept |-> cpu'.kept]
    BY <1>1, <1>7 DEF Registers
  <2> QED  BY <1>1, <1>3, <1>7, <2>1 DEF Kept, Height
<1> QED  BY <1>4, <1>5, <1>6, <1>7

(* So a thread that exists finds its registers and its stack unchanged.    *)
LEMMA ReturnSame ==
  ASSUME IInv, at = "handler", NEW n, NEW c, Handed(c, n), ReturnTo(n, c),
         NEW p \in created
  PROVE  Same(p)
<1>1. p \in Proc /\ stack' = stack
  BY DEF IInv, TypeOK, ReturnTo
<1>2. Kept(c, p) = Kept(Filled, p)
  BY DEF Handed, Kept
<1>3. Registers(p)' = Registers(p)
  BY <1>1, <1>2, HandlerKeeps, ReturnKeeps
<1> QED  BY <1>1, <1>3 DEF Same, StackOf

LEMMA HandlerMaps ==
  ASSUME IInv, Handler, NEW p \in Proc
  PROVE  Same(p)
<1>1. /\ at = "handler" /\ runningThread \in created /\ created \subseteq Proc
  BY DEF Handler, IInv, TypeOK
<1>2. PICK n \in created :
        \/ ReturnTo(n, Filled)
        \/ \E v \in Value : ReturnTo(n, [Filled EXCEPT ![n].A1 = v])
  BY <1>1 DEF Handler
<1>3. /\ Filled \in [Owner -> Slots] /\ n \in Owner
      /\ \A q \in Proc \ created : Filled[q].RA = "wrapper" /\ Filled[q].SP = <<q, Top>>
      /\ \A q \in Proc \ created : Filled[q] = ctx[q]
  BY <1>1, FilledContexts DEF IInv, TypeOK, Contexts, ContextOf, Owner
<1>4. PICK c : /\ ReturnTo(n, c) /\ Handed(c, n)
               /\ \A q \in Proc \ created : c[q] = ctx[q]
  <2>1. CASE ReturnTo(n, Filled)
    BY <1>3, <2>1 DEF Handed
  <2>2. ASSUME NEW v \in Value, ReturnTo(n, [Filled EXCEPT ![n].A1 = v])
        PROVE  \E c : /\ ReturnTo(n, c) /\ Handed(c, n)
                      /\ \A q \in Proc \ created : c[q] = ctx[q]
    <3> DEFINE c == [Filled EXCEPT ![n].A1 = v]
    <3>1. Handed(c, n)
      BY <1>3 DEF Handed, Slots, Owner
    <3>2. \A q \in Proc \ created : c[q] = ctx[q]
      BY <1>3 DEF Owner
    <3> QED  BY <2>2, <3>1, <3>2
  <2> QED  BY <1>2, <2>1, <2>2
<1>5. CASE p \in created
  BY <1>1, <1>4, <1>5, ReturnSame
<1>6. CASE p \notin created
  <2>1. p # runningThread /\ p # runningThread' /\ ctx'[p] = ctx[p] /\ stack'[p] = stack[p]
    BY <1>1, <1>2, <1>4, <1>6 DEF ReturnTo
  <2> QED  BY <2>1, ParkedSame
<1> QED  BY <1>5, <1>6

LEMMA CreateMaps ==
  ASSUME IInv, NEW p \in Proc, CreateHandler(p)
  PROVE  Threads!Create(p)
<1> DEFINE new == NewContext(p, cpu.kept, cpu.a1)
           file == [q \in Proc |-> Registers(q)]
           f == [pc |-> Entry, sp |-> Top, ra |-> "wrapper", kept |-> cpu.kept]
<1>1. /\ at = "handler" /\ created' = created \cup {p} /\ p \notin created
      /\ runningThread \in created /\ created \subseteq Proc /\ p # runningThread
      /\ UNCHANGED scause
  BY DEF CreateHandler, ReturnTo, IInv, TypeOK
<1>2. /\ Filled \in [Owner -> Slots]
      /\ \A q \in Proc \ created : Filled[q].RA = "wrapper" /\ Filled[q].SP = <<q, Top>>
      /\ \A q \in Proc \ created : Filled[q] = ctx[q]
  BY <1>1, FilledContexts DEF IInv, TypeOK, Contexts, ContextOf, Owner
<1>3. /\ new \in Slots /\ new.RA = "wrapper" /\ new.SP = <<p, Top>>
      /\ new.KEPT = cpu.kept /\ new.SP[2] = Top
  BY ContextAssumption DEF NewContext, Slots, Address, Owner, IInv, TypeOK, Hart
<1>4. PICK c : /\ ReturnTo(runningThread, c) /\ Handed(c, runningThread)
               /\ c[p] = new
               /\ \A q \in Proc \ created : q # p => c[q] = ctx[q]
  <2>1. PICK v \in Value :
          ReturnTo(runningThread, [Filled EXCEPT ![p] = new, ![runningThread].A1 = v])
    BY DEF CreateHandler
  <2> DEFINE c == [Filled EXCEPT ![p] = new, ![runningThread].A1 = v]
  <2> HIDE DEF new
  <2>2. Handed(c, runningThread)
    BY <1>1, <1>2, <1>3, ContextAssumption DEF Handed, Slots, Owner
  <2>3. c[p] = new /\ \A q \in Proc \ created : q # p => c[q] = ctx[q]
    BY <1>1, <1>2 DEF Owner
  <2> QED  BY <2>1, <2>2, <2>3
<1>5. /\ at' \in {"wrapper", "resume"} /\ runningThread' = runningThread
      /\ ctx' = c /\ stack' = stack
  BY <1>1, <1>4, FilledContexts DEF ReturnTo, Handed, IInv, Contexts, ContextOf, Owner
<1>6. ASSUME NEW q \in Proc, q # p PROVE Same(q)
  <2>1. CASE q \in created
    BY <1>1, <1>4, <2>1, ReturnSame
  <2>2. CASE q \notin created
    BY <1>1, <1>4, <1>5, <1>6, <2>2, ParkedSame
  <2> QED  BY <2>1, <2>2
<1>7. Registers(p)' = f
  BY <1>1, <1>3, <1>4, ReturnKeeps DEF Kept
<1>8. StackOf(p)' = StackOf(p)
  <2>1. Registers(p).sp = Top
    BY <1>1, <1>2, HandlerKeeps DEF Kept
  <2>2. Registers(p)'.sp = Top
    BY <1>7
  <2> QED  BY <1>5, <2>1, <2>2 DEF StackOf
<1>9. f \in Threads!Registers /\ f.pc = Entry /\ f.sp = Top
  <2>1. Entry \in Code /\ Top \in 0..Top /\ "wrapper" \in Word /\ cpu.kept \in Word
    BY ContextAssumption DEF Word, IInv, TypeOK, Hart
  <2> QED  BY <2>1 DEF Threads!Registers
<1>10. file' = [file EXCEPT ![p] = f]
  BY <1>6, <1>7 DEF Same
<1>11. [q \in Proc |-> StackOf(q)]' = [q \in Proc |-> StackOf(q)]
  BY <1>6, <1>8 DEF Same
<1>12. ~InThread /\ ~InThread'
  BY <1>1, <1>5 DEF InThread
<1> HIDE DEF f
<1> QED  BY <1>1, <1>9, <1>10, <1>11, <1>12 DEF Threads!Create

LEMMA HaltMaps ==
  ASSUME IInv, Halt, NEW p \in Proc
  PROVE  Same(p)
<1>1. /\ at = "handler" /\ at' = "ended" /\ ctx' = Filled
      /\ UNCHANGED <<stack, runningThread>>
  BY DEF Halt, IInv, Contexts
<1>2. Registers(p)' = Parked(p)'
  BY <1>1 DEF Registers
<1>3. Parked(p)' = Kept(Filled, p)
  BY <1>1 DEF Parked, Kept
<1>4. Registers(p)' = Registers(p)
  BY <1>1, <1>2, <1>3, HandlerKeeps
<1> QED  BY <1>1, <1>4 DEF Same, StackOf

(* Back to the thread, from the routine or for the first time.             *)
LEMMA ResumeMaps ==
  ASSUME IInv, IInv', Resume \/ Wrapper
  PROVE  Threads!Resume(runningThread)
<1> DEFINE t == runningThread
<1>1. /\ at \in {"resume", "wrapper"} /\ at' = "thread" /\ t \in created /\ t \in Proc
      /\ UNCHANGED <<scause, stack, ctx, runningThread, created>>
  BY DEF Resume, Wrapper, IInv, TypeOK
<1>2. \A p \in Proc : p # t => Same(p)
  BY <1>1, ParkedSame
<1>3. Registers(t)' = [pc |-> cpu'.pc, sp |-> Height', ra |-> cpu'.ra, kept |-> cpu'.kept]
  BY <1>1 DEF Registers
<1>4. Registers(t)' = Registers(t)
  <2>1. CASE Wrapper
    <3>1. cpu' = [cpu EXCEPT !.priv = "U", !.pc = Entry] /\ at = "wrapper"
      BY <2>1 DEF Wrapper, sret, ClearedSpp
    <3>2. /\ cpu'.pc = Entry /\ cpu'.sp = cpu.sp
          /\ cpu'.ra = cpu.ra /\ cpu'.kept = cpu.kept
      BY <3>1 DEF IInv, TypeOK, Hart
    <3> QED  BY <1>1, <1>3, <3>1, <3>2 DEF Registers, Height
  <2>2. CASE Resume
    <3> DEFINE a0 == ctx[t].A1
               ra == stack[cpu.sp[1]][Height]
               sp == <<cpu.sp[1], Height + 1>>
    <3>1. /\ at = "resume"
          /\ cpu' = [[cpu EXCEPT !.priv = spp, !.pc = sepc]
                       EXCEPT !.a0 = a0, !.ra = ra, !.sp = sp]
      BY <2>2 DEF Resume, sret, FrameTaken
    <3>2. cpu.sp = <<t, Height>> /\ cpu.sp[1] = t /\ sp[2] = Height + 1
      <4>1. cpu.sp = <<t, Height>>
        BY <3>1 DEF IInv, Position
      <4> QED  BY <4>1
    <3>3. ra = stack[t][Height]
      BY <3>2
    <3>4. cpu'.pc = sepc /\ cpu'.sp = sp /\ cpu'.ra = ra /\ cpu'.kept = cpu.kept
      <4> HIDE DEF a0, ra, sp
      <4> QED  BY <3>1 DEF IInv, TypeOK, Hart
    <3>5. Height' = Height + 1
      BY <3>2, <3>4 DEF Height
    <3> QED  BY <1>1, <1>3, <3>1, <3>3, <3>4, <3>5 DEF Registers
  <2> QED  BY <2>1, <2>2
<1>5. StackOf(t)' = StackOf(t)
  BY <1>1, <1>4 DEF StackOf
<1>6. [p \in Proc |-> Registers(p)]' = [p \in Proc |-> Registers(p)]
  BY <1>1, <1>2, <1>4 DEF Same
<1>7. [p \in Proc |-> StackOf(p)]' = [p \in Proc |-> StackOf(p)]
  BY <1>1, <1>2, <1>5 DEF Same
<1> QED  BY <1>1, <1>6, <1>7 DEF Threads!Resume, InThread

Seen == <<created, IF InThread THEN runningThread ELSE Kernel,
          IF scause = "ecall" THEN "call" ELSE "interrupt",
          [p \in Proc |-> Registers(p)], [p \in Proc |-> StackOf(p)]>>

(* Every step is one of Processes', or changes nothing a thread can see.   *)
LEMMA NextMaps == IInv /\ IInv' /\ [Next]_vars => [Threads!ProcessesNext]_Seen
<1> SUFFICES ASSUME IInv, IInv', [Next]_vars
             PROVE  Threads!ProcessesNext \/ UNCHANGED Seen
  OBVIOUS
<1>1. runningThread \in Proc
  BY DEF IInv, TypeOK
<1>2. CASE UNCHANGED vars \/ Ended
  <2>1. UNCHANGED <<cpu, sepc, scause, at, stack, ctx, runningThread, created>>
    BY <1>2 DEF Ended, vars
  <2>2. ASSUME NEW p \in Proc PROVE Same(p)
    <3>1. Registers(p)' = Registers(p)
      BY <2>1 DEF Registers, Parked, ReturnPc, Height
    <3> QED  BY <2>1, <3>1 DEF Same, StackOf
  <2>3. /\ [p \in Proc |-> Registers(p)]' = [p \in Proc |-> Registers(p)]
        /\ [p \in Proc |-> StackOf(p)]' = [p \in Proc |-> StackOf(p)]
    BY <2>2 DEF Same
  <2> QED  BY <2>1, <2>3 DEF Seen, InThread
<1>3. CASE Compute \/ Push \/ Pop
  BY <1>1, <1>3, InstructionMaps DEF Threads!ProcessesNext
<1>4. ASSUME NEW cause \in {"ecall", "timer", "other"}, Trap(cause)
      PROVE  Threads!ProcessesNext
  BY <1>1, <1>4, TrapMaps DEF Threads!ProcessesNext
<1>5. CASE Resume \/ Wrapper
  BY <1>1, <1>5, ResumeMaps DEF Threads!ProcessesNext
<1>6. ASSUME NEW p \in Proc, CreateHandler(p) PROVE Threads!ProcessesNext
  BY <1>6, CreateMaps DEF Threads!ProcessesNext
<1>7. CASE Routine \/ Handler \/ Halt
  <2>1. \A p \in Proc : Same(p)
    BY <1>7, RoutineMaps, HandlerMaps, HaltMaps
  <2>2. ~InThread /\ UNCHANGED <<created, scause>>
    BY <1>7 DEF Routine, Handler, Halt, ReturnTo, InThread
  <2>3. at' # "thread"
    <3>1. CASE Routine
      BY <3>1 DEF Routine
    <3>2. CASE Halt
      BY <3>2 DEF Halt, IInv, Contexts
    <3>3. CASE Handler
      <4>1. PICK n \in created : \E c : ReturnTo(n, c) /\ c[n].RA = ctx[n].RA
        <5>1. at = "handler" /\ runningThread \in created
          BY <3>3 DEF Handler, IInv, TypeOK
        <5>2. \A n \in created : n \in Owner /\ Filled[n].RA = ctx[n].RA
          BY <5>1, FilledContexts DEF IInv, TypeOK, Owner
        <5>3. \A n \in created, v \in Value :
                [Filled EXCEPT ![n].A1 = v][n].RA = ctx[n].RA
          BY <5>1, <5>2, FilledContexts DEF Slots
        <5> QED  BY <3>3, <5>1, <5>2, <5>3 DEF Handler
      <4> QED  BY <4>1 DEF ReturnTo, IInv, TypeOK, Contexts, ContextOf
    <3> QED  BY <1>7, <3>1, <3>2, <3>3
  <2> QED  BY <2>1, <2>2, <2>3, Stutter DEF InThread, Seen
<1> QED  BY <1>2, <1>3, <1>4, <1>5, <1>6, <1>7 DEF Next

(* The kernel gives every thread a processor and a stack of its own: but   *)
(* for a0 and a1, taking the processor away and giving it back is          *)
(* invisible, for any number of threads and any program.                   *)
THEOREM ContextImplements == Spec => PrivateRegisters
<1>1. Init => Threads!ProcessesInit
  BY InitMaps
<1>2. IInv /\ IInv' /\ [Next]_vars => [Threads!ProcessesNext]_Seen
  BY NextMaps
<1> QED  BY <1>1, <1>2, Inductive, PTL
         DEF Spec, PrivateRegisters, Threads!ProcessesSpec, Seen

=============================================================================
