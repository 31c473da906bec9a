---------------------------- MODULE KernelProofs ----------------------------
(***************************************************************************)
(* Proofs about Kernel, for every set of threads and semaphores and every  *)
(* value of the other constants: the types and the count of waiters, and   *)
(* then who holds the processor, and for how long.                         *)
(***************************************************************************)
EXTENDS Kernel, FiniteSetTheorems, SequenceTheorems, TLAPS

(* The type invariant and the count of waiters depend on each other: a     *)
(* signal takes -val threads from a queue, which must be that long.  A     *)
(* semaphore that does not exist has value 0, so that none waits on it     *)
(* when sem_open makes it exist.                                           *)
AbsentAreZero == \A s \in Sem \ open : val[s] = 0
IInv == TypeOK /\ SemaphoreCount /\ AbsentAreZero

Mode == {"on", "halted", "wedged"}

-----------------------------------------------------------------------------
(***************************************************************************)
(* The operators of the sleeping list stay within the list.                *)
(***************************************************************************)

(* A part of the indices of a list has at most as many elements as it.     *)
LEMMA IndicesCounted ==
  ASSUME NEW q \in Seq(Thread), NEW S \in SUBSET (DOMAIN q)
  PROVE  Cardinality(S) \in 0..Len(q)
<1>1. /\ DOMAIN q = 1..Len(q)
      /\ Len(q) \in Nat
  BY LenProperties
<1>2. IsFiniteSet(1..Len(q)) /\ Cardinality(1..Len(q)) = Len(q)
  <2>1. 1 \in Int /\ Len(q) \in Int
    BY <1>1
  <2>2. /\ IsFiniteSet(1..Len(q))
        /\ Cardinality(1..Len(q)) = IF 1 > Len(q) THEN 0 ELSE Len(q) - 1 + 1
    BY <2>1, FS_Interval, Zenon
  <2> QED  BY <1>1, <2>2
<1>3. IsFiniteSet(S) /\ Cardinality(S) <= Len(q)
  BY <1>1, <1>2, FS_Subset
<1>4. Cardinality(S) \in Nat
  BY <1>3, FS_CardinalityType
<1> QED  BY <1>1, <1>3, <1>4

LEMMA DueInRange ==
  ASSUME asleep \in Seq(Thread)
  PROVE  Due \in 0..Len(asleep)
<1>1. {i \in DOMAIN asleep : left[asleep[i]] = 1} \in SUBSET (DOMAIN asleep)
  OBVIOUS
<1> QED  BY <1>1, IndicesCounted DEF Due

LEMMA PositionInRange ==
  ASSUME asleep \in Seq(Thread), NEW time \in Nat
  PROVE  Position(time) \in 1..(Len(asleep) + 1)
<1>1. {i \in DOMAIN asleep : left[asleep[i]] < time} \in SUBSET (DOMAIN asleep)
  OBVIOUS
<1>2. Cardinality({i \in DOMAIN asleep : left[asleep[i]] < time}) \in 0..Len(asleep)
  BY <1>1, IndicesCounted
<1>3. Len(asleep) \in Nat
  BY LenProperties
<1> QED  BY <1>2, <1>3 DEF Position

(* What a part of a list is.                                               *)
LEMMA PartOfSeq ==
  ASSUME NEW q \in Seq(Thread), NEW m \in 1..(Len(q) + 1), NEW n \in 0..Len(q)
  PROVE  /\ SubSeq(q, m, n) \in Seq(Thread)
         /\ Len(SubSeq(q, m, n)) = IF m <= n THEN n - m + 1 ELSE 0
         /\ \A i \in 1..(n - m + 1) : SubSeq(q, m, n)[i] = q[m + i - 1]
<1>1. Len(q) \in Nat
  BY LenProperties
<1>2. \A i \in m..n : q[i] \in Thread
  BY <1>1, ElementOfSeq
<1> QED  BY <1>1, <1>2, SubSeqProperties

LEMMA SleepersTyped ==
  ASSUME asleep \in Seq(Thread), left \in [Thread -> Nat]
  PROVE  /\ Awakened \in Seq(Thread)
         /\ UpdateTime => asleep' \in Seq(Thread) /\ left' \in [Thread -> Nat]
         /\ \A t \in Thread, time \in Nat :
              PutToSleep(t, time) =>
                asleep' \in Seq(Thread) /\ left' \in [Thread -> Nat]
<1>1. Len(asleep) \in Nat
  BY LenProperties
<1>2. Awakened \in Seq(Thread)
  BY <1>1, DueInRange, PartOfSeq DEF Awakened
<1>3. UpdateTime => asleep' \in Seq(Thread) /\ left' \in [Thread -> Nat]
  <2>1. SubSeq(asleep, Due + 1, Len(asleep)) \in Seq(Thread)
    BY <1>1, DueInRange, PartOfSeq
  <2> QED  BY <2>1 DEF UpdateTime
<1>4. ASSUME NEW t \in Thread, NEW time \in Nat, PutToSleep(t, time)
      PROVE  asleep' \in Seq(Thread) /\ left' \in [Thread -> Nat]
  <2> DEFINE p == Position(time)
  <2>1. p \in 1..(Len(asleep) + 1)
    BY PositionInRange
  <2>2. /\ SubSeq(asleep, 1, p - 1) \in Seq(Thread)
        /\ SubSeq(asleep, p, Len(asleep)) \in Seq(Thread)
    BY <1>1, <2>1, PartOfSeq
  <2>3. asleep' = SubSeq(asleep, 1, p - 1) \o <<t>> \o SubSeq(asleep, p, Len(asleep))
    BY <1>4 DEF PutToSleep
  <2>4. left' \in [Thread -> Nat]
    BY <1>4 DEF PutToSleep
  <2> QED  BY <2>2, <2>3, <2>4, ConcatProperties
<1> QED  BY <1>2, <1>3, <1>4


-----------------------------------------------------------------------------
(***************************************************************************)
(* Type correctness.                                                       *)
(***************************************************************************)

LEMMA PutThreadTyped ==
  ASSUME NEW q \in Seq(Thread), NEW p \in Proc
  PROVE  PutThread(q, p) \in Seq(Thread)
BY DEF PutThread, Proc

LEMMA WokenTyped ==
  ASSUME NEW st \in [Proc -> State], NEW q
  PROVE  Woken(st, q) \in [Proc -> State]
BY DEF Woken, State

(* What a change of the running thread leaves in the variables it sets.    *)
SwitchTyped ==
  /\ mode' \in Mode
  /\ runningThread' \in Proc
  /\ linkedList' \in Seq(Thread)
  /\ status' \in [Proc -> State]
  /\ timeRunning' \in [Proc -> 0..TimeSlice]

LEMMA SwitchFromTyped ==
  ASSUME runningThread \in Proc,
         NEW q \in Seq(Thread), NEW sl, NEW bl,
         NEW st \in [Proc -> State], NEW tr \in [Proc -> 0..TimeSlice],
         SwitchFrom(q, sl, bl, st, tr)
  PROVE  SwitchTyped
<1>1. mode' \in Mode
  BY DEF SwitchFrom, ModeAfterGet, Mode
<1>2. NextThread(q) \in Proc
  BY HeadTailProperties DEF NextThread, Proc
<1>3. q # << >> => Tail(q) \in Seq(Thread) /\ Head(q) \in Proc
  BY HeadTailProperties DEF Proc
<1>4. ResetTime(q, tr) \in [Proc -> 0..TimeSlice]
  BY <1>3, KernelAssumption DEF ResetTime
<1>5. [st EXCEPT ![NextThread(q)] = "RUNNING"] \in [Proc -> State]
  BY <1>2 DEF State
<1>6. CASE ModeAfterGet(q, sl, bl) = "on"
  BY <1>1, <1>2, <1>3, <1>4, <1>5, <1>6 DEF SwitchFrom, SwitchTyped
<1>7. CASE ModeAfterGet(q, sl, bl) # "on"
  BY <1>1, <1>7 DEF SwitchFrom, SwitchTyped
<1> QED  BY <1>6, <1>7

LEMMA DispatchTyped ==
  ASSUME runningThread \in Proc, isBeginning \in [Proc -> {0, 1}],
         NEW q0 \in Seq(Thread), NEW sl,
         NEW st \in [Proc -> State], NEW tr \in [Proc -> 0..TimeSlice],
         Dispatch(q0, sl, st, tr)
  PROVE  SwitchTyped /\ isBeginning' \in [Proc -> {0, 1}]
<1> DEFINE q == PutThread(q0, runningThread)
           next == NextThread(q)
           begun == IF isBeginning[next] = 1 THEN [tr EXCEPT ![next] = 0] ELSE tr
<1>1. q \in Seq(Thread)
  BY PutThreadTyped
<1>2. next \in Proc
  BY <1>1, HeadTailProperties DEF NextThread, Proc
<1>3. begun \in [Proc -> 0..TimeSlice]
  BY <1>2, KernelAssumption
<1>4. [st EXCEPT ![runningThread] = "READY"] \in [Proc -> State]
  BY DEF State
<1>5. SwitchFrom(q, sl, blocked, [st EXCEPT ![runningThread] = "READY"], begun)
  BY DEF Dispatch
<1>6. isBeginning' \in [Proc -> {0, 1}]
  <2>1. isBeginning' = IF mode' = "on" THEN [isBeginning EXCEPT ![next] = 0]
                       ELSE isBeginning
    BY DEF Dispatch
  <2> QED  BY <1>2, <2>1
<1> HIDE DEF q, begun
<1>7. SwitchTyped
  BY <1>1, <1>3, <1>4, <1>5, SwitchFromTyped
<1> QED  BY <1>6, <1>7

(* Results fit in an A1 slot.                                              *)
LEMMA ReturnsTyped ==
  ASSUME a1 \in [Proc -> Word], runningThread \in Proc, runningThread' \in Proc,
         NEW code \in Word, NEW result \in Word
  PROVE  /\ Returns(code, result) => a1' \in [Proc -> Word]
         /\ ReturnsNothing(code) => a1' \in [Proc -> Word]
BY DEF Returns, ReturnsNothing

LEMMA Words ==
  /\ \A code \in Operation : code \in Word
  /\ Ok \in Word /\ Error \in Word /\ Closed \in Word /\ Data \in Word
BY DEF Word

(* n signals free the threads at the front of the queue, as many as there  *)
(* are, and leave value and queue in agreement.                            *)
LEMMA SignalEffect ==
  ASSUME IInv, NEW s \in Sem, NEW n \in Nat, Signal(s, n),
         s \in open', open \subseteq open'
  PROVE  /\ Releases(s, n) \in 0..Len(blocked[s])
         /\ linkedList' \in Seq(Thread)
         /\ status' \in [Proc -> State]
         /\ val' \in [Sem -> Int]
         /\ blocked' \in [Sem -> Seq(Thread)]
         /\ SemaphoreCount' /\ AbsentAreZero'
<1> DEFINE k == Releases(s, n)
           rest == SubSeq(blocked[s], k + 1, Len(blocked[s]))
<1>1. /\ blocked[s] \in Seq(Thread)
      /\ Len(blocked[s]) \in Nat
      /\ val[s] \in Int
      /\ Len(blocked[s]) = IF val[s] < 0 THEN -val[s] ELSE 0
  BY LenProperties DEF IInv, TypeOK, SemaphoreCount
<1>2. k \in 0..Len(blocked[s])
  BY <1>1 DEF Releases
<1>3. /\ SubSeq(blocked[s], 1, k) \in Seq(Thread)
      /\ rest \in Seq(Thread)
      /\ Len(rest) = Len(blocked[s]) - k
  BY <1>1, <1>2, PartOfSeq
<1>4. linkedList' \in Seq(Thread)
  BY <1>3, ConcatProperties DEF IInv, TypeOK, Signal
<1>5. status' \in [Proc -> State]
  BY WokenTyped DEF IInv, TypeOK, Signal
<1>6. /\ val' = [val EXCEPT ![s] = val[s] + n]
      /\ blocked' = [blocked EXCEPT ![s] = rest]
  BY DEF Signal
<1>7. Len(rest) = IF val[s] + n < 0 THEN -(val[s] + n) ELSE 0
  BY <1>1, <1>3 DEF Releases
<1> HIDE DEF k, rest
<1>8. val' \in [Sem -> Int] /\ blocked' \in [Sem -> Seq(Thread)]
  BY <1>1, <1>3, <1>6 DEF IInv, TypeOK
<1>9. SemaphoreCount'
  <2> SUFFICES ASSUME NEW x \in Sem
               PROVE  Len(blocked'[x]) = IF val'[x] < 0 THEN -val'[x] ELSE 0
    BY DEF SemaphoreCount
  <2>1. CASE x = s
    BY <1>6, <1>7, <2>1 DEF IInv, TypeOK
  <2>2. CASE x # s
    BY <1>6, <2>2 DEF IInv, TypeOK, SemaphoreCount
  <2> QED  BY <2>1, <2>2
<1>10. AbsentAreZero'
  BY <1>6, <1>8 DEF IInv, TypeOK, AbsentAreZero
<1> QED  BY <1>2, <1>4, <1>5, <1>8, <1>9, <1>10 DEF k


-----------------------------------------------------------------------------
(***************************************************************************)
(* The inductive invariant.                                                *)
(***************************************************************************)

LEMMA InitIInv == Init => IInv
<1> SUFFICES ASSUME Init PROVE IInv
  OBVIOUS
<1>1. TypeOK
  BY KernelAssumption
  DEF Init, TypeOK, SleepersInit, Proc, Sem, State, Word
<1>2. SemaphoreCount /\ AbsentAreZero
  BY DEF Init, SemaphoreCount, AbsentAreZero
<1> QED  BY <1>1, <1>2 DEF IInv

(* A step that touches neither a value nor a queue keeps their agreement.  *)
LEMMA CountKept ==
  ASSUME SemaphoreCount, AbsentAreZero, UNCHANGED <<val, blocked>>,
         open \subseteq open'
  PROVE  SemaphoreCount' /\ AbsentAreZero'
BY DEF SemaphoreCount, AbsentAreZero

LEMMA CallStep ==
  ASSUME IInv, NEW code \in Operation,
         RejectedCall(code) \/ MemoryCall(code) \/ ConsoleCall(code)
  PROVE  IInv'
<1>1. /\ UserTraps
      /\ UNCHANGED <<threadVars, val, blocked, sleepVars, runVars>>
      /\ open' \in SUBSET Sem /\ open \subseteq open'
  BY DEF RejectedCall, MemoryCall, ConsoleCall, semVars, IInv, TypeOK, Sem
<1>2. a1' \in [Proc -> Word]
  <2>1. a1 \in [Proc -> Word] /\ runningThread \in Proc /\ runningThread' \in Proc
    BY <1>1 DEF IInv, TypeOK, runVars
  <2>2. \/ Returns(code, Error) \/ Returns(code, Data) \/ ReturnsNothing(code)
    BY DEF RejectedCall, MemoryCall, ConsoleCall
  <2> QED  BY <2>1, <2>2, Words, ReturnsTyped
<1>3. TypeOK'
  BY <1>1, <1>2 DEF IInv, TypeOK, threadVars, sleepVars, runVars
<1> QED  BY <1>1, <1>3, CountKept DEF IInv

LEMMA CreateStep ==
  ASSUME IInv, NEW t \in Thread, ThreadCreate(t)
  PROVE  IInv'
<1>1. t \in Proc
  BY DEF Proc
<1>2. a1' \in [Proc -> Word]
  BY Words, ReturnsTyped DEF IInv, TypeOK, ThreadCreate, Operation
<1>3. linkedList' \in Seq(Thread)
  BY <1>1, PutThreadTyped DEF IInv, TypeOK, ThreadCreate
<1>4. status' \in [Proc -> State]
  BY DEF IInv, TypeOK, ThreadCreate, State
<1>5. TypeOK'
  BY <1>2, <1>3, <1>4 DEF IInv, TypeOK, ThreadCreate, semVars, sleepVars
<1> QED  BY <1>5, CountKept DEF IInv, ThreadCreate, semVars

LEMMA ExitStep ==
  ASSUME IInv, ThreadExit
  PROVE  IInv'
<1> DEFINE joiners == semToSignal[runningThread]
           st == Woken([status EXCEPT ![runningThread] = "EXITING"], joiners)
<1>1. runningThread \in Thread /\ runningThread \in Proc
  BY DEF ThreadExit, UserTraps, Proc
<1>2. linkedList \o joiners \in Seq(Thread)
  BY <1>1, ConcatProperties DEF IInv, TypeOK
<1>3. st \in [Proc -> State]
  BY WokenTyped DEF IInv, TypeOK, State
<1>4. SwitchFrom(linkedList \o joiners, asleep, blocked, st, timeRunning)
  BY DEF ThreadExit
<1> HIDE DEF st
<1>5. SwitchTyped
  BY <1>1, <1>2, <1>3, <1>4, SwitchFromTyped DEF IInv, TypeOK
<1>6. a1' \in [Proc -> Word]
  BY <1>1, <1>5, Words, ReturnsTyped
  DEF IInv, TypeOK, ThreadExit, Operation, SwitchTyped
<1>7. /\ isOver' \in [Thread -> BOOLEAN]
      /\ semToSignal' \in [Thread -> Seq(Thread)]
  BY <1>1 DEF IInv, TypeOK, ThreadExit
<1>8. TypeOK'
  BY <1>5, <1>6, <1>7
  DEF IInv, TypeOK, ThreadExit, semVars, sleepVars, SwitchTyped, Mode
<1> QED  BY <1>8, CountKept DEF IInv, ThreadExit, semVars

LEMMA DispatchStep ==
  ASSUME IInv, ThreadDispatch
  PROVE  IInv'
<1>1. SwitchTyped /\ isBeginning' \in [Proc -> {0, 1}]
  BY DispatchTyped DEF IInv, TypeOK, ThreadDispatch
<1>2. a1' \in [Proc -> Word]
  BY <1>1, Words, ReturnsTyped
  DEF IInv, TypeOK, ThreadDispatch, Operation, SwitchTyped
<1>3. TypeOK'
  BY <1>1, <1>2
  DEF IInv, TypeOK, ThreadDispatch, semVars, sleepVars, SwitchTyped, Mode
<1> QED  BY <1>3, CountKept DEF IInv, ThreadDispatch, semVars

LEMMA JoinStep ==
  ASSUME IInv, NEW u \in Thread, ThreadJoin(u)
  PROVE  IInv'
<1>1. runningThread \in Thread /\ runningThread \in Proc
  BY DEF ThreadJoin, UserTraps, Proc
<1>2. [status EXCEPT ![runningThread] = "SUSPENDED"] \in [Proc -> State]
  BY DEF IInv, TypeOK, State
<1>3. SwitchTyped
  BY <1>1, <1>2, SwitchFromTyped DEF IInv, TypeOK, ThreadJoin
<1>4. semToSignal' \in [Thread -> Seq(Thread)]
  BY <1>1 DEF IInv, TypeOK, ThreadJoin
<1>5. a1' \in [Proc -> Word]
  BY <1>1, <1>3, Words, ReturnsTyped
  DEF IInv, TypeOK, ThreadJoin, Operation, SwitchTyped
<1>6. TypeOK'
  BY <1>3, <1>4, <1>5
  DEF IInv, TypeOK, ThreadJoin, semVars, sleepVars, SwitchTyped, Mode
<1> QED  BY <1>6, CountKept DEF IInv, ThreadJoin, semVars


LEMMA OpenStep ==
  ASSUME IInv, NEW s \in UserSem, NEW init \in InitVal, SemOpen(s, init)
  PROVE  IInv'
<1>1. s \in Sem /\ s \notin open /\ init \in Nat
  BY KernelAssumption DEF Sem, SemOpen
<1>2. a1' \in [Proc -> Word]
  BY Words, ReturnsTyped DEF IInv, TypeOK, SemOpen, Operation, runVars
<1>3. /\ val' = [val EXCEPT ![s] = init]
      /\ blocked' = blocked
      /\ open' = open \cup {s}
  BY DEF SemOpen
<1>4. TypeOK'
  BY <1>1, <1>2, <1>3
  DEF IInv, TypeOK, SemOpen, threadVars, sleepVars, runVars
<1>5. Len(blocked[s]) = 0
  BY <1>1 DEF IInv, AbsentAreZero, SemaphoreCount
<1>6. SemaphoreCount' /\ AbsentAreZero'
  BY <1>1, <1>3, <1>5 DEF IInv, TypeOK, SemaphoreCount, AbsentAreZero
<1> QED  BY <1>4, <1>6 DEF IInv

LEMMA CloseStep ==
  ASSUME IInv, NEW s \in UserSem, SemClose(s)
  PROVE  IInv'
<1>1. s \in Sem /\ s \in open
  BY DEF Sem, SemClose
<1>2. a1' \in [Proc -> Word]
  BY Words DEF IInv, TypeOK, SemClose
<1>3. /\ val' = [val EXCEPT ![s] = 0]
      /\ blocked' = [blocked EXCEPT ![s] = << >>]
      /\ open' = open \ {s}
  BY DEF SemClose, DrainWaiters
<1>4. linkedList' \in Seq(Thread)
  BY <1>1, ConcatProperties DEF IInv, TypeOK, SemClose
<1>5. TypeOK'
  BY <1>1, <1>2, <1>3, <1>4 DEF IInv, TypeOK, SemClose, threadVars, sleepVars
<1>6. SemaphoreCount' /\ AbsentAreZero'
  BY <1>1, <1>3 DEF IInv, TypeOK, SemaphoreCount, AbsentAreZero
<1> QED  BY <1>5, <1>6 DEF IInv

LEMMA WaitStep ==
  ASSUME IInv, NEW s \in Sem, SemWait(s)
  PROVE  IInv'
<1>1. runningThread \in Thread /\ runningThread \in Proc /\ s \in open
  BY DEF SemWait, UserTraps, Proc
<1>2. val' = [val EXCEPT ![s] = val[s] - 1] /\ open' = open
  BY DEF SemWait
<1>3. /\ blocked[s] \in Seq(Thread)
      /\ Len(blocked[s]) \in Nat
      /\ val[s] \in Int
      /\ Len(blocked[s]) = IF val[s] < 0 THEN -val[s] ELSE 0
  BY LenProperties DEF IInv, TypeOK, SemaphoreCount
<1>4. CASE val[s] - 1 < 0
  <2>1. [status EXCEPT ![runningThread] = "SUSPENDED"] \in [Proc -> State]
    BY DEF IInv, TypeOK, State
  <2>2. /\ blocked' = [blocked EXCEPT ![s] = Append(blocked[s], runningThread)]
        /\ SwitchFrom(linkedList, asleep, blocked',
                      [status EXCEPT ![runningThread] = "SUSPENDED"], timeRunning)
    BY <1>4 DEF SemWait
  <2>3. SwitchTyped
    BY <1>1, <2>1, <2>2, SwitchFromTyped DEF IInv, TypeOK
  <2>4. /\ Append(blocked[s], runningThread) \in Seq(Thread)
        /\ Len(Append(blocked[s], runningThread)) = Len(blocked[s]) + 1
    BY <1>1, <1>3
  <2>5. a1' \in [Proc -> Word]
    BY <1>1, <2>3, Words, ReturnsTyped
    DEF IInv, TypeOK, SemWait, Operation, SwitchTyped
  <2>6. blocked' \in [Sem -> Seq(Thread)] /\ val' \in [Sem -> Int]
    BY <1>2, <1>3, <2>2, <2>4 DEF IInv, TypeOK
  <2>7. TypeOK'
    BY <2>3, <2>5, <2>6
    DEF IInv, TypeOK, SemWait, threadVars, sleepVars, SwitchTyped, Mode
  <2>8. SemaphoreCount'
    <3> SUFFICES ASSUME NEW x \in Sem
                 PROVE  Len(blocked'[x]) = IF val'[x] < 0 THEN -val'[x] ELSE 0
      BY DEF SemaphoreCount
    <3>1. CASE x = s
      BY <1>2, <1>3, <1>4, <2>2, <2>4, <3>1 DEF IInv, TypeOK
    <3>2. CASE x # s
      BY <1>2, <2>2, <3>2 DEF IInv, TypeOK, SemaphoreCount
    <3> QED  BY <3>1, <3>2
  <2>9. AbsentAreZero'
    BY <1>1, <1>2 DEF IInv, TypeOK, AbsentAreZero
  <2> QED  BY <2>7, <2>8, <2>9 DEF IInv
<1>5. CASE ~(val[s] - 1 < 0)
  <2>1. UNCHANGED <<blocked, runVars>>
    BY <1>5 DEF SemWait
  <2>2. a1' \in [Proc -> Word]
    BY <2>1, Words, ReturnsTyped DEF IInv, TypeOK, SemWait, Operation, runVars
  <2>3. TypeOK'
    BY <1>2, <2>1, <2>2 DEF IInv, TypeOK, SemWait, threadVars, sleepVars, runVars
  <2>4. SemaphoreCount' /\ AbsentAreZero'
    BY <1>1, <1>2, <1>3, <1>5, <2>1 DEF IInv, TypeOK, SemaphoreCount, AbsentAreZero
  <2> QED  BY <2>3, <2>4 DEF IInv
<1> QED  BY <1>4, <1>5

LEMMA SignalStep ==
  ASSUME IInv, NEW s \in UserSem, SemSignal(s)
  PROVE  IInv'
<1>1. /\ s \in Sem /\ s \in open /\ Signal(s, 1)
      /\ UNCHANGED <<threadVars, runningThread, timeRunning, open, sleepVars, mode>>
  BY DEF Sem, SemSignal
<1>2. /\ linkedList' \in Seq(Thread)
      /\ status' \in [Proc -> State]
      /\ val' \in [Sem -> Int]
      /\ blocked' \in [Sem -> Seq(Thread)]
      /\ SemaphoreCount' /\ AbsentAreZero'
  BY <1>1, SignalEffect
<1>3. a1' \in [Proc -> Word]
  BY <1>1, Words, ReturnsTyped DEF IInv, TypeOK, SemSignal, Operation
<1>4. TypeOK'
  BY <1>1, <1>2, <1>3 DEF IInv, TypeOK, threadVars, sleepVars
<1> QED  BY <1>2, <1>4 DEF IInv

LEMMA SleepStep ==
  ASSUME IInv, NEW t \in SleepTime, TimeSleep(t)
  PROVE  IInv'
<1> DEFINE time == t % UIntLimit
<1>1. time \in Nat /\ runningThread \in Thread /\ runningThread \in Proc
  BY KernelAssumption DEF TimeSleep, UserTraps, Proc
<1>2. UNCHANGED <<threadVars, semVars>> /\ Returns(TIME_SLEEP, Ok)
  BY DEF TimeSleep
<1>3. CASE time # 0
  <2>1. /\ PutToSleep(runningThread, time)
        /\ SwitchFrom(linkedList, asleep', blocked,
                      [status EXCEPT ![runningThread] = "SLEEPING"], timeRunning)
    BY <1>3 DEF TimeSleep, Sleeps
  <2>2. asleep' \in Seq(Thread) /\ left' \in [Thread -> Nat]
    BY <1>1, <2>1, SleepersTyped DEF IInv, TypeOK
  <2>3. [status EXCEPT ![runningThread] = "SLEEPING"] \in [Proc -> State]
    BY DEF IInv, TypeOK, State
  <2>4. SwitchTyped
    BY <1>1, <2>1, <2>3, SwitchFromTyped DEF IInv, TypeOK
  <2>5. a1' \in [Proc -> Word]
    BY <1>2, <2>4, Words, ReturnsTyped DEF IInv, TypeOK, Operation, SwitchTyped
  <2>6. TypeOK'
    BY <1>2, <2>2, <2>4, <2>5
    DEF IInv, TypeOK, threadVars, semVars, SwitchTyped, Mode
  <2> QED  BY <1>2, <2>6, CountKept DEF IInv, semVars
<1>4. CASE time = 0
  <2>1. UNCHANGED <<sleepVars, runVars>>
    BY <1>4 DEF TimeSleep, Sleeps
  <2>2. a1' \in [Proc -> Word]
    BY <1>2, <2>1, Words, ReturnsTyped DEF IInv, TypeOK, Operation, runVars
  <2>3. TypeOK'
    BY <1>2, <2>1, <2>2 DEF IInv, TypeOK, threadVars, semVars, sleepVars, runVars
  <2> QED  BY <1>2, <2>3, CountKept DEF IInv, semVars
<1> QED  BY <1>3, <1>4

LEMMA TimerStep ==
  ASSUME IInv, TimerInterrupt
  PROVE  IInv'
<1> DEFINE tr == [timeRunning EXCEPT ![runningThread] =
                    IF @ < TimeSlice THEN @ + 1 ELSE @]
           q == linkedList \o Awakened
           st == Woken(status, Awakened)
<1>1. asleep' \in Seq(Thread) /\ left' \in [Thread -> Nat]
  BY SleepersTyped DEF IInv, TypeOK, TimerInterrupt
<1>2. q \in Seq(Thread)
  BY SleepersTyped, ConcatProperties DEF IInv, TypeOK
<1>3. st \in [Proc -> State]
  BY WokenTyped DEF IInv, TypeOK
<1>4. tr \in [Proc -> 0..TimeSlice]
  BY KernelAssumption DEF IInv, TypeOK
<1>5. a1' \in [Proc -> Word]
  BY Words DEF IInv, TypeOK, TimerInterrupt, Interrupts
<1>6. /\ IF tr[runningThread] >= TimeSlice
           THEN Dispatch(q, asleep', st, tr)
           ELSE /\ linkedList' = q
                /\ status' = st
                /\ timeRunning' = tr
                /\ UNCHANGED <<runningThread, isBeginning, mode>>
      /\ UNCHANGED <<created, isOver, semToSignal, semVars>>
  BY DEF TimerInterrupt
<1> HIDE DEF tr, q, st
<1>7. SwitchTyped /\ isBeginning' \in [Proc -> {0, 1}]
  <2>1. CASE tr[runningThread] >= TimeSlice
    BY <1>2, <1>3, <1>4, <1>6, <2>1, DispatchTyped DEF IInv, TypeOK
  <2>2. CASE ~(tr[runningThread] >= TimeSlice)
    BY <1>2, <1>3, <1>4, <1>6, <2>2 DEF IInv, TypeOK, SwitchTyped, Mode
  <2> QED  BY <2>1, <2>2
<1>8. TypeOK'
  BY <1>1, <1>5, <1>6, <1>7 DEF IInv, TypeOK, semVars, SwitchTyped, Mode
<1> QED  BY <1>6, <1>8, CountKept DEF IInv, semVars

LEMMA ConsoleInterruptStep ==
  ASSUME IInv, NEW n \in 0..MaxBurst, ConsoleInterrupt(n)
  PROVE  IInv'
<1>1. /\ n \in Nat
      /\ ConsoleSem \in Sem
      /\ open' = open \cup {ConsoleSem}
      /\ Signal(ConsoleSem, n)
      /\ UNCHANGED <<threadVars, runningThread, timeRunning, sleepVars, mode>>
  BY KernelAssumption DEF Sem, ConsoleInterrupt
<1>2. /\ linkedList' \in Seq(Thread)
      /\ status' \in [Proc -> State]
      /\ val' \in [Sem -> Int]
      /\ blocked' \in [Sem -> Seq(Thread)]
      /\ SemaphoreCount' /\ AbsentAreZero'
  BY <1>1, SignalEffect
<1>3. a1' \in [Proc -> Word]
  BY Words DEF IInv, TypeOK, ConsoleInterrupt, Interrupts
<1>4. TypeOK'
  BY <1>1, <1>2, <1>3 DEF IInv, TypeOK, threadVars, sleepVars
<1> QED  BY <1>2, <1>4 DEF IInv

LEMMA StutterStep == IInv /\ UNCHANGED vars => IInv'
BY DEF IInv, TypeOK, SemaphoreCount, AbsentAreZero, vars

LEMMA NextIInv == IInv /\ [Next]_vars => IInv'
<1> SUFFICES ASSUME IInv, [Next]_vars PROVE IInv'
  OBVIOUS
<1>1. CASE SystemCall
  <2>1. ASSUME NEW t \in Thread, ThreadCreate(t) \/ ThreadJoin(t) PROVE IInv'
    BY <2>1, CreateStep, JoinStep
  <2>2. CASE ThreadExit
    BY <2>2, ExitStep
  <2>3. CASE ThreadDispatch
    BY <2>3, DispatchStep
  <2>4. ASSUME NEW s \in UserSem, NEW init \in InitVal, SemOpen(s, init) PROVE IInv'
    BY <2>4, OpenStep
  <2>5. ASSUME NEW s \in UserSem, SemClose(s) \/ SemSignal(s) PROVE IInv'
    BY <2>5, CloseStep, SignalStep
  <2>6. ASSUME NEW s \in Sem, SemWait(s) PROVE IInv'
    BY <2>6, WaitStep
  <2>7. ASSUME NEW t \in SleepTime, TimeSleep(t) PROVE IInv'
    BY <2>7, SleepStep
  <2>8. ASSUME NEW code \in Operation,
               RejectedCall(code) \/ MemoryCall(code) \/ ConsoleCall(code)
        PROVE  IInv'
    BY <2>8, CallStep
  <2> QED
    BY <1>1, <2>1, <2>2, <2>3, <2>4, <2>5, <2>6, <2>7, <2>8 DEF SystemCall, Operation
<1>2. CASE TimerInterrupt
  BY <1>2, TimerStep
<1>3. ASSUME NEW n \in 0..MaxBurst, ConsoleInterrupt(n) PROVE IInv'
  BY <1>3, ConsoleInterruptStep
<1>4. CASE Stopped \/ UNCHANGED vars
  BY <1>4, StutterStep DEF Stopped
<1> QED  BY <1>1, <1>2, <1>3, <1>4 DEF Next

LEMMA InvariantHolds == Spec => []IInv
BY InitIInv, NextIInv, PTL DEF Spec

(* No handler stores anything of the wrong type, whatever the program: in  *)
(* particular getThread always hands out a thread, and signals never take  *)
(* more threads from a queue than it holds.                                *)
THEOREM TypeCorrect == Spec => []TypeOK
BY InvariantHolds, PTL DEF IInv

(* A semaphore's value tells the number of its waiters, however many       *)
(* threads wait, signal, close and are interrupted.                        *)
THEOREM CountCorrect == Spec => []SemaphoreCount
BY InvariantHolds, PTL DEF IInv

-----------------------------------------------------------------------------
(***************************************************************************)
(* Who holds the processor, and for how long: no user thread exceeds its   *)
(* time slice, and the idle thread runs only while something may still     *)
(* happen.  Both are inductive once the types are known.                   *)
(***************************************************************************)

ProcessorInv == QuantumBound /\ IdleAwaitsEvent

-----------------------------------------------------------------------------
(***************************************************************************)
(* What a change of the running thread establishes.                        *)
(***************************************************************************)

(* The idle thread is chosen only when the ready list is empty, and a user *)
(* thread starts with its time at 0.                                       *)
LEMMA SwitchGivesProcessor ==
  ASSUME runningThread \in Proc,
         NEW q \in Seq(Thread), NEW sl, NEW bl,
         NEW st \in [Proc -> State], NEW tr \in [Proc -> 0..TimeSlice],
         SwitchFrom(q, sl, bl, st, tr), mode' = "on"
  PROVE  /\ runningThread' \in Thread => timeRunning'[runningThread'] = 0
         /\ runningThread' = Idle => sl # << >> \/ bl[ConsoleSem] # << >>
<1>1. /\ ModeAfterGet(q, sl, bl) = "on"
      /\ runningThread' = NextThread(q)
      /\ timeRunning' = ResetTime(q, tr)
  BY DEF SwitchFrom
<1>2. CASE q = << >>
  BY <1>1, <1>2, KernelAssumption DEF NextThread, ModeAfterGet
<1>3. CASE q # << >>
  <2>1. Head(q) \in Thread /\ Head(q) \in Proc
    BY <1>3, HeadTailProperties DEF Proc
  <2>2. timeRunning' = [tr EXCEPT ![Head(q)] = 0] /\ runningThread' = Head(q)
    BY <1>1, <1>3 DEF NextThread, ResetTime
  <2> QED  BY <2>1, <2>2, KernelAssumption
<1> QED  BY <1>2, <1>3

(* A handler that calls getThread with the sleepers and the queues as it   *)
(* leaves them keeps both invariants.                                      *)
LEMMA SwitchKeeps ==
  ASSUME runningThread \in Proc,
         NEW q \in Seq(Thread),
         NEW st \in [Proc -> State], NEW tr \in [Proc -> 0..TimeSlice],
         SwitchFrom(q, asleep', blocked', st, tr)
  PROVE  ProcessorInv'
BY SwitchGivesProcessor, KernelAssumption
DEF ProcessorInv, QuantumBound, IdleAwaitsEvent

LEMMA DispatchKeeps ==
  ASSUME runningThread \in Proc, isBeginning \in [Proc -> {0, 1}],
         UNCHANGED blocked,
         NEW q \in Seq(Thread),
         NEW st \in [Proc -> State], NEW tr \in [Proc -> 0..TimeSlice],
         Dispatch(q, asleep', st, tr)
  PROVE  ProcessorInv'
<1> DEFINE r == PutThread(q, runningThread)
           next == NextThread(r)
           begun == IF isBeginning[next] = 1 THEN [tr EXCEPT ![next] = 0] ELSE tr
           ready == [st EXCEPT ![runningThread] = "READY"]
<1>1. r \in Seq(Thread)
  BY PutThreadTyped
<1>2. next \in Proc
  BY <1>1, HeadTailProperties DEF NextThread, Proc
<1>3. begun \in [Proc -> 0..TimeSlice]
  BY <1>2, KernelAssumption
<1>4. ready \in [Proc -> State]
  BY DEF State
<1>5. SwitchFrom(r, asleep', blocked', ready, begun)
  BY DEF Dispatch
<1> HIDE DEF r, begun, ready
<1> QED  BY <1>1, <1>3, <1>4, <1>5, SwitchKeeps

(* A system call that returns to its caller keeps them: the caller is a    *)
(* user thread, and its time does not change.                              *)
LEMMA SameThreadKeeps ==
  ASSUME ProcessorInv, UserTraps, UNCHANGED <<runningThread, timeRunning, mode>>
  PROVE  ProcessorInv'
BY KernelAssumption DEF ProcessorInv, QuantumBound, IdleAwaitsEvent, UserTraps

-----------------------------------------------------------------------------
(***************************************************************************)
(* The interrupts.                                                         *)
(***************************************************************************)

(* Two parts of a list are not both empty if the list is not.              *)
LEMMA PartsNotEmpty ==
  ASSUME NEW q \in Seq(Thread), q # << >>, NEW k \in 0..Len(q)
  PROVE  SubSeq(q, 1, k) # << >> \/ SubSeq(q, k + 1, Len(q)) # << >>
<1>1. Len(q) \in Nat /\ Len(q) # 0
  BY LenProperties, EmptySeq
<1>2. CASE k = 0
  <2>1. Len(SubSeq(q, k + 1, Len(q))) = Len(q)
    BY <1>1, <1>2, PartOfSeq
  <2> QED  BY <1>1, <2>1, EmptySeq
<1>3. CASE k > 0
  <2>1. Len(SubSeq(q, 1, k)) = k
    BY <1>1, <1>3, PartOfSeq
  <2> QED  BY <1>3, <2>1, EmptySeq
<1> QED  BY <1>2, <1>3

LEMMA AppendedNotEmpty ==
  ASSUME NEW q \in Seq(Thread), NEW r \in Seq(Thread), q # << >> \/ r # << >>
  PROVE  q \o r # << >>
BY LenProperties, EmptySeq, ConcatProperties

LEMMA TimerKeeps ==
  ASSUME IInv, ProcessorInv, TimerInterrupt
  PROVE  ProcessorInv'
<1> DEFINE tr == [timeRunning EXCEPT ![runningThread] =
                    IF @ < TimeSlice THEN @ + 1 ELSE @]
           q == linkedList \o Awakened
           st == Woken(status, Awakened)
<1>1. /\ runningThread \in Proc
      /\ linkedList \in Seq(Thread) /\ asleep \in Seq(Thread)
      /\ Awakened \in Seq(Thread)
  BY SleepersTyped DEF IInv, TypeOK
<1>2. q \in Seq(Thread)
  BY <1>1, ConcatProperties
<1>3. st \in [Proc -> State]
  BY WokenTyped DEF IInv, TypeOK
<1>4. tr \in [Proc -> 0..TimeSlice]
  BY KernelAssumption DEF IInv, TypeOK
<1>5. /\ IF tr[runningThread] >= TimeSlice
           THEN Dispatch(q, asleep', st, tr)
           ELSE /\ linkedList' = q
                /\ timeRunning' = tr
                /\ UNCHANGED <<runningThread, mode>>
      /\ UNCHANGED blocked
      /\ asleep' = SubSeq(asleep, Due + 1, Len(asleep))
      /\ mode = "on"
  BY DEF TimerInterrupt, Interrupts, UpdateTime, semVars
<1>6. CASE tr[runningThread] >= TimeSlice
  <2> HIDE DEF tr, q, st
  <2> QED  BY <1>1, <1>2, <1>3, <1>4, <1>5, <1>6, DispatchKeeps DEF IInv, TypeOK
<1>7. CASE ~(tr[runningThread] >= TimeSlice)
  <2>1. QuantumBound'
    <3>1. tr[runningThread] < TimeSlice
      BY <1>1, <1>4, <1>7, KernelAssumption
    <3> QED  BY <1>5, <1>7, <3>1 DEF QuantumBound
  <2>2. ASSUME runningThread' = Idle
        PROVE  linkedList' # << >> \/ asleep' # << >> \/ blocked'[ConsoleSem] # << >>
    <3>1. linkedList # << >> \/ asleep # << >> \/ blocked[ConsoleSem] # << >>
      BY <1>5, <1>7, <2>2 DEF ProcessorInv, IdleAwaitsEvent
    <3>2. asleep # << >> => Awakened # << >> \/ asleep' # << >>
      BY <1>1, <1>5, DueInRange, PartsNotEmpty DEF Awakened
    <3>3. linkedList # << >> \/ Awakened # << >> => q # << >>
      BY <1>1, AppendedNotEmpty
    <3> QED  BY <1>5, <1>7, <3>1, <3>2, <3>3
  <2> QED  BY <2>1, <2>2 DEF ProcessorInv, IdleAwaitsEvent
<1> QED  BY <1>6, <1>7

LEMMA ConsoleKeeps ==
  ASSUME IInv, ProcessorInv, NEW n \in 0..MaxBurst, ConsoleInterrupt(n)
  PROVE  ProcessorInv'
<1> DEFINE s == ConsoleSem
           k == Releases(s, n)
           freed == SubSeq(blocked[s], 1, k)
<1>1. /\ n \in Nat /\ s \in Sem /\ Signal(s, n)
      /\ s \in open' /\ open \subseteq open'
      /\ UNCHANGED <<runningThread, timeRunning, asleep, mode>>
  BY KernelAssumption DEF Sem, ConsoleInterrupt, sleepVars
<1>2. /\ blocked[s] \in Seq(Thread) /\ linkedList \in Seq(Thread)
      /\ k \in 0..Len(blocked[s])
  BY <1>1, SignalEffect DEF IInv, TypeOK
<1>3. /\ linkedList' = linkedList \o freed
      /\ blocked'[s] = SubSeq(blocked[s], k + 1, Len(blocked[s]))
  BY <1>1 DEF Signal, IInv, TypeOK
<1>4. freed \in Seq(Thread)
  BY <1>2, LenProperties, PartOfSeq
<1>5. blocked[s] # << >> => freed # << >> \/ blocked'[s] # << >>
  BY <1>2, <1>3, PartsNotEmpty
<1>6. linkedList # << >> \/ freed # << >> => linkedList' # << >>
  BY <1>2, <1>3, <1>4, AppendedNotEmpty
<1> QED
  BY <1>1, <1>5, <1>6 DEF ProcessorInv, QuantumBound, IdleAwaitsEvent

-----------------------------------------------------------------------------
(***************************************************************************)
(* The system calls that switch threads.                                   *)
(***************************************************************************)

LEMMA ExitKeeps ==
  ASSUME IInv, ThreadExit
  PROVE  ProcessorInv'
<1> DEFINE q == linkedList \o semToSignal[runningThread]
           st == Woken([status EXCEPT ![runningThread] = "EXITING"],
                       semToSignal[runningThread])
<1>1. runningThread \in Thread /\ runningThread \in Proc
  BY DEF ThreadExit, UserTraps, Proc
<1>2. q \in Seq(Thread)
  BY <1>1, ConcatProperties DEF IInv, TypeOK
<1>3. st \in [Proc -> State]
  BY WokenTyped DEF IInv, TypeOK, State
<1>4. SwitchFrom(q, asleep', blocked', st, timeRunning)
  BY DEF ThreadExit, semVars, sleepVars
<1> HIDE DEF q, st
<1> QED  BY <1>1, <1>2, <1>3, <1>4, SwitchKeeps DEF IInv, TypeOK

LEMMA ThreadDispatchKeeps ==
  ASSUME IInv, ThreadDispatch
  PROVE  ProcessorInv'
<1>1. /\ Dispatch(linkedList, asleep', status, timeRunning)
      /\ UNCHANGED blocked
  BY DEF ThreadDispatch, semVars, sleepVars
<1> QED  BY <1>1, DispatchKeeps DEF IInv, TypeOK

LEMMA JoinKeeps ==
  ASSUME IInv, NEW u \in Thread, ThreadJoin(u)
  PROVE  ProcessorInv'
<1> DEFINE st == [status EXCEPT ![runningThread] = "SUSPENDED"]
<1>1. st \in [Proc -> State]
  BY DEF IInv, TypeOK, State
<1>2. SwitchFrom(linkedList, asleep', blocked', st, timeRunning)
  BY DEF ThreadJoin, semVars, sleepVars
<1> HIDE DEF st
<1> QED  BY <1>1, <1>2, SwitchKeeps DEF IInv, TypeOK

LEMMA WaitKeeps ==
  ASSUME IInv, ProcessorInv, NEW s \in Sem, SemWait(s)
  PROVE  ProcessorInv'
<1> DEFINE st == [status EXCEPT ![runningThread] = "SUSPENDED"]
<1>1. CASE val[s] - 1 < 0
  <2>1. st \in [Proc -> State]
    BY DEF IInv, TypeOK, State
  <2>2. SwitchFrom(linkedList, asleep', blocked', st, timeRunning)
    BY <1>1 DEF SemWait, sleepVars
  <2> HIDE DEF st
  <2> QED  BY <2>1, <2>2, SwitchKeeps DEF IInv, TypeOK
<1>2. CASE ~(val[s] - 1 < 0)
  BY <1>2, SameThreadKeeps DEF SemWait, runVars
<1> QED  BY <1>1, <1>2

LEMMA SleepKeeps ==
  ASSUME IInv, ProcessorInv, NEW t \in SleepTime, TimeSleep(t)
  PROVE  ProcessorInv'
<1> DEFINE st == [status EXCEPT ![runningThread] = "SLEEPING"]
<1>1. CASE t % UIntLimit # 0
  <2>1. st \in [Proc -> State]
    BY DEF IInv, TypeOK, State
  <2>2. SwitchFrom(linkedList, asleep', blocked', st, timeRunning)
    BY <1>1 DEF TimeSleep, Sleeps, semVars
  <2> HIDE DEF st
  <2> QED  BY <2>1, <2>2, SwitchKeeps DEF IInv, TypeOK
<1>2. CASE t % UIntLimit = 0
  BY <1>2, SameThreadKeeps DEF TimeSleep, Sleeps, runVars
<1> QED  BY <1>1, <1>2

-----------------------------------------------------------------------------

LEMMA InitProcessor == Init => ProcessorInv
BY KernelAssumption
DEF Init, ProcessorInv, QuantumBound, IdleAwaitsEvent, Proc

LEMMA NextProcessor == IInv /\ ProcessorInv /\ [Next]_vars => ProcessorInv'
<1> SUFFICES ASSUME IInv, ProcessorInv, [Next]_vars PROVE ProcessorInv'
  OBVIOUS
<1>1. CASE SystemCall
  <2>1. ASSUME NEW t \in Thread, ThreadCreate(t) PROVE ProcessorInv'
    BY <2>1, SameThreadKeeps DEF ThreadCreate
  <2>2. ASSUME NEW s \in UserSem, NEW init \in InitVal, SemOpen(s, init)
        PROVE  ProcessorInv'
    BY <2>2, SameThreadKeeps DEF SemOpen, runVars
  <2>3. ASSUME NEW s \in UserSem, SemClose(s) \/ SemSignal(s) PROVE ProcessorInv'
    BY <2>3, SameThreadKeeps DEF SemClose, SemSignal
  <2>4. ASSUME NEW code \in Operation,
               RejectedCall(code) \/ MemoryCall(code) \/ ConsoleCall(code)
        PROVE  ProcessorInv'
    BY <2>4, SameThreadKeeps DEF RejectedCall, MemoryCall, ConsoleCall, runVars
  <2> QED
    BY <1>1, <2>1, <2>2, <2>3, <2>4, ExitKeeps, ThreadDispatchKeeps, JoinKeeps,
       WaitKeeps, SleepKeeps
    DEF SystemCall, Operation
<1>2. CASE TimerInterrupt
  BY <1>2, TimerKeeps
<1>3. ASSUME NEW n \in 0..MaxBurst, ConsoleInterrupt(n) PROVE ProcessorInv'
  BY <1>3, ConsoleKeeps
<1>4. CASE Stopped \/ UNCHANGED vars
  BY <1>4 DEF Stopped, vars, ProcessorInv, QuantumBound, IdleAwaitsEvent
<1> QED  BY <1>1, <1>2, <1>3, <1>4 DEF Next

(* No user thread keeps the processor for a whole time slice or longer, by *)
(* whatever way it got it and however the others block, sleep and end: the *)
(* reset in getThread reaches every one of those ways.                     *)
THEOREM SliceKept == Spec => []QuantumBound
BY InvariantHolds, InitProcessor, NextProcessor, PTL DEF Spec, ProcessorInv

(* The idle thread runs only while a ready thread, a sleeper or a thread   *)
(* that waits for input may take over, for any number of threads.          *)
THEOREM IdleNeverInVain == Spec => []IdleAwaitsEvent
BY InvariantHolds, InitProcessor, NextProcessor, PTL DEF Spec, ProcessorInv

=============================================================================
