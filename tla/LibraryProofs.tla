--------------------------- MODULE LibraryProofs ---------------------------
(***************************************************************************)
(* Proofs about the life of Thread objects, for every number of objects,   *)
(* every period and every size of the heap: what is still used is not      *)
(* freed, what is deleted is freed whole, a periodic thread is activated   *)
(* as Activations promises and comes to its end once terminate was called, *)
(* and the sleepers' list is used as SleepingThreads takes for granted.    *)
(* All of it is about programs that delete a thread only after join, which *)
(* the theorems name as DeletedAfterJoin.                                  *)
(***************************************************************************)
EXTENDS Library, FiniteSetTheorems, TLAPS

Place == {"runner", "body", "while", "time_sleep", "asleep", "awake", "activation",
          "exit", "over"}
Piece == {"object", "stack", "pcb", "context", "queue", "sem", "blocked"}
Step == {"stack", "queue", "context", "pcb", "object"}

Typed ==
  /\ program \in {<<"run", None>>} \cup ((Step \cup {"create", "join"}) \X Object)
  /\ joined \subseteq handle /\ handle \subseteq Object /\ waiting \subseteq Object
  /\ pc \in [Object -> Place]
  /\ period \in [Object -> {0, Pause}]
  /\ heap \subseteq Piece \X Object
  /\ left \in [Object -> Nat]
  /\ \A o \in Object : left[o] > 0 => pc[o] = "asleep"

(* The pieces of the thread behind a handle: all of them, until the        *)
(* destructor begins.                                                      *)
ThreadPieces(o) ==
  CASE program = <<"queue", o>>   -> {"queue", "context", "pcb"}
    [] program = <<"context", o>> -> {"context", "pcb"}
    [] program = <<"pcb", o>>     -> {"pcb"}
    [] program = <<"object", o>>  -> {}
    [] OTHER                      -> {"stack", "queue", "context", "pcb"}

(* Everything that is allocated for an object that is built.               *)
Pieces(o) ==
  {"object"}
    \cup (IF o \in handle THEN ThreadPieces(o)
          ELSE IF program = <<"create", o>> THEN {"stack"} ELSE {})
    \cup (IF o \in waiting THEN {"sem", "blocked"} ELSE {})

(* What the stages of an object's life have to do with each other.         *)
Life(o) ==
  /\ Alive(o) => Built(o) /\ o \in handle /\ o \notin joined
  /\ o \in waiting => program = <<"join", o>>
  /\ program = <<"join", o>> => Built(o) /\ o \in handle
  /\ program = <<"create", o>> => Built(o) /\ o \notin handle
  /\ \A s \in Step : program = <<s, o>> => Built(o) /\ ~Alive(o)
  /\ \A s \in Step \ {"object"} : program = <<s, o>> => o \in handle

Memory(o) == \A k \in Piece : <<k, o>> \in heap <=> (Built(o) /\ k \in Pieces(o))

IInv == Typed /\ (\A o \in Object : Life(o)) /\ (\A o \in Object : Memory(o))

-----------------------------------------------------------------------------

(* A thread is whole while its destructor has not begun.                   *)
LEMMA Whole ==
  ASSUME NEW o \in Object, \A s \in Step \ {"stack"} : program # <<s, o>>
  PROVE  ThreadPieces(o) = {"stack", "queue", "context", "pcb"}
BY DEF ThreadPieces, Step

LEMMA InitIInv == Init => IInv
BY LibraryAssumption
DEF Init, IInv, Typed, Life, Memory, Built, OfObject, Alive, Place, Piece, Step,
    Sleeping!SleepersInit

LEMMA NewIInv == ASSUME IInv, NEW o \in Object, New(o) PROVE IInv'
<1>1. Typed'
  BY LibraryAssumption DEF IInv, Typed, New, OfObject, Piece
<1>2. ASSUME NEW q \in Object PROVE Life(q)' /\ Memory(q)'
  BY LibraryAssumption, <1>2
  DEF IInv, Typed, New, Life, Memory, Pieces, ThreadPieces, Built, OfObject, Alive,
      Idle, Step, Piece
<1> QED  BY <1>1, <1>2 DEF IInv

LEMMA StartIInv == ASSUME IInv, NEW o \in Object, Start(o) PROVE IInv'
<1>1. Typed'
  BY LibraryAssumption DEF IInv, Typed, Start, OfStack, Piece
<1>2. ASSUME NEW q \in Object PROVE Life(q)' /\ Memory(q)'
  BY LibraryAssumption, <1>2
  DEF IInv, Typed, Start, Life, Memory, Pieces, ThreadPieces, Built, OfObject, OfStack,
      Alive, Idle, Step, Piece
<1> QED  BY <1>1, <1>2 DEF IInv

LEMMA ThreadCreateIInv == ASSUME IInv, NEW o \in Object, ThreadCreate(o) PROVE IInv'
<1>1. Typed'
  BY LibraryAssumption DEF IInv, Typed, ThreadCreate, OfPCB, Piece, Place, Life, Alive
<1>2. ASSUME NEW q \in Object PROVE Life(q)'
  BY LibraryAssumption, <1>2
  DEF IInv, Typed, ThreadCreate, Life, Built, OfObject, OfPCB, Alive, Step
<1>3. ASSUME NEW q \in Object PROVE Memory(q)'
  <2>1. /\ ThreadPieces(q)' = {"stack", "queue", "context", "pcb"}
        /\ ThreadPieces(q) = {"stack", "queue", "context", "pcb"}
    BY Whole DEF ThreadCreate, ThreadPieces, Step
  <2>2. Memory(q) /\ Life(o) /\ Life(q)
    BY DEF IInv
  <2>3. CASE q = o
    BY <2>1, <2>2, <2>3
    DEF ThreadCreate, Life, Memory, Pieces, Built, OfObject, OfPCB, Piece
  <2>4. CASE q # o
    BY <2>1, <2>2, <2>4
    DEF ThreadCreate, Memory, Pieces, Built, OfObject, OfPCB, Piece
  <2> QED  BY <2>3, <2>4
<1> QED  BY <1>1, <1>2, <1>3 DEF IInv

LEMMA JoinIInv == ASSUME IInv, NEW o \in Object, join(o) PROVE IInv'
<1>1. Typed'
  BY LibraryAssumption DEF IInv, Typed, join, WaitFor, OfSem, Piece
<1>2. ASSUME NEW q \in Object PROVE Life(q)' /\ Memory(q)'
  BY LibraryAssumption, <1>2
  DEF IInv, Typed, join, WaitFor, Life, Memory, Pieces, ThreadPieces, Built, OfObject,
      OfSem, Alive, Idle, Step, Piece
<1> QED  BY <1>1, <1>2 DEF IInv

LEMMA DeleteIInv ==
  ASSUME IInv, NEW o \in Object, Delete(o), DeletesJoined PROVE IInv'
<1>1. Typed'
  BY LibraryAssumption DEF IInv, Typed, Delete, Step
<1>2. ASSUME NEW q \in Object PROVE Life(q)' /\ Memory(q)'
  BY LibraryAssumption, <1>2
  DEF IInv, Typed, Delete, DeletesJoined, Life, Memory, Pieces, ThreadPieces, Built, OfObject,
      Alive, Idle, Step, Piece
<1> QED  BY <1>1, <1>2 DEF IInv

LEMMA FreeNextIInv == ASSUME IInv, FreeNext PROVE IInv'
<1>1. PICK s \in Step, o \in Object : program = <<s, o>>
  BY LibraryAssumption DEF IInv, Typed, FreeNext, After, Step
<1>2. /\ heap' = heap \ {<<s, o>>}
      /\ program' = <<After[s], IF After[s] = "run" THEN None ELSE o>>
      /\ UNCHANGED <<joined, handle, period, pc, waiting, faulted, asleep, left, clock>>
  BY <1>1 DEF FreeNext
<1>3. After[s] \in {"queue", "context", "pcb", "object", "run"}
  BY DEF After, Step
<1>4. Typed'
  BY <1>1, <1>2, <1>3 DEF IInv, Typed, Step
<1>5. ASSUME NEW q \in Object PROVE Life(q)'
  BY <1>1, <1>2, <1>3, LibraryAssumption
  DEF IInv, Life, Built, OfObject, Alive, Step, After
<1>6. ASSUME NEW q \in Object, q # o PROVE Memory(q)'
  <2>1. /\ ThreadPieces(q)' = ThreadPieces(q)
        /\ program # <<"create", q>> /\ program' # <<"create", q>>
    BY <1>1, <1>2, <1>3, <1>6, LibraryAssumption DEF ThreadPieces, Step
  <2>2. Pieces(q)' = Pieces(q) /\ Built(q)' = Built(q)
    BY <1>2, <1>6, <2>1 DEF Pieces, Built, OfObject
  <2> QED  BY <1>2, <1>6, <2>2 DEF IInv, Memory
<1>7. Memory(o)'
  <2>1. Memory(o) /\ Life(o) /\ o \notin waiting /\ (s # "object" => o \in handle) /\ Built(o)
    BY <1>1 DEF IInv, Life, Step
  <2>2. CASE s = "object"
    BY <1>1, <1>2, <2>1, <2>2
    DEF Memory, Pieces, ThreadPieces, Built, OfObject, Piece
  <2>3. CASE s = "stack"
    BY <1>1, <1>2, <2>1, <2>3
    DEF Memory, Pieces, ThreadPieces, Built, OfObject, Piece, After
  <2>4. CASE s = "queue"
    BY <1>1, <1>2, <2>1, <2>4
    DEF Memory, Pieces, ThreadPieces, Built, OfObject, Piece, After
  <2>5. CASE s = "context"
    BY <1>1, <1>2, <2>1, <2>5
    DEF Memory, Pieces, ThreadPieces, Built, OfObject, Piece, After
  <2>6. CASE s = "pcb"
    BY <1>1, <1>2, <2>1, <2>6
    DEF Memory, Pieces, ThreadPieces, Built, OfObject, Piece, After
  <2> QED  BY <2>2, <2>3, <2>4, <2>5, <2>6 DEF Step
<1> QED  BY <1>4, <1>5, <1>6, <1>7 DEF IInv

LEMMA ThreadExitIInv == ASSUME IInv, NEW o \in Object, ThreadExit(o) PROVE IInv'
<1>1. Alive(o) /\ pc' = [pc EXCEPT ![o] = "over"]
      /\ UNCHANGED <<handle, period, left>>
  BY DEF ThreadExit, Alive
<1>2. CASE o \in waiting
  <2>1. /\ program' = <<"run", None>> /\ joined' = joined \cup {o}
        /\ waiting' = waiting \ {o} /\ heap' = heap \ OfSem(o)
    BY <1>2 DEF ThreadExit, SignalJoiner
  <2>2. Typed'
    BY <1>1, <2>1 DEF IInv, Typed, Place, ThreadExit, Life
  <2>3. program = <<"join", o>>
    BY <1>2 DEF IInv, Life
  <2>4. ASSUME NEW q \in Object PROVE Life(q)'
    BY <1>1, <2>1, <2>3, LibraryAssumption
    DEF IInv, Typed, Life, Built, OfObject, OfSem, Alive, Step
  <2>5. ASSUME NEW q \in Object PROVE Memory(q)'
    <3>1. /\ ThreadPieces(q) = {"stack", "queue", "context", "pcb"}
          /\ ThreadPieces(q)' = {"stack", "queue", "context", "pcb"}
          /\ program # <<"create", q>> /\ program' # <<"create", q>>
      BY <2>1, <2>3, LibraryAssumption DEF ThreadPieces
    <3>2. Memory(q)
      BY DEF IInv
    <3> QED  BY <1>1, <1>2, <2>1, <3>1, <3>2
             DEF Memory, Pieces, Built, OfObject, OfSem, Piece
  <2> QED  BY <2>2, <2>4, <2>5 DEF IInv
<1>3. CASE o \notin waiting
  <2>1. UNCHANGED <<program, joined, waiting, heap>>
    BY <1>3 DEF ThreadExit, SignalJoiner
  <2>2. Typed'
    BY <1>1, <2>1 DEF IInv, Typed, Place, ThreadExit
  <2>3. ASSUME NEW q \in Object PROVE Life(q)' /\ Memory(q)'
    BY <1>1, <1>3, <2>1, <2>3
    DEF IInv, Typed, Life, Memory, Pieces, ThreadPieces, Built, OfObject, Alive
  <2> QED  BY <2>2, <2>3 DEF IInv
<1> QED  BY <1>2, <1>3

(* A thread that moves on, asleep or not, stays alive.                     *)
LEMMA MoveIInv ==
  ASSUME IInv, pc' \in [Object -> Place],
         \A q \in Object : pc[q] = "over" <=> pc'[q] = "over",
         left' \in [Object -> Nat], period' \in [Object -> {0, Pause}],
         \A q \in Object : left'[q] > 0 => pc'[q] = "asleep",
         UNCHANGED <<program, joined, handle, waiting, heap>>
  PROVE  IInv'
<1>1. Typed'
  BY DEF IInv, Typed
<1>2. ASSUME NEW q \in Object PROVE Life(q)' /\ Memory(q)'
  BY <1>2 DEF IInv, Life, Memory, Pieces, ThreadPieces, Built, OfObject, Alive
<1> QED  BY <1>1, <1>2 DEF IInv

LEMMA ThreadIInv == ASSUME IInv, NEW o \in Object, Thread(o) PROVE IInv'
<1> USE DEF IInv, Typed, Place
<1>1. CASE runner(o) \/ Body(o) \/ While(o) \/ Activate(o) \/ ActivationEnds(o)
  BY <1>1, MoveIInv DEF runner, Body, While, Activate, ActivationEnds, MovesTo
<1>2. CASE TimeSleep(o)
  <2>1. CASE Time(o) = 0
    BY <1>2, <2>1, MoveIInv DEF TimeSleep, MovesTo
  <2>2. CASE Time(o) # 0
    <3>1. Time(o) \in Nat
      BY LibraryAssumption DEF Time
    <3>2. left' = [left EXCEPT ![o] = Time(o)]
      BY <1>2, <2>2 DEF TimeSleep, Sleeping!PutToSleep
    <3> QED  BY <1>2, <2>2, <3>1, <3>2, MoveIInv DEF TimeSleep, MovesTo
  <2> QED  BY <2>1, <2>2
<1>3. CASE ThreadExit(o)
  BY <1>3, ThreadExitIInv
<1> QED  BY <1>1, <1>2, <1>3 DEF Thread

LEMMA TickIInv == ASSUME IInv, Tick PROVE IInv'
<1> USE DEF IInv, Typed, Place
<1>1. left' = [o \in Object |-> IF left[o] > 0 THEN left[o] - 1 ELSE 0]
  BY DEF Tick, Sleeping!UpdateTime
<1>2. /\ pc' = [o \in Object |-> IF left[o] = 1 THEN "awake" ELSE pc[o]]
      /\ UNCHANGED <<program, joined, handle, period, waiting, heap>>
  BY DEF Tick
<1> QED  BY <1>1, <1>2, MoveIInv

LEMMA NextIInv == IInv /\ [Next]_vars /\ [DeletesJoined]_vars => IInv'
<1> SUFFICES ASSUME IInv, [Next]_vars, [DeletesJoined]_vars PROVE IInv'
  OBVIOUS
<1>1. CASE UNCHANGED vars \/ Fault
  BY <1>1, MoveIInv DEF vars, Fault, IInv, Typed
<1>2. ASSUME NEW o \in Object, New(o) \/ Start(o) \/ ThreadCreate(o) PROVE IInv'
  BY <1>2, NewIInv, StartIInv, ThreadCreateIInv
<1>3. ASSUME NEW o \in Object, ~UNCHANGED vars, join(o) \/ Delete(o) PROVE IInv'
  BY <1>3, JoinIInv, DeleteIInv
<1>4. ASSUME NEW o \in Object, terminate(o) PROVE IInv'
  BY <1>4, MoveIInv DEF terminate, IInv, Typed
<1>5. CASE FreeNext
  BY <1>5, FreeNextIInv
<1>6. ASSUME NEW o \in Object, Thread(o) PROVE IInv'
  BY <1>6, ThreadIInv
<1>7. CASE Tick
  BY <1>7, TickIInv
<1> QED  BY <1>1, <1>2, <1>3, <1>4, <1>5, <1>6, <1>7 DEF Next, Program

LEMMA Inductive == Spec /\ DeletedAfterJoin => []IInv
BY InitIInv, NextIInv, PTL DEF Spec, DeletedAfterJoin

(* FairSpec, which TLC checks, is about such programs only.                *)
LEMMA FairSpecRuled == FairSpec => Spec /\ DeletedAfterJoin
<1>1. [Next /\ DeletesJoined]_vars => [Next]_vars /\ [DeletesJoined]_vars
  OBVIOUS
<1> QED  BY <1>1, PTL DEF FairSpec, Spec, DeletedAfterJoin

(* A program that starts an object once, joins only what it started and    *)
(* deletes it only after join has returned is safe, though ~Thread frees   *)
(* the PCB and the stack without asking whether the thread is over:        *)
(* wherever the threads are by then, the kernel never runs or signals what *)
(* is freed and no piece is freed twice.  Without the rule on delete,      *)
(* which nothing in the library checks, it does not hold.                  *)
THEOREM NothingDangles == Spec /\ DeletedAfterJoin => []NoDangling
<1>1. ASSUME IInv, NEW o \in Object
      PROVE  /\ Alive(o) => OfObject(o) \cup OfStack(o) \cup OfPCB(o) \subseteq heap
             /\ o \in waiting => OfPCB(o) \cup OfSem(o) \subseteq heap
             /\ program[1] \in DOMAIN After => program \in heap
  <2>1. Life(o) /\ Memory(o)
    BY <1>1 DEF IInv
  <2>2. ASSUME Alive(o)
        PROVE  OfObject(o) \cup OfStack(o) \cup OfPCB(o) \subseteq heap
    <3>1. ThreadPieces(o) = {"stack", "queue", "context", "pcb"}
      BY <2>1, <2>2, Whole DEF Life
    <3>2. \A k \in {"object", "stack", "queue", "context", "pcb"} : <<k, o>> \in heap
      BY <2>1, <2>2, <3>1 DEF Life, Memory, Pieces, Piece
    <3> QED  BY <3>2 DEF OfObject, OfStack, OfPCB
  <2>3. ASSUME o \in waiting PROVE OfPCB(o) \cup OfSem(o) \subseteq heap
    <3>1. ThreadPieces(o) = {"stack", "queue", "context", "pcb"}
      BY <2>1, <2>3, Whole DEF Life, Step
    <3>2. \A k \in {"queue", "context", "pcb", "sem", "blocked"} : <<k, o>> \in heap
      BY <2>1, <2>3, <3>1 DEF Life, Memory, Pieces, Piece
    <3> QED  BY <3>2 DEF OfPCB, OfSem
  <2>4. ASSUME program[1] \in DOMAIN After PROVE program \in heap
    <3>1. PICK s \in Step, q \in Object : program = <<s, q>>
      <4>1. DOMAIN After = Step
        BY DEF After, Step
      <4>2. program \in {<<"run", None>>} \cup ((Step \cup {"create", "join"}) \X Object)
        BY <1>1 DEF IInv, Typed
      <4>3. "run" \notin Step /\ "create" \notin Step /\ "join" \notin Step
        BY DEF Step
      <4> HIDE DEF Step
      <4> QED  BY <2>4, <4>1, <4>2, <4>3
    <3>2. Life(q) /\ Memory(q)
      BY <1>1 DEF IInv
    <3>3. Built(q) /\ s \in ThreadPieces(q) \cup {"object"}
                   /\ (s # "object" => q \in handle)
      BY <3>1, <3>2 DEF Life, ThreadPieces, Step
    <3>4. s \in Pieces(q) /\ s \in Piece
      BY <3>3 DEF Pieces, Piece, Step
    <3> QED  BY <3>1, <3>2, <3>3, <3>4 DEF Memory
  <2> QED  BY <2>2, <2>3, <2>4
<1>2. IInv => NoDangling
  BY <1>1 DEF NoDangling
<1> QED  BY <1>2, Inductive, PTL

(* A Thread deleted by that rule gives back everything that was allocated  *)
(* for it: its own memory, its thread's, and that of the semaphore of its  *)
(* join.                                                                   *)
THEOREM DeletedWhole == Spec /\ DeletedAfterJoin => []NothingLeaks
<1>1. IInv => NothingLeaks
  BY DEF IInv, Typed, Memory, NothingLeaks
<1> QED  BY <1>1, Inductive, PTL

-----------------------------------------------------------------------------
(***************************************************************************)
(* Periodic threads.                                                       *)
(***************************************************************************)

View == <<Wanted, Phase, TicksLeft, clock>>

(* How a thread looks that is at place p.                                  *)
PhaseAt(p) ==
  CASE p = "time_sleep"          -> "announced"
    [] p \in {"asleep", "awake"} -> "due"
    [] p = "activation"          -> "active"
    [] OTHER                     -> "between"

(* What a step changes of one thread.                                      *)
LEMMA PhaseOfOne ==
  ASSUME IInv, NEW o \in Object, NEW p \in Place, pc' = [pc EXCEPT ![o] = p]
  PROVE  Phase' = [Phase EXCEPT ![o] = PhaseAt(p)]
<1>1. Phase = [q \in Periodic |-> PhaseAt(pc[q])]
  BY Zenon DEF Phase, PhaseAt
<1>2. Phase' = [q \in Periodic |-> PhaseAt(pc'[q])]
  BY Zenon DEF Phase, PhaseAt
<1>3. \A q \in Periodic : q \in Object /\ pc'[q] = IF q = o THEN p ELSE pc[q]
  BY LibraryAssumption DEF IInv, Typed
<1> HIDE DEF PhaseAt
<1> QED  BY <1>1, <1>2, <1>3

(* Nobody sees a thread move between places that look the same.            *)
LEMMA Unseen ==
  ASSUME IInv, NEW o \in Object, NEW p \in Place, pc' = [pc EXCEPT ![o] = p],
         PhaseAt(p) = PhaseAt(pc[o]), UNCHANGED <<period, left, clock>>
  PROVE  UNCHANGED View
<1>1. Wanted' = Wanted /\ TicksLeft' = TicksLeft
  BY DEF Wanted, TicksLeft
<1>2. Phase' = Phase
  <2>1. \A q \in Periodic : Phase[q] = PhaseAt(pc[q])
    BY DEF Phase, PhaseAt
  <2>2. Phase' = [Phase EXCEPT ![o] = PhaseAt(p)]
    BY PhaseOfOne
  <2>3. Phase = [q \in Periodic |-> Phase[q]]
    BY DEF Phase
  <2> QED  BY <2>1, <2>2, <2>3
<1> QED  BY <1>1, <1>2 DEF View

(* What a step of a periodic thread looks like.                            *)
LEMMA Seen ==
  ASSUME IInv, NEW o \in Periodic, NEW p \in Place, pc' = [pc EXCEPT ![o] = p],
         UNCHANGED <<period, clock>>
  PROVE  Promise!MovesOn(o, PhaseAt(pc[o]), PhaseAt(p))
<1>1. o \in Object /\ Phase[o] = PhaseAt(pc[o])
  BY LibraryAssumption DEF Phase, PhaseAt
<1>2. Phase' = [Phase EXCEPT ![o] = PhaseAt(p)]
  BY <1>1, PhaseOfOne
<1>3. Wanted' = Wanted
  BY DEF Wanted
<1> QED  BY <1>1, <1>2, <1>3 DEF Promise!MovesOn

LEMMA ThreadPace ==
  ASSUME IInv, NEW o \in Object, Thread(o)
  PROVE  Promise!ActivationsNext \/ UNCHANGED View
<1>1. /\ pc \in [Object -> Place] /\ left \in [Object -> Nat]
      /\ period \in [Object -> {0, Pause}]
      /\ left[o] > 0 => pc[o] = "asleep"
      /\ Periodic \subseteq Object
  BY LibraryAssumption DEF IInv, Typed
<1>2. CASE runner(o) \/ Body(o) \/ ThreadExit(o) \/ (While(o) /\ period[o] = 0)
  <2>1. PICK p \in Place : pc' = [pc EXCEPT ![o] = p] /\ PhaseAt(p) = "between"
    BY <1>2 DEF runner, Body, ThreadExit, While, GoesOn, MovesTo, Place, PhaseAt
  <2>2. UNCHANGED <<period, left, clock>> /\ PhaseAt(pc[o]) = "between"
    BY <1>2 DEF runner, Body, ThreadExit, While, MovesTo, PhaseAt
  <2> QED  BY <1>1, <2>1, <2>2, Unseen
<1>3. ASSUME Activate(o) \/ ActivationEnds(o) \/ While(o) \/ TimeSleep(o), o \notin Periodic
      PROVE  UNCHANGED View
  <2>1. (\A q \in Periodic : pc'[q] = pc[q] /\ left'[q] = left[q])
          /\ UNCHANGED <<period, clock>>
    BY <1>1, <1>3
    DEF Activate, ActivationEnds, While, TimeSleep, MovesTo, Sleeping!PutToSleep
  <2>2. Phase' = Phase /\ TicksLeft' = TicksLeft /\ Wanted' = Wanted
    BY <2>1 DEF Phase, TicksLeft, Wanted
  <2> QED  BY <2>1, <2>2 DEF View
<1>4. ASSUME o \in Periodic, While(o), period[o] # 0 PROVE Promise!Announce(o)
  <2>1. /\ pc' = [pc EXCEPT ![o] = "time_sleep"] /\ "time_sleep" \in Place
        /\ PhaseAt(pc[o]) = "between" /\ PhaseAt("time_sleep") = "announced"
        /\ UNCHANGED <<period, left, clock>>
    BY <1>4 DEF While, GoesOn, MovesTo, Place, PhaseAt
  <2>2. Promise!MovesOn(o, "between", "announced")
    BY <1>4, <2>1, Seen
  <2>3. o \in Wanted /\ TicksLeft' = TicksLeft
    BY <1>4, <2>1 DEF Wanted, TicksLeft
  <2> QED  BY <2>2, <2>3 DEF Promise!Announce
<1>5. ASSUME o \in Periodic, TimeSleep(o) PROVE Promise!Rest(o) \/ Promise!Hurry(o)
  <2>1. \E p \in {"awake", "asleep"} : pc' = [pc EXCEPT ![o] = p]
    BY <1>5 DEF TimeSleep, MovesTo
  <2>2. /\ PhaseAt(pc[o]) = "announced" /\ UNCHANGED <<period, clock>>
        /\ {"awake", "asleep"} \subseteq Place
        /\ PhaseAt("awake") = "due" /\ PhaseAt("asleep") = "due"
    BY <1>5 DEF TimeSleep, MovesTo, Place, PhaseAt
  <2>3. Promise!MovesOn(o, "announced", "due")
    BY <1>5, <2>1, <2>2, Seen
  <2>4. CASE period[o] = 0
    <3>1. left' = left /\ o \notin Wanted
      BY <1>5, <2>4 DEF TimeSleep, Time, Wanted
    <3> QED  BY <2>3, <3>1 DEF Promise!Hurry, TicksLeft
  <2>5. CASE period[o] # 0
    <3>1. left' = [left EXCEPT ![o] = Pause] /\ o \in Wanted
      BY <1>1, <1>5, <2>5 DEF TimeSleep, Time, Wanted, Sleeping!PutToSleep
    <3>2. TicksLeft' = [TicksLeft EXCEPT ![o] = Pause]
      BY <1>1, <3>1 DEF TicksLeft
    <3> QED  BY <2>3, <3>1, <3>2 DEF Promise!Rest
  <2> QED  BY <2>4, <2>5
<1>6. ASSUME o \in Periodic, Activate(o) PROVE Promise!Activate(o)
  <2>1. /\ pc[o] = "awake" /\ pc' = [pc EXCEPT ![o] = "activation"] /\ "activation" \in Place
        /\ PhaseAt(pc[o]) = "due" /\ PhaseAt("activation") = "active"
        /\ UNCHANGED <<period, left, clock>>
    BY <1>6 DEF Activate, MovesTo, Place, PhaseAt
  <2>2. Promise!MovesOn(o, "due", "active")
    BY <1>6, <2>1, Seen
  <2>3. TicksLeft[o] = 0 /\ TicksLeft' = TicksLeft
    BY <1>1, <1>6, <2>1 DEF TicksLeft
  <2> QED  BY <2>2, <2>3 DEF Promise!Activate
<1>7. ASSUME o \in Periodic, ActivationEnds(o) PROVE Promise!Done(o)
  <2>1. /\ pc' = [pc EXCEPT ![o] = "while"] /\ "while" \in Place
        /\ PhaseAt(pc[o]) = "active" /\ PhaseAt("while") = "between"
        /\ UNCHANGED <<period, left, clock>>
    BY <1>7 DEF ActivationEnds, MovesTo, Place, PhaseAt
  <2>2. Promise!MovesOn(o, "active", "between")
    BY <1>7, <2>1, Seen
  <2> QED  BY <2>1, <2>2 DEF Promise!Done, TicksLeft
<1> QED  BY <1>2, <1>3, <1>4, <1>5, <1>6, <1>7 DEF Thread, Promise!ActivationsNext

(* A tick shortens every pause that has begun.                             *)
LEMMA TickPace ==
  ASSUME IInv, Tick
  PROVE  Promise!Tick
<1>1. /\ pc \in [Object -> Place] /\ left \in [Object -> Nat]
      /\ \A o \in Object : left[o] > 0 => pc[o] = "asleep"
      /\ Periodic \subseteq Object
      /\ left' = [t \in Object |-> IF left[t] > 0 THEN left[t] - 1 ELSE 0]
      /\ pc' = [o \in Object |-> IF left[o] = 1 THEN "awake" ELSE pc[o]]
      /\ clock' = 1 - clock /\ period' = period
  BY LibraryAssumption DEF IInv, Typed, Tick, Sleeping!UpdateTime
<1>2. ASSUME NEW o \in Periodic
      PROVE  /\ o \in Object /\ left[o] \in Nat
             /\ pc'[o] = IF left[o] = 1 THEN "awake" ELSE pc[o]
             /\ left'[o] = IF left[o] > 0 THEN left[o] - 1 ELSE 0
             /\ left[o] > 0 => pc[o] = "asleep"
  BY <1>1
<1>3. Wanted' = Wanted
  BY <1>1 DEF Wanted
<1>4. Phase' = Phase
  BY <1>2 DEF Phase
<1>5. TicksLeft' = [o \in Periodic |-> IF TicksLeft[o] > 0 THEN TicksLeft[o] - 1 ELSE 0]
  BY <1>2 DEF TicksLeft
<1> QED  BY <1>1, <1>3, <1>4, <1>5 DEF Promise!Tick

LEMMA NextPace == IInv /\ [Next]_vars => [Promise!ActivationsNext]_View
<1> SUFFICES ASSUME IInv, [Next]_vars
             PROVE  Promise!ActivationsNext \/ UNCHANGED View
  OBVIOUS
<1>1. /\ pc \in [Object -> Place] /\ left \in [Object -> Nat]
      /\ period \in [Object -> {0, Pause}] /\ Periodic \subseteq Object /\ Pause # 0
  BY LibraryAssumption DEF IInv, Typed
<1>2. CASE UNCHANGED <<pc, period, left, clock>>
  BY <1>2 DEF View, Wanted, Phase, TicksLeft
<1>3. ASSUME NEW o \in Object, New(o) PROVE Promise!ActivationsNext \/ UNCHANGED View
  <2>1. /\ period' = [period EXCEPT ![o] = IF o \in Periodic THEN Pause ELSE 0]
        /\ UNCHANGED <<pc, left, clock>> /\ pc[o] = "over"
    BY <1>3 DEF New, IInv, Life, Alive
  <2>2. Phase' = Phase /\ TicksLeft' = TicksLeft
    BY <1>1, <2>1 DEF Phase, TicksLeft
  <2>3. CASE o \in Periodic
    <3>1. Wanted' = Wanted \cup {o} /\ Phase[o] = "between"
      BY <1>1, <2>1, <2>3 DEF Wanted, Phase
    <3>2. Promise!Renew(o)
      BY <2>1, <2>2, <3>1 DEF Promise!Renew
    <3> QED  BY <2>3, <3>2 DEF Promise!ActivationsNext
  <2>4. CASE o \notin Periodic
    <3>1. Wanted' = Wanted
      BY <1>1, <2>1, <2>4 DEF Wanted
    <3> QED  BY <2>1, <2>2, <3>1 DEF View
  <2> QED  BY <2>3, <2>4
<1>4. ASSUME NEW o \in Object, ThreadCreate(o) PROVE UNCHANGED View
  <2>1. /\ pc' = [pc EXCEPT ![o] = "runner"] /\ "runner" \in Place
        /\ UNCHANGED <<period, left, clock>> /\ pc[o] = "over"
    BY <1>4 DEF ThreadCreate, IInv, Life, Alive, Place
  <2>2. PhaseAt("runner") = PhaseAt(pc[o])
    BY <2>1 DEF PhaseAt
  <2> QED  BY <1>1, <2>1, <2>2, Unseen
<1>5. ASSUME NEW o \in Object, terminate(o) PROVE Promise!ActivationsNext
  <2>1. /\ o \in Periodic /\ period' = [period EXCEPT ![o] = 0]
        /\ UNCHANGED <<pc, left, clock>>
    BY <1>5 DEF terminate
  <2>2. Wanted' = Wanted \ {o} /\ Phase' = Phase
    BY <1>1, <2>1 DEF Wanted, Phase
  <2>3. TicksLeft' = TicksLeft
    BY <2>1 DEF TicksLeft
  <2>4. Promise!Stop(o)
    BY <2>1, <2>2, <2>3 DEF Promise!Stop
  <2> QED  BY <2>1, <2>4 DEF Promise!ActivationsNext
<1>6. ASSUME NEW o \in Object, Thread(o) PROVE Promise!ActivationsNext \/ UNCHANGED View
  BY <1>6, ThreadPace
<1>7. CASE Tick
  BY <1>7, TickPace DEF Promise!ActivationsNext
<1>8. ASSUME NEW o \in Object, Start(o) \/ join(o) \/ Delete(o)
      PROVE  UNCHANGED <<pc, period, left, clock>>
  BY <1>8 DEF Start, join, Delete
<1>9. CASE FreeNext \/ Fault \/ UNCHANGED vars
  BY <1>2, <1>9 DEF FreeNext, Fault, vars
<1> QED  BY <1>2, <1>3, <1>4, <1>5, <1>6, <1>7, <1>8, <1>9 DEF Next, Program

(* PeriodicThread implements Activations, wherever terminate comes: a      *)
(* thread whose period is not 0 when it reaches time_sleep pauses for a    *)
(* whole period before its activation, and after terminate at most the one *)
(* activation follows that the test of period had let through, with no     *)
(* pause exactly if terminate fell between that test and time_sleep.       *)
THEOREM PaceKept == Spec /\ DeletedAfterJoin => KeepsPace
<1>1. Init => Promise!ActivationsInit
  BY LibraryAssumption
  DEF Init, Promise!ActivationsInit, Wanted, Phase, TicksLeft, Sleeping!SleepersInit
<1>2. IInv /\ [Next]_vars => [Promise!ActivationsNext]_View
  BY NextPace
<1> QED  BY <1>1, <1>2, Inductive, PTL
         DEF Spec, DeletedAfterJoin, KeepsPace, Promise!ActivationsSpec, View

-----------------------------------------------------------------------------
(***************************************************************************)
(* The heap's size and the sleepers' times.                                *)
(***************************************************************************)

InRoom == IsFiniteSet(heap) /\ Size(heap) <= Room
InTime == \A o \in Object : left[o] <= Pause /\ (pc[o] = "asleep" => left[o] > 0)
Bounded == InRoom /\ InTime /\ faulted \in BOOLEAN /\ clock \in {0, 1}

(* What is left of the pieces is not larger.                               *)
LEMMA SizeOfPart ==
  ASSUME NEW S, IsFiniteSet(S), NEW T \in SUBSET S
  PROVE  IsFiniteSet(T) /\ Size(T) \in Nat /\ Size(S) \in Nat /\ Size(T) <= Size(S)
<1> DEFINE Stacks(U) == {x \in U : x[1] = "stack"}
<1>1. IsFiniteSet(T) /\ IsFiniteSet(Stacks(S)) /\ IsFiniteSet(Stacks(T))
  <2>1. Stacks(S) \in SUBSET S /\ Stacks(T) \in SUBSET S
    OBVIOUS
  <2> QED  BY <2>1, FS_Subset
<1>2. Cardinality(T) <= Cardinality(S) /\ Cardinality(Stacks(T)) <= Cardinality(Stacks(S))
  <2>1. Stacks(T) \in SUBSET Stacks(S)
    OBVIOUS
  <2> HIDE DEF Stacks
  <2> QED  BY <1>1, <2>1, FS_Subset
<1>3. /\ Cardinality(S) \in Nat /\ Cardinality(T) \in Nat
      /\ Cardinality(Stacks(S)) \in Nat /\ Cardinality(Stacks(T)) \in Nat
  BY <1>1, FS_CardinalityType
<1>4. \A k, m, n \in Nat : m <= n => k * m <= k * n
  OBVIOUS
<1>5. Stack - 1 \in Nat
  BY LibraryAssumption
<1>6. /\ Size(S) = Cardinality(S) + (Stack - 1) * Cardinality(Stacks(S))
      /\ Size(T) = Cardinality(T) + (Stack - 1) * Cardinality(Stacks(T))
  BY DEF Size
<1> HIDE DEF Stacks
<1>7. (Stack - 1) * Cardinality(Stacks(T)) <= (Stack - 1) * Cardinality(Stacks(S))
  BY <1>2, <1>3, <1>4, <1>5
<1>8. \A k, m \in Nat : k * m \in Nat
  OBVIOUS
<1>9. /\ (Stack - 1) * Cardinality(Stacks(T)) \in Nat
      /\ (Stack - 1) * Cardinality(Stacks(S)) \in Nat
  BY <1>3, <1>5, <1>8
<1> QED  BY <1>1, <1>2, <1>3, <1>6, <1>7, <1>9

(* What is allocated fits, and there is an end to it.                      *)
LEMMA TakenFits ==
  ASSUME InRoom, NEW o \in Object,
         NEW S \in {OfObject(o), OfStack(o), OfPCB(o), OfSem(o)},
         Fits(S), heap' = heap \cup S
  PROVE  InRoom'
<1>1. IsFiniteSet(S)
  <2>1. \A x, y : IsFiniteSet({x} \cup {y})
    BY FS_Singleton, FS_AddElement
  <2>2. \A x, y, z : IsFiniteSet(({x} \cup {y}) \cup {z})
    BY <2>1, FS_AddElement
  <2>3. IsFiniteSet(OfPCB(o)) /\ IsFiniteSet(OfSem(o))
    <3>1. OfPCB(o) = ({<<"pcb", o>>} \cup {<<"context", o>>}) \cup {<<"queue", o>>}
      BY DEF OfPCB
    <3>2. OfSem(o) = {<<"sem", o>>} \cup {<<"blocked", o>>}
      BY DEF OfSem
    <3>3. IsFiniteSet(({<<"pcb", o>>} \cup {<<"context", o>>}) \cup {<<"queue", o>>})
      BY <2>2
    <3>4. IsFiniteSet({<<"sem", o>>} \cup {<<"blocked", o>>})
      BY <2>1
    <3> QED  BY <3>1, <3>2, <3>3, <3>4, Zenon
  <2>4. IsFiniteSet(OfObject(o)) /\ IsFiniteSet(OfStack(o))
    BY FS_Singleton DEF OfObject, OfStack
  <2> QED  BY <2>3, <2>4
<1>2. IsFiniteSet(heap \cup S)
  BY <1>1, FS_Union DEF InRoom
<1>3. Size(heap') = Size(heap \cup S)
  BY DEF Size
<1> QED  BY <1>2, <1>3 DEF InRoom, Fits

LEMMA FreedFits == ASSUME InRoom, heap' \subseteq heap PROVE InRoom'
<1>1. /\ IsFiniteSet(heap') /\ Size(heap') \in Nat /\ Size(heap) \in Nat
      /\ Size(heap') <= Size(heap)
  BY SizeOfPart DEF InRoom
<1>2. Size(heap)' = Size(heap')
  BY DEF Size
<1> QED  BY <1>1, <1>2, LibraryAssumption DEF InRoom

LEMMA NextBounded == IInv /\ Bounded /\ [Next]_vars => Bounded'
<1> SUFFICES ASSUME IInv, Bounded, [Next]_vars PROVE Bounded'
  OBVIOUS
<1>1. /\ pc \in [Object -> Place] /\ left \in [Object -> Nat]
      /\ period \in [Object -> {0, Pause}] /\ Pause \in Nat \ {0}
  BY LibraryAssumption DEF IInv, Typed
<1>2. faulted' \in BOOLEAN /\ clock' \in {0, 1}
  <2>1. faulted' \in {faulted, TRUE} /\ clock' \in {clock, 1 - clock}
    BY DEF Next, Program, New, Start, ThreadCreate, terminate, join, Delete, FreeNext,
           Fault, Tick, Thread, runner, Body, While, TimeSleep, Activate, ActivationEnds,
           MovesTo, ThreadExit, vars
  <2>2. faulted' \in BOOLEAN
    BY <2>1, Zenon DEF Bounded
  <2>3. clock' \in {0, 1}
    BY <2>1 DEF Bounded
  <2> QED  BY <2>2, <2>3
<1>3. InRoom'
  <2>1. ASSUME NEW o \in Object, New(o) \/ Start(o) \/ ThreadCreate(o) \/ join(o)
        PROVE  InRoom'
    <3>1. \E S \in {OfObject(o), OfStack(o), OfPCB(o), OfSem(o)} :
             Fits(S) /\ heap' = heap \cup S
      BY <2>1 DEF New, Start, ThreadCreate, join
    <3> QED  BY <3>1, TakenFits DEF Bounded
  <2>2. ASSUME NEW o \in Object, terminate(o) \/ Delete(o) \/ Thread(o)
        PROVE  heap' \subseteq heap
    BY <2>2 DEF terminate, Delete, Thread, runner, Body, While, TimeSleep, Activate,
                ActivationEnds, MovesTo, ThreadExit, SignalJoiner
  <2>3. CASE FreeNext \/ Fault \/ Tick \/ UNCHANGED vars
    <3>1. heap' \subseteq heap
      BY <2>3 DEF FreeNext, Fault, Tick, vars
    <3> QED  BY <3>1, FreedFits DEF Bounded
  <2> QED  BY <2>1, <2>2, <2>3, FreedFits DEF Bounded, Next, Program
<1>4. InTime'
  <2>1. CASE UNCHANGED left /\ \A q \in Object : pc'[q] = "asleep" => pc[q] = "asleep"
    BY <2>1 DEF Bounded, InTime
  <2>2. ASSUME Program
        PROVE  UNCHANGED left /\ \A q \in Object : pc'[q] = "asleep" => pc[q] = "asleep"
    BY <1>1, <2>2 DEF Program, New, Start, ThreadCreate, terminate, join, Delete,
                      FreeNext, Fault
  <2>3. ASSUME NEW o \in Object, Thread(o)
        PROVE  InTime'
    <3>1. CASE pc[o] = "time_sleep" /\ Time(o) # 0
      <4>1. /\ left' = [left EXCEPT ![o] = Pause] /\ pc' = [pc EXCEPT ![o] = "asleep"]
        BY <1>1, <2>3, <3>1
        DEF Thread, runner, Body, While, TimeSleep, Activate, ActivationEnds, ThreadExit,
            MovesTo, Time, Sleeping!PutToSleep
      <4> QED  BY <1>1, <4>1 DEF Bounded, InTime
    <3>2. CASE ~(pc[o] = "time_sleep" /\ Time(o) # 0)
      <4>1. \E p \in Place : p # "asleep" /\ pc' = [pc EXCEPT ![o] = p] /\ left' = left
        BY <2>3, <3>2
        DEF Thread, runner, Body, While, TimeSleep, Activate, ActivationEnds, ThreadExit,
            MovesTo, Place
      <4> QED  BY <1>1, <2>1, <4>1
    <3> QED  BY <3>1, <3>2
  <2>4. CASE Tick
    <3>1. ASSUME NEW q \in Object
          PROVE  /\ left'[q] = IF left[q] > 0 THEN left[q] - 1 ELSE 0
                 /\ pc'[q] = IF left[q] = 1 THEN "awake" ELSE pc[q]
      BY <2>4 DEF Tick, Sleeping!UpdateTime
    <3>2. ASSUME NEW q \in Object
          PROVE  left'[q] <= Pause /\ (pc'[q] = "asleep" => left'[q] > 0)
      <4>1. left[q] \in Nat /\ left[q] <= Pause /\ (pc[q] = "asleep" => left[q] > 0)
        BY <1>1 DEF Bounded, InTime
      <4> QED  BY <1>1, <3>1, <4>1
    <3> QED  BY <3>2 DEF InTime
  <2>5. CASE UNCHANGED vars
    BY <2>1, <2>5 DEF vars
  <2> QED  BY <2>1, <2>2, <2>3, <2>4, <2>5 DEF Next, Program
<1> QED  BY <1>2, <1>3, <1>4 DEF Bounded

LEMMA BoundsHold == Spec /\ DeletedAfterJoin => []Bounded
<1>1. Init => Bounded
  <2>1. ASSUME Init PROVE InRoom
    <3>1. heap = {} /\ {x \in heap : x[1] = "stack"} = {}
      BY <2>1 DEF Init
    <3>2. Size(heap) = 0 + (Stack - 1) * 0
      BY <3>1, FS_EmptySet DEF Size
    <3> QED  BY <3>1, <3>2, FS_EmptySet, LibraryAssumption DEF InRoom
  <2>2. ASSUME Init PROVE InTime /\ clock \in {0, 1}
    BY <2>2, LibraryAssumption DEF Init, InTime, Sleeping!SleepersInit
  <2>3. ASSUME Init PROVE faulted \in BOOLEAN
    BY <2>3 DEF Init
  <2> QED  BY <2>1, <2>2, <2>3 DEF Bounded
<1> QED  BY <1>1, NextBounded, Inductive, PTL DEF Spec, DeletedAfterJoin

(* Every variable stays within its type: above all, what is allocated      *)
(* never exceeds the heap, and exactly the sleepers have ticks left.       *)
THEOREM LibraryTyped == Spec /\ DeletedAfterJoin => []TypeOK
<1>1. IInv /\ Bounded => TypeOK
  <2> SUFFICES ASSUME IInv, Bounded PROVE TypeOK
    OBVIOUS
  <2>1. DOMAIN After = Step
    BY DEF After, Step
  <2>2. ASSUME NEW o \in Object
        PROVE  left[o] \in 0..Pause /\ (left[o] > 0 <=> pc[o] = "asleep")
    BY LibraryAssumption DEF IInv, Typed, Bounded, InTime
  <2>3. joined \subseteq Object
    BY DEF IInv, Typed
  <2> QED  BY <2>1, <2>2, <2>3 DEF IInv, Typed, Bounded, InRoom, TypeOK, Place, Piece
<1> QED  BY <1>1, BoundsHold, Inductive, PTL

-----------------------------------------------------------------------------
(***************************************************************************)
(* The end of a periodic thread.                                           *)
(***************************************************************************)

(* A periodic thread runs PeriodicThread::run, no body of a program's own. *)
NoBody == \A o \in Periodic : pc[o] # "body"

LEMMA NextNoBody == IInv /\ NoBody /\ [Next]_vars => NoBody'
<1> SUFFICES ASSUME IInv, NoBody, [Next]_vars, NEW o \in Periodic PROVE pc'[o] # "body"
  BY DEF NoBody
<1>1. o \in Object /\ pc \in [Object -> Place] /\ pc[o] # "body"
  BY LibraryAssumption DEF IInv, Typed, NoBody
<1>2. CASE Program
  BY <1>1, <1>2 DEF Program, New, Start, ThreadCreate, terminate, join, Delete, FreeNext, Fault
<1>3. ASSUME NEW q \in Object, Thread(q) PROVE pc'[o] # "body"
  <2>1. \E p \in Place : pc' = [pc EXCEPT ![q] = p] /\ (p = "body" => q \notin Periodic)
    BY <1>3 DEF Thread, runner, Body, While, TimeSleep, Activate, ActivationEnds, ThreadExit,
                MovesTo, Place
  <2> QED  BY <1>1, <2>1
<1>4. CASE Tick
  BY <1>1, <1>4 DEF Tick
<1>5. CASE UNCHANGED vars
  BY <1>1, <1>5 DEF vars
<1> QED  BY <1>2, <1>3, <1>4, <1>5 DEF Next

LEMMA StepsTyped ==
  ASSUME IInv, NEW o \in Object
  PROVE  /\ pc \in [Object -> Place] /\ left \in [Object -> Nat] /\ left[o] \in Nat
         /\ left[o] > 0 => pc[o] = "asleep"
         /\ period \in [Object -> {0, Pause}]
BY DEF IInv, Typed

(* How many steps are left of a thread at place p with n ticks to sleep.   *)
StepsAt(p, n) ==
  CASE p = "asleep"                   -> n + 4
    [] p = "time_sleep"               -> 5
    [] p = "awake"                    -> 4
    [] p \in {"runner", "activation"} -> 3
    [] p = "while"                    -> 2
    [] p = "exit"                     -> 1
    [] OTHER                          -> 0

LEMMA StepsAre ==
  ASSUME NEW o \in Object
  PROVE  /\ StepsToEnd(o) = StepsAt(pc[o], left[o])
         /\ StepsToEnd(o)' = StepsAt(pc'[o], left'[o])
<1>1. StepsToEnd(o) = StepsAt(pc[o], left[o])
  BY Zenon DEF StepsToEnd, StepsAt
<1>2. StepsToEnd(o)' = StepsAt(pc'[o], left'[o])
  BY Zenon DEF StepsToEnd, StepsAt
<1> QED  BY <1>1, <1>2

(* Every step of its own brings it nearer.                                 *)
LEMMA ThreadNearer ==
  ASSUME IInv, NoBody, NEW o \in Periodic, period[o] = 0, Thread(o)
  PROVE  StepsToEnd(o)' < StepsToEnd(o)
<1>1. /\ o \in Object /\ pc \in [Object -> Place] /\ pc[o] # "body"
  BY LibraryAssumption DEF IInv, Typed, NoBody
<1>2. \/ pc[o] = "runner" /\ pc' = [pc EXCEPT ![o] = "while"]
      \/ pc[o] = "while" /\ pc' = [pc EXCEPT ![o] = "exit"]
      \/ pc[o] = "time_sleep" /\ pc' = [pc EXCEPT ![o] = "awake"]
      \/ pc[o] = "awake" /\ pc' = [pc EXCEPT ![o] = "activation"]
      \/ pc[o] = "activation" /\ pc' = [pc EXCEPT ![o] = "while"]
      \/ pc[o] = "exit" /\ pc' = [pc EXCEPT ![o] = "over"]
  BY <1>1 DEF Thread, runner, Body, While, GoesOn, TimeSleep, Time, Activate, ActivationEnds,
              ThreadExit, MovesTo
<1>3. StepsAt(pc'[o], left'[o]) < StepsAt(pc[o], left[o])
  BY <1>1, <1>2 DEF StepsAt
<1> QED  BY <1>1, <1>3, StepsAre

(* So does every tick it sleeps through, and none takes it back.           *)
LEMMA TickNearer ==
  ASSUME IInv, Bounded, NEW o \in Periodic, Tick
  PROVE  /\ StepsToEnd(o)' <= StepsToEnd(o)
         /\ pc[o] = "asleep" => StepsToEnd(o)' < StepsToEnd(o)
         /\ UNCHANGED period
<1>1. /\ o \in Object /\ left[o] \in Nat /\ (left[o] > 0 <=> pc[o] = "asleep")
      /\ pc[o] \in Place
  BY LibraryAssumption DEF IInv, Typed, Bounded, InTime
<1>2. /\ left'[o] = IF left[o] > 0 THEN left[o] - 1 ELSE 0
      /\ pc'[o] = IF left[o] = 1 THEN "awake" ELSE pc[o]
      /\ UNCHANGED period
  BY <1>1 DEF Tick, Sleeping!UpdateTime
<1>3. CASE pc[o] = "asleep"
  BY <1>1, <1>2, <1>3, StepsAre DEF StepsAt
<1>4. CASE pc[o] # "asleep"
  <2>1. pc'[o] = pc[o] /\ left'[o] = left[o]
    BY <1>1, <1>2, <1>4
  <2>2. StepsAt(pc[o], left[o]) \in Nat
    BY <1>1, <1>4 DEF StepsAt
  <2> QED  BY <1>1, <1>2, <1>4, <2>1, <2>2, StepsAre
<1> QED  BY <1>3, <1>4

(* What others do leaves it where it is, and no object is made in its      *)
(* place while it lives.                                                   *)
LEMMA OthersLeaveIt ==
  ASSUME IInv, NEW o \in Periodic, Alive(o), period[o] = 0,
         \/ Program
         \/ \E q \in Object \ {o} : Thread(q)
         \/ UNCHANGED vars
  PROVE  period'[o] = 0 /\ StepsToEnd(o)' <= StepsToEnd(o)
<1>1. /\ o \in Object /\ pc \in [Object -> Place] /\ left \in [Object -> Nat]
      /\ period \in [Object -> {0, Pause}] /\ Built(o) /\ o \in handle
      /\ program = <<"create", o>> => o \notin handle
  BY LibraryAssumption DEF IInv, Typed, Life
<1>2. period'[o] = 0 /\ pc'[o] = pc[o] /\ left'[o] = left[o]
  <2>1. CASE Program
    BY <1>1, <2>1
    DEF Program, New, Start, ThreadCreate, terminate, join, Delete, FreeNext, Fault
  <2>2. ASSUME NEW q \in Object \ {o}, Thread(q)
        PROVE  period'[o] = 0 /\ pc'[o] = pc[o] /\ left'[o] = left[o]
    BY <1>1, <2>2
    DEF Thread, runner, Body, While, TimeSleep, Activate, ActivationEnds, ThreadExit,
        MovesTo, Sleeping!PutToSleep
  <2>3. CASE UNCHANGED vars
    BY <2>3 DEF vars
  <2> QED  BY <2>1, <2>2, <2>3
<1>3. StepsAt(pc[o], left[o]) \in Nat
  BY <1>1 DEF StepsAt
<1> QED  BY <1>1, <1>2, <1>3, StepsAre

LEMMA NextNearer ==
  ASSUME IInv, Bounded, NoBody, [Next]_vars, [DeletesJoined]_vars,
         NEW o \in Periodic, Alive(o), period[o] = 0
  PROVE  /\ period'[o] = 0
         /\ StepsToEnd(o)' <= StepsToEnd(o)
         /\ Thread(o) \/ (Tick /\ pc[o] = "asleep") => StepsToEnd(o)' < StepsToEnd(o)
<1>1. ASSUME Thread(o) PROVE StepsToEnd(o)' < StepsToEnd(o) /\ period'[o] = 0
  <2>1. period'[o] = 0
    BY <1>1 DEF Thread, runner, Body, While, TimeSleep, Activate, ActivationEnds, ThreadExit,
                MovesTo
  <2> QED  BY <1>1, <2>1, ThreadNearer
<1>2. StepsToEnd(o) \in Nat /\ StepsToEnd(o)' \in Int
  <2>1. /\ o \in Object /\ pc[o] \in Place /\ left[o] \in Nat /\ left'[o] \in Nat
    BY LibraryAssumption, NextIInv DEF IInv, Typed
  <2> QED  BY <2>1, StepsAre DEF StepsAt
<1>3. period'[o] = 0 /\ StepsToEnd(o)' <= StepsToEnd(o)
  <2>1. CASE Thread(o)
    BY <1>1, <1>2, <2>1
  <2>2. CASE Tick
    BY <2>2, TickNearer
  <2>3. CASE Program \/ (\E q \in Object \ {o} : Thread(q)) \/ UNCHANGED vars
    BY <2>3, OthersLeaveIt
  <2> QED  BY <2>1, <2>2, <2>3 DEF Next
<1> QED  BY <1>1, <1>3, TickNearer

(* After terminate a periodic thread comes nearer to its end with every    *)
(* step and every tick, from wherever it was between the test of period    *)
(* and its sleep, and nothing takes it back: no terminated object is made  *)
(* anew while its thread lives.  What is left of EndsAfterTerminate is     *)
(* that the timer ticks and that ready threads run.                        *)
THEOREM EndIsNear == Spec /\ DeletedAfterJoin => EndComes
<1>1. Init => NoBody
  BY LibraryAssumption DEF Init, NoBody
<1>2. IInv /\ Bounded /\ NoBody /\ [Next]_vars /\ [DeletesJoined]_vars =>
        [\A o \in Periodic :
           Alive(o) /\ period[o] = 0 =>
             /\ period'[o] = 0
             /\ StepsToEnd(o)' <= StepsToEnd(o)
             /\ Thread(o) \/ (Tick /\ pc[o] = "asleep") =>
                  StepsToEnd(o)' < StepsToEnd(o)]_vars
  BY NextNearer
<1> QED  BY <1>1, <1>2, NextNoBody, Inductive, BoundsHold, PTL
         DEF Spec, DeletedAfterJoin, EndComes

-----------------------------------------------------------------------------
(***************************************************************************)
(* The sleeping threads.                                                   *)
(***************************************************************************)

(* The threads of the library sleep in the way SleepingThreads takes for   *)
(* granted: none that sleeps goes to sleep, and every sleep is for the     *)
(* whole period, so that what was proved of that list holds of them.       *)
THEOREM LibrarySleeps == Spec /\ DeletedAfterJoin => Sleeping!SleepersSpec
<1>1. Init => Sleeping!SleepersInit
  BY DEF Init
<1>2. IInv /\ [Next]_vars => [Sleeping!SleepersNext]_<<asleep, left>>
  <2> SUFFICES ASSUME IInv, [Next]_vars
               PROVE  Sleeping!SleepersNext \/ UNCHANGED <<asleep, left>>
    OBVIOUS
  <2>1. ASSUME NEW o \in Object, TimeSleep(o), Time(o) # 0
        PROVE  Sleeping!SleepersNext
    <3>1. Sleeping!PutToSleep(o, Time(o)) /\ left[o] = 0
      BY <2>1 DEF TimeSleep, IInv, Typed
    <3>2. Time(o) \in {Pause} \ {0}
      BY <2>1 DEF Time, IInv, Typed
    <3> QED  BY <3>1, <3>2 DEF Sleeping!SleepersNext
  <2>2. CASE Tick
    BY <2>2 DEF Tick, Sleeping!SleepersNext
  <2>3. ASSUME NEW o \in Object, Thread(o), ~(TimeSleep(o) /\ Time(o) # 0)
        PROVE  UNCHANGED <<asleep, left>>
    BY <2>3 DEF Thread, runner, Body, While, TimeSleep, Activate, ActivationEnds, ThreadExit
  <2>4. CASE Program
    BY <2>4 DEF Program, New, Start, ThreadCreate, terminate, join, Delete, FreeNext, Fault
  <2>5. CASE UNCHANGED vars
    BY <2>5 DEF vars
  <2> QED  BY <2>1, <2>2, <2>3, <2>4, <2>5 DEF Next
<1> QED  BY <1>1, <1>2, Inductive, PTL
         DEF Spec, DeletedAfterJoin, Sleeping!SleepersSpec

=============================================================================
