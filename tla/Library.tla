------------------------------ MODULE Library ------------------------------
(***************************************************************************)
(* The C++ library's threads: the life of the objects Thread and           *)
(* PeriodicThread, of the kernel's objects behind them and of the memory   *)
(* both take, under a program that makes, starts, joins, terminates and    *)
(* deletes them.  It starts an object once and joins only what it has      *)
(* started: that is in the guards of Start and join, since a thread is     *)
(* known by its object here.  What ~Thread takes for granted of it, that   *)
(* no thread is deleted before join has returned, is DeletesJoined.  The   *)
(* library checks none of the three.                                       *)
(*                                                                         *)
(* The threads take the processor from each other between any two steps; a *)
(* system call is one step.  Memory is counted in pieces, of which a stack *)
(* has the size Stack and every other the size 1; the nodes of the         *)
(* kernel's lists and the program's other memory are not counted.          *)
(***************************************************************************)
EXTENDS Integers, Sequences, FiniteSets

CONSTANTS
  Object,    \* places for Thread objects
  Periodic,  \* those where the program makes a PeriodicThread
  None,      \* no object
  Pause,     \* the period it gives to each, within an unsigned int
  Stack,     \* DEFAULT_STACK_SIZE, in pieces
  Room       \* size of the heap, in pieces

ASSUME LibraryAssumption ==
  /\ Periodic \subseteq Object /\ None \notin Object
  /\ Pause \in Nat \ {0}
  /\ Stack \in Nat \ {0} /\ Room \in Nat

VARIABLES
  program,  \* what the program does, and with which object
  joined,   \* the objects for which join has returned
  handle,   \* the objects with a myHandle that is not null
  period,   \* PeriodicThread::period
  pc,       \* where each thread is
  waiting,  \* the threads with a semaphore in their PCB's semToSignal
  heap,     \* the pieces that are allocated, <<what, whose>>
  faulted,  \* somebody wrote through a pointer that was refused
  asleep, left,  \* the sleeping threads, see Sleepers
  clock     \* ticks modulo 2, for the properties alone

vars == <<program, joined, handle, period, pc, waiting, heap, faulted, asleep, left, clock>>

Sleeping == INSTANCE Sleepers WITH Thread <- Object, SleepTime <- {Pause}

-----------------------------------------------------------------------------
(***************************************************************************)
(* Memory.                                                                 *)
(***************************************************************************)

Size(pieces) ==
  Cardinality(pieces) + (Stack - 1) * Cardinality({x \in pieces : x[1] = "stack"})
FitsAny(pieces) == Size(heap) <= Room  \* wrong: the size asked for is not compared
Fits(pieces) == Size(heap \cup pieces) <= Room

OfObject(o) == {<<"object", o>>}
OfStack(o) == {<<"stack", o>>}
OfPCB(o) == {"pcb", "context", "queue"} \X {o}  \* with myContext and semToSignal
OfSem(o) == {"sem", "blocked"} \X {o}           \* with its queue

-----------------------------------------------------------------------------
(***************************************************************************)
(* The program.                                                            *)
(***************************************************************************)

Idle == program = <<"run", None>>
Built(o) == OfObject(o) \subseteq heap

(* new Thread(body, arg) or new PeriodicThread(period).                    *)
New(o) ==
  /\ Idle
  /\ ~Built(o)
  /\ Fits(OfObject(o))
  /\ heap' = heap \cup OfObject(o)
  /\ period' = [period EXCEPT ![o] = IF o \in Periodic THEN Pause ELSE 0]
  /\ handle' = handle \ {o}
  /\ joined' = joined \ {o}
  /\ UNCHANGED <<program, pc, waiting, faulted, asleep, left, clock>>

(* Thread::start, until thread_create has its stack.  If that is refused   *)
(* the call returns -1 and has changed nothing.                            *)
Start(o) ==
  /\ Idle
  /\ Built(o) /\ o \notin handle
  /\ Fits(OfStack(o))
  /\ heap' = heap \cup OfStack(o)
  /\ program' = <<"create", o>>
  /\ UNCHANGED <<joined, handle, period, pc, waiting, faulted, asleep, left, clock>>

(* The system call behind it: the new thread is ready to run.              *)
ThreadCreate(o) ==
  /\ program = <<"create", o>>
  /\ Fits(OfPCB(o))
  /\ heap' = heap \cup OfPCB(o)
  /\ handle' = handle \cup {o}
  /\ pc' = [pc EXCEPT ![o] = "runner"]
  /\ program' = <<"run", None>>
  /\ UNCHANGED <<joined, period, waiting, faulted, asleep, left, clock>>

(* PeriodicThread::terminate, by the program or from an activation.        *)
terminate(o) ==
  /\ o \in Periodic /\ Built(o)
  /\ Idle \/ pc[o] = "activation"
  /\ period' = [period EXCEPT ![o] = 0]
  /\ UNCHANGED <<program, joined, handle, pc, waiting, heap, faulted, asleep, left, clock>>

(* Thread::join waits on a new semaphore, also for a thread that is over.  *)
NoWait(o) ==  \* wrong: new Sem(1)
  /\ waiting' = waiting \cup {o}
  /\ joined' = joined \cup {o}
  /\ UNCHANGED program
WaitFor(o) ==
  /\ waiting' = waiting \cup {o}
  /\ program' = <<"join", o>>
  /\ UNCHANGED joined
join(o) ==
  /\ Idle
  /\ Built(o) /\ o \in handle
  /\ Fits(OfSem(o))
  /\ heap' = heap \cup OfSem(o)
  /\ WaitFor(o)
  /\ UNCHANGED <<handle, period, pc, faulted, asleep, left, clock>>

(* delete: the destructor of Thread deletes the PCB, in user mode, whether *)
(* or not its thread is over.                                              *)
Delete(o) ==
  /\ Idle
  /\ Built(o)
  /\ program' = <<IF o \in handle THEN "stack" ELSE "object", o>>
  /\ UNCHANGED <<joined, handle, period, pc, waiting, heap, faulted, asleep, left, clock>>

(* A rule of the program, which nothing in the library enforces: it        *)
(* deletes a thread that it started only after join has returned.          *)
DeletesJoined == \A o \in Object : Delete(o) /\ o \in handle => o \in joined

(* What is given back after what: the destructor of PCB, then its operator *)
(* delete, then that of the object.                                        *)
KeepsQueue == [stack |-> "context", context |-> "pcb", pcb |-> "object",
               object |-> "run"]  \* wrong: delete semToSignal left out
After == [stack |-> "queue", queue |-> "context", context |-> "pcb", pcb |-> "object",
          object |-> "run"]
FreeNext ==
  /\ program[1] \in DOMAIN After
  /\ heap' = heap \ {program}
  /\ program' = LET what == After[program[1]]
                IN  <<what, IF what = "run" THEN None ELSE program[2]>>
  /\ UNCHANGED <<joined, handle, period, pc, waiting, faulted, asleep, left, clock>>

(* The answer of the allocator is not tested but for a stack: the object's *)
(* constructor, the PCB's or the semaphore's writes through null.          *)
Fault ==
  /\ \E o \in Object :
       \/ Idle /\ ~Built(o) /\ ~Fits(OfObject(o))
       \/ program = <<"create", o>> /\ ~Fits(OfPCB(o))
       \/ Idle /\ Built(o) /\ o \in handle /\ ~Fits(OfSem(o))
  /\ faulted' = TRUE
  /\ UNCHANGED <<program, joined, handle, period, pc, waiting, heap, asleep, left, clock>>

-----------------------------------------------------------------------------
(***************************************************************************)
(* The threads.                                                            *)
(***************************************************************************)

MovesTo(o, place) ==
  /\ pc' = [pc EXCEPT ![o] = place]
  /\ UNCHANGED <<program, joined, handle, period, waiting, heap, faulted, clock>>

(* Thread::runner calls run, which a program's own thread does not have.   *)
runner(o) ==
  /\ pc[o] = "runner"
  /\ MovesTo(o, IF o \in Periodic THEN "while" ELSE "body")
  /\ UNCHANGED <<asleep, left>>

Body(o) ==
  /\ pc[o] = "body"
  /\ MovesTo(o, "exit")
  /\ UNCHANGED <<asleep, left>>

(* while(this->period): what terminate may change before it is read again. *)
Forever(o) == TRUE  \* wrong: while(1)
GoesOn(o) == period[o] # 0
While(o) ==
  /\ pc[o] = "while"
  /\ MovesTo(o, IF GoesOn(o) THEN "time_sleep" ELSE "exit")
  /\ UNCHANGED <<asleep, left>>

(* time_sleep(this->period): no pause at all if it is 0 by now.            *)
OneLess(o) == IF period[o] = 0 THEN 0 ELSE period[o] - 1  \* wrong: a tick early
Time(o) == period[o]
TimeSleep(o) ==
  /\ pc[o] = "time_sleep"
  /\ IF Time(o) = 0
     THEN MovesTo(o, "awake") /\ UNCHANGED <<asleep, left>>
     ELSE MovesTo(o, "asleep") /\ Sleeping!PutToSleep(o, Time(o))

Activate(o) ==
  /\ pc[o] = "awake"
  /\ MovesTo(o, "activation")
  /\ UNCHANGED <<asleep, left>>

ActivationEnds(o) ==
  /\ pc[o] = "activation"
  /\ MovesTo(o, "while")
  /\ UNCHANGED <<asleep, left>>

(* wrapper's thread_exit: PCB::exit releases who joined, with the          *)
(* semaphore's memory.                                                     *)
KeepsSem(o) == UNCHANGED <<program, joined, waiting, heap>>  \* wrong: nobody is signalled
SignalJoiner(o) ==
  IF o \in waiting
  THEN /\ program' = <<"run", None>> /\ joined' = joined \cup {o}
       /\ waiting' = waiting \ {o} /\ heap' = heap \ OfSem(o)
  ELSE UNCHANGED <<program, joined, waiting, heap>>
ThreadExit(o) ==
  /\ pc[o] = "exit"
  /\ pc' = [pc EXCEPT ![o] = "over"]
  /\ SignalJoiner(o)
  /\ UNCHANGED <<handle, period, faulted, asleep, left, clock>>

(* A timer interrupt.                                                      *)
Tick ==
  /\ Sleeping!UpdateTime
  /\ pc' = [o \in Object |-> IF left[o] = 1 THEN "awake" ELSE pc[o]]
  /\ clock' = 1 - clock
  /\ UNCHANGED <<program, joined, handle, period, waiting, heap, faulted>>

-----------------------------------------------------------------------------

(* The program has made no object yet.                                     *)
Init ==
  /\ program = <<"run", None>>
  /\ joined = {} /\ handle = {} /\ waiting = {} /\ heap = {}
  /\ period = [o \in Object |-> 0]
  /\ pc = [o \in Object |-> "over"]
  /\ faulted = FALSE
  /\ Sleeping!SleepersInit
  /\ clock = 0

Program ==
  \/ \E o \in Object :
       New(o) \/ Start(o) \/ ThreadCreate(o) \/ terminate(o) \/ join(o) \/ Delete(o)
  \/ FreeNext
  \/ Fault

Thread(o) ==
  \/ runner(o) \/ Body(o) \/ While(o) \/ TimeSleep(o)
  \/ Activate(o) \/ ActivationEnds(o) \/ ThreadExit(o)

Next == ~faulted /\ (Program \/ Tick \/ \E o \in Object : Thread(o))

Spec == Init /\ [][Next]_vars
DeletedAfterJoin == [][DeletesJoined]_vars

(* A program that keeps the rule.  The timer ticks, a ready thread runs at *)
(* some time (see ReadyThreadRuns of Kernel) and an activation comes to    *)
(* its end; the program may stop.                                          *)
Running(o) == ~faulted /\ pc[o] # "body" /\ Thread(o)
FairSpec ==
  /\ Init /\ [][Next /\ DeletesJoined]_vars
  /\ WF_vars(~faulted /\ Tick)
  /\ \A o \in Object : WF_vars(Running(o))

-----------------------------------------------------------------------------

Alive(o) == pc[o] # "over"

(* Every variable stays within its type.                                   *)
TypeOK ==
  /\ program \in {<<"run", None>>} \cup
                 ((DOMAIN After \cup {"create", "join"}) \X Object)
  /\ joined \subseteq Object /\ handle \subseteq Object /\ waiting \subseteq Object
  /\ period \in [Object -> {0, Pause}]
  /\ pc \in [Object -> {"runner", "body", "while", "time_sleep", "asleep", "awake",
                        "activation", "exit", "over"}]
  /\ heap \subseteq {"object", "stack", "pcb", "context", "queue", "sem", "blocked"} \X Object
  /\ Size(heap) <= Room
  /\ faulted \in BOOLEAN
  /\ \A o \in Object : left[o] \in 0..Pause /\ (left[o] > 0 <=> pc[o] = "asleep")
  /\ clock \in {0, 1}

(* Nothing is used after it is freed, or freed twice: a thread that the    *)
(* kernel may still run has its object, its stack, its PCB and what hangs  *)
(* from it, a semaphore that is to be signalled is there, and so is what   *)
(* the destructors go on to free.  It holds of programs that delete a      *)
(* thread only after join (DeletesJoined).                                 *)
NoDangling ==
  \A o \in Object :
    /\ Alive(o) => OfObject(o) \cup OfStack(o) \cup OfPCB(o) \subseteq heap
    /\ o \in waiting => OfPCB(o) \cup OfSem(o) \subseteq heap
    /\ program[1] \in DOMAIN After => program \in heap

(* Of an object that was deleted nothing stays allocated: not the thread's *)
(* stack and PCB, nor the semaphore its join waited on.                    *)
NothingLeaks ==
  \A o \in Object : ~Built(o) => \A x \in heap : x[2] # o

(* Periodic threads keep their pace.  A thread whose period is not 0 when  *)
(* it reaches time_sleep pauses for the whole period before its activation *)
(* and terminate cannot cut that pause short; after terminate at most one  *)
(* activation follows.  That one comes with no pause exactly if terminate  *)
(* fell between the test of period and its use by time_sleep.              *)
Wanted == {o \in Periodic : period[o] # 0}
Phase == [o \in Periodic |->
            CASE pc[o] = "time_sleep"          -> "announced"
              [] pc[o] \in {"asleep", "awake"} -> "due"
              [] pc[o] = "activation"          -> "active"
              [] OTHER                         -> "between"]
TicksLeft == [o \in Periodic |-> left[o]]
Promise == INSTANCE Activations WITH
  Object <- Periodic, wanted <- Wanted, phase <- Phase, left <- TicksLeft
KeepsPace == Promise!ActivationsSpec

(* A periodic thread that is terminated comes nearer to its end with every *)
(* step it takes and every tick it sleeps through, and nothing that other  *)
(* threads or the program do takes it back.                                *)
StepsToEnd(o) ==
  CASE pc[o] = "asleep"                 -> left[o] + 4
    [] pc[o] = "time_sleep"             -> 5
    [] pc[o] = "awake"                  -> 4
    [] pc[o] \in {"runner", "activation"} -> 3
    [] pc[o] = "while"                  -> 2
    [] pc[o] = "exit"                   -> 1
    [] OTHER                            -> 0
EndComes ==
  [][\A o \in Periodic :
       Alive(o) /\ period[o] = 0 =>
         /\ period'[o] = 0
         /\ StepsToEnd(o)' <= StepsToEnd(o)
         /\ Thread(o) \/ (Tick /\ pc[o] = "asleep") => StepsToEnd(o)' < StepsToEnd(o)]_vars

(* A periodic thread that is terminated ends, and one that joined it goes  *)
(* on, unless somebody wrote through null before.                          *)
EndsAfterTerminate ==
  \A o \in Periodic : (Alive(o) /\ period[o] = 0) ~> (~Alive(o) \/ faulted)
JoinReturns ==
  \A o \in Periodic :
    (program = <<"join", o>> /\ Alive(o) /\ period[o] = 0) ~> (o \in joined \/ faulted)

=============================================================================
