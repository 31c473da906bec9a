------------------------------- MODULE Kernel -------------------------------
(***************************************************************************)
(* The thread kernel: the scheduler, the threads' control blocks, the      *)
(* semaphores, joining, sleeping and the timer, as the trap handlers of    *)
(* src/src/riscV.cpp and src/src/ABI.cpp drive them.                       *)
(*                                                                         *)
(* A trap runs with interrupts disabled from the first instruction to the  *)
(* sret, so every system call, timer tick and console interrupt is one     *)
(* action.  What a thread does between two traps is private to it: the     *)
(* running thread may issue any system call at any time, and an interrupt  *)
(* may come between any two of them.                                       *)
(***************************************************************************)
EXTENDS Sleepers

CONSTANTS
  Main,        \* the thread that runs userMain
  Idle,        \* the kernel's own thread, which runs bussyWait
  UserSem,     \* semaphores user programs open and close
  ConsoleSem,  \* ConsoleHandler::inputBufferAvailable
  TimeSlice,   \* DEFAULT_TIME_SLICE
  InitVal,     \* values semaphores are opened with
  UIntLimit,   \* number of values of an unsigned int
  MaxVal,      \* bound of the model: no signal takes a semaphore above it
  MaxBurst,    \* bound of the model: characters one console interrupt brings
  Data         \* whatever a register holds that is not a result or a code

Proc == Thread \cup {Idle}
Sem  == UserSem \cup {ConsoleSem}

(* Operation codes of the system calls, in a1 when ecall is executed, and  *)
(* what the handlers leave in a1 as the result.                            *)
MEM_ALLOC == 1
MEM_FREE == 2
THREAD_CREATE == 11
THREAD_EXIT == 12
THREAD_DISPATCH == 13
THREAD_JOIN == 14
SEM_OPEN == 21
SEM_CLOSE == 22
SEM_WAIT == 23
SEM_SIGNAL == 24
TIME_SLEEP == 31
GETC == 41
PUTC == 42
Ok == 0
Error == -1
Closed == -2

Operation == {MEM_ALLOC, MEM_FREE, THREAD_CREATE, THREAD_EXIT, THREAD_DISPATCH,
              THREAD_JOIN, SEM_OPEN, SEM_CLOSE, SEM_WAIT, SEM_SIGNAL,
              TIME_SLEEP, GETC, PUTC}

(* What an A1 slot can hold.                                               *)
Word == Operation \cup {Ok, Error, Closed, Data}

ASSUME KernelAssumption ==
  /\ Main \in Thread
  /\ Idle \notin Thread
  /\ ConsoleSem \notin UserSem
  /\ TimeSlice \in Nat \ {0}
  /\ InitVal \subseteq Nat
  /\ SleepTime \subseteq Nat
  /\ UIntLimit \in Nat \ {0}
  /\ MaxVal \in Nat
  /\ MaxBurst \in Nat
  /\ Data \notin Operation \cup {Ok, Error, Closed}

State == {"READY", "RUNNING", "SUSPENDED", "EXITING", "SLEEPING"}

VARIABLES
  created,        \* threads whose PCB exists
  runningThread,  \* PCB::runningThread
  linkedList,     \* the scheduler's list of ready threads
  status,         \* PCB::status
  timeRunning,    \* PCB::timeRunning, counted up to TimeSlice
  isBeginning,    \* PCB::isBeginning
  isOver,         \* PCB::isOver
  semToSignal,    \* PCB::semToSignal, each join semaphore named by its waiter
  open,           \* semaphores that exist
  val,            \* Sem::val
  blocked,        \* Sem::blocked
  a1,             \* the A1 slot of a thread's saved context
  mode            \* "on", "halted" (main has returned) or "wedged"

vars == <<created, runningThread, linkedList, status, timeRunning, isBeginning,
          isOver, semToSignal, open, val, blocked, asleep, left, a1, mode>>

-----------------------------------------------------------------------------
(***************************************************************************)
(* The scheduler.                                                          *)
(***************************************************************************)

(* Scheduler::putThread: the thread goes to the end of the list; the idle  *)
(* thread is never put there.                                              *)
PutFirst(q, p) == IF p = Idle THEN q ELSE <<p>> \o q  \* wrong: added in front
PutIdleToo(q, p) == Append(q, p)  \* wrong: no test for bussyWait
PutThread(q, p) == IF p = Idle THEN q ELSE Append(q, p)

(* What getThread finds when the ready list is q, the sleepers are sl and  *)
(* bl holds the semaphores' queues.  With no ready and no sleeping thread  *)
(* it reads inputBufferAvailable->blocked: if nobody waits for input it    *)
(* jumps to mainContext and the system ends; if the console has never been *)
(* used the pointer is null, the load faults, the handler returns to the   *)
(* same load, and the kernel faults for ever.                              *)
NeverEnds(q, sl, bl) == "on"  \* wrong: no longjmp(mainContext)
IgnoresSleepers(q, sl, bl) ==  \* wrong: SleepingThread::list not tested
  IF q = << >> /\ bl[ConsoleSem] = << >> /\ ConsoleSem \in open
  THEN "halted" ELSE "on"
ModeAfterGet(q, sl, bl) ==
  IF q # << >> \/ sl # << >> THEN "on"
  ELSE IF ConsoleSem \notin open THEN "wedged"
  ELSE IF bl[ConsoleSem] = << >> THEN "halted"
  ELSE "on"

NextThread(q) == IF q = << >> THEN Idle ELSE Head(q)

(* getThread resets the time of a thread it takes from the list, not that  *)
(* of the default thread.                                                  *)
KeepTime(q, tr) == tr  \* wrong: no timeRunning=0
ResetTime(q, tr) == IF q = << >> THEN tr ELSE [tr EXCEPT ![Head(q)] = 0]

(* `runningThread = getThread(); runningThread->status = RUNNING', with    *)
(* the ready list, sleepers, semaphore queues, statuses and times as the   *)
(* handler left them.                                                      *)
SwitchFrom(q, sl, bl, st, tr) ==
  LET m == ModeAfterGet(q, sl, bl)
      next == NextThread(q)
  IN  /\ mode' = m
      /\ IF m = "on"
           THEN /\ runningThread' = next
                /\ linkedList' = IF q = << >> THEN q ELSE Tail(q)
                /\ status' = [st EXCEPT ![next] = "RUNNING"]
                /\ timeRunning' = ResetTime(q, tr)
           ELSE /\ linkedList' = q
                /\ status' = st
                /\ timeRunning' = tr
                /\ UNCHANGED runningThread

(* PCB::dispatch, with PCB::start for a thread that has not begun.         *)
Dispatch(q0, sl, st, tr) ==
  LET q == PutThread(q0, runningThread)
      next == NextThread(q)
  IN  /\ SwitchFrom(q, sl, blocked, [st EXCEPT ![runningThread] = "READY"],
                    IF isBeginning[next] = 1 THEN [tr EXCEPT ![next] = 0] ELSE tr)
      /\ isBeginning' = IF mode' = "on" THEN [isBeginning EXCEPT ![next] = 0]
                        ELSE isBeginning

(* The statuses after every thread of the sequence q was woken.            *)
KeepStatus(st, q) == st  \* wrong: no status=READY
Woken(st, q) ==
  [p \in Proc |-> IF \E i \in DOMAIN q : q[i] = p THEN "READY" ELSE st[p]]

-----------------------------------------------------------------------------
(***************************************************************************)
(* Traps.  setjmp stores the trapping thread's registers: a1 holds the     *)
(* code of an ecall, and anything at an interrupt.  A handler that returns *)
(* a result stores it in the A1 slot of the thread that is running when it *)
(* gets there.                                                             *)
(***************************************************************************)

UserTraps ==
  /\ mode = "on"
  /\ runningThread \in Thread

Returns(code, result) ==
  a1' = [a1 EXCEPT ![runningThread] = code, ![runningThread'] = result]

(* The same, by a handler that leaves the slot alone.                      *)
ReturnsNothing(code) == a1' = [a1 EXCEPT ![runningThread] = code]

threadVars == <<created, isBeginning, isOver, semToSignal>>
semVars == <<open, val, blocked>>
sleepVars == <<asleep, left>>
runVars == <<runningThread, linkedList, status, timeRunning, mode>>

(* A call the ABI refuses: a semaphore handle outside the heap, or a null  *)
(* start routine.                                                          *)
RejectedCall(code) ==
  /\ UserTraps
  /\ UNCHANGED <<threadVars, semVars, sleepVars, runVars>>
  /\ Returns(code, Error)

(* mem_alloc, mem_free, getc and putc do not change the threads' state;    *)
(* the console calls allocate the console's buffers and semaphore on their *)
(* first use.                                                              *)
MemoryCall(code) ==
  /\ UserTraps
  /\ UNCHANGED <<threadVars, semVars, sleepVars, runVars>>
  /\ Returns(code, Data)

ConsoleCall(code) ==
  /\ UserTraps
  /\ open' = open \cup {ConsoleSem}
  /\ UNCHANGED <<threadVars, val, blocked, sleepVars, runVars>>
  /\ IF code = GETC THEN Returns(code, Data) ELSE ReturnsNothing(code)

-----------------------------------------------------------------------------
(***************************************************************************)
(* Threads.                                                                *)
(***************************************************************************)

ThreadCreate(t) ==
  /\ UserTraps
  /\ t \in Thread \ created
  /\ created' = created \cup {t}
  /\ isBeginning' = [isBeginning EXCEPT ![t] = 0]
  /\ status' = [status EXCEPT ![t] = "READY"]
  /\ linkedList' = PutThread(linkedList, t)
  /\ UNCHANGED <<runningThread, timeRunning, isOver, semToSignal, semVars,
                 sleepVars, mode>>
  /\ Returns(THREAD_CREATE, Ok)

(* PCB::exit signals and deletes every join semaphore the thread holds,    *)
(* which wakes the threads that wait on them, and runs another thread.     *)
ThreadExit ==
  LET t == runningThread
      joiners == semToSignal[t]
  IN  /\ UserTraps
      /\ isOver' = [isOver EXCEPT ![t] = TRUE]
      /\ semToSignal' = [semToSignal EXCEPT ![t] = << >>]
      /\ SwitchFrom(linkedList \o joiners, asleep, blocked,
                    Woken([status EXCEPT ![t] = "EXITING"], joiners), timeRunning)
      /\ IF mode' = "on" /\ runningThread' = t
           THEN Returns(THREAD_EXIT, Error)
           ELSE ReturnsNothing(THREAD_EXIT)
      /\ UNCHANGED <<created, isBeginning, semVars, sleepVars>>

ThreadDispatch ==
  /\ UserTraps
  /\ Dispatch(linkedList, asleep, status, timeRunning)
  /\ ReturnsNothing(THREAD_DISPATCH)
  /\ UNCHANGED <<created, isOver, semToSignal, semVars, sleepVars>>

(* thread_join hands the thread u a new semaphore with value 0 and waits   *)
(* on it: the caller blocks, whether or not u is over already.             *)
ThreadJoin(u) ==
  /\ UserTraps
  /\ u \in created
  /\ semToSignal' = [semToSignal EXCEPT ![u] = Append(@, runningThread)]
  /\ SwitchFrom(linkedList, asleep, blocked,
                [status EXCEPT ![runningThread] = "SUSPENDED"], timeRunning)
  /\ ReturnsNothing(THREAD_JOIN)
  /\ UNCHANGED <<created, isBeginning, isOver, semVars, sleepVars>>

-----------------------------------------------------------------------------
(***************************************************************************)
(* Semaphores.                                                             *)
(***************************************************************************)

SemOpen(s, init) ==
  /\ UserTraps
  /\ s \in UserSem \ open
  /\ open' = open \cup {s}
  /\ val' = [val EXCEPT ![s] = init]
  /\ UNCHANGED <<threadVars, blocked, sleepVars, runVars>>
  /\ Returns(SEM_OPEN, Ok)

(* Sem::~Sem makes every waiter ready with an error code in its A1 slot,   *)
(* and leaves its status as it is.                                         *)
KeepWaiters(s) == blocked  \* wrong: made ready, but left in the queue
DrainWaiters(s) == [blocked EXCEPT ![s] = << >>]
SemClose(s) ==
  /\ UserTraps
  /\ s \in UserSem \cap open
  /\ open' = open \ {s}
  /\ val' = [val EXCEPT ![s] = 0]
  /\ blocked' = DrainWaiters(s)
  /\ linkedList' = linkedList \o blocked[s]
  /\ a1' = [p \in Proc |-> IF p = runningThread THEN Ok
                           ELSE IF \E i \in DOMAIN blocked[s] : blocked[s][i] = p
                           THEN Closed ELSE a1[p]]
  /\ UNCHANGED <<threadVars, runningThread, status, timeRunning, sleepVars, mode>>

SemWait(s) ==
  /\ UserTraps
  /\ s \in open
  /\ val' = [val EXCEPT ![s] = @ - 1]
  /\ IF val[s] - 1 < 0
       THEN /\ blocked' = [blocked EXCEPT ![s] = Append(@, runningThread)]
            /\ SwitchFrom(linkedList, asleep, blocked',
                          [status EXCEPT ![runningThread] = "SUSPENDED"], timeRunning)
       ELSE UNCHANGED <<blocked, runVars>>
  /\ IF mode' = "on" THEN Returns(SEM_WAIT, Ok) ELSE ReturnsNothing(SEM_WAIT)
  /\ UNCHANGED <<threadVars, open, sleepVars>>

(* n calls of Sem::signal in a row: each that finds the value negative     *)
(* makes the first waiter ready.                                           *)
OffByOne(s, n) ==  \* wrong: ++val<0 for val++<0
  IF val[s] >= -1 THEN 0 ELSE IF -val[s] < n THEN -val[s] ELSE n
Releases(s, n) ==
  IF val[s] >= 0 THEN 0 ELSE IF -val[s] < n THEN -val[s] ELSE n

Signal(s, n) ==
  LET k == Releases(s, n)
      freed == SubSeq(blocked[s], 1, k)
  IN  /\ val' = [val EXCEPT ![s] = @ + n]
      /\ blocked' = [blocked EXCEPT ![s] = SubSeq(@, k + 1, Len(@))]
      /\ linkedList' = linkedList \o freed
      /\ status' = Woken(status, freed)

SemSignal(s) ==
  /\ UserTraps
  /\ s \in UserSem \cap open
  /\ val[s] < MaxVal
  /\ Signal(s, 1)
  /\ UNCHANGED <<threadVars, runningThread, timeRunning, open, sleepVars, mode>>
  /\ Returns(SEM_SIGNAL, Ok)

-----------------------------------------------------------------------------
(***************************************************************************)
(* Sleeping, the timer and the console's interrupt.                        *)
(***************************************************************************)

(* The argument, an unsigned long, is cut to an unsigned int; 0 does not   *)
(* sleep.                                                                  *)
SleepsUncut(t) == t # 0  \* wrong: tested before it is cut
Sleeps(t) == t % UIntLimit # 0
TimeSleep(t) ==
  LET time == t % UIntLimit
  IN  /\ UserTraps
      /\ IF Sleeps(t)
           THEN /\ PutToSleep(runningThread, time)
                /\ SwitchFrom(linkedList, asleep', blocked,
                              [status EXCEPT ![runningThread] = "SLEEPING"], timeRunning)
           ELSE UNCHANGED <<sleepVars, runVars>>
      /\ Returns(TIME_SLEEP, Ok)
      /\ UNCHANGED <<threadVars, semVars>>

Interrupts ==
  /\ mode = "on"
  /\ a1' = [a1 EXCEPT ![runningThread] = Data]

(* timerHandler: the tick counts against the running thread and the first  *)
(* sleeper, the threads whose time has come go to the end of the ready     *)
(* list, and after TimeSlice ticks the running thread goes behind them.    *)
TimerInterrupt ==
  LET t == runningThread
      tr == [timeRunning EXCEPT ![t] = IF @ < TimeSlice THEN @ + 1 ELSE @]
      q == linkedList \o Awakened
      st == Woken(status, Awakened)
  IN  /\ Interrupts
      /\ UpdateTime
      /\ IF tr[t] >= TimeSlice
           THEN Dispatch(q, asleep', st, tr)
           ELSE /\ linkedList' = q
                /\ status' = st
                /\ timeRunning' = tr
                /\ UNCHANGED <<runningThread, isBeginning, mode>>
      /\ UNCHANGED <<created, isOver, semToSignal, semVars>>

(* consoleHandler: one signal for each of the n characters it reads.  The  *)
(* handler never switches threads.                                         *)
ConsoleInterrupt(n) ==
  /\ Interrupts
  /\ open' = open \cup {ConsoleSem}
  /\ val[ConsoleSem] + n <= MaxVal
  /\ Signal(ConsoleSem, n)
  /\ UNCHANGED <<threadVars, runningThread, timeRunning, sleepVars, mode>>

-----------------------------------------------------------------------------

Init ==
  /\ created = {Main}
  /\ runningThread = Main
  /\ linkedList = << >>
  /\ status = [p \in Proc |-> "SUSPENDED"]
  /\ timeRunning = [p \in Proc |-> 0]
  /\ isBeginning = [p \in Proc |-> 1]
  /\ isOver = [t \in Thread |-> FALSE]
  /\ semToSignal = [t \in Thread |-> << >>]
  /\ open = {}
  /\ val = [s \in Sem |-> 0]
  /\ blocked = [s \in Sem |-> << >>]
  /\ SleepersInit
  /\ a1 = [p \in Proc |-> Data]
  /\ mode = "on"

(* main() has returned, or the kernel faults over and over.                *)
Stopped == mode # "on" /\ UNCHANGED vars

SystemCall ==
  \/ \E t \in Thread : ThreadCreate(t) \/ ThreadJoin(t)
  \/ ThreadExit
  \/ ThreadDispatch
  \/ \E s \in UserSem, init \in InitVal : SemOpen(s, init)
  \/ \E s \in UserSem : SemClose(s) \/ SemSignal(s)
  \/ \E s \in Sem : SemWait(s)
  \/ \E t \in SleepTime : TimeSleep(t)
  \/ \E code \in {GETC, PUTC} : ConsoleCall(code)
  \/ \E code \in {MEM_ALLOC, MEM_FREE} : MemoryCall(code)
  \/ \E code \in {THREAD_CREATE, SEM_CLOSE, SEM_WAIT, SEM_SIGNAL} : RejectedCall(code)

Next ==
  \/ SystemCall
  \/ TimerInterrupt
  \/ \E n \in 0..MaxBurst : ConsoleInterrupt(n)
  \/ Stopped

Spec == Init /\ [][Next]_vars

(* The timer goes on ticking whatever the threads do.                      *)
FairSpec == Spec /\ WF_vars(TimerInterrupt)

-----------------------------------------------------------------------------
(***************************************************************************)
(* Properties.                                                             *)
(***************************************************************************)

(* Every variable stays within its type, the bounds of the model included. *)
TypeOK ==
  /\ created \in SUBSET Thread
  /\ runningThread \in Proc
  /\ linkedList \in Seq(Thread)
  /\ status \in [Proc -> State]
  /\ timeRunning \in [Proc -> 0..TimeSlice]
  /\ isBeginning \in [Proc -> {0, 1}]
  /\ isOver \in [Thread -> BOOLEAN]
  /\ semToSignal \in [Thread -> Seq(Thread)]
  /\ open \in SUBSET Sem
  /\ val \in [Sem -> Int]
  /\ blocked \in [Sem -> Seq(Thread)]
  /\ asleep \in Seq(Thread)
  /\ left \in [Thread -> Nat]
  /\ a1 \in [Proc -> Word]
  /\ mode \in {"on", "halted", "wedged"}

(* The lists a thread can be in, by name, and what they hold.              *)
READYLIST == <<"ready", Idle>>
SLEEPLIST == <<"asleep", Idle>>
ListName == {READYLIST, SLEEPLIST} \cup ({"sem"} \X Sem) \cup ({"join"} \X Thread)
List(x) ==
  CASE x[1] = "ready"  -> linkedList
    [] x[1] = "asleep" -> asleep
    [] x[1] = "sem"    -> blocked[x[2]]
    [] x[1] = "join"   -> semToSignal[x[2]]

Live(t) == t \in created /\ ~isOver[t]

(* No thread is in two lists, or twice in one, and while the kernel runs   *)
(* no listed thread is the running one; a thread that is over, or was not  *)
(* created, is in no list.  A thread in two lists would be resumed twice   *)
(* from one saved context.                                                 *)
NoThreadTwice ==
  \A x \in ListName : \A i \in DOMAIN List(x) :
    /\ Live(List(x)[i])
    /\ mode = "on" => List(x)[i] # runningThread
    /\ \A y \in ListName : \A j \in DOMAIN List(y) :
         List(x)[i] = List(y)[j] => x = y /\ i = j

(* Every thread that has not ended is running or in some list: no handler  *)
(* drops the last pointer to a thread that still has work to do.           *)
NoThreadLost ==
  \A t \in Thread : Live(t) =>
    \/ mode = "on" /\ runningThread = t
    \/ \E x \in ListName : \E i \in DOMAIN List(x) : List(x)[i] = t

(* A semaphore's value and its queue agree through waits, signals, bursts  *)
(* of console signals and closing: -val threads wait when val is negative, *)
(* none otherwise.                                                         *)
SemaphoreCount ==
  \A s \in Sem : Len(blocked[s]) = IF val[s] < 0 THEN -val[s] ELSE 0

(* The shutdown test of getThread is right: when main returns, every       *)
(* thread that has not ended waits for another thread (on a user's         *)
(* semaphore or in a join), so none could ever run again.                  *)
HaltOnlyWhenStuck ==
  mode = "halted" =>
    \A t \in Thread : Live(t) =>
      \/ \E s \in UserSem : \E i \in DOMAIN blocked[s] : blocked[s][i] = t
      \/ \E u \in Thread : \E i \in DOMAIN semToSignal[u] : semToSignal[u][i] = t

(* The idle thread never spins for nothing: while it runs, a ready thread, *)
(* a sleeper or a thread waiting for input is left to take over.           *)
IdleAwaitsEvent ==
  mode = "on" /\ runningThread = Idle =>
    linkedList # << >> \/ asleep # << >> \/ blocked[ConsoleSem] # << >>

(* No user thread keeps the processor for TimeSlice ticks, however it got  *)
(* it: by a dispatch, or when another blocked, slept or ended.             *)
QuantumBound ==
  mode = "on" /\ runningThread \in Thread =>
    timeRunning[runningThread] < TimeSlice

(* A thread's status tells the list it is in.  The one exception is a      *)
(* thread made ready by closing its semaphore, which keeps SUSPENDED, and  *)
(* Main, which runs for the first time without PCB::start.                 *)
StatusTracksList ==
  /\ \A x \in ListName : \A i \in DOMAIN List(x) :
       LET t == List(x)[i]
       IN  CASE x[1] = "ready"  -> \/ status[t] = "READY"
                                   \/ /\ status[t] = "SUSPENDED"
                                      /\ a1[t] = Closed
             [] x[1] = "asleep" -> status[t] = "SLEEPING"
             [] OTHER           -> status[t] = "SUSPENDED"
  /\ mode = "on" => \/ status[runningThread] = "RUNNING"
                    \/ runningThread = Main /\ isBeginning[Main] = 1
  /\ \A t \in Thread : isOver[t] => status[t] = "EXITING"

(* Nobody is overtaken.  A thread leaves the ready list only from its      *)
(* front and only to run; those that leave a semaphore's queue leave from  *)
(* its front and enter the ready list at its end, in the order in which    *)
(* they waited; whoever joins a list joins it at the end.                  *)
Extends(r, q) == Len(r) >= Len(q) /\ SubSeq(r, 1, Len(q)) = q
ReadyStep ==
  \/ Extends(linkedList', linkedList)
  \/ /\ linkedList # << >> /\ runningThread' = Head(linkedList)
     /\ Extends(linkedList', Tail(linkedList))
QueueStep(q, r) ==
  \E n \in 0..Len(q) :
    /\ Extends(r, SubSeq(q, n + 1, Len(q)))
    /\ n > 0 => linkedList' = linkedList \o SubSeq(q, 1, n)
ListsAreFifo ==
  [][ReadyStep /\ \A s \in Sem : QueueStep(blocked[s], blocked'[s])]_vars

(* Nobody is held up: the thread at place i of the ready list has the      *)
(* processor after at most i time slices, whatever the others do and       *)
(* however their slices end.  The ticks it may still have to wait grow     *)
(* fewer with every tick, and more by no step.                             *)
TicksToTurn(i) ==
  LET ran == timeRunning[runningThread]
  IN  i * TimeSlice - (IF ran < TimeSlice THEN ran ELSE TimeSlice - 1)
TurnComes ==
  [][\A i \in DOMAIN linkedList :
       \/ runningThread' = linkedList[i]
       \/ \E j \in DOMAIN linkedList' :
            /\ linkedList'[j] = linkedList[i]
            /\ TicksToTurn(j)' <= TicksToTurn(i)
            /\ TimerInterrupt => TicksToTurn(j)' < TicksToTurn(i)]_vars

(* The sleepers' list is used as SleepingThreads takes for granted: only a *)
(* thread that does not sleep is put there, for a time that is not 0 after *)
(* it was cut, and nothing but that and the ticks changes it.              *)
Sleeping == INSTANCE Sleepers WITH SleepTime <- {t % UIntLimit : t \in SleepTime}
UsesSleepers == Sleeping!SleepersSpec

(* A ready thread is run, whatever the others do: the timer alone takes    *)
(* the processor away from a thread that never calls the kernel.           *)
ReadyThreadRuns ==
  \A t \in Thread :
    (\E i \in DOMAIN linkedList : linkedList[i] = t) ~> (runningThread = t)

(* A sleeping thread wakes and runs.                                       *)
SleeperRuns == \A t \in Thread : (left[t] > 0) ~> (runningThread = t)

(* sem_wait returns 0, -1 or -2, the results the program in userMain2.cpp  *)
(* tells apart: no thread goes on from a sem_wait with the operation code  *)
(* that it called it with still in the register.                           *)
SemWaitResult ==
  mode = "on" /\ runningThread \in Thread => a1[runningThread] # SEM_WAIT

(* Nobody waits to join a thread that is over.                             *)
JoinSeesExit == \A t \in Thread : isOver[t] => semToSignal[t] = << >>

=============================================================================
