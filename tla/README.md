# Verification of the RISC-V teaching kernel

TLA+ models of the kernel in `src/h` and `src/src`, TLC configurations that check
them on small instances, and TLAPS proofs for every instance. Line numbers below
are those of the sources this project was written against; `PROJECT.json` maps
each definition to its lines.

## 1. The system

A single-hart kernel with preemptive threads. User programs call a C or C++
library (`syscall_c.cpp`, `syscall_cpp.cpp`) that puts an operation code into `a1`
and executes `ecall`. The trap entry (`interruptRoutine.S`,
`interruptRoutine2.cpp`) saves the registers into the running thread's context,
switches to the kernel's stack and calls one of three handlers in `riscV.cpp`:
system calls, the timer, the console. A handler works with interrupts off, may
replace `PCB::runningThread`, and returns to whichever thread is running then.

| Component | Source | State | Operations |
|---|---|---|---|
| Traps, ABI | `riscV.cpp`, `ABI.cpp`, `interruptRoutine2.cpp` | saved contexts, `runningThread` | 13 system calls, timer, console interrupt |
| Scheduler | `scheduler.cpp` | ready list, default (idle) thread | `putThread`, `getThread` |
| Threads | `PCB.cpp` | `status`, `timeRunning`, `isBeginning`, `isOver`, `semToSignal` | create, start, dispatch, exit, join |
| Semaphores | `sem.cpp` | `val`, `blocked` | open, close, wait, signal |
| Queue | `queue.cpp` | linked list | `put`, `get` |
| Sleepers | `sleepingThreads.cpp` | list of time differences | `putToSleep`, `updateTime` |
| Console | `consoleHandler.cpp` | input ring, output ring, list of write requests, `inputBufferAvailable` | `getc`, `putc`, interrupt |
| Allocator | `memoryAllocator.cpp` | list of free fragments, descriptors | `mem_alloc`, `mem_free` |
| Contexts and modes | `contextSwitch.S`, `interruptRoutine.S`, `interruptRoutine2.cpp`, `riscV.h` | `Context` of each PCB, `sepc`, `sstatus`, `scause` | `setjmp`, `longjmp`, trap entry and exit, `wrapper` |
| C++ library | `syscall_cpp.cpp`, `syscall_cpp.hpp` | `myHandle`, `period` | wrappers, `~Thread`, `PeriodicThread::run` |
| Start-up | `main.cpp` | `mainContext` | starts the first thread, is returned to at the end |

How they interact: every way a thread can lose the processor (`Sem::block`,
`PCB::exit`, `PCB::dispatch`, `ABI::time_sleep`, a tick at the end of its slice)
ends in `Scheduler::getThread`, which reads the ready list, the sleepers and the
console's semaphore to tell whether to run a thread, to idle or to return to
`main`. Semaphores, sleepers and exits put threads back with `putThread`. The
console's interrupt signals a semaphore that the library's `getc` waits on in a
second system call. Every list node comes from the allocator. A thread's memory is
taken in three places (the C stub its stack, the kernel its PCB, each join a
semaphore) and given back in three others (`PCB::exit`, `~PCB`, `~Thread`), the
last of them in user mode.

What is hard: an interrupt between any two system calls; results written after
`runningThread` has changed; a shutdown test that reads three components; two
system calls that make up one `getc`; a list of differences in unsigned
arithmetic; rings that wrap and fill; freeing in any order; registers that pass
through two stacks and the context of a thread that may not be the next to run; an
object deleted while the kernel, or its own thread, may still use what it owns. `PROJECT.json`
lists each hazard at its line, with the property that covers it or the reason
why none does.

## 2. Modules

| Module | Models | Variables and actions |
|---|---|---|
| `Sleepers` | what the list of sleepers promises | `asleep` (order of waking), `left` (ticks left); `PutToSleep`, `UpdateTime` |
| `Kernel` (extends `Sleepers`) | scheduler, threads, semaphores, joining, sleeping, timer, console signals | one variable per field of `PCB`, `Sem` and `Scheduler`, the A1 slots, `mode`; one action per system call, plus `TimerInterrupt`, `ConsoleInterrupt` |
| `MCKernel` | instances of `Kernel` | the symmetry of the created threads |
| `SleepingThreads` | the sleepers' list as the code keeps it | `list` of `[thread, timeLeft]`; `putToSleep`, `updateTime` |
| `ConsoleInput` | interrupt, ring, and the loop of `getc` | ring counters, `pc` of each reader, the device |
| `ConsoleOutput` | `putc`, ring, requests, device | ring counters, `requests`, `ready` |
| `Heap` | what an allocator of blocks promises | `owned`, `refused` |
| `MemoryAllocator` | first fit, cutting, freeing, joining | `fmem`, `desc` |
| `Processes` | what the kernel promises a thread's code: a processor and a stack of its own | `owner`, each thread's `file` and `mem`; `Instruction`, `Leave`, `Create`, `Resume` |
| `Context` | traps, `setjmp`, `longjmp`, the stacks, privilege, `wrapper` | `cpu`, `sepc`, `spp`, `scause`, `stack`, `ctx`; a thread's instructions, `Trap`, and each stretch of the way in and out |
| `MCContext` | an instance of `Context` | the view (section 4) |
| `Activations` | what a periodic thread promises | `phase`, `left`; `Announce`, `Rest`, `Hurry`, `Activate`, `Done`, `Stop` |
| `Library` (uses `Sleepers`) | the lives of `Thread` and `PeriodicThread` objects, of the kernel objects behind them, and of their memory | `program`, `pc` of each thread, `period`, `heap`; the C++ calls, the steps of the destructor and of `runner` |
| `KernelProofs`, `ListProofs` | theorems about `Kernel`: types, counts and the processor; placement and order | |
| `ContextProofs`, `LibraryProofs`, `SleepersProofs`, `ConsoleProofs`, `OutputProofs`, `AllocatorProofs` | theorems about `Context`, `Library`, `SleepingThreads`, `ConsoleInput`, `ConsoleOutput`, `MemoryAllocator` | |

Three models look at the same kernel from different sides. `Kernel` has all the
lists and no registers but the A1 slots. `Context` has the registers and lets a
handler switch to any thread at all, so that what it shows holds for every
scheduler. `Library` takes from `Kernel` that a ready thread runs, uses the same
`Sleepers`, and adds the memory.

`Sleepers` is where three models meet. `SleepingThreads` implements it for callers
that put a thread into the list only while it does not sleep, and for a time that
is not 0. `Kernel` and `Library` use it so: every step of theirs is one of
`Sleepers` or leaves the list alone (`UsesSleepers` in `Kernel`, checked and
proved; `LibrarySleeps`, proved). So the code's list of differences may stand
where the two use the specification's.

**Atomicity.** A trap handler runs with interrupts disabled from entry to `sret`
and there is one hart, so a system call, a tick and a console interrupt are one
action each. Threads run in user mode, where the handlers' state cannot change
(the exception is `~Thread`, which calls the allocator there). `ConsoleInput`
splits `getc`, which is two system calls, into its steps. `Library` takes
`PeriodicThread::run` apart at every read of `period`, and the destructor at every
call of the allocator, since a tick or another thread may come in between.
`Context` goes below the system call: one action per instruction of a thread, and
for the kernel one per stretch that ends where the stack or the code changes.

**Correspondence.** `SwitchFrom` is `getThread` with the two lines that follow
every call of it. `ModeAfterGet` is its shutdown test: `halted` when it jumps to
`mainContext`, `wedged` when it reads through a null `inputBufferAvailable`
(the console was never used), which faults and is retried for ever. `Dispatch` is
`PCB::dispatch` with `start`. Queues are sequences; `Queue::get` and `put` are
`Head`/`Tail` and `Append`. `Releases(s, n)` says how many of n signals find a
waiter. A join semaphore has exactly one waiter, so `semToSignal` holds the
waiter in its place. `a1` is the A1 slot of a saved context: it is overwritten by
each trap's `setjmp` and by the result; in `Context` it is the slot `A1`. `Returns` writes the result to the
thread that runs when the handler ends, as `ABI.cpp` does.

**Variants.** A definition with the comment `\* wrong:` is a plausible mistake in
the definition below it. It is used by no specification; replacing the right
definition by it makes the property named in `PROJECT.json` ("mutants") fail.

## 3. Runs

| Run | Question | Result |
|---|---|---|
| `kernel` | safety of every interleaving of calls, ticks and console interrupts | holds, about 776,000 states |
| `kernel_live` | are ready threads and sleepers ever run? | holds, about 231,000 states |
| `sleeping_threads` | does the list of differences implement `Sleepers`? | holds, 1,457 states |
| `console_input` | is input in order, and is no wake-up lost inside `getc`? | holds, about 117,000 states |
| `console_output` | does output keep its order through ring and requests? | holds, about 7,200 states |
| `context` | does a thread get back its registers, stack and mode? | holds, about 331,000 states |
| `library` | is nothing used after it is freed, or leaked; do periodic threads keep their pace and end? | holds, about 23,000 states |
| `memory_allocator` | are blocks conserved, and does it implement `Heap`? | holds, about 37,000 states |
| `sem_wait_result` | does `sem_wait` return 0, -1 or -2, as `userMain2.cpp:46-49` expects? | **violated** |
| `join_sees_exit` | is no join left waiting on a thread that is over? | **violated** |
| `char_reaches_reader` | does a character that leaves the buffer reach its reader? | **violated** |
| `output_is_sent` | does what is written reach the device? | **violated** |

The properties of `kernel`: `NoThreadTwice` and `NoThreadLost` (each live thread is
in exactly one place), `SemaphoreCount` (value against queue), `HaltOnlyWhenStuck`
and `IdleAwaitsEvent` (the shutdown test errs on neither side), `QuantumBound`
(no path to the processor inherits old ticks), `StatusTracksList`,
`ListsAreFifo`, `TurnComes` (of a ready thread: the ticks it may still have to wait
grow fewer with every tick and more by no step, whoever blocks, ends or is woken)
and `UsesSleepers` (section 2).

Those of `context`: `PrivateRegisters` is that `Context` implements `Processes`: through
any trap and any choice of the next thread, a thread's program counter, stack
pointer, `ra`, other registers and the used part of its stack are what it left,
and an `ecall` is not executed twice. `UserMode` says that a thread's code runs
unprivileged and the kernel's does not, `OwnStack` that every handler starts at
the top of the kernel's stack, though the kernel's context is saved only once.

Those of `library`: `NoDangling` and `NothingLeaks` (between them, each piece of a
thread's memory is freed exactly once and not too early, by programs that delete a
thread only after `join`), `KeepsPace` (`Library` implements `Activations`: a pause once
begun is a whole period, `terminate` does not cut it, and after `terminate` at most one
activation follows), `EndComes` (after
`terminate` no step takes a thread further from its end, and each of its own steps and
of the ticks it sleeps through brings it nearer), `EndsAfterTerminate` and
`JoinReturns`. The properties of the others are commented in their modules.

`KeepsPace` does not say that two activations are always a period apart. `run` reads
`period` for the test and again for `time_sleep` (`syscall_cpp.cpp:87-88`). If
`terminate` falls in between, `time_sleep(0)` returns at once and the activation that was
announced comes without a pause (`Hurry`). No document, comment or test of the
repository promises otherwise, so it is not listed as a finding.

The four violations:

- `ABI::sem_wait` (and `time_sleep`) store the result in the slot of the thread
  that runs *after* the switch. A thread that blocked returns with its operation
  code, 23.
- `thread_join` waits for a signal that only `PCB::exit` gives. If the thread
  has ended before, nobody gives it; `isOver` is set and never read.
- `getc` takes the character 253 for "buffer empty".
- The console's interrupt does not write; what was put into the ring while the
  device was busy waits for a later `putc`, and once the ring is full `putc` does
  not write either.

## 4. Bounds

- `Kernel.cfg`: `userMain`'s thread and two more, one user semaphore opened with
  0 or 1, a slice of 2 ticks, sleeps of 1, 2 and (cut to an `unsigned int` of 4
  values) 0 ticks, at most 2 characters per console interrupt, no signal above
  `MaxVal` = 1. Three threads are what it takes for one to close a semaphore on
  which another waits while a third is ready, for a queue of two, and for two
  joiners of one thread. `MaxVal` cuts off signals that only count up: a
  semaphore above 0 has no waiters, and one unit is enough for a wait that
  does not block.
- `KernelLive.cfg`: the same threads without the user semaphore, as a thread
  blocked for ever by its program's choice is promised nothing.
- `SleepingThreads.cfg`: four sleepers and times 1 to 4 give every insertion place
  (front, middle, end), equal times, and several threads woken by one tick.
- `ConsoleInput.cfg`: a ring of 2 and 4 characters fill it, wrap it and leave the
  device holding more. `CHECK_DEADLOCK FALSE`: when all have arrived, the readers
  may wait for input that never comes.
- `ConsoleOutput.cfg`: a ring of 3 and 7 characters fill it, wrap it and queue
  requests.
- `Context.cfg`: two threads (three would only repeat the pair that switches), two
  addresses of code 4 bytes apart, so that `sepc + 4` is seen, two values, stacks
  of two frames. `MCContext`'s view takes states for equal that differ only in what
  is written before it is read again; it leaves in everything the properties read.
- `Library.cfg`: three places for objects, two of them periodic with a period of
  2 ticks, so that `terminate` may come in the first tick, the second, or after.
  `Room` = 15 pieces hold two threads with a join, and a third start meets a refused
  allocation. `CHECK_DEADLOCK FALSE`: after a write through null (`Fault`) the model
  stops, as nothing is known of the system then.
- `MemoryAllocator.cfg`: 8 blocks of 2 bytes; requests from 0 bytes to more than
  the heap holds, including the one that leaves a single block.

## 5. Fairness

`Kernel` assumes that the timer goes on ticking, and nothing of the programs: a
thread may loop without a call. `ConsoleInput` assumes that the device interrupts
while it holds a character and the ring has room, and that a ready thread runs,
which is `ReadyThreadRuns` of `Kernel`. It assumes nothing of input that is yet to
arrive. `ConsoleOutput` assumes that programs write and that the device becomes
ready again. `output_is_sent` fails even so. `Library` assumes that the timer ticks,
that a ready thread runs (again `ReadyThreadRuns`) and that an activation of a
periodic thread comes to its end; nothing of the program, and nothing of a plain
thread's body.

## 6. Proofs

Each theorem holds for all values of its module's constants under the module's
named assumption alone (`RequestsHeld` has one hypothesis more, below).

**The kernel.** The assumption: the idle thread is not a user thread, the
console's semaphore not a user's, the slice is positive, semaphores start with a
natural number, registers' other contents are distinct from codes and results.

- `KernelProofs`: `TypeCorrect` (`[]TypeOK`) and `CountCorrect` (`[]SemaphoreCount`).
  Neither is inductive alone. A signal takes `-val` threads from the front of a
  queue, and only the count says that there are as many, so the type of the ready
  list depends on it. And `sem_open` gives a semaphore a value without touching
  its queue, so the queue of one that does not exist must be known to be empty.
  The invariant is `IInv == TypeOK /\ SemaphoreCount /\ AbsentAreZero`. Lemmas say
  what `SwitchFrom`, `Dispatch`, `Signal` and the sleepers' operators do to the types,
  then there is one lemma per action, and `NextIInv` collects them.
- `KernelProofs` also: `SliceKept` (`[]QuantumBound`) and `IdleNeverInVain`
  (`[]IdleAwaitsEvent`), inductive given `IInv`. The heart is `SwitchGivesProcessor`:
  after `getThread` a user thread's time is 0, and the idle thread was chosen only
  with a sleeper or an input waiter left. A tick or a console signal that takes a
  thread out of one list puts it into the ready list (`PartsNotEmpty`).
- `ListProofs`: `NeverTwice`, `NeverLost` and `HaltsRightly`. The invariant,
  `PlaceInv`, says that the lists, each without repetition and no two with a thread
  in common, hold exactly the live threads that do not run. `NoThreadTwice` alone
  would not do: that a thread may be appended follows from its being the one that
  runs, so from `NoThreadLost` too. Every handler is made of four moves (append,
  insert among the sleepers, take the first, carry a front part over), each of
  which is treated once, for a family of lists.
- `ListProofs` also: `StatusKept` (`[]StatusTracksList`) and `FirstComeFirstServed`
  (`ListsAreFifo`). The status is written apart from the lists, so the first needs the
  placement before and after a step to know that a write hits only threads that
  move. The second needs only the types.
- `ListProofs` also: `TurnsCome` (`TurnComes`). The argument is the order's with
  numbers: a thread that moves up a place comes a slice nearer (`OneSlice`), and
  whatever ends a slice early (a block, an exit, a dispatch) moves everybody up. A
  tick uses up the runner's time or its slice. `WaitIsBounded` adds the number that
  is counted down from: with n threads, a ready one is at most n slices of
  ticks from the processor, since the ready list holds no thread twice.
- `ListProofs` also: `SleepersUsed` (`UsesSleepers`). A thread goes to
  sleep only while no ticks are left of an earlier sleep: it runs, so by the placement
  it is in no list, and a thread has ticks left exactly while it is in the sleepers'.
  For that to stay so a tick must take out just those whose time is up, and that they
  are the first of the list needs its order, the other half of `SleepInv`.
- `ListProofs` also: `SignalsInARow`. An interrupt signals once for every character,
  and the model does so in one step. Run one after another (`OneSignal`, as in
  `sem.cpp`), n signals leave what `Signal(s, n)` leaves, and the value never says
  that somebody waits when the queue is empty, so `deblock` is never handed a null.

**Contexts.** `ContextProofs`: `ContextTyped`, `ModesKept` (`[]UserMode`), `StacksApart`
(`[]OwnStack`) and `ContextImplements` (`PrivateRegisters`). The invariant says of each
thread that has not got the processor that its context is as the constructor made
it or as the routine filled it, with a frame below it on the thread's own stack
(`ContextOf`), and of the processor what it holds at each stretch of the way
(`Position`). The refinement then has one lemma per action: a thread's registers are
the processor's, or are found in its context and frame, or halfway in between.

**The library.** `LibraryProofs`: `NothingDangles` (`[]NoDangling`) and `DeletedWhole`
(`[]NothingLeaks`). The invariant tells for every stage of an object's life exactly
which pieces are allocated for it (`Memory`), and which stages exclude each other
(`Life`): in particular a thread that may still run is never one that was joined.
The theorems are about `Spec` under the hypothesis `DeletedAfterJoin`, the program's
rule on `delete`; `FairSpecRuled` says that TLC's specification keeps it.
`PaceKept` (`KeepsPace`) is the refinement of `Activations`: most steps are not seen
there (`Unseen`), and `terminate` maps to `Stop` whether it comes before, in, or after
the reads of `period`: what it changes is which of `Rest` and `Hurry` the call of
`time_sleep` is. `LibraryTyped` (`[]TypeOK`) needs that a part of what is
allocated is not larger than the whole (`SizeOfPart`). `EndIsNear` (`EndComes`) counts
what a terminated thread has left to do, ticks included; nothing adds to it, as no
object is made anew in a place whose thread still lives (`Life`), and a sleeper has
a tick to go (`Bounded`). `LibrarySleeps` is the other user of `Sleepers`.

**The sleepers.** `SleepersProofs`: `SleepersTyped`, `NeverWraps` (`[]HeadNeverWraps`) and
`SleepersImplemented` (`WakesOnTime`), for any threads and times. The invariant is
`SleepInv`: typed nodes, no thread twice, and a head with a tick to go. What a
node waits for is a sum along the list, and what is left of a new sleeper's time
a difference; both are recursive functions. That there is such a function, and
what it yields, is found by climbing: a set of places that holds the lowest, and
with each place the next, holds them all, or there would be a least place outside
(`Climb`, `GoesOn`). `TimeAtIs` and `LeftThere` say that up to the new node's place no
subtraction of the loop wraps. From there `PutMaps` and `TickMaps` treat the two steps.

**The console's output.** `OutputProofs`: `OutputTyped`, `OutputOrdered` (`[]OutputInOrder`) and
`RequestsBehindRing` (`[]RequestsOnlyWhenFull`), for any ring. A request is made only
when the ring is full, and a full ring keeps `putc` from writing: so the loop of
`writeToConsole` never meets a request (`Unasked`), and each of its rounds, climbed as
above, takes one character from the front of the ring.

**The console's input.** `ConsoleProofs`: `RingTyped`, `InputOrdered` (`[]InputInOrder`) and
`NoWakeUpLost` (`[]CharsAreAnnounced`), for every size of the ring and number of readers.
The ring's argument is where the tail is, in arithmetic modulo the size, and that a
slot seen from the tail holds a character or not. The announcement's is that the
queue is as long as the value is negative and has no thread twice, so that k
signals make k more threads ask. `NobodyWaitsInVain` draws the consequence: while a
reader is blocked the semaphore has no units, so a character in the buffer is
announced to a thread that is about to ask. `ReadsInARow` shows that the interrupt's one
step is the loop of `readFromConsole`: `OneRead` is a round as the code has it,
`CanRead` the guard, which holds n times and then fails.

**The allocator.** `AllocatorProofs`: `HeapTyped`, `FragmentsJoined`
(`[]FreeListJoined`), `OneOwner` (`[]BlocksConserved`), `RequestsHeld` (`[]HoldsRequest`, with
the hypothesis that rounding a size up does not wrap, without which it is false)
and `AllocatorImplements` (`AllocatesWhenPossible`, the refinement of `Heap`). The
invariant adds to the list's order that a block is free or in use and not both
(`FreeOrUsed`): only this tells that a region put back touches none but its
neighbours. `JoinOne` treats one `tryToJoin`, for a list that may touch at a known
set of places, and is used twice. That a refusal is right rests on `FreeRun`: as no
two fragments touch, free blocks in a row are in one fragment. The searches for the
first fragment that fits, and for the place of a region, need a least element; it
comes from the well-foundedness of the natural numbers, not from induction.

**Only model-checked.** The liveness properties (`ReadyThreadRuns`, `SleeperRuns`,
`WaitingReaderRuns`, `EndsAfterTerminate`, `JoinReturns`): the installed provers do not do
fairness or `ENABLED`. What is safety in them is proved: `TurnComes` and
`WaitBounded` for the first, with `UsesSleepers` for the second (a sleeper's time
counts down with every tick and ends in the ready list, by `NoThreadLost`),
`SomebodyAsks` for the third, `EndComes` for the other two. What is left for TLC is that
a number that falls with every tick or step of a thread reaches its end because the
ticks and steps go on. Every invariant, action property and refinement that a
passing run checks is proved. The proofs get by without induction over data: where
a definition is recursive they use a least element, as above.

## 7. Assumptions and what is not modelled

- `Kernel` takes memory to be available and every list node to be its own. The
  allocator's refusals are in `MemoryAllocator`, and what a refused PCB, semaphore
  or object leads to is `Library`'s step `Fault`, after which nothing is promised: the
  handlers do not test for it.
- Programs use semaphores that exist and threads that were created. A handle
  that is closed is freed memory: what the code does with it is undefined. In
  `Library` a program starts an object once and joins only what it has started (guards
  of `Start` and `join`), and deletes what it has started only after `join` has returned
  (`DeletesJoined`). The three rules are assumptions of this model: the library checks
  none of them, and the examples neither join nor delete a thread. `~Thread` deletes
  the PCB whatever its thread is doing; without the last rule `NoDangling` fails.
- Kernel lets a program wait on the console's semaphore at any time once it exists;
  `getc`, which hands the semaphore out in `a7`, does so only after an empty answer.
- `sem_open` values fit an `int`; sizes do not wrap in the allocator's run; periods
  fit an `unsigned int`.
- Reading through a null pointer faults (the machine's memory starts elsewhere).
- `Context` promises a thread neither `a0` nor `a1`. A call returns its result there;
  but an interrupt's exit path, too, loads `a0` from the A1 slot, and `setjmp`
  does not save `a0`, so an interrupted thread goes on with another `a0`
  (`Resume` models it). The scratch registers that a compiler's prologue may use
  before `setjmp` stores them depend on the build and are left out.
- A call of the allocator by `~Thread` is one step in `Library`. The code runs it in
  user mode with interrupts on; a tick or a call inside it finds the free list as
  the build's order of stores left it.
- Threads have stacks deep enough: a thread keeps room for the routine's frame.
- Not modelled, because there is nothing in them to check: the accessors of control
  registers but those of `Context`; the steps of `main` up to the first thread, which
  run with interrupts off (the state they lead to is `Init`); the C++ classes
  `Semaphore` and `Console`, which pass calls on; `signalWait`, `Queue::clear`,
  `PCB::resume`, `PCB::fork` and `readRaToRunning`, which have no caller.
- Not modelled, because it is not in the repository: the machine's own library
  (`hw.lib`), of which only the heap's bounds and the console's registers are used.

## 8. Plan

1. Core: `Kernel`, its sleepers, console and allocator. *Done.*
2. `Context`: registers through `setjmp`, handler, `longjmp` and exit path. *Done.*
3. `Library`: `PeriodicThread` and `~Thread` against the handlers. *Done.*
4. Proofs: placement, status, order, turns, contexts, memory, pace and end of
   threads, sleepers and their users, console, allocator. *Done.*
5. Left: an allocator that two contexts are inside of at once (`~Thread` calls it in
   user mode), for which the order of stores of a particular build would have to be
   fixed; and liveness for every instance, if a prover for it is at hand.
