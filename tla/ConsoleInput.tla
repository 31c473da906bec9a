---------------------------- MODULE ConsoleInput ----------------------------
(***************************************************************************)
(* Reading from the console: the device's interrupt fills a ring buffer,   *)
(* and threads empty it with the getc of src/src/syscall_c.cpp, which is   *)
(* not one system call but a loop of two: getc, and sem_wait when getc     *)
(* says that the buffer is empty.  Between the two the thread may be       *)
(* interrupted, and other threads and the device run.                      *)
(***************************************************************************)
EXTENDS Integers, Sequences, FiniteSets, SequencesExt

CONSTANTS
  Getter,      \* the threads that read
  Char,        \* the characters
  Empty,       \* the one whose code is (char)-3, what getc answers when empty
  BufferSize,  \* MEM_BLOCK_SIZE, the size of the ring
  MaxArrivals  \* bound of the model: characters the device ever receives

ASSUME InputAssumption ==
  /\ IsFiniteSet(Getter)
  /\ Empty \in Char
  /\ BufferSize \in Nat \ {0}
  /\ MaxArrivals \in Nat

Slot == 0..(BufferSize - 1)
NoChar == "none"

VARIABLES
  received,    \* every character the device ever received, in order
  device,      \* those it still holds
  inputBuffer, inputHead, inputTail, inputNum,
  val,         \* inputBufferAvailable->val
  blocked,     \* inputBufferAvailable->blocked
  pc,          \* where each thread is in getc
  answer,      \* what its system call getc answered
  taken        \* the characters taken out of the buffer, in order

vars == <<received, device, inputBuffer, inputHead, inputTail, inputNum, val,
          blocked, pc, answer, taken>>
ring == <<inputBuffer, inputHead, inputTail, inputNum>>

-----------------------------------------------------------------------------

(* External: a character reaches the device.                               *)
Receive(c) ==
  /\ Len(received) < MaxArrivals
  /\ received' = Append(received, c)
  /\ device' = Append(device, c)
  /\ UNCHANGED <<ring, val, blocked, pc, answer, taken>>

(* How many characters one interrupt moves: the handler stops when the     *)
(* ring is full or the device has none left.                               *)
MovesAll(room) == Len(device)  \* wrong: fullness not tested
Moves(room) == IF Len(device) < room THEN Len(device) ELSE room

(* The threads that n signals free, and what they do to the value.         *)
FreesNone(n) == << >>  \* wrong: no signal
Freed(n) ==
  SubSeq(blocked, 1, IF val >= 0 THEN 0 ELSE IF -val < n THEN -val ELSE n)

(* readFromConsole: each character goes in at the tail, and is signalled.  *)
readFromConsole ==
  LET n == Moves(BufferSize - inputNum)
  IN  /\ device # << >>
      /\ inputBuffer' = [i \in Slot |->
                           LET k == ((i - inputTail) % BufferSize) + 1
                           IN  IF k <= n THEN device[k] ELSE inputBuffer[i]]
      /\ inputTail' = (inputTail + n) % BufferSize
      /\ inputNum' = inputNum + n
      /\ device' = SubSeq(device, n + 1, Len(device))
      /\ val' = val + n
      /\ blocked' = SubSeq(blocked, Len(Freed(n)) + 1, Len(blocked))
      /\ pc' = [g \in Getter |-> IF Contains(Freed(n), g) THEN "call" ELSE pc[g]]
      /\ UNCHANGED <<received, inputHead, answer, taken>>

-----------------------------------------------------------------------------

Begin(g) ==
  /\ pc[g] = "idle"
  /\ pc' = [pc EXCEPT ![g] = "call"]
  /\ UNCHANGED <<received, device, ring, val, blocked, answer, taken>>

(* The system call getc: readRequest.                                      *)
StaleHead == inputHead  \* wrong: inputHead not advanced
NextHead == (inputHead + 1) % BufferSize
readRequest(g) ==
  /\ pc[g] = "call"
  /\ pc' = [pc EXCEPT ![g] = "test"]
  /\ IF inputNum <= 0
       THEN /\ answer' = [answer EXCEPT ![g] = Empty]
            /\ UNCHANGED <<inputHead, inputNum, taken>>
       ELSE /\ answer' = [answer EXCEPT ![g] = inputBuffer[inputHead]]
            /\ inputHead' = NextHead
            /\ inputNum' = inputNum - 1
            /\ taken' = Append(taken, inputBuffer[inputHead])
  /\ UNCHANGED <<received, device, inputBuffer, inputTail, val, blocked>>

(* `if(rVal != (char)-3) break'.                                           *)
Return(g) ==
  /\ pc[g] = "test" /\ answer[g] # Empty
  /\ pc' = [pc EXCEPT ![g] = "idle"]
  /\ UNCHANGED <<received, device, ring, val, blocked, answer, taken>>

(* sem_wait on the semaphore that getc put in a7, and round the loop.      *)
WaitForInput(g) ==
  /\ pc[g] = "test" /\ answer[g] = Empty
  /\ val' = val - 1
  /\ IF val - 1 < 0
       THEN /\ blocked' = Append(blocked, g)
            /\ pc' = [pc EXCEPT ![g] = "blocked"]
       ELSE /\ pc' = [pc EXCEPT ![g] = "call"]
            /\ UNCHANGED blocked
  /\ UNCHANGED <<received, device, ring, answer, taken>>

-----------------------------------------------------------------------------

Init ==
  /\ received = << >> /\ device = << >>
  /\ inputBuffer = [i \in Slot |-> NoChar]
  /\ inputHead = 0 /\ inputTail = 0 /\ inputNum = 0
  /\ val = 0 /\ blocked = << >>
  /\ pc = [g \in Getter |-> "idle"]
  /\ answer = [g \in Getter |-> NoChar]
  /\ taken = << >>

GetterStep(g) == readRequest(g) \/ Return(g) \/ WaitForInput(g)
Next ==
  \/ \E c \in Char : Receive(c)
  \/ readFromConsole
  \/ \E g \in Getter : Begin(g) \/ GetterStep(g)

Spec == Init /\ [][Next]_vars

(* The device interrupts while it holds a character and the ring has room, *)
(* and every thread that is ready runs (ReadyThreadRuns of Kernel).        *)
FairSpec ==
  /\ Spec
  /\ WF_vars(readFromConsole /\ inputNum < BufferSize)
  /\ \A g \in Getter : WF_vars(GetterStep(g))

-----------------------------------------------------------------------------

(* The counters stay within the ring.                                      *)
TypeOK ==
  /\ received \in Seq(Char) /\ device \in Seq(Char) /\ taken \in Seq(Char)
  /\ inputBuffer \in [Slot -> Char \cup {NoChar}]
  /\ inputHead \in Slot /\ inputTail \in Slot
  /\ inputNum \in 0..BufferSize
  /\ val \in Int /\ blocked \in Seq(Getter)
  /\ pc \in [Getter -> {"idle", "call", "test", "blocked"}]
  /\ answer \in [Getter -> Char \cup {NoChar}]

(* Characters leave the buffer in the order in which the device received   *)
(* them; none is lost, repeated or overwritten, also when the ring wraps   *)
(* or was full when the interrupt came.                                    *)
Contents == [k \in 1..inputNum |-> inputBuffer[(inputHead + k - 1) % BufferSize]]
InputInOrder == received = taken \o Contents \o device

(* No wake-up is lost between the two calls of the loop: for every         *)
(* character in the buffer there is a thread about to ask for it, or a     *)
(* unit of the semaphore that will let the next one that waits pass.       *)
CharsAreAnnounced ==
  inputNum <= Cardinality({g \in Getter : pc[g] = "call"}) + (IF val > 0 THEN val ELSE 0)

(* A thread that waits for input while the buffer holds some does not wait *)
(* for ever, unless the others take everything.                            *)
WaitingReaderRuns ==
  \A g \in Getter :
    (pc[g] = "blocked" /\ inputNum > 0) ~> (pc[g] # "blocked" \/ inputNum = 0)

(* A character taken out of the buffer is handed to the thread that asked, *)
(* and never mistaken for the answer that the buffer is empty.             *)
CharReachesReader ==
  [][\A g \in Getter :
       pc[g] = "call" /\ pc'[g] = "test" /\ taken' # taken => answer'[g] # Empty]_vars

=============================================================================
