-------------------------- MODULE SleepingThreads --------------------------
(***************************************************************************)
(* The list of sleeping threads as src/src/sleepingThreads.cpp keeps it:   *)
(* each node holds the ticks to wait after the node in front of it, in an  *)
(* unsigned int, so that a tick touches the first node alone.  It is       *)
(* checked to implement Sleepers, the list as the system calls see it.     *)
(***************************************************************************)
EXTENDS Integers, Sequences, FiniteSets

CONSTANTS
  Thread,      \* the threads that may go to sleep
  SleepTime,   \* the numbers of ticks they ask for
  UIntLimit    \* number of values of an unsigned int

ASSUME SleepAssumption ==
  /\ UIntLimit \in Nat \ {0}
  /\ SleepTime \subseteq 0..(UIntLimit - 1)

VARIABLE list    \* the nodes, [thread |-> t, timeLeft |-> n], from the head

Node == [thread : Thread, timeLeft : 0..(UIntLimit - 1)]
Threads(nodes) == {nodes[i].thread : i \in DOMAIN nodes}
Asleep == Threads(list)

UInt(n) == n % UIntLimit

-----------------------------------------------------------------------------

(* The time that is left of a new sleeper's time in front of node i: the   *)
(* loop of putToSleep subtracts the nodes it passes.                       *)
TimeAt(time) ==
  LET f[i \in 1..(Len(list) + 1)] ==
        IF i = 1 THEN time ELSE UInt(f[i - 1] - list[i - 1].timeLeft)
  IN  f

(* The first node that waits at least as long as the new sleeper still     *)
(* has to; past the last node if there is none.                            *)
Spot(time) ==
  CHOOSE i \in 1..(Len(list) + 1) :
    /\ i <= Len(list) => list[i].timeLeft >= TimeAt(time)[i]
    /\ \A j \in 1..(i - 1) : list[j].timeLeft < TimeAt(time)[j]

(* The new node goes in front of that one, which then waits for the rest.  *)
KeepNextTime(t, time) ==  \* wrong: cur->timeLeft -= time left out
  LET i == Spot(time)
      node == [thread |-> t, timeLeft |-> TimeAt(time)[i]]
  IN  list' = SubSeq(list, 1, i - 1) \o <<node>> \o SubSeq(list, i, Len(list))
AppendAgain(t, time) ==  \* wrong: return left out
  LET i == Spot(time)
      node == [thread |-> t, timeLeft |-> TimeAt(time)[i]]
  IN  list' = SubSeq(list, 1, i - 1) \o <<node>> \o SubSeq(list, i, Len(list))
                \o IF i <= Len(list) THEN <<node>> ELSE << >>
putToSleep(t, time) ==
  LET i == Spot(time)
      n == TimeAt(time)[i]
      shortened == [j \in 1..Len(list) |->
                      IF j = i THEN [list[j] EXCEPT !.timeLeft = UInt(@ - n)]
                      ELSE list[j]]
  IN  list' = SubSeq(list, 1, i - 1) \o <<[thread |-> t, timeLeft |-> n]>>
                \o SubSeq(shortened, i, Len(list))

(* A tick: the first node loses one, and when it has none left it and the  *)
(* nodes that wait for no time after it wake, from the front.              *)
WakeOne(ticked) == SubSeq(ticked, 2, Len(ticked))  \* wrong: if for while
DropAwake(ticked) ==
  LET n == CHOOSE n \in 1..Len(ticked) :
             /\ \A i \in 1..n : ticked[i].timeLeft = 0
             /\ n < Len(ticked) => ticked[n + 1].timeLeft # 0
  IN  SubSeq(ticked, n + 1, Len(ticked))
updateTime ==
  /\ list # << >>
  /\ LET ticked == [list EXCEPT ![1].timeLeft = UInt(@ - 1)]
     IN  list' = IF ticked[1].timeLeft > 0 THEN ticked ELSE DropAwake(ticked)

-----------------------------------------------------------------------------

Init == list = << >>

(* ABI::time_sleep asks for no sleep of 0 ticks, and a thread that sleeps  *)
(* asks for nothing.                                                       *)
Next ==
  \/ \E t \in Thread \ Asleep, time \in SleepTime \ {0} : putToSleep(t, time)
  \/ updateTime

Spec == Init /\ [][Next]_list

-----------------------------------------------------------------------------

(* What a node waits for is the sum of the times up to it.                 *)
Waits(nodes) ==
  LET f[i \in 0..Len(nodes)] == IF i = 0 THEN 0 ELSE f[i - 1] + nodes[i].timeLeft
  IN  f

Order(nodes) == [i \in 1..Len(nodes) |-> nodes[i].thread]
LeftOf(nodes) ==
  [t \in Thread |->
     IF t \in Threads(nodes)
     THEN Waits(nodes)[CHOOSE i \in DOMAIN nodes : nodes[i].thread = t] ELSE 0]

(* The list implements Sleepers: every thread wakes at the tick it asked   *)
(* for, whatever the others do, and in the order Sleepers says.            *)
Abstract == INSTANCE Sleepers WITH asleep <- Order(list), left <- LeftOf(list)
WakesOnTime == Abstract!SleepersSpec

(* The list is well typed: no thread sleeps twice.                         *)
TypeOK ==
  /\ list \in Seq(Node)
  /\ Cardinality(Asleep) = Len(list)

(* The first node always has a tick to go, so that the decrement of its    *)
(* unsigned time never wraps and never skips the threads behind it.        *)
HeadNeverWraps == list # << >> => list[1].timeLeft > 0

=============================================================================
