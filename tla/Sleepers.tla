------------------------------ MODULE Sleepers ------------------------------
(***************************************************************************)
(* What the list of sleeping threads promises, without its encoding: the   *)
(* sleepers in the order in which they will be woken, and for each the     *)
(* number of timer ticks it has left.  Kernel uses these operators in its  *)
(* system calls; SleepingThreads, which keeps the list as differences the  *)
(* way src/src/sleepingThreads.cpp does, implements SleepersSpec.          *)
(***************************************************************************)
EXTENDS Integers, Sequences, FiniteSets

CONSTANTS
  Thread,     \* the threads that may go to sleep
  SleepTime   \* the numbers of ticks they may ask for

VARIABLES
  asleep,     \* the sleepers, first to wake first
  left        \* ticks each has left, 0 for a thread that is not asleep

-----------------------------------------------------------------------------

(* A new sleeper goes in front of every one that has at least as long to   *)
(* go, so equal times wake in the reverse of the order they arrived.       *)
Position(time) ==
  1 + Cardinality({i \in DOMAIN asleep : left[asleep[i]] < time})

PutToSleep(t, time) ==
  /\ LET p == Position(time)
     IN  asleep' = SubSeq(asleep, 1, p - 1) \o <<t>> \o SubSeq(asleep, p, Len(asleep))
  /\ left' = [left EXCEPT ![t] = time]

(* The sleepers whose last tick the next one is.                           *)
Due == Cardinality({i \in DOMAIN asleep : left[asleep[i]] = 1})

WakeOne == SubSeq(asleep, 1, IF Due = 0 THEN 0 ELSE 1)  \* wrong: if for while
Awakened == SubSeq(asleep, 1, Due)

UpdateTime ==
  /\ asleep' = SubSeq(asleep, Due + 1, Len(asleep))
  /\ left' = [t \in Thread |-> IF left[t] > 0 THEN left[t] - 1 ELSE 0]

-----------------------------------------------------------------------------

SleepersInit ==
  /\ asleep = << >>
  /\ left = [t \in Thread |-> 0]

SleepersNext ==
  \/ \E t \in Thread, time \in SleepTime \ {0} :
       left[t] = 0 /\ PutToSleep(t, time)
  \/ UpdateTime

SleepersSpec == SleepersInit /\ [][SleepersNext]_<<asleep, left>>

=============================================================================
