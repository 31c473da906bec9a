---------------------------- MODULE ConsoleProofs ----------------------------
(***************************************************************************)
(* Proofs about reading from the console, for any number of readers and    *)
(* characters and every size of the ring: the counters stay in the ring,   *)
(* the characters leave it in the order of their arrival, every one in it  *)
(* is announced to a reader, and the interrupt's one step is the code's    *)
(* loop.                                                                   *)
(*                                                                         *)
(* The two arguments need each other only for the types.  The ring's says  *)
(* where the tail is, and what the slots between head and tail hold.  The  *)
(* semaphore's says that the queue is as long as the value is negative,    *)
(* that its threads differ, and that they are where they wait: only then   *)
(* do k signals make k more threads ask.                                   *)
(***************************************************************************)
EXTENDS ConsoleInput, FunctionTheorems, FiniteSetTheorems, SequenceTheorems,
        WellFoundedInduction, TLAPS

RingInv ==
  /\ inputTail = (inputHead + inputNum) % BufferSize
  /\ Contents \in Seq(Char)
  /\ InputInOrder

WaitersInv ==
  /\ Len(blocked) = IF val < 0 THEN -val ELSE 0
  /\ \A i, j \in DOMAIN blocked : blocked[i] = blocked[j] => i = j
  /\ \A i \in DOMAIN blocked : pc[blocked[i]] = "blocked"

ConsoleInv == TypeOK /\ RingInv /\ WaitersInv /\ CharsAreAnnounced

-----------------------------------------------------------------------------
(***************************************************************************)
(* Slots.                                                                  *)
(***************************************************************************)

(* The slot k places ahead of h, and how far i is ahead of t.              *)
LEMMA Ahead ==
  ASSUME NEW h \in Slot, NEW k \in 0..BufferSize
  PROVE  (h + k) % BufferSize = IF h + k < BufferSize THEN h + k ELSE h + k - BufferSize
BY InputAssumption DEF Slot

LEMMA Behind ==
  ASSUME NEW i \in Slot, NEW t \in Slot
  PROVE  (i - t) % BufferSize = IF i >= t THEN i - t ELSE i - t + BufferSize
BY InputAssumption DEF Slot

LEMMA AheadInRing ==
  ASSUME NEW h \in Slot, NEW k \in 0..BufferSize
  PROVE  (h + k) % BufferSize \in Slot
BY Ahead, InputAssumption DEF Slot

(* Seen from the tail, the slots that hold characters come last.           *)
LEMMA FromTail ==
  ASSUME NEW h \in Slot, NEW num \in 0..BufferSize, NEW o \in 0..(BufferSize - 1)
  PROVE  (((h + o) % BufferSize) - ((h + num) % BufferSize)) % BufferSize
           = IF o < num THEN o - num + BufferSize ELSE o - num
<1> DEFINE i == (h + o) % BufferSize
           t == (h + num) % BufferSize
<1>1. BufferSize \in Nat \ {0} /\ o \in 0..BufferSize /\ h \in 0..(BufferSize - 1)
  BY InputAssumption DEF Slot
<1>2. i \in Slot /\ t \in Slot
  BY <1>1, AheadInRing
<1>3. /\ i = IF h + o < BufferSize THEN h + o ELSE h + o - BufferSize
      /\ t = IF h + num < BufferSize THEN h + num ELSE h + num - BufferSize
  BY <1>1, Ahead
<1> HIDE DEF i, t
<1>4. (i - t) % BufferSize = IF i >= t THEN i - t ELSE i - t + BufferSize
  BY <1>2, Behind
<1>5. (i - t) % BufferSize = IF o < num THEN o - num + BufferSize ELSE o - num
  BY <1>1, <1>3, <1>4
<1> QED  BY <1>5 DEF i, t

(* Advancing the head leaves the tail one place less ahead.                *)
LEMMA HeadAdvanced ==
  ASSUME NEW h \in Slot, NEW k \in 0..(BufferSize - 1)
  PROVE  (((h + 1) % BufferSize) + k) % BufferSize = (h + (k + 1)) % BufferSize
<1> DEFINE g == (h + 1) % BufferSize
<1>1. /\ BufferSize \in Nat \ {0} /\ k \in 0..BufferSize /\ k + 1 \in 0..BufferSize
      /\ 1 \in 0..BufferSize /\ h \in 0..(BufferSize - 1)
  BY InputAssumption DEF Slot
<1>2. g \in Slot /\ g = IF h + 1 < BufferSize THEN h + 1 ELSE h + 1 - BufferSize
  BY <1>1, Ahead, AheadInRing
<1> HIDE DEF g
<1>3. (g + k) % BufferSize = IF g + k < BufferSize THEN g + k ELSE g + k - BufferSize
  BY <1>1, <1>2, Ahead
<1>4. (h + (k + 1)) % BufferSize
        = IF h + (k + 1) < BufferSize THEN h + (k + 1) ELSE h + (k + 1) - BufferSize
  BY <1>1, Ahead
<1>5. (g + k) % BufferSize = (h + (k + 1)) % BufferSize
  BY <1>1, <1>2, <1>3, <1>4
<1> QED  BY <1>5 DEF g

-----------------------------------------------------------------------------
(***************************************************************************)
(* Readers.                                                                *)
(***************************************************************************)

Callers == {g \in Getter : pc[g] = "call"}
Units == IF val > 0 THEN val ELSE 0

LEMMA CallersCounted == IsFiniteSet(Callers) /\ Cardinality(Callers) \in Nat
<1>1. Callers \in SUBSET Getter
  BY DEF Callers
<1> QED  BY <1>1, InputAssumption, FS_Subset, FS_CardinalityType

(* As many threads as a list without repetitions is long.                  *)
LEMMA ListCounted ==
  ASSUME NEW q \in Seq(Getter), \A i, j \in DOMAIN q : q[i] = q[j] => i = j
  PROVE  LET S == {q[i] : i \in DOMAIN q}
         IN  IsFiniteSet(S) /\ Cardinality(S) = Len(q)
<1> DEFINE S == {q[i] : i \in DOMAIN q}
           n == Len(q)
<1>1. n \in Nat /\ DOMAIN q = 1..n /\ q \in [1..n -> Getter]
  BY LenProperties
<1>2. q \in [1..n -> S]
  BY <1>1
<1>3. q \in Bijection(1..n, S)
  <2>1. \A a, b \in 1..n : q[a] = q[b] => a = b
    BY <1>1
  <2>2. \A s \in S : \E a \in 1..n : q[a] = s
    BY <1>1
  <2> HIDE DEF S
  <2> QED  BY <1>2, <2>1, <2>2, Fun_IsBij
<1>4. IsFiniteSet(1..n) /\ Cardinality(1..n) = n
  BY <1>1, FS_Interval
<1>5. ExistsBijection(1..n, S)
  BY <1>3 DEF ExistsBijection
<1> HIDE DEF S
<1> QED  BY <1>4, <1>5, FS_Bijection DEF S

-----------------------------------------------------------------------------
(***************************************************************************)
(* What the device's interrupt does.                                       *)
(***************************************************************************)

LEMMA ContentsAre ==
  ASSUME TypeOK
  PROVE  /\ Len(Contents) = inputNum /\ DOMAIN Contents = 1..inputNum
         /\ \A k \in 1..inputNum :
              Contents[k] = inputBuffer[(inputHead + (k - 1)) % BufferSize]
<1>1. inputNum \in Nat /\ inputHead \in Int
  BY InputAssumption DEF TypeOK, Slot
<1>2. /\ DOMAIN Contents = 1..inputNum
      /\ \A k \in 1..inputNum :
           Contents[k] = inputBuffer[(inputHead + k - 1) % BufferSize]
  BY DEF Contents
<1>3. \A k \in 1..inputNum : inputHead + k - 1 = inputHead + (k - 1)
  BY <1>1
<1>4. Len(Contents) = inputNum
  BY <1>1, <1>2
<1> QED  BY <1>2, <1>3, <1>4

LEMMA MovesBounded ==
  ASSUME TypeOK, NEW n, n = Moves(BufferSize - inputNum)
  PROVE  /\ n \in 0..Len(device) /\ n \in 0..(BufferSize - inputNum)
         /\ Len(device) \in Nat
BY InputAssumption, LenProperties DEF TypeOK, Moves

(* The characters go in behind those that are there.                       *)
LEMMA Arrivals ==
  ASSUME TypeOK, TypeOK', RingInv, readFromConsole,
         NEW n, n = Moves(BufferSize - inputNum)
  PROVE  Contents' = Contents \o SubSeq(device, 1, n)
<1> DEFINE new == SubSeq(device, 1, n)
           C == Contents
           W == C \o new
           B == BufferSize
<1>1. /\ n \in 0..Len(device) /\ n \in 0..(B - inputNum) /\ Len(device) \in Nat
      /\ B \in Nat \ {0} /\ inputNum \in 0..B /\ inputHead \in Slot
      /\ device \in Seq(Char) /\ C \in Seq(Char)
  BY MovesBounded, InputAssumption DEF TypeOK, RingInv
<1>2. /\ new \in Seq(Char) /\ Len(new) = n
      /\ \A k \in 1..n : new[k] = device[k]
  <2>1. \A i \in 1..n : device[i] \in Char
    BY <1>1, ElementOfSeq
  <2>2. /\ SubSeq(device, 1, n) \in Seq(Char)
        /\ Len(SubSeq(device, 1, n)) = IF 1 <= n THEN n - 1 + 1 ELSE 0
        /\ \A i \in 1..(n - 1 + 1) : SubSeq(device, 1, n)[i] = device[1 + i - 1]
    BY <1>1, <2>1, SubSeqProperties
  <2> QED  BY <1>1, <2>2
<1>3. /\ Len(C) = inputNum
      /\ \A k \in 1..inputNum : C[k] = inputBuffer[(inputHead + (k - 1)) % B]
  BY ContentsAre
<1>4. /\ inputTail = (inputHead + inputNum) % B
      /\ inputNum' = inputNum + n /\ inputHead' = inputHead
      /\ \A i \in Slot :
           inputBuffer'[i] = IF ((i - inputTail) % B) + 1 <= n
                               THEN device[((i - inputTail) % B) + 1]
                               ELSE inputBuffer[i]
  BY DEF readFromConsole, RingInv
<1>5. /\ DOMAIN Contents' = 1..(inputNum + n)
      /\ Contents' = [k \in DOMAIN Contents' |-> Contents'[k]]
      /\ \A k \in 1..(inputNum + n) :
           Contents'[k] = inputBuffer'[(inputHead + (k - 1)) % B]
  <2>1. \A k \in 1..(inputNum + n) : inputHead + k - 1 = inputHead + (k - 1)
    BY <1>1 DEF Slot
  <2> QED  BY <1>4, <2>1 DEF Contents
<1> HIDE DEF new, C
<1>6. /\ W \in Seq(Char) /\ Len(W) = inputNum + n
      /\ \A k \in 1..(inputNum + n) :
           W[k] = IF k <= inputNum THEN C[k] ELSE new[k - inputNum]
  <2>1. C \in Seq(Char) /\ new \in Seq(Char)
    BY <1>1, <1>2
  <2>2. /\ W \in Seq(Char) /\ Len(W) = Len(C) + Len(new)
        /\ \A k \in 1..(Len(C) + Len(new)) :
             W[k] = IF k <= Len(C) THEN C[k] ELSE new[k - Len(C)]
    BY <2>1, ConcatProperties
  <2> QED  BY <1>2, <1>3, <2>2
<1>7. DOMAIN W = 1..(inputNum + n) /\ W = [k \in DOMAIN W |-> W[k]]
  BY <1>1, <1>6, LenProperties
<1> HIDE DEF W
<1>8. ASSUME NEW k \in 1..(inputNum + n) PROVE Contents'[k] = W[k]
  <2> DEFINE o == k - 1
             i == (inputHead + o) % B
             d == (i - inputTail) % B
  <2>1. o \in 0..(B - 1) /\ o \in 0..B
    BY <1>1
  <2>2. i \in Slot
    BY <1>1, <2>1, AheadInRing
  <2>3. d = IF o < inputNum THEN o - inputNum + B ELSE o - inputNum
    BY <1>1, <1>4, <2>1, FromTail
  <2>4. Contents'[k] = IF d + 1 <= n THEN device[d + 1] ELSE inputBuffer[i]
    BY <1>4, <1>5, <2>2
  <2> HIDE DEF i, d
  <2>5. CASE k <= inputNum
    <3>1. ~(d + 1 <= n)
      BY <1>1, <2>3, <2>5
    <3>2. C[k] = inputBuffer[i]
      BY <1>1, <1>3, <2>5 DEF i
    <3> QED  BY <1>6, <2>4, <2>5, <3>1, <3>2
  <2>6. CASE ~(k <= inputNum)
    <3>1. d + 1 = k - inputNum /\ k - inputNum \in 1..n
      BY <1>1, <2>3, <2>6
    <3>2. Contents'[k] = device[k - inputNum]
      BY <1>1, <2>4, <3>1
    <3> QED  BY <1>2, <1>6, <2>6, <3>1, <3>2
  <2> QED  BY <2>5, <2>6
<1>9. Contents' = W
  BY <1>5, <1>7, <1>8
<1> QED  BY <1>9 DEF W, new, C

(* The order is kept.                                                      *)
LEMMA InterruptKeepsRing ==
  ASSUME TypeOK, TypeOK', RingInv, readFromConsole
  PROVE  RingInv'
<1> DEFINE n == Moves(BufferSize - inputNum)
           new == SubSeq(device, 1, n)
           rest == SubSeq(device, n + 1, Len(device))
<1>1. /\ n \in 0..Len(device) /\ n \in 0..(BufferSize - inputNum)
      /\ Len(device) \in Nat
  BY MovesBounded
<1>2. /\ inputTail' = (inputTail + n) % BufferSize
      /\ inputNum' = inputNum + n
      /\ device' = rest
      /\ UNCHANGED <<received, inputHead, taken>>
  BY DEF readFromConsole
<1>3. Contents' = Contents \o new
  BY Arrivals
<1>4. inputTail' = (inputHead' + inputNum') % BufferSize
  <2>1. /\ inputHead \in Slot /\ inputNum \in 0..BufferSize
        /\ inputTail = (inputHead + inputNum) % BufferSize
        /\ inputTail \in Slot /\ BufferSize \in Nat \ {0}
    BY InputAssumption DEF TypeOK, RingInv
  <2> HIDE DEF n
  <2>0. inputNum + n \in 0..BufferSize /\ n \in 0..BufferSize
    BY <1>1, <2>1
  <2>2. inputTail = IF inputHead + inputNum < BufferSize THEN inputHead + inputNum
                    ELSE inputHead + inputNum - BufferSize
    BY <2>0, <2>1, Ahead
  <2>3. (inputTail + n) % BufferSize
          = IF inputTail + n < BufferSize THEN inputTail + n
            ELSE inputTail + n - BufferSize
    BY <2>0, <2>1, Ahead
  <2>4. (inputHead + (inputNum + n)) % BufferSize
          = IF inputHead + (inputNum + n) < BufferSize THEN inputHead + (inputNum + n)
            ELSE inputHead + (inputNum + n) - BufferSize
    BY <2>0, <2>1, Ahead
  <2>5. (inputTail + n) % BufferSize = (inputHead + (inputNum + n)) % BufferSize
    BY <2>0, <2>1, <2>2, <2>3, <2>4 DEF Slot
  <2> QED  BY <1>2, <2>5
<1>5. /\ new \in Seq(Char) /\ rest \in Seq(Char) /\ device = new \o rest
  <2>1. device \in Seq(Char)
    BY DEF TypeOK
  <2>2. /\ 1 \in 1..(Len(device) + 1) /\ n \in (1 - 1)..Len(device)
        /\ Len(device) \in n..Len(device) /\ n + 1 \in Int /\ n \in Int
        /\ Len(device) \in Int
    BY <1>1
  <2>3. /\ \A i \in 1..n : device[i] \in Char
        /\ \A i \in (n + 1)..Len(device) : device[i] \in Char
    BY <1>1, <2>1, ElementOfSeq
  <2> HIDE DEF n
  <2>4. SubSeq(device, 1, n) \o SubSeq(device, n + 1, Len(device))
          = SubSeq(device, 1, Len(device))
    BY <2>1, <2>2, ConcatAdjacentSubSeq
  <2>5. SubSeq(device, 1, Len(device)) = device
    BY <2>1, SubSeqFull
  <2>6. new \in Seq(Char) /\ rest \in Seq(Char)
    BY <2>2, <2>3, SubSeqProperties
  <2> QED  BY <2>4, <2>5, <2>6
<1>6. taken \in Seq(Char) /\ Contents \in Seq(Char)
  BY DEF TypeOK, RingInv
<1> HIDE DEF n, new, rest
<1>7. Contents' \in Seq(Char)
  BY <1>3, <1>5, <1>6, ConcatProperties
<1>8. InputInOrder'
  <2> DEFINE C == Contents
             z == taken \o C
  <2>1. received = z \o (new \o rest)
    BY <1>5 DEF RingInv, InputInOrder
  <2> HIDE DEF C
  <2>2. C \in Seq(Char)
    BY <1>6 DEF C
  <2>3. z \in Seq(Char)
    BY <1>6, <2>2, ConcatProperties
  <2>4. z \o new = taken \o (C \o new)
    BY <1>5, <1>6, <2>2, ConcatAssociative
  <2> HIDE DEF z
  <2>5. (z \o new) \o rest = z \o (new \o rest)
    BY <1>5, <2>3, ConcatAssociative
  <2>6. received' = (taken' \o Contents') \o device'
    BY <1>2, <1>3, <2>1, <2>4, <2>5 DEF C
  <2> QED  BY <2>6 DEF InputInOrder
<1> QED  BY <1>4, <1>7, <1>8 DEF RingInv

(* A reader takes the first character.                                     *)
LEMMA ReadKeepsRing ==
  ASSUME TypeOK, RingInv, NEW g \in Getter, readRequest(g)
  PROVE  RingInv' /\ taken' \in Seq(Char) /\ answer'[g] \in Char
<1>1. /\ inputHead \in Slot /\ inputNum \in 0..BufferSize /\ BufferSize \in Nat \ {0}
      /\ Contents \in Seq(Char) /\ taken \in Seq(Char) /\ device \in Seq(Char)
      /\ inputTail = (inputHead + inputNum) % BufferSize
      /\ UNCHANGED <<received, device, inputBuffer, inputTail>>
  BY InputAssumption DEF TypeOK, RingInv, readRequest
<1>2. CASE inputNum <= 0
  <2>1. UNCHANGED <<inputHead, inputNum, taken>> /\ answer' = [answer EXCEPT ![g] = Empty]
    BY <1>2 DEF readRequest
  <2>2. Contents' = Contents
    BY <1>1, <2>1 DEF Contents
  <2> QED
    BY <1>1, <2>1, <2>2, InputAssumption DEF RingInv, InputInOrder, TypeOK
<1>3. CASE ~(inputNum <= 0)
  <2> DEFINE C == Contents
             c == inputBuffer[inputHead]
             one == <<c>>
             B == BufferSize
  <2>1. /\ inputHead' = (inputHead + 1) % B
        /\ inputNum' = inputNum - 1
        /\ taken' = Append(taken, c)
        /\ answer' = [answer EXCEPT ![g] = c]
    BY <1>3 DEF readRequest, NextHead
  <2>2. /\ Len(C) = inputNum /\ DOMAIN C = 1..inputNum
        /\ \A k \in 1..inputNum : C[k] = inputBuffer[(inputHead + (k - 1)) % B]
    BY ContentsAre
  <2>3. c = C[1]
    <3>1. 1 \in 1..inputNum /\ inputHead + (1 - 1) = inputHead
      BY <1>1, <1>3 DEF Slot
    <3>2. inputHead % B = inputHead
      BY <1>1 DEF Slot
    <3> QED  BY <2>2, <3>1, <3>2
  <2>4. /\ inputNum' \in 0..(B - 1) /\ inputNum' + 1 = inputNum
        /\ (inputHead' + inputNum') % B = inputTail
    <3>1. inputNum - 1 \in 0..(B - 1) /\ (inputNum - 1) + 1 = inputNum
      BY <1>1, <1>3
    <3> DEFINE m == inputNum - 1
    <3> HIDE DEF m
    <3>2. (((inputHead + 1) % B) + m) % B = (inputHead + (m + 1)) % B
      BY <1>1, <3>1, HeadAdvanced DEF m
    <3> QED  BY <1>1, <2>1, <3>1, <3>2 DEF m
  <2> HIDE DEF C, c
  <2>5. C \in Seq(Char) /\ C # << >>
    BY <1>1, <1>3, <2>2, EmptySeq DEF C
  <2>6. c \in Char
    BY <1>1, <1>3, <2>2, <2>3, <2>5, ElementOfSeq
  <2>7. /\ Tail(C) \in Seq(Char) /\ Len(Tail(C)) = inputNum - 1
        /\ \A k \in 1..(inputNum - 1) : Tail(C)[k] = C[k + 1]
    BY <2>2, <2>5, HeadTailProperties
  <2>8. Contents' = Tail(C)
    <3>1. /\ DOMAIN Contents' = 1..(inputNum - 1)
          /\ Contents' = [k \in DOMAIN Contents' |-> Contents'[k]]
          /\ \A k \in 1..(inputNum - 1) :
               Contents'[k] = inputBuffer[(inputHead' + k - 1) % B]
      BY <1>1, <2>1 DEF Contents
    <3>2. /\ DOMAIN Tail(C) = 1..(inputNum - 1)
          /\ Tail(C) = [k \in DOMAIN Tail(C) |-> Tail(C)[k]]
      BY <2>7, LenProperties
    <3>3. ASSUME NEW k \in 1..(inputNum - 1)
          PROVE  Contents'[k] = Tail(C)[k]
      <4> DEFINE o == k - 1
                 h == (inputHead + 1) % B
      <4>1. o \in 0..(B - 1) /\ o + 1 = k /\ k + 1 \in 1..inputNum /\ (k + 1) - 1 = k
        BY <1>1
      <4>2. (h + o) % B = (inputHead + (o + 1)) % B
        BY <1>1, <4>1, HeadAdvanced
      <4>3. h \in Slot /\ h + k - 1 = h + o
        <5>1. 1 \in 0..B
          BY <1>1
        <5>2. h \in Slot
          BY <1>1, <5>1, AheadInRing
        <5> HIDE DEF h
        <5> QED  BY <1>1, <5>2 DEF Slot
      <4>4. Contents'[k] = inputBuffer[(inputHead + k) % B]
        BY <2>1, <3>1, <4>1, <4>2, <4>3
      <4>5. C[k + 1] = inputBuffer[(inputHead + k) % B]
        BY <2>2, <4>1
      <4> QED  BY <2>7, <4>4, <4>5
    <3> QED  BY <3>1, <3>2, <3>3
  <2>9. C = one \o Tail(C)
    <3>1. 1 \in 1..Len(C) /\ Len(C) \in 1..Len(C) /\ 1 + 1 = 2
      BY <1>1, <1>3, <2>2
    <3>2. SubSeq(C, 1, Len(C)) = <<C[1]>> \o SubSeq(C, 1 + 1, Len(C))
      BY <2>5, <3>1, SubSeqRecursiveFirst
    <3>3. SubSeq(C, 1, Len(C)) = C /\ Tail(C) = SubSeq(C, 2, Len(C))
      BY <2>5, SubSeqFull, TailIsSubSeq
    <3> QED  BY <2>3, <3>1, <3>2, <3>3
  <2>10. one \in Seq(Char) /\ taken' = taken \o one
    BY <1>1, <2>1, <2>6, AppendIsConcat
  <2> HIDE DEF one
  <2>11. taken' \in Seq(Char)
    BY <1>1, <2>10, ConcatProperties
  <2>12. (taken \o one) \o Tail(C) = taken \o C
    <3>1. (taken \o one) \o Tail(C) = taken \o (one \o Tail(C))
      BY <1>1, <2>7, <2>10, ConcatAssociative
    <3> QED  BY <2>9, <3>1
  <2>13. received' = (taken' \o Contents') \o device'
    <3>1. received = (taken \o C) \o device
      BY DEF RingInv, InputInOrder, C
    <3> QED  BY <1>1, <2>8, <2>10, <2>12, <3>1
  <2>14. answer'[g] = c
    BY <2>1 DEF TypeOK
  <2>15. inputTail' = (inputHead' + inputNum') % BufferSize
    BY <1>1, <2>4
  <2>16. InputInOrder'
    BY <2>13 DEF InputInOrder
  <2> QED  BY <2>6, <2>7, <2>8, <2>11, <2>14, <2>15, <2>16 DEF RingInv
<1> QED  BY <1>2, <1>3

(* A character that reaches the device is behind all others.               *)
LEMMA ReceiveKeepsRing ==
  ASSUME TypeOK, RingInv, NEW c \in Char, Receive(c)
  PROVE  TypeOK' /\ RingInv'
<1>1. /\ received' = Append(received, c) /\ device' = Append(device, c)
      /\ UNCHANGED <<ring, val, blocked, pc, answer, taken>>
  BY DEF Receive
<1>2. received \in Seq(Char) /\ device \in Seq(Char) /\ taken \in Seq(Char)
  BY DEF TypeOK
<1>3. TypeOK'
  BY <1>1, <1>2, AppendProperties DEF TypeOK, ring
<1>4. Contents' = Contents
  BY <1>1 DEF Contents, ring
<1> DEFINE C == Contents
           z == taken \o C
           one == <<c>>
<1>5. C \in Seq(Char) /\ received = z \o device
  BY DEF RingInv, InputInOrder
<1>6. one \in Seq(Char) /\ received' = received \o one /\ device' = device \o one
  BY <1>1, <1>2, AppendIsConcat
<1> HIDE DEF C, one
<1>7. z \in Seq(Char)
  BY <1>2, <1>5, ConcatProperties
<1> HIDE DEF z
<1>8. (z \o device) \o one = z \o (device \o one)
  BY <1>2, <1>6, <1>7, ConcatAssociative
<1>9. received' = (taken' \o Contents') \o device'
  BY <1>1, <1>4, <1>5, <1>6, <1>8 DEF z, C
<1> QED  BY <1>1, <1>3, <1>4, <1>9 DEF RingInv, InputInOrder, ring

-----------------------------------------------------------------------------
(***************************************************************************)
(* The semaphore.                                                          *)
(***************************************************************************)

(* Whom n signals free: the first of the queue.                            *)
LEMMA FreedAre ==
  ASSUME TypeOK, WaitersInv, NEW n \in Nat
  PROVE  /\ Freed(n) \in Seq(Getter) /\ Len(Freed(n)) \in 0..Len(blocked)
         /\ Len(blocked) \in Nat
         /\ Len(Freed(n)) = IF val >= 0 THEN 0 ELSE IF -val < n THEN -val ELSE n
         /\ \A i \in 1..Len(Freed(n)) : Freed(n)[i] = blocked[i]
<1> DEFINE m == IF val >= 0 THEN 0 ELSE IF -val < n THEN -val ELSE n
<1>1. /\ blocked \in Seq(Getter) /\ val \in Int
      /\ Len(blocked) = IF val < 0 THEN -val ELSE 0
  BY DEF TypeOK, WaitersInv
<1>2. Len(blocked) \in Nat /\ m \in 0..Len(blocked)
  BY <1>1
<1>3. Freed(n) = SubSeq(blocked, 1, m)
  BY DEF Freed
<1>4. m = IF val >= 0 THEN 0 ELSE IF -val < n THEN -val ELSE n
  OBVIOUS
<1> HIDE DEF m
<1>5. \A i \in 1..m : blocked[i] \in Getter
  BY <1>1, <1>2, ElementOfSeq
<1>6. /\ SubSeq(blocked, 1, m) \in Seq(Getter)
      /\ Len(SubSeq(blocked, 1, m)) = IF 1 <= m THEN m - 1 + 1 ELSE 0
      /\ \A i \in 1..(m - 1 + 1) : SubSeq(blocked, 1, m)[i] = blocked[1 + i - 1]
  BY <1>2, <1>5, SubSeqProperties
<1>7. Len(Freed(n)) = m
  BY <1>2, <1>3, <1>6
<1>8. \A i \in 1..m : Freed(n)[i] = blocked[i]
  BY <1>2, <1>3, <1>6
<1> QED  BY <1>2, <1>3, <1>4, <1>6, <1>7, <1>8

(* The first k of the queue leave it, and call again.                      *)
MovedUp(k) == \A i \in 1..Len(blocked') : blocked'[i] = blocked[k + i]
CalledAgain(k) ==
  pc' = [g \in Getter |-> IF \E i \in 1..k : blocked[i] = g THEN "call" ELSE pc[g]]

(* What the interrupt does to it.                                          *)
LEMMA InterruptSignals ==
  ASSUME TypeOK, WaitersInv, readFromConsole,
         NEW n, n = Moves(BufferSize - inputNum),
         NEW k, k = Len(Freed(n))
  PROVE  /\ n \in 0..(BufferSize - inputNum) /\ n \in 0..Len(device) /\ n \in Nat
         /\ k \in 0..Len(blocked) /\ Len(blocked) \in Nat
         /\ k = IF val >= 0 THEN 0 ELSE IF -val < n THEN -val ELSE n
         /\ val' = val + n /\ inputNum' = inputNum + n
         /\ blocked' \in Seq(Getter) /\ Len(blocked') = Len(blocked) - k
         /\ MovedUp(k) /\ CalledAgain(k)
<1>1. n \in 0..(BufferSize - inputNum) /\ n \in 0..Len(device) /\ n \in Nat
  BY MovesBounded
<1>2. /\ val' = val + n /\ inputNum' = inputNum + n
      /\ blocked' = SubSeq(blocked, k + 1, Len(blocked))
      /\ pc' = [g \in Getter |-> IF Contains(Freed(n), g) THEN "call" ELSE pc[g]]
  BY DEF readFromConsole
<1>3. /\ k \in 0..Len(blocked) /\ Len(blocked) \in Nat
      /\ k = IF val >= 0 THEN 0 ELSE IF -val < n THEN -val ELSE n
      /\ \A i \in 1..k : Freed(n)[i] = blocked[i]
  BY <1>1, FreedAre
<1>4. \A g \in Getter : Contains(Freed(n), g) <=> \E i \in 1..k : blocked[i] = g
  BY <1>3 DEF Contains
<1>5. /\ blocked' \in Seq(Getter) /\ Len(blocked') = Len(blocked) - k
      /\ \A i \in 1..Len(blocked') : blocked'[i] = blocked[k + i]
  <2>1. blocked \in Seq(Getter)
    BY DEF TypeOK
  <2>2. \A i \in (k + 1)..Len(blocked) : blocked[i] \in Getter
    BY <1>3, <2>1, ElementOfSeq
  <2>3. k + 1 \in Int /\ Len(blocked) \in Int
    BY <1>3
  <2>4. /\ blocked' \in Seq(Getter)
        /\ Len(blocked') = IF k + 1 <= Len(blocked) THEN Len(blocked) - (k + 1) + 1 ELSE 0
        /\ \A i \in 1..(Len(blocked) - (k + 1) + 1) : blocked'[i] = blocked[k + 1 + i - 1]
    BY <1>2, <2>2, <2>3, SubSeqProperties
  <2> QED  BY <1>3, <2>4
<1> QED  BY <1>1, <1>2, <1>3, <1>4, <1>5 DEF MovedUp, CalledAgain

LEMMA InterruptKeepsTypes ==
  ASSUME TypeOK, RingInv, WaitersInv, readFromConsole
  PROVE  TypeOK'
<1> SUFFICES ASSUME NEW n, n = Moves(BufferSize - inputNum),
                    NEW k, k = Len(Freed(n))
             PROVE  TypeOK'
  OBVIOUS
<1>1. /\ n \in 0..(BufferSize - inputNum) /\ n \in 0..Len(device) /\ n \in Nat
      /\ val' = val + n /\ inputNum' = inputNum + n
      /\ blocked' \in Seq(Getter)
      /\ CalledAgain(k)
  BY InterruptSignals
<1>2. /\ inputTail' = (inputTail + n) % BufferSize
      /\ device' = SubSeq(device, n + 1, Len(device))
      /\ inputBuffer' = [i \in Slot |->
                           IF ((i - inputTail) % BufferSize) + 1 <= n
                             THEN device[((i - inputTail) % BufferSize) + 1]
                             ELSE inputBuffer[i]]
      /\ UNCHANGED <<received, inputHead, answer, taken>>
  BY DEF readFromConsole
<1>3. /\ BufferSize \in Nat \ {0} /\ inputNum \in 0..BufferSize
      /\ device \in Seq(Char) /\ inputTail \in Slot /\ val \in Int
      /\ inputBuffer \in [Slot -> Char \cup {NoChar}]
      /\ pc \in [Getter -> {"idle", "call", "test", "blocked"}]
  BY InputAssumption DEF TypeOK
<1>4. inputNum' \in 0..BufferSize /\ val' \in Int
  BY <1>1, <1>3
<1>5. inputTail' \in Slot
  <2>1. n \in 0..BufferSize
    BY <1>1, <1>3
  <2> QED  BY <1>2, <1>3, <2>1, AheadInRing
<1>6. device' \in Seq(Char)
  <2>1. Len(device) \in Nat /\ n + 1 \in Int /\ Len(device) \in Int
    BY <1>1, <1>3
  <2>2. \A i \in (n + 1)..Len(device) : device[i] \in Char
    BY <1>1, <1>3, <2>1, ElementOfSeq
  <2> QED  BY <1>2, <2>1, <2>2, SubSeqProperties
<1>7. inputBuffer' \in [Slot -> Char \cup {NoChar}]
  <2>1. ASSUME NEW i \in Slot, ((i - inputTail) % BufferSize) + 1 <= n
        PROVE  device[((i - inputTail) % BufferSize) + 1] \in Char
    <3> DEFINE d == (i - inputTail) % BufferSize
    <3>1. d = IF i >= inputTail THEN i - inputTail ELSE i - inputTail + BufferSize
      BY <1>3, Behind
    <3>2. d + 1 <= n
      BY <2>1
    <3> HIDE DEF d
    <3>3. d + 1 \in 1..Len(device)
      BY <1>1, <1>3, <3>1, <3>2 DEF Slot
    <3>4. device[d + 1] \in Char
      BY <1>3, <3>3, ElementOfSeq
    <3> QED  BY <3>4 DEF d
  <2> QED  BY <1>2, <1>3, <2>1
<1>8. pc' \in [Getter -> {"idle", "call", "test", "blocked"}]
  BY <1>1, <1>3 DEF CalledAgain
<1> QED  BY <1>1, <1>2, <1>4, <1>5, <1>6, <1>7, <1>8 DEF TypeOK

(* The freed threads are new callers, and nobody else becomes one.         *)
LEMMA InterruptAnnounces ==
  ASSUME TypeOK, WaitersInv, CharsAreAnnounced, readFromConsole
  PROVE  WaitersInv' /\ CharsAreAnnounced'
<1> SUFFICES ASSUME NEW n, n = Moves(BufferSize - inputNum),
                    NEW k, k = Len(Freed(n))
             PROVE  WaitersInv' /\ CharsAreAnnounced'
  OBVIOUS
<1>1. /\ n \in Nat /\ k \in 0..Len(blocked) /\ Len(blocked) \in Nat
      /\ val' = val + n /\ inputNum' = inputNum + n
      /\ k = IF val >= 0 THEN 0 ELSE IF -val < n THEN -val ELSE n
      /\ blocked' \in Seq(Getter) /\ Len(blocked') = Len(blocked) - k
  BY InterruptSignals
<1>10. MovedUp(k) /\ CalledAgain(k)
  BY InterruptSignals
<1>2. /\ val \in Int /\ inputNum \in Int /\ blocked \in Seq(Getter)
      /\ pc \in [Getter -> {"idle", "call", "test", "blocked"}]
      /\ Len(blocked) = IF val < 0 THEN -val ELSE 0
      /\ DOMAIN blocked = 1..Len(blocked) /\ DOMAIN blocked' = 1..Len(blocked')
      /\ \A i, j \in 1..Len(blocked) : blocked[i] = blocked[j] => i = j
      /\ \A i \in 1..Len(blocked) : pc[blocked[i]] = "blocked" /\ blocked[i] \in Getter
  <2>1. blocked \in Seq(Getter) /\ blocked' \in Seq(Getter)
    BY <1>1 DEF TypeOK
  <2>2. DOMAIN blocked = 1..Len(blocked) /\ DOMAIN blocked' = 1..Len(blocked')
    BY <2>1, LenProperties
  <2>3. \A i \in 1..Len(blocked) : blocked[i] \in Getter
    BY <2>1, ElementOfSeq
  <2>4. inputNum \in Int
    BY InputAssumption DEF TypeOK
  <2> QED  BY <2>1, <2>2, <2>3, <2>4 DEF TypeOK, WaitersInv
<1>3. WaitersInv'
  <2>1. Len(blocked') = IF val' < 0 THEN -val' ELSE 0
    BY <1>1, <1>2
  <2>2. \A i \in 1..Len(blocked') : k + i \in 1..Len(blocked) /\ k + i > k
    BY <1>1
  <2>3. \A i, j \in 1..Len(blocked') : blocked'[i] = blocked'[j] => i = j
    <3>1. SUFFICES ASSUME NEW i \in 1..Len(blocked'), NEW j \in 1..Len(blocked'),
                          blocked'[i] = blocked'[j]
                   PROVE  i = j
      OBVIOUS
    <3> DEFINE a == k + i
               b == k + j
    <3>2. /\ a \in 1..Len(blocked) /\ b \in 1..Len(blocked)
          /\ blocked'[i] = blocked[a] /\ blocked'[j] = blocked[b]
      BY <1>10, <2>2 DEF MovedUp
    <3> HIDE DEF a, b
    <3>3. a = b
      BY <1>2, <3>1, <3>2
    <3> QED  BY <1>1, <3>3 DEF a, b
  <2>4. \A i \in 1..Len(blocked') : pc'[blocked'[i]] = "blocked"
    <3>1. SUFFICES ASSUME NEW i \in 1..Len(blocked') PROVE pc'[blocked'[i]] = "blocked"
      OBVIOUS
    <3>2. /\ blocked'[i] = blocked[k + i] /\ blocked[k + i] \in Getter
          /\ pc[blocked[k + i]] = "blocked"
      BY <1>2, <1>10, <2>2 DEF MovedUp
    <3>3. ~ \E j \in 1..k : blocked[j] = blocked[k + i]
      <4>1. SUFFICES ASSUME NEW j \in 1..k, blocked[j] = blocked[k + i] PROVE FALSE
        OBVIOUS
      <4>2. j \in 1..Len(blocked)
        BY <1>1
      <4>3. j = k + i
        BY <1>2, <2>2, <4>1, <4>2
      <4> QED  BY <1>1, <2>2, <4>3
    <3> QED  BY <1>10, <3>2, <3>3 DEF CalledAgain
  <2> QED  BY <1>2, <2>1, <2>3, <2>4 DEF WaitersInv
<1> DEFINE F == {blocked[i] : i \in 1..k}
           A == Callers
<1>4. IsFiniteSet(F) /\ Cardinality(F) = k
  <2> DEFINE q == Freed(n)
  <2>1. q \in Seq(Getter) /\ k = Len(q) /\ \A i \in 1..k : q[i] = blocked[i]
    BY <1>1, FreedAre
  <2> HIDE DEF q
  <2>2. DOMAIN q = 1..k
    BY <2>1, LenProperties
  <2>3. \A i, j \in DOMAIN q : q[i] = q[j] => i = j
    BY <1>1, <1>2, <2>1, <2>2
  <2>4. {q[i] : i \in DOMAIN q} = F
    BY <2>1, <2>2
  <2> QED  BY <2>1, <2>3, <2>4, ListCounted
<1>5. Callers' = A \cup F /\ A \cap F = {}
  <2>1. F \subseteq Getter /\ \A g \in F : pc[g] = "blocked"
    BY <1>1, <1>2
  <2>2. \A g \in Getter : pc'[g] = "call" <=> (g \in F \/ pc[g] = "call")
    BY <1>10 DEF CalledAgain
  <2> QED  BY <2>1, <2>2 DEF Callers
<1>6. IsFiniteSet(A) /\ Cardinality(A) \in Nat
  BY CallersCounted
<1> HIDE DEF F, A
<1>7. Cardinality(Callers') = Cardinality(A) + k
  <2>1. Cardinality(A \cup F) = Cardinality(A) + Cardinality(F) - Cardinality(A \cap F)
    BY <1>4, <1>6, FS_Union
  <2>2. Cardinality(A \cap F) = 0
    BY <1>5, FS_EmptySet
  <2> QED  BY <1>1, <1>4, <1>5, <1>6, <2>1, <2>2
<1>8. inputNum <= Cardinality(A) + Units
  BY DEF CharsAreAnnounced, Callers, Units, A
<1>9. inputNum' <= Cardinality(Callers') + Units'
  <2>1. /\ val \in Int /\ n \in Nat /\ k \in Int /\ inputNum \in Int
        /\ val' = val + n /\ inputNum' = inputNum + n
        /\ k = IF val >= 0 THEN 0 ELSE IF -val < n THEN -val ELSE n
    BY <1>1, <1>2
  <2>2. /\ Units = IF val > 0 THEN val ELSE 0
        /\ Units' = IF val + n > 0 THEN val + n ELSE 0
    BY <2>1 DEF Units
  <2>3. k + Units' = Units + n /\ Units \in Int /\ Units' \in Int
    BY <2>1, <2>2
  <2> QED  BY <1>6, <1>7, <1>8, <2>1, <2>3
<1> QED  BY <1>3, <1>9 DEF CharsAreAnnounced, Callers, Units

-----------------------------------------------------------------------------
(***************************************************************************)
(* The readers' steps.                                                     *)
(***************************************************************************)

(* A step of a reader outside the queue leaves those in it where they are. *)
LEMMA OthersWait ==
  ASSUME TypeOK, WaitersInv, NEW g \in Getter, pc[g] # "blocked", NEW a,
         pc' = [pc EXCEPT ![g] = a], UNCHANGED <<val, blocked>>
  PROVE  WaitersInv'
<1>1. \A i \in DOMAIN blocked : blocked[i] # g /\ blocked[i] \in Getter
  <2>1. blocked \in Seq(Getter) /\ DOMAIN blocked = 1..Len(blocked)
    BY LenProperties DEF TypeOK
  <2> QED  BY <2>1, ElementOfSeq DEF WaitersInv
<1>2. \A i \in DOMAIN blocked : pc'[blocked[i]] = "blocked"
  BY <1>1 DEF WaitersInv, TypeOK
<1> QED  BY <1>2 DEF WaitersInv

(* Who begins to call is one caller more, who stops one less.              *)
LEMMA CallersAre ==
  ASSUME TypeOK, NEW g \in Getter, NEW a, pc' = [pc EXCEPT ![g] = a]
  PROVE  /\ (a = "call" /\ pc[g] # "call") => Cardinality(Callers') = Cardinality(Callers) + 1
         /\ (a # "call" /\ pc[g] = "call") => Cardinality(Callers') = Cardinality(Callers) - 1
         /\ (a # "call" /\ pc[g] # "call") => Cardinality(Callers') = Cardinality(Callers)
         /\ Cardinality(Callers') \in Nat
<1> DEFINE A == Callers
           D == Callers'
<1>1. IsFiniteSet(A)
  BY CallersCounted
<1>2. /\ a = "call" => D = A \cup {g}
      /\ a # "call" => D = A \ {g}
      /\ g \in A <=> pc[g] = "call"
  BY DEF Callers, TypeOK
<1>3. Cardinality(D) \in Nat
  <2>1. D \in SUBSET Getter
    BY DEF Callers
  <2> HIDE DEF D
  <2> QED  BY <2>1, InputAssumption, FS_Subset, FS_CardinalityType
<1> HIDE DEF A, D
<1>4. /\ g \notin A => Cardinality(A \cup {g}) = Cardinality(A) + 1
      /\ g \in A => Cardinality(A \ {g}) = Cardinality(A) - 1
      /\ g \notin A => A \ {g} = A
  BY <1>1, FS_AddElement, FS_RemoveElement
<1>5. /\ (a = "call" /\ pc[g] # "call") => Cardinality(D) = Cardinality(A) + 1
      /\ (a # "call" /\ pc[g] = "call") => Cardinality(D) = Cardinality(A) - 1
      /\ (a # "call" /\ pc[g] # "call") => Cardinality(D) = Cardinality(A)
  BY <1>2, <1>4
<1> QED  BY <1>3, <1>5 DEF A, D

LEMMA BeginInv ==
  ASSUME ConsoleInv, NEW g \in Getter, Begin(g)
  PROVE  ConsoleInv'
<1>1. /\ TypeOK /\ RingInv /\ WaitersInv /\ CharsAreAnnounced
      /\ pc[g] = "idle" /\ pc' = [pc EXCEPT ![g] = "call"]
      /\ UNCHANGED <<received, device, ring, val, blocked, answer, taken>>
  BY DEF ConsoleInv, Begin
<1>2. TypeOK'
  BY <1>1 DEF TypeOK, ring
<1>3. RingInv'
  BY <1>1 DEF RingInv, InputInOrder, Contents, ring
<1>4. WaitersInv'
  BY <1>1, OthersWait
<1>5. CharsAreAnnounced'
  <2>1. inputNum <= Cardinality(Callers) + Units /\ Cardinality(Callers) \in Nat
    BY <1>1, CallersCounted DEF CharsAreAnnounced, Callers, Units
  <2>2. Cardinality(Callers') = Cardinality(Callers) + 1
    BY <1>1, CallersAre
  <2>3. Units' = Units /\ Units \in Int /\ inputNum' = inputNum /\ inputNum \in Int
    BY <1>1, InputAssumption DEF Units, ring, TypeOK
  <2>4. inputNum' <= Cardinality(Callers') + Units'
    BY <2>1, <2>2, <2>3
  <2> QED  BY <2>4 DEF CharsAreAnnounced, Callers, Units
<1> QED  BY <1>2, <1>3, <1>4, <1>5 DEF ConsoleInv

LEMMA ReturnInv ==
  ASSUME ConsoleInv, NEW g \in Getter, Return(g)
  PROVE  ConsoleInv'
<1>1. /\ TypeOK /\ RingInv /\ WaitersInv /\ CharsAreAnnounced
      /\ pc[g] = "test" /\ pc' = [pc EXCEPT ![g] = "idle"]
      /\ UNCHANGED <<received, device, ring, val, blocked, answer, taken>>
  BY DEF ConsoleInv, Return
<1>2. TypeOK'
  BY <1>1 DEF TypeOK, ring
<1>3. RingInv'
  BY <1>1 DEF RingInv, InputInOrder, Contents, ring
<1>4. WaitersInv'
  BY <1>1, OthersWait
<1>5. CharsAreAnnounced'
  <2>1. inputNum <= Cardinality(Callers) + Units /\ Cardinality(Callers) \in Nat
    BY <1>1, CallersCounted DEF CharsAreAnnounced, Callers, Units
  <2>2. Cardinality(Callers') = Cardinality(Callers)
    <3>1. ("idle" # "call" /\ pc[g] # "call") => Cardinality(Callers') = Cardinality(Callers)
      BY <1>1, CallersAre
    <3> QED  BY <1>1, <3>1
  <2>3. Units' = Units /\ inputNum' = inputNum
    BY <1>1 DEF Units, ring
  <2>4. inputNum' <= Cardinality(Callers') + Units'
    BY <2>1, <2>2, <2>3
  <2> QED  BY <2>4 DEF CharsAreAnnounced, Callers, Units
<1> QED  BY <1>2, <1>3, <1>4, <1>5 DEF ConsoleInv

(* The reader that takes a character was the caller that it was announced  *)
(* to; the one that finds none leaves the call as well.                    *)
LEMMA ReadInv ==
  ASSUME ConsoleInv, NEW g \in Getter, readRequest(g)
  PROVE  ConsoleInv'
<1>1. /\ TypeOK /\ RingInv /\ WaitersInv /\ CharsAreAnnounced
      /\ pc[g] = "call" /\ pc' = [pc EXCEPT ![g] = "test"]
      /\ UNCHANGED <<received, device, inputBuffer, inputTail, val, blocked>>
  BY DEF ConsoleInv, readRequest
<1>2. RingInv' /\ taken' \in Seq(Char) /\ answer'[g] \in Char
  BY <1>1, ReadKeepsRing
<1>3. /\ inputNum \in 0..BufferSize /\ BufferSize \in Nat \ {0} /\ inputHead \in Slot
      /\ inputNum' = IF inputNum <= 0 THEN inputNum ELSE inputNum - 1
      /\ inputHead' = IF inputNum <= 0 THEN inputHead ELSE (inputHead + 1) % BufferSize
      /\ answer' = [answer EXCEPT ![g] = answer'[g]]
  BY <1>1, InputAssumption DEF TypeOK, readRequest, NextHead
<1>4. TypeOK'
  <2>1. inputNum' \in 0..BufferSize
    BY <1>3
  <2>2. inputHead' \in Slot
    <3>1. 1 \in 0..BufferSize
      BY <1>3
    <3> QED  BY <1>3, <3>1, AheadInRing
  <2> QED  BY <1>1, <1>2, <1>3, <2>1, <2>2 DEF TypeOK
<1>5. WaitersInv'
  BY <1>1, OthersWait
<1>6. CharsAreAnnounced'
  <2>1. inputNum <= Cardinality(Callers) + Units /\ Cardinality(Callers) \in Nat
    BY <1>1, CallersCounted DEF CharsAreAnnounced, Callers, Units
  <2>2. Cardinality(Callers') = Cardinality(Callers) - 1
    <3>1. ("test" # "call" /\ pc[g] = "call")
            => Cardinality(Callers') = Cardinality(Callers) - 1
      BY <1>1, CallersAre
    <3> QED  BY <1>1, <3>1
  <2>3. Units' = Units /\ Units \in Nat
    BY <1>1 DEF Units, TypeOK
  <2>4. Cardinality(Callers') \in Nat
    BY <1>1, CallersAre
  <2>5. inputNum' <= Cardinality(Callers') + Units'
    BY <1>3, <2>1, <2>2, <2>3, <2>4
  <2> QED  BY <2>5 DEF CharsAreAnnounced, Callers, Units
<1> QED  BY <1>2, <1>4, <1>5, <1>6 DEF ConsoleInv

(* A wait that does not block turns a unit into a caller.                  *)
LEMMA WaitInv ==
  ASSUME ConsoleInv, NEW g \in Getter, WaitForInput(g)
  PROVE  ConsoleInv'
<1>1. /\ TypeOK /\ RingInv /\ WaitersInv /\ CharsAreAnnounced
      /\ pc[g] = "test" /\ val' = val - 1 /\ val \in Int
      /\ UNCHANGED <<received, device, ring, answer, taken>>
  BY DEF ConsoleInv, WaitForInput, TypeOK
<1>2. RingInv'
  BY <1>1 DEF RingInv, InputInOrder, Contents, ring
<1>3. /\ inputNum <= Cardinality(Callers) + Units /\ Cardinality(Callers) \in Nat
      /\ inputNum' = inputNum /\ inputNum \in Int
  BY <1>1, InputAssumption, CallersCounted
  DEF CharsAreAnnounced, Callers, Units, TypeOK, ring
<1>4. /\ blocked \in Seq(Getter) /\ Len(blocked) \in Nat
      /\ DOMAIN blocked = 1..Len(blocked)
      /\ \A i \in 1..Len(blocked) : blocked[i] \in Getter /\ blocked[i] # g
  <2>1. blocked \in Seq(Getter)
    BY <1>1 DEF TypeOK
  <2>2. Len(blocked) \in Nat /\ DOMAIN blocked = 1..Len(blocked)
    BY <2>1, LenProperties
  <2> QED  BY <1>1, <2>1, <2>2, ElementOfSeq DEF WaitersInv
<1>5. CASE val - 1 < 0
  <2>1. blocked' = Append(blocked, g) /\ pc' = [pc EXCEPT ![g] = "blocked"]
    BY <1>5 DEF WaitForInput
  <2>2. /\ blocked' \in Seq(Getter) /\ Len(blocked') = Len(blocked) + 1
        /\ \A i \in 1..Len(blocked) : blocked'[i] = blocked[i]
        /\ blocked'[Len(blocked) + 1] = g
    BY <1>4, <2>1, AppendProperties
  <2>3. DOMAIN blocked' = 1..Len(blocked')
    BY <2>2, LenProperties
  <2>4. TypeOK'
    BY <1>1, <2>1, <2>2 DEF TypeOK, ring
  <2>5. \A i \in 1..(Len(blocked) + 1) : i \in 1..Len(blocked) \/ i = Len(blocked) + 1
    BY <1>4
  <2>6. WaitersInv'
    <3>1. Len(blocked') = IF val' < 0 THEN -val' ELSE 0
      BY <1>1, <1>4, <1>5, <2>2 DEF WaitersInv
    <3>2. \A i, j \in DOMAIN blocked' : blocked'[i] = blocked'[j] => i = j
      BY <1>1, <1>4, <2>2, <2>3, <2>5 DEF WaitersInv
    <3>3. \A i \in DOMAIN blocked' : pc'[blocked'[i]] = "blocked"
      BY <1>1, <1>4, <2>1, <2>2, <2>3, <2>5 DEF WaitersInv, TypeOK
    <3> QED  BY <3>1, <3>2, <3>3 DEF WaitersInv
  <2>7. CharsAreAnnounced'
    <3>1. Cardinality(Callers') = Cardinality(Callers)
      <4>1. ("blocked" # "call" /\ pc[g] # "call")
              => Cardinality(Callers') = Cardinality(Callers)
        BY <1>1, <2>1, CallersAre
      <4> QED  BY <1>1, <4>1
    <3>2. Units' = Units
      BY <1>1, <1>5 DEF Units
    <3>3. inputNum' <= Cardinality(Callers') + Units'
      BY <1>3, <3>1, <3>2
    <3> QED  BY <3>3 DEF CharsAreAnnounced, Callers, Units
  <2> QED  BY <1>2, <2>4, <2>6, <2>7 DEF ConsoleInv
<1>6. CASE ~(val - 1 < 0)
  <2>1. UNCHANGED blocked /\ pc' = [pc EXCEPT ![g] = "call"]
    BY <1>6 DEF WaitForInput
  <2>2. TypeOK'
    BY <1>1, <2>1 DEF TypeOK, ring
  <2>3. WaitersInv'
    <3>1. Len(blocked') = IF val' < 0 THEN -val' ELSE 0
      BY <1>1, <1>6, <2>1 DEF WaitersInv
    <3>2. \A i \in DOMAIN blocked' : pc'[blocked'[i]] = "blocked"
      BY <1>1, <1>4, <2>1 DEF WaitersInv, TypeOK
    <3> QED  BY <1>1, <2>1, <3>1, <3>2 DEF WaitersInv
  <2>4. CharsAreAnnounced'
    <3>1. Cardinality(Callers') = Cardinality(Callers) + 1
      BY <1>1, <2>1, CallersAre
    <3>2. Units = val /\ Units' = val - 1
      BY <1>1, <1>6 DEF Units
    <3>3. inputNum' <= Cardinality(Callers') + Units'
      BY <1>1, <1>3, <3>1, <3>2
    <3> QED  BY <3>3 DEF CharsAreAnnounced, Callers, Units
  <2> QED  BY <1>2, <2>2, <2>3, <2>4 DEF ConsoleInv
<1> QED  BY <1>5, <1>6

-----------------------------------------------------------------------------

LEMMA ReceiveInv ==
  ASSUME ConsoleInv, NEW c \in Char, Receive(c)
  PROVE  ConsoleInv'
<1>1. TypeOK' /\ RingInv'
  BY ReceiveKeepsRing DEF ConsoleInv
<1>2. UNCHANGED <<inputNum, val, blocked, pc>>
  BY DEF Receive, ring
<1>3. WaitersInv' /\ CharsAreAnnounced'
  BY <1>2 DEF ConsoleInv, WaitersInv, CharsAreAnnounced
<1> QED  BY <1>1, <1>3 DEF ConsoleInv

LEMMA InterruptInv ==
  ASSUME ConsoleInv, readFromConsole
  PROVE  ConsoleInv'
<1>1. TypeOK'
  BY InterruptKeepsTypes DEF ConsoleInv
<1>2. RingInv'
  BY <1>1, InterruptKeepsRing DEF ConsoleInv
<1>3. WaitersInv' /\ CharsAreAnnounced'
  BY InterruptAnnounces DEF ConsoleInv
<1> QED  BY <1>1, <1>2, <1>3 DEF ConsoleInv

LEMMA InitConsole == Init => ConsoleInv
<1> SUFFICES ASSUME Init PROVE ConsoleInv
  OBVIOUS
<1>1. BufferSize \in Nat \ {0} /\ 0 \in Slot /\ 0 \in 0..BufferSize
  BY InputAssumption DEF Slot
<1>2. << >> \in Seq(Char) /\ << >> \in Seq(Getter) /\ Len(<< >>) = 0
  BY EmptySeq
<1>3. TypeOK
  BY <1>1, <1>2 DEF Init, TypeOK
<1>4. Contents = << >>
  <2>1. Contents \in [1..0 -> {}]
    BY DEF Contents, Init
  <2> QED  BY DEF Contents, Init
<1>5. RingInv
  <2>1. 0 % BufferSize = 0 /\ 0 + 0 = 0
    BY <1>1
  <2>2. << >> = (<< >> \o << >>) \o << >>
    BY <1>2, ConcatEmptySeq
  <2> QED  BY <1>2, <1>4, <2>1, <2>2 DEF RingInv, InputInOrder, Init
<1>6. WaitersInv
  BY <1>2 DEF Init, WaitersInv
<1>7. CharsAreAnnounced
  <2>1. inputNum = 0 /\ Units = 0
    BY DEF Init, Units
  <2>2. Cardinality(Callers) \in Nat
    BY CallersCounted
  <2>3. inputNum <= Cardinality(Callers) + Units
    BY <2>1, <2>2
  <2> QED  BY <2>3 DEF CharsAreAnnounced, Callers, Units
<1> QED  BY <1>3, <1>5, <1>6, <1>7 DEF ConsoleInv

LEMMA NextConsole == ConsoleInv /\ [Next]_vars => ConsoleInv'
<1> SUFFICES ASSUME ConsoleInv, [Next]_vars PROVE ConsoleInv'
  OBVIOUS
<1>1. ASSUME NEW c \in Char, Receive(c) PROVE ConsoleInv'
  BY <1>1, ReceiveInv
<1>2. CASE readFromConsole
  BY <1>2, InterruptInv
<1>3. ASSUME NEW g \in Getter, Begin(g) PROVE ConsoleInv'
  BY <1>3, BeginInv
<1>4. ASSUME NEW g \in Getter, readRequest(g) PROVE ConsoleInv'
  BY <1>4, ReadInv
<1>5. ASSUME NEW g \in Getter, Return(g) PROVE ConsoleInv'
  BY <1>5, ReturnInv
<1>6. ASSUME NEW g \in Getter, WaitForInput(g) PROVE ConsoleInv'
  BY <1>6, WaitInv
<1>7. CASE UNCHANGED vars
  BY <1>7 DEF vars, ring, ConsoleInv, TypeOK, RingInv, InputInOrder, Contents,
              WaitersInv, CharsAreAnnounced
<1> QED  BY <1>1, <1>2, <1>3, <1>4, <1>5, <1>6, <1>7 DEF Next, GetterStep

LEMMA ConsoleAlways == Spec => []ConsoleInv
<1> QED  BY InitConsole, NextConsole, PTL DEF Spec

(* The counters of the input ring stay in it, whatever its size: no        *)
(* interrupt writes and no reader reads outside the buffer.                *)
THEOREM RingTyped == Spec => []TypeOK
<1>1. ConsoleInv => TypeOK
  BY DEF ConsoleInv
<1> QED  BY <1>1, ConsoleAlways, PTL

(* Readers together get the characters in the order in which the device    *)
(* received them, with none lost, repeated or overwritten, for any number  *)
(* of readers and any pattern of interrupts.                               *)
THEOREM InputOrdered == Spec => []InputInOrder
<1>1. ConsoleInv => InputInOrder
  BY DEF ConsoleInv, RingInv
<1> QED  BY <1>1, ConsoleAlways, PTL

(* The loop of getc over two system calls loses no wake-up: every          *)
(* character in the buffer has a reader about to ask for it or a unit of   *)
(* the semaphore.                                                          *)
THEOREM NoWakeUpLost == Spec => []CharsAreAnnounced
<1>1. ConsoleInv => CharsAreAnnounced
  BY DEF ConsoleInv
<1> QED  BY <1>1, ConsoleAlways, PTL

-----------------------------------------------------------------------------
(***************************************************************************)
(* Nobody waits in vain.                                                   *)
(***************************************************************************)

(* A thread that is blocked is in the semaphore's queue.                   *)
Listed(g) == \E i \in DOMAIN blocked : blocked[i] = g
BlockedListed == \A g \in Getter : pc[g] = "blocked" => Listed(g)

LEMMA NextListed == ConsoleInv /\ BlockedListed /\ [Next]_vars => BlockedListed'
<1> SUFFICES ASSUME ConsoleInv, BlockedListed, [Next]_vars,
                    NEW g \in Getter, pc'[g] = "blocked"
             PROVE  \E i \in DOMAIN blocked' : blocked'[i] = g
  BY DEF BlockedListed, Listed
<1>1. /\ TypeOK /\ WaitersInv /\ blocked \in Seq(Getter) /\ Len(blocked) \in Nat
      /\ DOMAIN blocked = 1..Len(blocked)
      /\ pc \in [Getter -> {"idle", "call", "test", "blocked"}]
  BY LenProperties DEF ConsoleInv, TypeOK
<1>2. CASE readFromConsole
  <2> SUFFICES ASSUME NEW n, n = Moves(BufferSize - inputNum), NEW k, k = Len(Freed(n))
               PROVE  \E i \in DOMAIN blocked' : blocked'[i] = g
    OBVIOUS
  <2>1. /\ k \in 0..Len(blocked) /\ blocked' \in Seq(Getter)
        /\ Len(blocked') = Len(blocked) - k /\ MovedUp(k) /\ CalledAgain(k)
    BY <1>1, <1>2, InterruptSignals
  <2>2. pc[g] = "blocked" /\ ~ \E i \in 1..k : blocked[i] = g
    BY <2>1 DEF CalledAgain
  <2>3. PICK i \in 1..Len(blocked) : blocked[i] = g
    BY <1>1, <2>2 DEF BlockedListed, Listed
  <2>4. i - k \in 1..Len(blocked') /\ k + (i - k) = i
    BY <1>1, <2>1, <2>2, <2>3
  <2>5. DOMAIN blocked' = 1..Len(blocked')
    BY <2>1, LenProperties
  <2> QED  BY <2>1, <2>3, <2>4, <2>5 DEF MovedUp
<1>3. ASSUME NEW h \in Getter, WaitForInput(h), val - 1 < 0
      PROVE  \E i \in DOMAIN blocked' : blocked'[i] = g
  <2>1. blocked' = Append(blocked, h) /\ pc' = [pc EXCEPT ![h] = "blocked"]
    BY <1>3 DEF WaitForInput
  <2>2. /\ blocked' \in Seq(Getter) /\ Len(blocked') = Len(blocked) + 1
        /\ \A i \in 1..Len(blocked) : blocked'[i] = blocked[i]
        /\ blocked'[Len(blocked) + 1] = h
    BY <1>1, <2>1, AppendProperties
  <2>3. DOMAIN blocked' = 1..Len(blocked')
    BY <2>2, LenProperties
  <2>4. CASE g = h
    BY <1>1, <2>2, <2>3, <2>4
  <2>5. CASE g # h
    <3>1. pc[g] = "blocked"
      BY <1>1, <2>1, <2>5
    <3>2. PICK i \in 1..Len(blocked) : blocked[i] = g
      BY <1>1, <3>1 DEF BlockedListed, Listed
    <3>3. i \in DOMAIN blocked' /\ blocked'[i] = g
      BY <1>1, <2>2, <2>3, <3>2
    <3> QED  BY <3>3
  <2> QED  BY <2>4, <2>5
<1>4. CASE UNCHANGED blocked /\ \A h \in Getter : pc'[h] = "blocked" => pc[h] = "blocked"
  BY <1>4 DEF BlockedListed, Listed
<1>5. ASSUME NEW c \in Char, Receive(c) PROVE UNCHANGED <<blocked, pc>>
  BY <1>5 DEF Receive
<1>6. ASSUME NEW h \in Getter, \/ Begin(h) \/ readRequest(h) \/ Return(h)
                               \/ WaitForInput(h) /\ ~(val - 1 < 0)
      PROVE  UNCHANGED blocked /\ \A f \in Getter : pc'[f] = "blocked" => pc[f] = "blocked"
  BY <1>1, <1>6 DEF Begin, readRequest, Return, WaitForInput
<1>7. CASE UNCHANGED vars
  BY <1>4, <1>7 DEF vars
<1> QED  BY <1>2, <1>3, <1>4, <1>5, <1>6, <1>7 DEF Next, GetterStep

LEMMA BlockedAreListed == Spec => []BlockedListed
<1>1. Init => BlockedListed
  BY DEF Init, BlockedListed
<1> QED  BY <1>1, NextListed, ConsoleAlways, PTL DEF Spec

(* As long as a thread is blocked while the buffer holds a character, some *)
(* other thread is about to ask for it: it will take the character, so     *)
(* that what is left of WaitingReaderRuns is that this thread runs.        *)
SomebodyAsks ==
  inputNum > 0 /\ (\E g \in Getter : pc[g] = "blocked") => \E h \in Getter : pc[h] = "call"

(* The system calls of getc never leave a character and a sleeping reader  *)
(* with nobody awake to bring them together, for any number of readers.    *)
THEOREM NobodyWaitsInVain == Spec => []SomebodyAsks
<1>1. ConsoleInv /\ BlockedListed => SomebodyAsks
  <2> SUFFICES ASSUME ConsoleInv, BlockedListed, inputNum > 0,
                      NEW g \in Getter, pc[g] = "blocked"
               PROVE  Callers # {}
    BY DEF SomebodyAsks, Callers
  <2>1. PICK i \in DOMAIN blocked : blocked[i] = g
    BY DEF BlockedListed, Listed
  <2>2. Len(blocked) \in Nat \ {0} /\ val \in Int
    <3>1. /\ blocked \in Seq(Getter) /\ DOMAIN blocked = 1..Len(blocked)
          /\ Len(blocked) \in Nat /\ val \in Int
      BY LenProperties DEF ConsoleInv, TypeOK
    <3> QED  BY <2>1, <3>1
  <2>3. Units = 0
    BY <2>2 DEF ConsoleInv, WaitersInv, Units
  <2>4. inputNum <= Cardinality(Callers) + Units /\ inputNum \in Nat
    BY InputAssumption DEF ConsoleInv, TypeOK, CharsAreAnnounced, Callers, Units
  <2>5. Cardinality(Callers) # 0
    BY <2>3, <2>4
  <2> QED  BY <2>5, FS_EmptySet
<1> QED  BY <1>1, ConsoleAlways, BlockedAreListed, PTL

-----------------------------------------------------------------------------
(***************************************************************************)
(* Climbing: a set that holds the lowest number and with each the next     *)
(* holds them all, or there would be a least one outside.                  *)
(***************************************************************************)

LEMMA Climb ==
  ASSUME NEW n \in Nat, NEW P, 0 \in P,
         \A k \in 0..n : k # 0 /\ k - 1 \in P => k \in P
  PROVE  \A k \in 0..n : k \in P
<1> DEFINE T == {k \in 0..n : k \notin P}
           R == OpToRel(<, Nat)
<1> SUFFICES ASSUME T # {} PROVE FALSE
  OBVIOUS
<1>1. \A x, y \in Nat : x < y => <<x, y>> \in R
  BY DEF OpToRel
<1>2. IsWellFoundedOn(R, Nat)
  BY NatLessThanWellFounded
<1>3. T \in SUBSET Nat
  OBVIOUS
<1> HIDE DEF R, T
<1>4. PICK m \in T : \A y \in T : ~ (<<y, m>> \in R)
  BY <1>2, <1>3, WFMin
<1>5. m \in 0..n /\ m \notin P /\ m # 0 /\ m - 1 \in 0..n /\ m - 1 < m
  BY <1>4 DEF T
<1>6. m - 1 \notin T
  <2>1. m \in Nat /\ m - 1 \in Nat
    BY <1>5
  <2> QED  BY <1>1, <1>4, <1>5, <2>1
<1>7. m - 1 \in P
  BY <1>5, <1>6 DEF T
<1> QED  BY <1>5, <1>7

-----------------------------------------------------------------------------
(***************************************************************************)
(* One character after another.                                            *)
(***************************************************************************)

(* One round of the loop in readFromConsole, with Sem::signal, as the code *)
(* has it.                                                                 *)
OneRead(x) ==
  LET g == Head(x.queue)
  IN  [buffer |-> [x.buffer EXCEPT ![x.tail] = Head(x.device)],
       tail   |-> (x.tail + 1) % BufferSize,
       num    |-> x.num + 1,
       device |-> Tail(x.device),
       val    |-> x.val + 1,
       queue  |-> IF x.val < 0 THEN Tail(x.queue) ELSE x.queue,
       pc     |-> IF x.val < 0 THEN [x.pc EXCEPT ![g] = "call"] ELSE x.pc]

(* Its guard, the status register's bit included.                          *)
CanRead(x) == x.num < BufferSize /\ x.device # << >>

(* What i rounds make of the interrupted state.                            *)
AfterReads(i) ==
  [buffer |-> [j \in Slot |-> LET k == ((j - inputTail) % BufferSize) + 1
                              IN  IF k <= i THEN device[k] ELSE inputBuffer[j]],
   tail   |-> (inputTail + i) % BufferSize,
   num    |-> inputNum + i,
   device |-> SubSeq(device, i + 1, Len(device)),
   val    |-> val + i,
   queue  |-> SubSeq(blocked, Len(Freed(i)) + 1, Len(blocked)),
   pc     |-> [g \in Getter |-> IF Contains(Freed(i), g) THEN "call" ELSE pc[g]]]

(* The ring's part of a round: the slot at the tail is the only one that   *)
(* lies i places from where the tail was.                                  *)
LEMMA SlotOfRound ==
  ASSUME NEW t \in Slot, NEW i \in 0..(BufferSize - 1), NEW j \in Slot
  PROVE  /\ (t + i) % BufferSize \in Slot
         /\ (((t + i) % BufferSize) + 1) % BufferSize = (t + (i + 1)) % BufferSize
         /\ (j - t) % BufferSize \in Nat
         /\ j = (t + i) % BufferSize <=> (j - t) % BufferSize = i
<1> DEFINE s == (t + i) % BufferSize
<1>1. /\ BufferSize \in Nat \ {0} /\ t \in 0..(BufferSize - 1) /\ j \in 0..(BufferSize - 1)
      /\ i \in 0..BufferSize /\ i + 1 \in 0..BufferSize /\ 1 \in 0..BufferSize
  BY InputAssumption DEF Slot
<1>2. s = IF t + i < BufferSize THEN t + i ELSE t + i - BufferSize
  BY <1>1, Ahead
<1>3. s \in Slot
  BY <1>1, AheadInRing
<1> HIDE DEF s
<1>4. (s + 1) % BufferSize = IF s + 1 < BufferSize THEN s + 1 ELSE s + 1 - BufferSize
  BY <1>1, <1>3, Ahead
<1>5. (t + (i + 1)) % BufferSize
        = IF t + (i + 1) < BufferSize THEN t + (i + 1) ELSE t + (i + 1) - BufferSize
  BY <1>1, Ahead
<1>6. (s + 1) % BufferSize = (t + (i + 1)) % BufferSize
  BY <1>1, <1>2, <1>4, <1>5
<1>7. (j - t) % BufferSize = IF j >= t THEN j - t ELSE j - t + BufferSize
  BY Behind
<1>8. (j - t) % BufferSize \in Nat
  BY <1>1, <1>7
<1>9. j = s <=> (j - t) % BufferSize = i
  BY <1>1, <1>2, <1>7
<1> QED  BY <1>3, <1>6, <1>8, <1>9 DEF s

LEMMA RingOneMore ==
  ASSUME TypeOK, NEW i \in 0..(BufferSize - 1), i < Len(device)
  PROVE  LET x == AfterReads(i)
             y == AfterReads(i + 1)
         IN  /\ y.tail = (x.tail + 1) % BufferSize
             /\ x.device # << >> /\ y.device = Tail(x.device)
             /\ y.buffer = [x.buffer EXCEPT ![x.tail] = Head(x.device)]
<1> DEFINE x == AfterReads(i)
           y == AfterReads(i + 1)
           t == (inputTail + i) % BufferSize
           d == SubSeq(device, i + 1, Len(device))
           from(j) == (j - inputTail) % BufferSize
           buffer(n) == [j \in Slot |-> IF from(j) + 1 <= n THEN device[from(j) + 1]
                                        ELSE inputBuffer[j]]
<1>1. /\ x.tail = t /\ y.tail = (inputTail + (i + 1)) % BufferSize
      /\ x.device = d /\ y.device = SubSeq(device, (i + 1) + 1, Len(device))
      /\ x.buffer = buffer(i) /\ y.buffer = buffer(i + 1)
  BY DEF AfterReads
<1>2. /\ device \in Seq(Char) /\ Len(device) \in Nat /\ i + 1 \in 1..Len(device)
      /\ Len(device) \in (i + 1)..Len(device) /\ inputTail \in Slot
      /\ i \in Nat
  <2>1. device \in Seq(Char) /\ Len(device) \in Nat /\ i \in Nat /\ inputTail \in Slot
    BY InputAssumption, LenProperties DEF TypeOK
  <2> QED  BY <2>1
<1>3. Head(d) = device[i + 1] /\ Tail(d) = SubSeq(device, (i + 1) + 1, Len(device))
  BY <1>2, HeadTailOfSubSeq
<1>4. d # << >>
  <2>1. \A k \in (i + 1)..Len(device) : device[k] \in Char
    BY <1>2, ElementOfSeq
  <2>2. i + 1 \in Int /\ Len(device) \in Int /\ i + 1 <= Len(device)
    BY <1>2
  <2>3. Len(d) = Len(device) - (i + 1) + 1
    BY <2>1, <2>2, SubSeqProperties
  <2>4. Len(<< >>) = 0
    BY EmptySeq
  <2> HIDE DEF d
  <2>5. Len(d) > 0
    BY <1>2, <2>3
  <2> QED  BY <2>4, <2>5
<1>5. t \in Slot /\ y.tail = (t + 1) % BufferSize
  BY <1>1, <1>2, SlotOfRound
<1> HIDE DEF d, t, x, y
<1>6. \A j \in Slot : from(j) \in Nat /\ (j = t <=> from(j) = i)
  BY <1>2, SlotOfRound DEF t
<1> HIDE DEF from
<1>7. buffer(i + 1) = [buffer(i) EXCEPT ![t] = device[i + 1]]
  <2>1. ASSUME NEW j \in Slot
        PROVE  buffer(i + 1)[j] = IF j = t THEN device[i + 1] ELSE buffer(i)[j]
    <3>1. CASE j = t
      <4>1. from(j) = i
        BY <1>6, <3>1
      <4> QED  BY <1>2, <3>1, <4>1
    <3>2. CASE j # t
      <4>1. from(j) \in Nat /\ from(j) # i
        BY <1>6, <3>2
      <4>2. from(j) + 1 <= i + 1 <=> from(j) + 1 <= i
        BY <1>2, <4>1
      <4> QED  BY <3>2, <4>2
    <3> QED  BY <3>1, <3>2
  <2>2. [buffer(i) EXCEPT ![t] = device[i + 1]]
          = [j \in Slot |-> IF j = t THEN device[i + 1] ELSE buffer(i)[j]]
    OBVIOUS
  <2>3. buffer(i + 1) = [j \in Slot |-> buffer(i + 1)[j]]
    OBVIOUS
  <2> HIDE DEF buffer
  <2> QED  BY <2>1, <2>2, <2>3
<1> HIDE DEF buffer
<1> QED  BY <1>1, <1>3, <1>4, <1>5, <1>7 DEF x, y

(* The semaphore's part: the first that waits, if any, calls again.        *)
LEMMA SignalOneMore ==
  ASSUME TypeOK, WaitersInv, NEW i \in Nat
  PROVE  LET x == AfterReads(i)
             y == AfterReads(i + 1)
         IN  /\ x.val < 0 => /\ x.queue # << >> /\ y.queue = Tail(x.queue)
                             /\ y.pc = [x.pc EXCEPT ![Head(x.queue)] = "call"]
             /\ ~(x.val < 0) => y.queue = x.queue /\ y.pc = x.pc
<1> DEFINE x == AfterReads(i)
           y == AfterReads(i + 1)
           n == Len(blocked)
           calls(k) == [g \in Getter |-> IF \E j \in 1..k : blocked[j] = g
                                         THEN "call" ELSE pc[g]]
<1>1. /\ blocked \in Seq(Getter) /\ n \in Nat /\ val \in Int
      /\ n = IF val < 0 THEN -val ELSE 0
  BY LenProperties DEF TypeOK, WaitersInv
<1>2. ASSUME NEW k \in Nat
      PROVE  /\ Len(Freed(k)) \in 0..n
             /\ Len(Freed(k)) = IF val >= 0 THEN 0 ELSE IF -val < k THEN -val ELSE k
             /\ AfterReads(k).pc = calls(Len(Freed(k)))
             /\ AfterReads(k).queue = SubSeq(blocked, Len(Freed(k)) + 1, n)
             /\ AfterReads(k).val = val + k
  <2>1. /\ Len(Freed(k)) \in 0..n
        /\ Len(Freed(k)) = IF val >= 0 THEN 0 ELSE IF -val < k THEN -val ELSE k
        /\ \A j \in 1..Len(Freed(k)) : Freed(k)[j] = blocked[j]
    BY FreedAre
  <2>2. \A g \in Getter : Contains(Freed(k), g) <=> \E j \in 1..Len(Freed(k)) : blocked[j] = g
    BY <2>1 DEF Contains
  <2>3. /\ AfterReads(k).pc = [g \in Getter |-> IF Contains(Freed(k), g)
                                                THEN "call" ELSE pc[g]]
        /\ AfterReads(k).queue = SubSeq(blocked, Len(Freed(k)) + 1, n)
        /\ AfterReads(k).val = val + k
    BY DEF AfterReads
  <2>4. AfterReads(k).pc = calls(Len(Freed(k)))
    BY <2>2, <2>3
  <2> QED  BY <2>1, <2>3, <2>4
<1> DEFINE fi == Len(Freed(i))
           fj == Len(Freed(i + 1))
<1>3. /\ fi = IF val >= 0 THEN 0 ELSE IF -val < i THEN -val ELSE i
      /\ fj = IF val >= 0 THEN 0 ELSE IF -val < i + 1 THEN -val ELSE i + 1
      /\ x.pc = calls(fi) /\ x.queue = SubSeq(blocked, fi + 1, n) /\ x.val = val + i
      /\ y.pc = calls(fj) /\ y.queue = SubSeq(blocked, fj + 1, n)
  <2>1. i + 1 \in Nat
    OBVIOUS
  <2> HIDE DEF calls, n
  <2> QED  BY <1>2, <2>1
<1> HIDE DEF x, y, n, calls, fi, fj
<1>4. CASE val + i < 0
  <2> DEFINE q == SubSeq(blocked, i + 1, n)
  <2>1. fi = i /\ fj = i + 1 /\ i + 1 \in 1..n
    BY <1>1, <1>3, <1>4
  <2>2. /\ x.val = val + i /\ x.queue = q /\ x.pc = calls(i)
        /\ y.queue = SubSeq(blocked, (i + 1) + 1, n) /\ y.pc = calls(i + 1)
    BY <1>3, <2>1
  <2>3. Head(q) = blocked[i + 1] /\ Tail(q) = SubSeq(blocked, (i + 1) + 1, n)
    <3>1. n \in (i + 1)..n
      BY <1>1, <2>1
    <3> QED  BY <1>1, <2>1, <3>1, HeadTailOfSubSeq DEF n
  <2>4. q # << >>
    <3>1. \A k \in (i + 1)..n : blocked[k] \in Getter
      BY <1>1, ElementOfSeq DEF n
    <3>2. i + 1 \in Int /\ n \in Int /\ i + 1 <= n
      BY <1>1, <2>1
    <3>3. Len(q) = n - (i + 1) + 1
      BY <3>1, <3>2, SubSeqProperties
    <3>4. Len(<< >>) = 0
      BY EmptySeq
    <3> HIDE DEF q
    <3>5. Len(q) > 0
      BY <3>2, <3>3
    <3> QED  BY <3>4, <3>5
  <2>5. calls(i + 1) = [calls(i) EXCEPT ![blocked[i + 1]] = "call"]
    <3>1. \A g : (\E j \in 1..(i + 1) : blocked[j] = g)
                   <=> (\E j \in 1..i : blocked[j] = g) \/ blocked[i + 1] = g
      <4>1. \A j : j \in 1..(i + 1) <=> j \in 1..i \/ j = i + 1
        OBVIOUS
      <4> QED  BY <4>1
    <3>2. [calls(i) EXCEPT ![blocked[i + 1]] = "call"]
            = [g \in Getter |-> IF g = blocked[i + 1] THEN "call" ELSE calls(i)[g]]
      BY DEF calls
    <3> QED  BY <3>1, <3>2 DEF calls
  <2> HIDE DEF q
  <2>6. x.val < 0
    BY <1>4, <2>2
  <2> QED  BY <2>2, <2>3, <2>4, <2>5, <2>6 DEF x, y
<1>5. CASE ~(val + i < 0)
  <2>1. fi = fj
    BY <1>1, <1>3, <1>5
  <2>2. /\ x.val = val + i /\ x.queue = y.queue /\ x.pc = y.pc
    BY <1>3, <2>1
  <2>3. ~(x.val < 0)
    BY <1>5, <2>2
  <2> QED  BY <2>2, <2>3 DEF x, y
<1> QED  BY <1>4, <1>5

LEMMA ReadOneMore ==
  ASSUME TypeOK, WaitersInv, NEW i \in 0..(BufferSize - 1), i < Len(device)
  PROVE  AfterReads(i + 1) = OneRead(AfterReads(i))
<1> DEFINE x == AfterReads(i)
           y == AfterReads(i + 1)
<1>1. i \in Nat /\ inputNum \in Nat /\ val \in Int
  BY InputAssumption DEF TypeOK
<1>2. /\ x.num = inputNum + i /\ y.num = inputNum + (i + 1)
      /\ x.val = val + i /\ y.val = val + (i + 1)
  BY DEF AfterReads
<1>3. y.num = x.num + 1 /\ y.val = x.val + 1
  BY <1>1, <1>2
<1>4. y = [buffer |-> y.buffer, tail |-> y.tail, num |-> y.num, device |-> y.device,
           val |-> y.val, queue |-> y.queue, pc |-> y.pc]
  BY DEF AfterReads
<1>5. /\ y.tail = (x.tail + 1) % BufferSize
      /\ x.device # << >> /\ y.device = Tail(x.device)
      /\ y.buffer = [x.buffer EXCEPT ![x.tail] = Head(x.device)]
  BY RingOneMore
<1>6. /\ x.val < 0 => /\ y.queue = Tail(x.queue)
                      /\ y.pc = [x.pc EXCEPT ![Head(x.queue)] = "call"]
      /\ ~(x.val < 0) => y.queue = x.queue /\ y.pc = x.pc
  BY <1>1, SignalOneMore
<1> HIDE DEF x, y
<1>7. /\ y.queue = IF x.val < 0 THEN Tail(x.queue) ELSE x.queue
      /\ y.pc = IF x.val < 0 THEN [x.pc EXCEPT ![Head(x.queue)] = "call"] ELSE x.pc
  BY <1>6
<1>8. y = OneRead(x)
  BY <1>3, <1>4, <1>5, <1>7 DEF OneRead
<1> QED  BY <1>8 DEF x, y

LEMMA NotYetRead ==
  ASSUME TypeOK, WaitersInv
  PROVE  AfterReads(0) = [buffer |-> inputBuffer, tail |-> inputTail, num |-> inputNum,
                          device |-> device, val |-> val, queue |-> blocked, pc |-> pc]
<1>1. /\ device \in Seq(Char) /\ blocked \in Seq(Getter) /\ val \in Int
      /\ inputNum \in Nat /\ inputTail \in Slot /\ inputTail \in Int
      /\ inputBuffer \in [Slot -> Char \cup {NoChar}]
      /\ pc \in [Getter -> {"idle", "call", "test", "blocked"}]
  BY InputAssumption DEF TypeOK, Slot
<1>2. Freed(0) = << >> /\ Len(Freed(0)) = 0
  <2>1. Len(blocked) = IF val < 0 THEN -val ELSE 0
    BY DEF WaitersInv
  <2>2. (IF val >= 0 THEN 0 ELSE IF -val < 0 THEN -val ELSE 0) = 0
    BY <1>1
  <2>3. Freed(0) = SubSeq(blocked, 1, 0)
    BY <2>2 DEF Freed
  <2>4. SubSeq(blocked, 1, 0) = << >> /\ Len(<< >>) = 0
    BY SubSeqEmpty, EmptySeq
  <2> QED  BY <2>3, <2>4
<1>3. SubSeq(device, 0 + 1, Len(device)) = device /\ SubSeq(blocked, 0 + 1, Len(blocked)) = blocked
  BY <1>1, SubSeqFull
<1>4. (inputTail + 0) % BufferSize = inputTail
  <2>1. 0 \in 0..BufferSize /\ inputTail \in 0..(BufferSize - 1)
    BY <1>1, InputAssumption DEF Slot
  <2>2. (inputTail + 0) % BufferSize
          = IF inputTail + 0 < BufferSize THEN inputTail + 0 ELSE inputTail + 0 - BufferSize
    BY <1>1, <2>1, Ahead
  <2> QED  BY <2>1, <2>2, InputAssumption
<1>5. \A j \in Slot : ~(((j - inputTail) % BufferSize) + 1 <= 0)
  <2> TAKE j \in Slot
  <2>1. (j - inputTail) % BufferSize = IF j >= inputTail THEN j - inputTail
                                       ELSE j - inputTail + BufferSize
    BY <1>1, Behind
  <2>2. j \in 0..(BufferSize - 1) /\ inputTail \in 0..(BufferSize - 1)
    BY <1>1 DEF Slot
  <2>3. (j - inputTail) % BufferSize \in Nat
    BY <2>1, <2>2, InputAssumption
  <2> QED  BY <2>3
<1>6. AfterReads(0).buffer = inputBuffer
  <2>1. AfterReads(0).buffer
          = [j \in Slot |-> IF ((j - inputTail) % BufferSize) + 1 <= 0
                            THEN device[((j - inputTail) % BufferSize) + 1]
                            ELSE inputBuffer[j]]
    BY DEF AfterReads
  <2>2. AfterReads(0).buffer = [j \in Slot |-> inputBuffer[j]]
    BY <1>5, <2>1
  <2> QED  BY <1>1, <2>2
<1>7. AfterReads(0).pc = pc
  <2>1. \A g : ~Contains(<< >>, g)
    BY DEF Contains
  <2>2. AfterReads(0).pc = [g \in Getter |-> pc[g]]
    BY <1>2, <2>1 DEF AfterReads
  <2> QED  BY <1>1, <2>2
<1>8. /\ AfterReads(0).tail = inputTail /\ AfterReads(0).num = inputNum
      /\ AfterReads(0).device = device /\ AfterReads(0).val = val
      /\ AfterReads(0).queue = blocked
  BY <1>1, <1>2, <1>3, <1>4 DEF AfterReads
<1>9. AfterReads(0) = [buffer |-> AfterReads(0).buffer, tail |-> AfterReads(0).tail,
                       num |-> AfterReads(0).num, device |-> AfterReads(0).device,
                       val |-> AfterReads(0).val, queue |-> AfterReads(0).queue,
                       pc |-> AfterReads(0).pc]
  BY DEF AfterReads
<1> QED  BY <1>6, <1>7, <1>8, <1>9

(* The model's interrupt moves its characters in one step.  The step is    *)
(* the loop: run as the code has it, its guard holds before each of the    *)
(* n rounds and fails after them, and they leave what the step leaves.     *)
THEOREM ReadsInARow ==
  ASSUME TypeOK, WaitersInv, readFromConsole,
         NEW n, n = Moves(BufferSize - inputNum),
         NEW x, x[0] = [buffer |-> inputBuffer, tail |-> inputTail, num |-> inputNum,
                        device |-> device, val |-> val, queue |-> blocked, pc |-> pc],
         \A i \in 0..n : i # 0 => x[i] = OneRead(x[i - 1])
  PROVE  /\ \A i \in 0..(n - 1) : CanRead(x[i])
         /\ ~CanRead(x[n])
         /\ x[n] = [buffer |-> inputBuffer', tail |-> inputTail', num |-> inputNum',
                    device |-> device', val |-> val', queue |-> blocked', pc |-> pc']
<1> DEFINE P == {i \in 0..n : x[i] = AfterReads(i)}
<1>1. /\ n \in 0..Len(device) /\ n \in 0..(BufferSize - inputNum) /\ n \in Nat
      /\ Len(device) \in Nat /\ inputNum \in Nat /\ BufferSize \in Nat
      /\ n = Len(device) \/ n = BufferSize - inputNum
  <2>1. /\ n \in 0..Len(device) /\ n \in 0..(BufferSize - inputNum) /\ Len(device) \in Nat
    BY MovesBounded
  <2>2. inputNum \in Nat /\ BufferSize \in Nat
    BY InputAssumption DEF TypeOK
  <2>3. n = Len(device) \/ n = BufferSize - inputNum
    BY DEF Moves
  <2> QED  BY <2>1, <2>2, <2>3
<1>2. \A i \in 0..(n - 1) : i \in 0..(BufferSize - 1) /\ i < Len(device)
  BY <1>1
<1>3. 0 \in P
  BY <1>1, NotYetRead
<1>4. ASSUME NEW i \in 0..n, i # 0, i - 1 \in P
      PROVE  i \in P
  <2>1. i - 1 \in 0..(n - 1) /\ (i - 1) + 1 = i
    BY <1>1, <1>4
  <2>2. AfterReads(i) = OneRead(AfterReads(i - 1))
    BY <1>2, <2>1, ReadOneMore
  <2>3. x[i - 1] = AfterReads(i - 1) /\ x[i] = OneRead(x[i - 1])
    BY <1>4
  <2> QED  BY <2>2, <2>3
<1> HIDE DEF P
<1>5. \A i \in 0..n : i \in P
  BY <1>1, <1>3, <1>4, Climb
<1>6. \A i \in 0..n : x[i] = AfterReads(i)
  BY <1>5 DEF P
<1>7. ASSUME NEW i \in 0..(n - 1)
      PROVE  CanRead(x[i])
  <2>1. i \in 0..n /\ inputNum + i < BufferSize
    BY <1>1
  <2>2. AfterReads(i).num = inputNum + i
    BY DEF AfterReads
  <2>3. AfterReads(i).device # << >>
    BY <1>2, RingOneMore
  <2> QED  BY <1>6, <2>1, <2>2, <2>3 DEF CanRead
<1>8. ~CanRead(x[n])
  <2>1. /\ x[n].num = inputNum + n
        /\ x[n].device = SubSeq(device, n + 1, Len(device))
    <3>1. x[n] = AfterReads(n)
      BY <1>1, <1>6
    <3>2. /\ AfterReads(n).num = inputNum + n
          /\ AfterReads(n).device = SubSeq(device, n + 1, Len(device))
      BY DEF AfterReads
    <3> QED  BY <3>1, <3>2
  <2>2. CASE n = BufferSize - inputNum
    BY <1>1, <2>1, <2>2 DEF CanRead
  <2>3. CASE n = Len(device)
    <3>1. x[n].device = << >>
      BY <1>1, <2>1, <2>3, SubSeqEmpty
    <3> QED  BY <3>1 DEF CanRead
  <2> QED  BY <1>1, <2>2, <2>3
<1>9. x[n] = [buffer |-> inputBuffer', tail |-> inputTail', num |-> inputNum',
              device |-> device', val |-> val', queue |-> blocked', pc |-> pc']
  <2>1. x[n] = AfterReads(n)
    BY <1>1, <1>6
  <2> QED  BY <2>1 DEF AfterReads, readFromConsole
<1> QED  BY <1>7, <1>8, <1>9

=============================================================================
