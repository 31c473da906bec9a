---------------------------- MODULE OutputProofs ----------------------------
(***************************************************************************)
(* Proofs about writing to the console, for a ring of any size: what the   *)
(* device has, the ring and the requests are together what was written.    *)
(*                                                                         *)
(* A request is only made when the ring is full, and a full ring keeps     *)
(* putc from writing: so the loop of writeToConsole never sees a request,  *)
(* and each of its rounds takes one character from the front of the ring.  *)
(* The rounds are climbed one by one, as in SleepersProofs.                *)
(***************************************************************************)
EXTENDS ConsoleOutput, WellFoundedInduction, SequenceTheorems, TLAPS

RingType == [buf : [Slot -> Char \cup {NoChar}], head : Slot, tail : Slot,
             num : 0..BufferSize, reqs : Seq(Char), sent : Seq(Char)]

Held(r) == [k \in 1..r.num |-> r.buf[(r.head + k - 1) % BufferSize]]
All(r) == r.sent \o Held(r)

RingOk(r) ==
  /\ r \in RingType
  /\ r.tail = (r.head + r.num) % BufferSize
  /\ \A k \in 1..r.num : r.buf[(r.head + k - 1) % BufferSize] \in Char

Unasked(r) == RingOk(r) /\ r.reqs = << >>

OutputInv == TypeOK /\ RingOk(Ring) /\ OutputInOrder /\ RequestsOnlyWhenFull

-----------------------------------------------------------------------------
(***************************************************************************)
(* Least elements, climbing and recursive functions.                       *)
(***************************************************************************)

LEMMA Least ==
  ASSUME NEW T \in SUBSET Nat, T # {}
  PROVE  \E m \in T : \A k \in T : ~(k < m)
<1> DEFINE R == OpToRel(<, Nat)
<1>1. \A x, y \in Nat : x < y => <<x, y>> \in R
  BY DEF OpToRel
<1>2. IsWellFoundedOn(R, Nat)
  BY NatLessThanWellFounded
<1> HIDE DEF R
<1>3. PICK m \in T : \A y \in T : ~ (<<y, m>> \in R)
  BY <1>2, WFMin
<1>4. \A k \in T : ~(k < m)
  BY <1>1, <1>3
<1> QED  BY <1>4

LEMMA Climb ==
  ASSUME NEW b \in Nat, NEW n \in Nat, NEW P, b \in P,
         \A k \in b..n : k # b /\ k - 1 \in P => k \in P
  PROVE  \A k \in b..n : k \in P
<1> DEFINE T == {k \in b..n : k \notin P}
<1>1. SUFFICES ASSUME T # {} PROVE FALSE
  OBVIOUS
<1>2. PICK m \in T : \A k \in T : ~(k < m)
  <2>1. T \in SUBSET Nat
    OBVIOUS
  <2> HIDE DEF T
  <2> QED  BY <1>1, <2>1, Least
<1>3. m \in b..n /\ m \notin P /\ m # b
  BY <1>2
<1>4. m - 1 \in b..n /\ m - 1 < m
  BY <1>3
<1>5. m - 1 \in P
  BY <1>2, <1>4
<1> QED  BY <1>3, <1>5

(* The function g starts with a and goes on with F; there is one.          *)
Chain(g, b, n, a, F) == g[b] = a /\ \A k \in b..n : k # b => g[k] = F[<<k, g[k - 1]>>]

LEMMA GoesOn ==
  ASSUME NEW b \in Nat, NEW n \in Nat, b <= n, NEW S, NEW a \in S,
         NEW F \in [(b..n) \X S -> S]
  PROVE  \E g \in [b..n -> S] : Chain(g, b, n, a, F)
<1> DEFINE Good(m, g) == g[b] = a /\ \A k \in b..m : k # b => g[k] = F[<<k, g[k - 1]>>]
           P == {m \in b..n : \E g \in [b..m -> S] : Good(m, g)}
<1>1. b \in P
  <2> DEFINE g == [k \in b..b |-> a]
  <2>1. g \in [b..b -> S] /\ g[b] = a
    OBVIOUS
  <2>2. \A k \in b..b : k = b
    OBVIOUS
  <2> HIDE DEF g
  <2>3. Good(b, g)
    BY <2>1, <2>2
  <2> QED  BY <2>1, <2>3
<1>2. ASSUME NEW m \in b..n, m # b, m - 1 \in P PROVE m \in P
  <2>1. PICK g \in [b..(m - 1) -> S] : Good(m - 1, g)
    BY <1>2
  <2> DEFINE h == [k \in b..m |-> IF k = m THEN F[<<m, g[m - 1]>>] ELSE g[k]]
  <2>2. m - 1 \in b..(m - 1) /\ \A k \in b..m : k # m => k \in b..(m - 1)
    BY <1>2
  <2>3. F[<<m, g[m - 1]>>] \in S
    BY <2>2
  <2>4. h \in [b..m -> S] /\ h[m] = F[<<m, g[m - 1]>>] /\ \A k \in b..(m - 1) : h[k] = g[k]
    BY <1>2, <2>2, <2>3
  <2> HIDE DEF h
  <2>5. h[b] = a
    BY <1>2, <2>1, <2>4
  <2>6. ASSUME NEW k \in b..m, k # b PROVE h[k] = F[<<k, h[k - 1]>>]
    <3>1. k - 1 \in b..(m - 1)
      BY <1>2, <2>6
    <3>2. CASE k = m
      BY <2>4, <3>1, <3>2
    <3>3. CASE k # m
      BY <2>1, <2>2, <2>4, <2>6, <3>1, <3>3
    <3> QED  BY <3>2, <3>3
  <2>7. Good(m, h)
    BY <2>5, <2>6
  <2> QED  BY <2>4, <2>7
<1> HIDE DEF P
<1>3. \A k \in b..n : k \in P
  BY <1>1, <1>2, Climb
<1>4. n \in P
  BY <1>3
<1> QED  BY <1>4 DEF P, Chain

-----------------------------------------------------------------------------
(***************************************************************************)
(* Slots.                                                                  *)
(***************************************************************************)

LEMMA Ahead ==
  ASSUME NEW h \in Slot, NEW k \in 0..BufferSize
  PROVE  (h + k) % BufferSize = IF h + k < BufferSize THEN h + k ELSE h + k - BufferSize
BY OutputAssumption DEF Slot

LEMMA InRing ==
  ASSUME NEW h \in Slot
  PROVE  h % BufferSize = h
BY OutputAssumption DEF Slot

LEMMA AheadInRing ==
  ASSUME NEW h \in Slot, NEW k \in 0..BufferSize
  PROVE  (h + k) % BufferSize \in Slot
BY Ahead, OutputAssumption DEF Slot

(* Advancing the head leaves the tail one place less ahead.                *)
LEMMA HeadAdvanced ==
  ASSUME NEW h \in Slot, NEW k \in 0..(BufferSize - 1)
  PROVE  (((h + 1) % BufferSize) + k) % BufferSize = (h + (k + 1)) % BufferSize
<1> DEFINE g == (h + 1) % BufferSize
<1>1. /\ BufferSize \in Nat \ {0} /\ k \in 0..BufferSize /\ k + 1 \in 0..BufferSize
      /\ 1 \in 0..BufferSize /\ h \in 0..(BufferSize - 1)
  BY OutputAssumption DEF Slot
<1>2. g \in Slot /\ g = IF h + 1 < BufferSize THEN h + 1 ELSE h + 1 - BufferSize
  BY <1>1, Ahead, AheadInRing
<1> HIDE DEF g
<1>3. (g + k) % BufferSize = IF g + k < BufferSize THEN g + k ELSE g + k - BufferSize
  BY <1>1, <1>2, Ahead
<1>4. (h + (k + 1)) % BufferSize
        = IF h + (k + 1) < BufferSize THEN h + (k + 1) ELSE h + (k + 1) - BufferSize
  BY <1>1, Ahead
<1>5. (g + k) % BufferSize = (h + (k + 1)) % BufferSize
  BY <1>1, <1>2, <1>3, <1>4
<1> QED  BY <1>5 DEF g

-----------------------------------------------------------------------------
(***************************************************************************)
(* Rings.                                                                  *)
(***************************************************************************)

LEMMA RingIs ==
  ASSUME NEW r, RingOk(r)
  PROVE  /\ BufferSize \in Nat \ {0} /\ r.num \in 0..BufferSize /\ r.num \in Nat
         /\ r.head \in Slot /\ r.head \in Nat /\ r.tail \in Slot
         /\ r.buf \in [Slot -> Char \cup {NoChar}]
         /\ r.sent \in Seq(Char) /\ r.reqs \in Seq(Char)
<1>1. r \in RingType
  BY DEF RingOk
<1>2. /\ BufferSize \in Nat \ {0} /\ r.num \in 0..BufferSize
      /\ r.head \in Slot /\ r.tail \in Slot
      /\ r.buf \in [Slot -> Char \cup {NoChar}]
      /\ r.sent \in Seq(Char) /\ r.reqs \in Seq(Char)
  BY <1>1, OutputAssumption DEF RingType
<1>3. r.num \in Nat /\ r.head \in Nat
  BY <1>2 DEF Slot
<1> QED  BY <1>2, <1>3

LEMMA HeldIs ==
  ASSUME NEW r, RingOk(r)
  PROVE  /\ Held(r) \in Seq(Char) /\ Len(Held(r)) = r.num
         /\ \A k \in 1..r.num : /\ Held(r)[k] = r.buf[(r.head + k - 1) % BufferSize]
                                /\ Held(r)[k] \in Char
<1> DEFINE n == r.num
           e(k) == r.buf[(r.head + k - 1) % BufferSize]
<1>1. n \in Nat /\ \A k \in 1..n : e(k) \in Char
  BY RingIs DEF RingOk
<1>2. Held(r) = [k \in 1..n |-> e(k)]
  BY DEF Held
<1> HIDE DEF n, e
<1>3. /\ [k \in 1..n |-> e(k)] \in Seq(Char) /\ Len([k \in 1..n |-> e(k)]) = n
      /\ \A k \in 1..n : [i \in 1..n |-> e(i)][k] = e(k)
  BY <1>1
<1> QED  BY <1>1, <1>2, <1>3 DEF n, e

(* A character enters a ring that has room.                                *)
LEMMA EnterKeeps ==
  ASSUME NEW r, Unasked(r), r.num < BufferSize, NEW c \in Char, NEW e, e = Enter(r, c)
  PROVE  Unasked(e) /\ e.sent = r.sent /\ Held(e) = Append(Held(r), c)
<1>1. /\ BufferSize \in Nat \ {0} /\ r.num \in 0..BufferSize
      /\ r.head \in Slot /\ r.head \in Nat /\ r.tail \in Slot
      /\ r.buf \in [Slot -> Char \cup {NoChar}]
      /\ r.sent \in Seq(Char) /\ r.reqs = << >>
      /\ r.tail = (r.head + r.num) % BufferSize
      /\ \A k \in 1..r.num : r.buf[(r.head + k - 1) % BufferSize] \in Char
      /\ r \in RingType
  BY RingIs DEF Unasked, RingOk
<1>2. /\ e.buf = [r.buf EXCEPT ![r.tail] = c] /\ e.head = r.head
      /\ e.tail = (r.tail + 1) % BufferSize /\ e.num = r.num + 1
      /\ e.reqs = r.reqs /\ e.sent = r.sent
  BY <1>1 DEF Enter, RingType
<1>3. e.tail \in Slot /\ e.num \in 0..BufferSize /\ e.num \in 1..BufferSize
  <2>1. 1 \in 0..BufferSize
    BY <1>1
  <2>2. (r.tail + 1) % BufferSize \in Slot
    BY <1>1, <2>1, AheadInRing
  <2> QED  BY <1>1, <1>2, <2>2
<1>4. e \in RingType
  <2> DEFINE b == [r.buf EXCEPT ![r.tail] = c]
             i == (r.tail + 1) % BufferSize
             m == r.num + 1
  <2>1. b \in [Slot -> Char \cup {NoChar}] /\ i \in Slot /\ m \in 0..BufferSize
    BY <1>1, <1>2, <1>3
  <2>2. e = [r EXCEPT !.buf = b, !.tail = i, !.num = m]
    BY DEF Enter
  <2> HIDE DEF b, i, m
  <2> QED  BY <1>1, <2>1, <2>2 DEF RingType
<1>5. e.tail = (e.head + e.num) % BufferSize
  <2>1. /\ r.tail = IF r.head + r.num < BufferSize THEN r.head + r.num
                    ELSE r.head + r.num - BufferSize
    BY <1>1, Ahead
  <2>2. 1 \in 0..BufferSize /\ r.num + 1 \in 0..BufferSize
    BY <1>1
  <2>3. (r.tail + 1) % BufferSize = IF r.tail + 1 < BufferSize THEN r.tail + 1
                                    ELSE r.tail + 1 - BufferSize
    BY <1>1, <2>2, Ahead
  <2>4. (r.head + (r.num + 1)) % BufferSize
          = IF r.head + (r.num + 1) < BufferSize THEN r.head + (r.num + 1)
            ELSE r.head + (r.num + 1) - BufferSize
    BY <1>1, <2>2, Ahead
  <2>5. r.head < BufferSize
    BY <1>1 DEF Slot
  <2>6. (r.tail + 1) % BufferSize = (r.head + (r.num + 1)) % BufferSize
    BY <1>1, <2>1, <2>3, <2>4, <2>5
  <2> QED  BY <1>2, <2>6
(* The slots in front of the tail are others.                              *)
<1>6. ASSUME NEW k \in 1..r.num
      PROVE  /\ (r.head + k - 1) % BufferSize \in Slot
             /\ (r.head + k - 1) % BufferSize # r.tail
  <2> DEFINE j == k - 1
  <2>1. j \in 0..BufferSize /\ j < r.num /\ r.head + k - 1 = r.head + j
    BY <1>1
  <2>2. (r.head + j) % BufferSize = IF r.head + j < BufferSize THEN r.head + j
                                    ELSE r.head + j - BufferSize
    BY <1>1, <2>1, Ahead
  <2>3. r.tail = IF r.head + r.num < BufferSize THEN r.head + r.num
                 ELSE r.head + r.num - BufferSize
    BY <1>1, Ahead
  <2>4. (r.head + j) % BufferSize \in Slot
    BY <1>1, <2>1, AheadInRing
  <2>5. r.head < BufferSize
    BY <1>1 DEF Slot
  <2> HIDE DEF j
  <2>6. (r.head + j) % BufferSize # r.tail
    <3> DEFINE x == (r.head + j) % BufferSize
               a == r.head
               n == r.num
    <3>1. /\ x = IF a + j < BufferSize THEN a + j ELSE a + j - BufferSize
          /\ r.tail = IF a + n < BufferSize THEN a + n ELSE a + n - BufferSize
          /\ a \in Nat /\ a < BufferSize /\ j \in Nat /\ n \in Nat /\ j < n /\ n < BufferSize
          /\ BufferSize \in Nat
      BY <1>1, <2>1, <2>2, <2>3, <2>5
    <3> HIDE DEF x, a, n
    <3>2. x # r.tail
      BY <3>1
    <3> QED  BY <3>2 DEF x
  <2> QED  BY <2>1, <2>4, <2>6
<1>7. \A k \in 1..r.num : e.buf[(e.head + k - 1) % BufferSize]
                            = r.buf[(r.head + k - 1) % BufferSize]
  BY <1>1, <1>2, <1>6
<1>8. e.buf[(e.head + e.num - 1) % BufferSize] = c
  <2>1. e.head + e.num - 1 = r.head + r.num
    BY <1>1, <1>2
  <2> QED  BY <1>1, <1>2, <2>1
<1>9. ASSUME NEW k \in 1..e.num PROVE k = e.num \/ k \in 1..r.num
  BY <1>1, <1>2
<1>10. \A k \in 1..e.num : e.buf[(e.head + k - 1) % BufferSize] \in Char
  BY <1>1, <1>7, <1>8, <1>9
<1>11. Unasked(e)
  BY <1>1, <1>2, <1>4, <1>5, <1>10 DEF Unasked, RingOk
<1>12. Held(e) = Append(Held(r), c)
  <2> DEFINE h == Held(e)
             o == Held(r)
  <2>1. /\ h \in Seq(Char) /\ Len(h) = e.num
        /\ \A k \in 1..e.num : h[k] = e.buf[(e.head + k - 1) % BufferSize]
    BY <1>11, HeldIs DEF Unasked
  <2>2. /\ o \in Seq(Char) /\ Len(o) = r.num
        /\ \A k \in 1..r.num : o[k] = r.buf[(r.head + k - 1) % BufferSize]
    BY HeldIs DEF Unasked
  <2> HIDE DEF h, o
  <2>3. /\ Append(o, c) \in Seq(Char) /\ Len(Append(o, c)) = r.num + 1
        /\ \A k \in 1..r.num : Append(o, c)[k] = o[k]
        /\ Append(o, c)[r.num + 1] = c
    BY <2>2, AppendProperties
  <2>4. ASSUME NEW k \in 1..e.num PROVE h[k] = Append(o, c)[k]
    <3>1. CASE k = e.num
      BY <1>2, <1>8, <2>1, <2>3, <3>1
    <3>2. CASE k \in 1..r.num
      BY <1>7, <2>1, <2>2, <2>3, <3>2
    <3> QED  BY <1>9, <3>1, <3>2
  <2>5. h = Append(o, c)
    <3>1. Len(h) = Len(Append(o, c)) /\ \A k \in 1..Len(h) : h[k] = Append(o, c)[k]
      BY <1>2, <2>1, <2>3, <2>4
    <3> QED  BY <2>1, <2>3, <3>1, SeqEqual
  <2> QED  BY <2>5 DEF h, o
<1> QED  BY <1>2, <1>11, <1>12

(* The device takes the character at the head, if nothing is requested.    *)
LEMMA SendKeeps ==
  ASSUME NEW r, Unasked(r), r.num > 0, NEW s, s = SendOne(r)
  PROVE  /\ Unasked(s) /\ All(s) = All(r)
         /\ Len(s.sent) = Len(r.sent) + 1 /\ Len(r.sent) \in Nat
<1> DEFINE c == r.buf[r.head]
           one == <<c>>
           n == r.num - 1
           C == Held(r)
<1>1. /\ BufferSize \in Nat \ {0} /\ r.num \in 0..BufferSize
      /\ r.head \in Slot /\ r.head \in Nat /\ r.tail \in Slot
      /\ r.buf \in [Slot -> Char \cup {NoChar}]
      /\ r.sent \in Seq(Char) /\ r.reqs = << >>
      /\ r.tail = (r.head + r.num) % BufferSize
      /\ \A k \in 1..r.num : r.buf[(r.head + k - 1) % BufferSize] \in Char
      /\ r \in RingType
  BY RingIs DEF Unasked, RingOk
<1>2. C \in Seq(Char) /\ Len(C) = r.num /\ DOMAIN C = 1..r.num
      /\ \A k \in 1..r.num : C[k] = r.buf[(r.head + k - 1) % BufferSize] /\ C[k] \in Char
  BY HeldIs, LenProperties DEF Unasked
<1>3. n \in 0..(BufferSize - 1) /\ n + 1 = r.num /\ n \in 0..BufferSize /\ n \in Nat
  BY <1>1
<1>4. c = C[1] /\ c \in Char
  <2>1. 1 \in 1..r.num /\ r.head + 1 - 1 = r.head
    BY <1>1
  <2>2. r.head % BufferSize = r.head
    BY <1>1, InRing
  <2> QED  BY <1>2, <2>1, <2>2
<1> HIDE DEF C, c, n
<1>5. /\ s.sent = Append(r.sent, c) /\ s.head = (r.head + 1) % BufferSize
      /\ s.num = n /\ s.buf = r.buf /\ s.tail = r.tail /\ s.reqs = << >>
      /\ s = [r EXCEPT !.sent = Append(r.sent, c), !.head = (r.head + 1) % BufferSize, !.num = n]
  <2> DEFINE a == Append(r.sent, c)
             h == (r.head + 1) % BufferSize
             x == [r EXCEPT !.sent = a, !.head = h, !.num = n]
  <2>1. /\ x.sent = a /\ x.head = h /\ x.num = n /\ x.buf = r.buf /\ x.tail = r.tail
        /\ x.reqs = r.reqs
    <3> HIDE DEF a, h
    <3> QED  BY <1>1 DEF RingType
  <2>2. s = resolveWriteRequest(x)
    BY DEF SendOne, n, c
  <2> HIDE DEF x
  <2>3. s = x
    BY <1>1, <2>1, <2>2 DEF resolveWriteRequest
  <2> QED  BY <1>1, <2>1, <2>3 DEF x
<1>6. /\ Append(r.sent, c) \in Seq(Char) /\ Len(Append(r.sent, c)) = Len(r.sent) + 1
      /\ Len(r.sent) \in Nat
  BY <1>1, <1>4, AppendProperties, LenProperties
<1>7. s.head \in Slot
  <2>1. 1 \in 0..BufferSize
    BY <1>1
  <2>2. (r.head + 1) % BufferSize \in Slot
    BY <1>1, <2>1, AheadInRing
  <2> QED  BY <1>5, <2>2
<1>8. s \in RingType
  <2> DEFINE a == Append(r.sent, c)
             h == (r.head + 1) % BufferSize
  <2>1. a \in Seq(Char) /\ h \in Slot /\ s = [r EXCEPT !.sent = a, !.head = h, !.num = n]
    BY <1>5, <1>6, <1>7
  <2> HIDE DEF a, h
  <2> QED  BY <1>1, <1>3, <2>1 DEF RingType
<1>9. s.tail = (s.head + s.num) % BufferSize
  <2>1. (((r.head + 1) % BufferSize) + n) % BufferSize = (r.head + (n + 1)) % BufferSize
    BY <1>1, <1>3, HeadAdvanced
  <2> QED  BY <1>1, <1>3, <1>5, <2>1
<1>10. ASSUME NEW k \in 1..n
       PROVE  /\ s.buf[(s.head + k - 1) % BufferSize] = C[k + 1]
              /\ C[k + 1] \in Char
  <2> DEFINE o == k - 1
  <2>1. /\ o \in 0..(BufferSize - 1) /\ o + 1 = k /\ k + 1 \in 1..r.num
        /\ r.head + (k + 1) - 1 = r.head + k
    BY <1>1, <1>3
  <2>2. (((r.head + 1) % BufferSize) + o) % BufferSize = (r.head + (o + 1)) % BufferSize
    BY <1>1, <2>1, HeadAdvanced
  <2>3. s.head + k - 1 = s.head + o
    BY <1>7, <1>1 DEF Slot
  <2> HIDE DEF o
  <2>4. (s.head + k - 1) % BufferSize = (r.head + k) % BufferSize
    BY <1>5, <2>1, <2>2, <2>3
  <2>5. C[k + 1] = r.buf[(r.head + (k + 1) - 1) % BufferSize] /\ C[k + 1] \in Char
    BY <1>2, <2>1
  <2> QED  BY <1>5, <2>1, <2>4, <2>5
<1>11. Unasked(s)
  <2>1. \A k \in 1..s.num : s.buf[(s.head + k - 1) % BufferSize] \in Char
    BY <1>5, <1>10
  <2> QED  BY <1>5, <1>8, <1>9, <2>1 DEF Unasked, RingOk
<1>12. C # << >>
  BY <1>2, <1>3, EmptySeq
<1>13. /\ Tail(C) \in Seq(Char) /\ Len(Tail(C)) = n
       /\ \A k \in 1..n : Tail(C)[k] = C[k + 1]
  BY <1>2, <1>3, <1>12, HeadTailProperties
<1>14. Held(s) = Tail(C)
  <2> DEFINE h == Held(s)
  <2>1. /\ h \in Seq(Char) /\ Len(h) = n
        /\ \A k \in 1..n : h[k] = s.buf[(s.head + k - 1) % BufferSize]
    <3>1. RingOk(s) /\ s.num = n
      BY <1>5, <1>11 DEF Unasked
    <3>2. /\ h \in Seq(Char) /\ Len(h) = s.num
          /\ \A k \in 1..s.num : h[k] = s.buf[(s.head + k - 1) % BufferSize]
      BY <3>1, HeldIs
    <3> HIDE DEF h
    <3> QED  BY <3>1, <3>2
  <2> HIDE DEF h
  <2>2. \A k \in 1..Len(h) : h[k] = Tail(C)[k]
    BY <1>10, <1>13, <2>1
  <2>3. h = Tail(C)
    BY <1>13, <2>1, <2>2, SeqEqual
  <2> QED  BY <2>3 DEF h
<1>15. C = one \o Tail(C)
  <2>1. 1 \in 1..Len(C) /\ Len(C) \in 1..Len(C) /\ 1 + 1 = 2
    BY <1>1, <1>2, <1>3
  <2>2. SubSeq(C, 1, Len(C)) = <<C[1]>> \o SubSeq(C, 1 + 1, Len(C))
    BY <1>2, <2>1, SubSeqRecursiveFirst
  <2>3. SubSeq(C, 1, Len(C)) = C /\ Tail(C) = SubSeq(C, 2, Len(C))
    BY <1>2, <1>12, SubSeqFull, TailIsSubSeq
  <2> QED  BY <1>4, <2>1, <2>2, <2>3
<1>16. one \in Seq(Char) /\ s.sent = r.sent \o one
  BY <1>1, <1>4, <1>5, AppendIsConcat
<1> HIDE DEF one
<1>17. (r.sent \o one) \o Tail(C) = r.sent \o (one \o Tail(C))
  <2> DEFINE a == r.sent
             b == Tail(C)
  <2>1. a \in Seq(Char) /\ one \in Seq(Char) /\ b \in Seq(Char)
    BY <1>1, <1>13, <1>16
  <2> HIDE DEF a, b
  <2>2. (a \o one) \o b = a \o (one \o b)
    BY <2>1, ConcatAssociative
  <2> QED  BY <2>2 DEF a, b
<1>18. All(s) = All(r)
  BY <1>14, <1>15, <1>16, <1>17 DEF All, C
<1> QED  BY <1>5, <1>6, <1>11, <1>18

(* The loop of writeToConsole.                                             *)
LEMMA WriteKeeps ==
  ASSUME NEW r, Unasked(r), NEW n \in Nat, NEW w, w = writeToConsole(r, n)
  PROVE  Unasked(w.ring) /\ All(w.ring) = All(r) /\ w.left \in 0..n
<1> DEFINE Rings == {x \in RingType : Unasked(x)}
           Round(x) == IF x.num <= 0 THEN x ELSE SendOne(x)
           F == [x \in (0..n) \X Rings |-> Round(x[2])]
           Follows(g) == g = [k \in 0..n |-> IF k = 0 THEN r
                                             ELSE IF g[k - 1].num <= 0 THEN g[k - 1]
                                             ELSE SendOne(g[k - 1])]
           Sent(x) == Len(x.sent) - Len(r.sent)
<1>1. \A x : Unasked(x) => x \in Rings
  BY DEF Unasked, RingOk
<1>2. ASSUME NEW x, Unasked(x)
      PROVE  /\ Unasked(Round(x)) /\ All(Round(x)) = All(x) /\ Len(x.sent) \in Nat
             /\ Len(Round(x).sent) = Len(x.sent) \/ Len(Round(x).sent) = Len(x.sent) + 1
  <2>1. CASE x.num <= 0
    <3>1. Len(x.sent) \in Nat
      BY <1>2, RingIs, LenProperties DEF Unasked
    <3> QED  BY <1>2, <2>1, <3>1
  <2>2. CASE ~(x.num <= 0)
    <3> DEFINE s == SendOne(x)
    <3>1. x.num > 0 /\ s = SendOne(x)
      BY <1>2, <2>2, RingIs DEF Unasked
    <3> HIDE DEF s
    <3>2. Unasked(s) /\ All(s) = All(x) /\ Len(s.sent) = Len(x.sent) + 1 /\ Len(x.sent) \in Nat
      BY <1>2, <3>1, SendKeeps
    <3> QED  BY <2>2, <3>1, <3>2
  <2> QED  BY <2>1, <2>2
<1>3. F \in [(0..n) \X Rings -> Rings]
  <2> HIDE DEF Round
  <2>1. \A x \in Rings : Round(x) \in Rings
    BY <1>1, <1>2
  <2> QED  BY <2>1
<1>4. \A k \in 0..n, x \in Rings : F[<<k, x>>] = Round(x)
  <2> HIDE DEF Round
  <2> QED  OBVIOUS
<1> HIDE DEF F, Follows, Round
<1>5. r \in Rings
  BY <1>1
<1>6. PICK g \in [0..n -> Rings] :
         g[0] = r /\ \A k \in 0..n : k # 0 => g[k] = F[<<k, g[k - 1]>>]
  <2>1. 0 \in Nat /\ 0 <= n
    OBVIOUS
  <2> HIDE DEF Rings
  <2>2. \E g \in [0..n -> Rings] : Chain(g, 0, n, r, F)
    BY <1>3, <1>5, <2>1, GoesOn
  <2> QED  BY <2>2 DEF Chain
<1>7. Follows(g)
  <2>1. \A k \in 0..n : k # 0 => k - 1 \in 0..n
    OBVIOUS
  <2> HIDE DEF Rings
  <2>2. \A k \in 0..n : k # 0 => g[k] = Round(g[k - 1])
    BY <1>4, <1>6, <2>1
  <2>3. \A k \in 0..n : g[k] = IF k = 0 THEN r ELSE IF g[k - 1].num <= 0 THEN g[k - 1]
                                               ELSE SendOne(g[k - 1])
    BY <1>6, <2>2 DEF Round
  <2> QED  BY <2>3 DEF Follows
<1> DEFINE f == CHOOSE f : Follows(f)
<1>8. Follows(f)
  BY <1>7
<1>9. w = [ring |-> f[n], left |-> n - Sent(f[n])]
  BY DEF writeToConsole, Follows
<1> HIDE DEF f
<1>10. f[0] = r /\ \A k \in 0..n : k # 0 => f[k] = Round(f[k - 1])
  <2>1. \A k \in 0..n : f[k] = IF k = 0 THEN r ELSE IF f[k - 1].num <= 0 THEN f[k - 1]
                                               ELSE SendOne(f[k - 1])
    BY <1>8 DEF Follows
  <2>2. 0 \in 0..n
    OBVIOUS
  <2> QED  BY <2>1, <2>2 DEF Round
<1> DEFINE P == {k \in 0..n : Unasked(f[k]) /\ All(f[k]) = All(r) /\ Sent(f[k]) \in 0..k}
<1>11. Len(r.sent) \in Nat
  BY RingIs, LenProperties DEF Unasked
<1>12. 0 \in P
  BY <1>10, <1>11
<1>13. ASSUME NEW k \in 0..n, k # 0, k - 1 \in P PROVE k \in P
  <2> DEFINE x == f[k - 1]
             y == f[k]
  <2>1. Unasked(x) /\ All(x) = All(r) /\ Sent(x) \in 0..(k - 1) /\ y = Round(x)
    BY <1>10, <1>13
  <2> HIDE DEF x, y
  <2>2. /\ Unasked(y) /\ All(y) = All(r) /\ Len(x.sent) \in Nat
        /\ Len(y.sent) = Len(x.sent) \/ Len(y.sent) = Len(x.sent) + 1
    BY <1>2, <2>1
  <2>3. Sent(y) \in 0..k
    BY <1>11, <2>1, <2>2
  <2> QED  BY <2>2, <2>3 DEF y
<1>14. n \in P
  <2>1. 0 \in Nat /\ n \in 0..n
    OBVIOUS
  <2> HIDE DEF P
  <2>2. \A k \in 0..n : k \in P
    BY <1>12, <1>13, <2>1, Climb
  <2> QED  BY <2>1, <2>2
<1>15. w.ring = f[n] /\ w.left = n - Sent(f[n])
  BY <1>9
<1> HIDE DEF Sent
<1>16. Unasked(f[n]) /\ All(f[n]) = All(r) /\ Sent(f[n]) \in 0..n
  BY <1>14
<1>17. n - Sent(f[n]) \in 0..n
  BY <1>16
<1> QED  BY <1>15, <1>16, <1>17

-----------------------------------------------------------------------------
(***************************************************************************)
(* The invariant.                                                          *)
(***************************************************************************)

(* Behind everything that was written comes the new character.             *)
LEMMA AppendBehind ==
  ASSUME NEW a \in Seq(Char), NEW b \in Seq(Char), NEW c \in Char
  PROVE  Append(a \o b, c) = a \o Append(b, c)
<1> DEFINE one == <<c>>
<1>1. one \in Seq(Char)
  OBVIOUS
<1>2. a \o b \in Seq(Char)
  BY ConcatProperties
<1>3. Append(a \o b, c) = (a \o b) \o one
  BY <1>2, AppendIsConcat
<1>4. Append(b, c) = b \o one
  BY AppendIsConcat
<1> HIDE DEF one
<1>5. (a \o b) \o one = a \o (b \o one)
  BY <1>1, ConcatAssociative
<1> QED  BY <1>3, <1>4, <1>5

LEMMA InvIs ==
  ASSUME OutputInv
  PROVE  /\ written = (sent \o Contents) \o requests
         /\ sent \in Seq(Char) /\ Contents \in Seq(Char) /\ requests \in Seq(Char)
         /\ sent \o Contents \in Seq(Char)
         /\ written \in Seq(Char) /\ outputNum \in 0..BufferSize /\ ready \in 0..BufferSize
         /\ BufferSize \in Nat \ {0}
         /\ requests # << >> => outputNum = BufferSize
<1>1. /\ sent \in Seq(Char) /\ requests \in Seq(Char) /\ written \in Seq(Char)
      /\ outputNum \in 0..BufferSize /\ ready \in 0..BufferSize /\ BufferSize \in Nat \ {0}
      /\ requests # << >> => outputNum = BufferSize
      /\ written = (sent \o Contents) \o requests
  BY OutputAssumption DEF OutputInv, TypeOK, RequestsOnlyWhenFull, OutputInOrder
<1>2. Contents \in Seq(Char)
  <2>1. Held(Ring) = Contents
    BY DEF Held, Ring, Contents
  <2> QED  BY <2>1, HeldIs DEF OutputInv
<1>3. sent \o Contents \in Seq(Char)
  BY <1>1, <1>2, ConcatProperties
<1> QED  BY <1>1, <1>2, <1>3

(* What a ring without requests leaves behind.                             *)
LEMMA BecomesOk ==
  ASSUME NEW r, Unasked(r), Becomes(r), NEW n, n \in 0..BufferSize, ready' = n,
         written' \in Seq(Char), written' = All(r)
  PROVE  OutputInv'
<1>1. /\ r.num \in 0..BufferSize /\ r.head \in Slot /\ r.tail \in Slot
      /\ r.buf \in [Slot -> Char \cup {NoChar}]
      /\ r.sent \in Seq(Char) /\ r.reqs \in Seq(Char) /\ r.reqs = << >>
      /\ RingOk(r) /\ Held(r) \in Seq(Char)
  BY RingIs, HeldIs DEF Unasked
<1>2. /\ outputBuffer' = r.buf /\ outputHead' = r.head /\ outputTail' = r.tail
      /\ outputNum' = r.num /\ requests' = r.reqs /\ sent' = r.sent
  BY DEF Becomes
<1>3. TypeOK'
  BY <1>1, <1>2 DEF TypeOK
<1>4. Ring' = r
  <2>1. r \in RingType
    BY <1>1 DEF RingOk
  <2>2. r = [buf |-> r.buf, head |-> r.head, tail |-> r.tail, num |-> r.num,
             reqs |-> r.reqs, sent |-> r.sent]
    BY <2>1 DEF RingType
  <2> QED  BY <1>2, <2>2 DEF Ring
<1>5. RingOk(Ring)'
  <2>1. RingOk(Ring')
    BY <1>1, <1>4
  <2> QED  BY <2>1
<1>6. OutputInOrder'
  <2>1. Contents' = Held(r)
    BY <1>2 DEF Contents, Held
  <2>2. All(r) \in Seq(Char) /\ All(r) = sent' \o Contents'
    <3>1. All(r) = r.sent \o Held(r)
      BY DEF All
    <3>2. r.sent \o Held(r) \in Seq(Char)
      BY <1>1, ConcatProperties
    <3> QED  BY <1>2, <2>1, <3>1, <3>2
  <2>3. All(r) \o << >> = All(r)
    BY <2>2, ConcatEmptySeq
  <2>4. requests' = << >>
    BY <1>1, <1>2
  <2>5. written' = (sent' \o Contents') \o requests'
    BY <2>2, <2>3, <2>4
  <2> QED  BY <2>5 DEF OutputInOrder
<1>7. RequestsOnlyWhenFull'
  BY <1>1, <1>2 DEF RequestsOnlyWhenFull
<1> QED  BY <1>3, <1>5, <1>6, <1>7 DEF OutputInv

LEMMA PutcInv ==
  ASSUME OutputInv, NEW c \in Char, Putc(c)
  PROVE  OutputInv'
<1>1. /\ written = (sent \o Contents) \o requests
      /\ sent \in Seq(Char) /\ Contents \in Seq(Char) /\ requests \in Seq(Char)
      /\ sent \o Contents \in Seq(Char)
      /\ written \in Seq(Char) /\ outputNum \in 0..BufferSize /\ ready \in 0..BufferSize
      /\ BufferSize \in Nat \ {0}
      /\ requests # << >> => outputNum = BufferSize
  BY InvIs
<1>2. written' = Append(written, c) /\ written' \in Seq(Char)
  BY <1>1, AppendProperties DEF Putc
<1>3. CASE outputFull(outputNum)
  <2> DEFINE q == Append(requests, c)
  <2>1. /\ outputBuffer' = outputBuffer /\ outputHead' = outputHead
        /\ outputTail' = outputTail /\ outputNum' = outputNum /\ sent' = sent
        /\ requests' = q /\ ready' = ready
    BY <1>3 DEF Putc, Becomes, Ring
  <2>2. q \in Seq(Char)
    BY <1>1, AppendProperties
  <2>3. outputNum = BufferSize
    BY <1>1, <1>3 DEF outputFull
  <2>4. Append((sent \o Contents) \o requests, c) = (sent \o Contents) \o q
    <3> DEFINE a == sent \o Contents
    <3>1. a \in Seq(Char) /\ requests \in Seq(Char)
      BY <1>1
    <3> HIDE DEF a
    <3>2. Append(a \o requests, c) = a \o Append(requests, c)
      BY <3>1, AppendBehind
    <3> QED  BY <3>2 DEF a
  <2>5. Contents' = Contents
    BY <2>1 DEF Contents
  <2> HIDE DEF q
  <2>6. TypeOK'
    BY <1>2, <2>1, <2>2 DEF OutputInv, TypeOK
  <2>7. RingOk(Ring)'
    <3>1. /\ Ring \in RingType
          /\ Ring.tail = (Ring.head + Ring.num) % BufferSize
          /\ \A k \in 1..Ring.num : Ring.buf[(Ring.head + k - 1) % BufferSize] \in Char
      BY DEF OutputInv, RingOk
    <3>2. /\ Ring'.buf = Ring.buf /\ Ring'.head = Ring.head /\ Ring'.tail = Ring.tail
          /\ Ring'.num = Ring.num
      BY <2>1 DEF Ring
    <3>3. Ring' \in RingType
      BY <2>6 DEF TypeOK, Ring, RingType
    <3>4. RingOk(Ring')
      BY <3>1, <3>2, <3>3 DEF RingOk
    <3> QED  BY <3>4
  <2>8. OutputInOrder'
    <3>1. written' = (sent' \o Contents') \o requests'
      BY <1>1, <1>2, <2>1, <2>4, <2>5
    <3> QED  BY <3>1 DEF OutputInOrder
  <2>9. RequestsOnlyWhenFull'
    BY <2>1, <2>3 DEF RequestsOnlyWhenFull
  <2> QED  BY <2>6, <2>7, <2>8, <2>9 DEF OutputInv
<1>4. CASE ~outputFull(outputNum)
  <2> DEFINE e == Enter(Ring, c)
             w == writeToConsole(e, ready)
  <2>1. e = Enter(Ring, c) /\ w = writeToConsole(e, ready)
    OBVIOUS
  <2>2. Becomes(w.ring) /\ ready' = w.left
    BY <1>4 DEF Putc
  <2> HIDE DEF e, w
  <2>3. outputNum < BufferSize /\ requests = << >>
    BY <1>1, <1>4 DEF outputFull
  <2>4. /\ Unasked(Ring) /\ Ring.num < BufferSize /\ Ring.sent = sent
        /\ Held(Ring) = Contents
    BY <2>3 DEF OutputInv, Unasked, Ring, Held, Contents
  <2>5. Unasked(e) /\ e.sent = sent /\ Held(e) = Append(Contents, c)
    BY <2>1, <2>4, EnterKeeps
  <2>6. All(e) = written'
    <3>1. (sent \o Contents) \o << >> = sent \o Contents
      BY <1>1, ConcatEmptySeq
    <3>2. Append(sent \o Contents, c) = sent \o Append(Contents, c)
      <4>1. sent \in Seq(Char) /\ Contents \in Seq(Char)
        BY <1>1
      <4> DEFINE b == Contents
      <4> HIDE DEF b
      <4>2. b \in Seq(Char)
        BY <4>1 DEF b
      <4>3. Append(sent \o b, c) = sent \o Append(b, c)
        BY <4>1, <4>2, AppendBehind
      <4> QED  BY <4>3 DEF b
    <3> QED  BY <1>1, <1>2, <2>3, <2>5, <3>1, <3>2 DEF All
  <2>7. ready \in Nat /\ \A k \in 0..ready : k \in 0..BufferSize
    BY <1>1
  <2>8. Unasked(w.ring) /\ All(w.ring) = All(e) /\ w.left \in 0..ready
    BY <2>1, <2>5, <2>7, WriteKeeps
  <2> DEFINE r == w.ring
             n == w.left
  <2>9. /\ Unasked(r) /\ Becomes(r) /\ n \in 0..BufferSize /\ ready' = n
        /\ written' = All(r)
    BY <2>2, <2>6, <2>7, <2>8
  <2> HIDE DEF r, n
  <2> QED  BY <1>2, <2>9, BecomesOk
<1> QED  BY <1>3, <1>4

LEMMA OutputAlways == Spec => []OutputInv
<1>1. Init => OutputInv
  <2>1. SUFFICES ASSUME Init PROVE OutputInv
    OBVIOUS
  <2>2. BufferSize \in Nat \ {0}
    BY OutputAssumption
  <2>3. 0 \in Slot /\ 0 \in 0..BufferSize
    BY <2>2 DEF Slot
  <2>4. << >> \in Seq(Char)
    BY EmptySeq
  <2>5. TypeOK
    BY <2>1, <2>3, <2>4 DEF Init, TypeOK
  <2>6. RingOk(Ring)
    <3>1. Ring \in RingType
      BY <2>5 DEF TypeOK, Ring, RingType
    <3>2. (0 + 0) % BufferSize = 0
      BY <2>3, InRing
    <3>3. Ring.tail = 0 /\ Ring.head = 0 /\ Ring.num = 0
      BY <2>1 DEF Init, Ring
    <3> QED  BY <3>1, <3>2, <3>3 DEF RingOk
  <2>7. OutputInOrder
    <3>1. Contents = << >>
      BY <2>1 DEF Init, Contents
    <3> QED  BY <2>1, <2>4, <3>1, ConcatEmptySeq DEF Init, OutputInOrder
  <2>8. RequestsOnlyWhenFull
    BY <2>1 DEF Init, RequestsOnlyWhenFull
  <2> QED  BY <2>5, <2>6, <2>7, <2>8 DEF OutputInv
<1>2. OutputInv /\ [Next]_vars => OutputInv'
  <2>1. SUFFICES ASSUME OutputInv, [Next]_vars PROVE OutputInv'
    OBVIOUS
  <2>2. ASSUME NEW c \in Char, Putc(c) PROVE OutputInv'
    BY <2>1, <2>2, PutcInv
  <2>3. ASSUME NEW n \in 1..BufferSize, DeviceReady(n) PROVE OutputInv'
    <3>1. n \in 0..BufferSize
      BY OutputAssumption
    <3> QED
      BY <2>1, <2>3, <3>1 DEF DeviceReady, OutputInv, TypeOK, Ring, OutputInOrder, Contents,
                              RequestsOnlyWhenFull
  <2>4. CASE consoleHandler \/ UNCHANGED vars
    BY <2>1, <2>4 DEF consoleHandler, vars, OutputInv, TypeOK, Ring, OutputInOrder, Contents,
                      RequestsOnlyWhenFull
  <2> QED  BY <2>1, <2>2, <2>3, <2>4 DEF Next
<1> QED  BY <1>1, <1>2, PTL DEF Spec

(* The counters of the output ring stay within it.                         *)
THEOREM OutputTyped == Spec => []TypeOK
<1>1. OutputInv => TypeOK
  BY DEF OutputInv
<1> QED  BY <1>1, OutputAlways, PTL

(* The device gets what was written, in that order.                        *)
THEOREM OutputOrdered == Spec => []OutputInOrder
<1>1. OutputInv => OutputInOrder
  BY DEF OutputInv
<1> QED  BY <1>1, OutputAlways, PTL

(* A request is never overtaken, because it is only made when the ring is  *)
(* full, and then nothing enters it.                                       *)
THEOREM RequestsBehindRing == Spec => []RequestsOnlyWhenFull
<1>1. OutputInv => RequestsOnlyWhenFull
  BY DEF OutputInv
<1> QED  BY <1>1, OutputAlways, PTL

=============================================================================
