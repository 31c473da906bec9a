--------------------------- MODULE SleepersProofs ---------------------------
(***************************************************************************)
(* Proofs about the list of sleeping threads, for any number of threads    *)
(* and times: the head never wraps, and the list of differences implements *)
(* Sleepers, so that every thread wakes at the tick it asked for.          *)
(*                                                                         *)
(* What a node waits for is a sum over the nodes up to it, and what is     *)
(* left of a new sleeper's time is a difference; both are defined by       *)
(* recursion along the list.  Their values are found by climbing along it, *)
(* which needs no induction over data: if a set of places holds the lowest *)
(* and with each place the next, then no place is the least outside it.    *)
(***************************************************************************)
EXTENDS SleepingThreads, WellFoundedInduction, FiniteSetTheorems,
        FunctionTheorems, SequenceTheorems, TLAPS

-----------------------------------------------------------------------------
(***************************************************************************)
(* Least elements, climbing and recursive functions.                       *)
(***************************************************************************)

LEMMA Least ==
  ASSUME NEW T \in SUBSET Nat, T # {}
  PROVE  \E m \in T : \A k \in T : ~(k < m)
<1> DEFINE R == OpToRel(<, Nat)
<1>1. \A x, y \in Nat : x < y => <<x, y>> \in R
  BY DEF OpToRel
<1>2. IsWellFoundedOn(R, Nat)
  BY NatLessThanWellFounded
<1> HIDE DEF R
<1>3. PICK m \in T : \A y \in T : ~ (<<y, m>> \in R)
  BY <1>2, WFMin
<1>4. \A k \in T : ~(k < m)
  BY <1>1, <1>3
<1> QED  BY <1>4

LEMMA Climb ==
  ASSUME NEW b \in Nat, NEW n \in Nat, NEW P, b \in P,
         \A k \in b..n : k # b /\ k - 1 \in P => k \in P
  PROVE  \A k \in b..n : k \in P
<1> DEFINE T == {k \in b..n : k \notin P}
<1>1. SUFFICES ASSUME T # {} PROVE FALSE
  OBVIOUS
<1>2. PICK m \in T : \A k \in T : ~(k < m)
  <2>1. T \in SUBSET Nat
    OBVIOUS
  <2> HIDE DEF T
  <2> QED  BY <1>1, <2>1, Least
<1>3. m \in b..n /\ m \notin P /\ m # b
  BY <1>2
<1>4. m - 1 \in b..n /\ m - 1 < m
  BY <1>3
<1>5. m - 1 \in P
  BY <1>2, <1>4
<1> QED  BY <1>3, <1>5

(* The function g starts with a and goes on with F; there is one.          *)
Chain(g, b, n, a, F) == g[b] = a /\ \A k \in b..n : k # b => g[k] = F[<<k, g[k - 1]>>]

LEMMA GoesOn ==
  ASSUME NEW b \in Nat, NEW n \in Nat, b <= n, NEW S, NEW a \in S,
         NEW F \in [(b..n) \X S -> S]
  PROVE  \E g \in [b..n -> S] : Chain(g, b, n, a, F)
<1> DEFINE Good(m, g) == g[b] = a /\ \A k \in b..m : k # b => g[k] = F[<<k, g[k - 1]>>]
           P == {m \in b..n : \E g \in [b..m -> S] : Good(m, g)}
<1>1. b \in P
  <2> DEFINE g == [k \in b..b |-> a]
  <2>1. g \in [b..b -> S] /\ g[b] = a
    OBVIOUS
  <2>2. \A k \in b..b : k = b
    OBVIOUS
  <2> HIDE DEF g
  <2>3. Good(b, g)
    BY <2>1, <2>2
  <2> QED  BY <2>1, <2>3
<1>2. ASSUME NEW m \in b..n, m # b, m - 1 \in P PROVE m \in P
  <2>1. PICK g \in [b..(m - 1) -> S] : Good(m - 1, g)
    BY <1>2
  <2> DEFINE h == [k \in b..m |-> IF k = m THEN F[<<m, g[m - 1]>>] ELSE g[k]]
  <2>2. m - 1 \in b..(m - 1) /\ \A k \in b..m : k # m => k \in b..(m - 1)
    BY <1>2
  <2>3. F[<<m, g[m - 1]>>] \in S
    BY <2>2
  <2>4. h \in [b..m -> S] /\ h[m] = F[<<m, g[m - 1]>>] /\ \A k \in b..(m - 1) : h[k] = g[k]
    BY <1>2, <2>2, <2>3
  <2> HIDE DEF h
  <2>5. h[b] = a
    BY <1>2, <2>1, <2>4
  <2>6. ASSUME NEW k \in b..m, k # b PROVE h[k] = F[<<k, h[k - 1]>>]
    <3>1. k - 1 \in b..(m - 1)
      BY <1>2, <2>6
    <3>2. CASE k = m
      BY <2>4, <3>1, <3>2
    <3>3. CASE k # m
      BY <2>1, <2>2, <2>4, <2>6, <3>1, <3>3
    <3> QED  BY <3>2, <3>3
  <2>7. Good(m, h)
    BY <2>5, <2>6
  <2> QED  BY <2>4, <2>7
<1> HIDE DEF P
<1>3. \A k \in b..n : k \in P
  BY <1>1, <1>2, Climb
<1>4. n \in P
  BY <1>3
<1> QED  BY <1>4 DEF P, Chain

-----------------------------------------------------------------------------
(***************************************************************************)
(* Nodes, and what they wait for.                                          *)
(***************************************************************************)

LEMMA NodesAre ==
  ASSUME NEW q \in Seq(Node)
  PROVE  /\ Len(q) \in Nat /\ DOMAIN q = 1..Len(q) /\ UIntLimit \in Nat \ {0}
         /\ \A k \in 1..Len(q) :
              /\ q[k] \in Node /\ q[k].thread \in Thread
              /\ q[k].timeLeft \in 0..(UIntLimit - 1) /\ q[k].timeLeft \in Nat
<1>1. Len(q) \in Nat /\ DOMAIN q = 1..Len(q)
  BY LenProperties
<1>2. \A k \in 1..Len(q) : q[k] \in Node
  BY ElementOfSeq
<1> QED  BY <1>1, <1>2, SleepAssumption DEF Node

LEMMA WaitsAre ==
  ASSUME NEW q \in Seq(Node), NEW w, w = Waits(q)
  PROVE  /\ w \in [0..Len(q) -> Nat] /\ w[0] = 0
         /\ \A i \in 1..Len(q) : w[i] = w[i - 1] + q[i].timeLeft
<1> DEFINE n == Len(q)
           F == [x \in (0..n) \X Nat |-> IF x[1] = 0 THEN 0 ELSE x[2] + q[x[1]].timeLeft]
           Follows(g) == g = [i \in 0..n |-> IF i = 0 THEN 0 ELSE g[i - 1] + q[i].timeLeft]
<1>1. n \in Nat /\ \A i \in 1..n : q[i].timeLeft \in Nat
  BY NodesAre
<1> HIDE DEF n
<1>2. F \in [(0..n) \X Nat -> Nat]
  <2>1. \A x \in (0..n) \X Nat :
          (IF x[1] = 0 THEN 0 ELSE x[2] + q[x[1]].timeLeft) \in Nat
    <3>1. SUFFICES ASSUME NEW i \in 0..n, NEW v \in Nat, i # 0
                   PROVE  v + q[i].timeLeft \in Nat
      OBVIOUS
    <3>2. q[i].timeLeft \in Nat
      BY <1>1, <3>1
    <3> QED  BY <3>2
  <2> QED  BY <2>1
<1>3. \A i \in 0..n, v \in Nat : i # 0 => F[<<i, v>>] = v + q[i].timeLeft
  OBVIOUS
<1> HIDE DEF F
<1>4. PICK g \in [0..n -> Nat] : g[0] = 0 /\ \A k \in 0..n : k # 0 => g[k] = F[<<k, g[k - 1]>>]
  <2>1. 0 \in Nat /\ 0 <= n
    BY <1>1
  <2> HIDE DEF Follows
  <2>2. \E g \in [0..n -> Nat] : Chain(g, 0, n, 0, F)
    BY <1>1, <1>2, <2>1, GoesOn
  <2> QED  BY <2>2 DEF Chain
<1>5. Follows(g)
  <2>1. \A k \in 0..n : k # 0 => k - 1 \in 0..n
    BY <1>1
  <2>2. \A k \in 0..n : k # 0 => g[k] = g[k - 1] + q[k].timeLeft
    BY <1>3, <1>4, <2>1
  <2>3. \A k \in 0..n : g[k] = IF k = 0 THEN 0 ELSE g[k - 1] + q[k].timeLeft
    BY <1>4, <2>2
  <2> QED  BY <2>3
<1>6. w = CHOOSE f : Follows(f)
  BY DEF Waits, n
<1>7. Follows(w)
  <2> HIDE DEF Follows
  <2> QED  BY <1>5, <1>6
<1>8. /\ DOMAIN w = 0..n /\ w[0] = 0
      /\ \A k \in 0..n : k # 0 => w[k] = w[k - 1] + q[k].timeLeft
  <2>1. \A k \in 0..n : w[k] = IF k = 0 THEN 0 ELSE w[k - 1] + q[k].timeLeft
    BY <1>7
  <2>2. DOMAIN w = 0..n
    BY <1>7
  <2> HIDE DEF Follows
  <2>3. 0 \in 0..n
    BY <1>1
  <2>4. w[0] = 0
    BY <2>1, <2>3
  <2>5. \A k \in 0..n : k # 0 => w[k] = w[k - 1] + q[k].timeLeft
    BY <2>1
  <2> QED  BY <2>2, <2>4, <2>5
<1> DEFINE P == {i \in 0..n : w[i] \in Nat}
<1>9. \A i \in 0..n : i \in P
  <2>1. 0 \in P
    BY <1>1, <1>8
  <2>2. ASSUME NEW k \in 0..n, k # 0, k - 1 \in P PROVE k \in P
    <3>1. k \in 1..n /\ w[k - 1] \in Nat /\ w[k] = w[k - 1] + q[k].timeLeft
      BY <1>1, <1>8, <2>2
    <3>2. q[k].timeLeft \in Nat
      BY <1>1, <3>1
    <3> QED  BY <3>1, <3>2
  <2> HIDE DEF P
  <2> QED  BY <1>1, <2>1, <2>2, Climb
<1>10. w = [k \in 0..n |-> w[k]]
  BY <1>7
<1>11. w \in [0..n -> Nat]
  BY <1>9, <1>10
<1>12. \A i \in 1..n : i \in 0..n /\ i # 0
  BY <1>1
<1> QED  BY <1>8, <1>11, <1>12 DEF n

(* Those further back never wait for less.                                 *)
LEMMA WaitsGrow ==
  ASSUME NEW q \in Seq(Node), NEW w, w = Waits(q),
         NEW j \in 0..Len(q), NEW k \in j..Len(q)
  PROVE  w[j] <= w[k]
<1> DEFINE n == Len(q)
           P == {i \in j..n : w[j] <= w[i]}
<1>1. /\ n \in Nat /\ w \in [0..n -> Nat] /\ j \in Nat
      /\ \A i \in 1..n : w[i] = w[i - 1] + q[i].timeLeft /\ q[i].timeLeft \in Nat
  BY WaitsAre, NodesAre
<1> HIDE DEF n
<1>2. j \in P
  BY <1>1 DEF n
<1>3. ASSUME NEW i \in j..n, i # j, i - 1 \in P PROVE i \in P
  <2>1. i \in 1..n /\ i - 1 \in 0..n /\ i \in 0..n
    BY <1>1, <1>3 DEF n
  <2>2. w[i] = w[i - 1] + q[i].timeLeft /\ q[i].timeLeft \in Nat
    BY <1>1, <2>1
  <2>3. w[i - 1] \in Nat /\ w[j] \in Nat /\ w[j] <= w[i - 1]
    BY <1>1, <1>3, <2>1 DEF n
  <2> QED  BY <2>2, <2>3
<1>4. \A i \in j..n : i \in P
  <2> HIDE DEF P
  <2> QED  BY <1>1, <1>2, <1>3, Climb
<1> QED  BY <1>4 DEF n

(* What is left of a new sleeper's time, in the arithmetic of the code.    *)
LEMMA TimeAtIs ==
  ASSUME list \in Seq(Node), NEW time \in 0..(UIntLimit - 1), NEW T, T = TimeAt(time)
  PROVE  /\ T \in [1..(Len(list) + 1) -> 0..(UIntLimit - 1)] /\ T[1] = time
         /\ \A i \in 2..(Len(list) + 1) : T[i] = UInt(T[i - 1] - list[i - 1].timeLeft)
<1> DEFINE n == Len(list) + 1
           S == 0..(UIntLimit - 1)
           F == [x \in (1..n) \X S |->
                   IF x[1] = 1 THEN time ELSE UInt(x[2] - list[x[1] - 1].timeLeft)]
           Follows(g) == g = [i \in 1..n |->
                                IF i = 1 THEN time ELSE UInt(g[i - 1] - list[i - 1].timeLeft)]
<1>1. /\ n \in Nat /\ 1 <= n /\ UIntLimit \in Nat \ {0} /\ n - 1 = Len(list)
      /\ \A i \in 1..(n - 1) : list[i].timeLeft \in Nat
  BY NodesAre
<1> HIDE DEF n
<1>2. \A m \in Int : UInt(m) \in S
  BY <1>1 DEF UInt
<1>3. F \in [(1..n) \X S -> S]
  <2>1. ASSUME NEW i \in 1..n, NEW v \in S, i # 1
        PROVE  UInt(v - list[i - 1].timeLeft) \in S
    <3>1. i - 1 \in 1..(n - 1)
      BY <1>1, <2>1
    <3>2. v - list[i - 1].timeLeft \in Int
      BY <1>1, <3>1
    <3> QED  BY <1>2, <3>2
  <2>2. \A x \in (1..n) \X S :
          (IF x[1] = 1 THEN time ELSE UInt(x[2] - list[x[1] - 1].timeLeft)) \in S
    BY <2>1
  <2> QED  BY <2>2
<1>4. \A i \in 1..n, v \in S : i # 1 => F[<<i, v>>] = UInt(v - list[i - 1].timeLeft)
  OBVIOUS
<1>5. time \in S
  OBVIOUS
<1> HIDE DEF F, S
<1>6. PICK g \in [1..n -> S] :
         g[1] = time /\ \A k \in 1..n : k # 1 => g[k] = F[<<k, g[k - 1]>>]
  <2>1. 1 \in Nat
    OBVIOUS
  <2> HIDE DEF Follows
  <2>2. \E g \in [1..n -> S] : Chain(g, 1, n, time, F)
    BY <1>1, <1>3, <1>5, <2>1, GoesOn
  <2> QED  BY <2>2 DEF Chain
<1>7. Follows(g)
  <2>1. \A k \in 1..n : k # 1 => k - 1 \in 1..n
    BY <1>1
  <2>2. \A k \in 1..n : k # 1 => g[k] = UInt(g[k - 1] - list[k - 1].timeLeft)
    BY <1>4, <1>6, <2>1
  <2>3. \A k \in 1..n : g[k] = IF k = 1 THEN time ELSE UInt(g[k - 1] - list[k - 1].timeLeft)
    BY <1>6, <2>2
  <2> QED  BY <2>3
<1>8. T = CHOOSE f : Follows(f)
  BY DEF TimeAt, n
<1>9. Follows(T)
  <2> HIDE DEF Follows
  <2> QED  BY <1>7, <1>8
<1>10. /\ T = [k \in 1..n |-> T[k]] /\ T[1] = time
       /\ \A k \in 1..n : k # 1 => T[k] = UInt(T[k - 1] - list[k - 1].timeLeft)
  <2>1. \A k \in 1..n : T[k] = IF k = 1 THEN time ELSE UInt(T[k - 1] - list[k - 1].timeLeft)
    BY <1>9
  <2>2. T = [k \in 1..n |-> T[k]]
    BY <1>9
  <2> HIDE DEF Follows
  <2>3. 1 \in 1..n
    BY <1>1
  <2>4. T[1] = time
    BY <2>1, <2>3
  <2>5. \A k \in 1..n : k # 1 => T[k] = UInt(T[k - 1] - list[k - 1].timeLeft)
    BY <2>1
  <2> QED  BY <2>2, <2>4, <2>5
<1> DEFINE P == {i \in 1..n : T[i] \in S}
<1>11. \A i \in 1..n : i \in P
  <2>1. 1 \in P
    BY <1>1, <1>5, <1>10
  <2>2. ASSUME NEW k \in 1..n, k # 1, k - 1 \in P PROVE k \in P
    <3>1. k - 1 \in 1..(n - 1) /\ T[k - 1] \in S
      BY <1>1, <2>2
    <3>2. T[k - 1] - list[k - 1].timeLeft \in Int
      BY <1>1, <3>1 DEF S
    <3> QED  BY <1>2, <1>10, <2>2, <3>2
  <2> HIDE DEF P
  <2> QED  BY <1>1, <2>1, <2>2, Climb
<1>12. T \in [1..n -> S]
  BY <1>10, <1>11
<1>13. \A i \in 2..n : i \in 1..n /\ i # 1
  BY <1>1
<1> QED  BY <1>10, <1>12, <1>13 DEF n, S

-----------------------------------------------------------------------------
(***************************************************************************)
(* One list with an element between its front and the back of another.     *)
(***************************************************************************)

Spliced(q, i, x, s) == SubSeq(q, 1, i - 1) \o <<x>> \o SubSeq(s, i, Len(q))
ElementOf(q, i, x, s, r, k) ==
  r[k] = IF k < i THEN q[k] ELSE IF k = i THEN x ELSE s[k - 1]

LEMMA Joined ==
  ASSUME NEW S, NEW a \in Seq(S), NEW b \in Seq(S), NEW c, c = a \o b
  PROVE  /\ c \in Seq(S) /\ Len(c) = Len(a) + Len(b)
         /\ \A k \in 1..(Len(a) + Len(b)) :
              c[k] = IF k <= Len(a) THEN a[k] ELSE b[k - Len(a)]
BY ConcatProperties

LEMMA WithOne ==
  ASSUME NEW S, NEW q \in Seq(S), NEW s \in Seq(S), Len(s) = Len(q),
         NEW i \in 1..(Len(q) + 1), NEW x \in S, NEW r, r = Spliced(q, i, x, s)
  PROVE  /\ r \in Seq(S) /\ Len(r) = Len(q) + 1 /\ Len(q) \in Nat
         /\ \A k \in 1..(Len(q) + 1) : ElementOf(q, i, x, s, r, k)
<1> DEFINE n == Len(q)
           front == SubSeq(q, 1, i - 1)
           one == <<x>>
           back == SubSeq(s, i, n)
           most == front \o one
<1>1. n \in Nat /\ i \in Int /\ i - 1 \in Int /\ n \in Int /\ 1 <= i /\ i <= n + 1
  BY LenProperties
<1>2. \A k \in 1..n : q[k] \in S /\ s[k] \in S
  BY ElementOfSeq
<1>3. /\ front \in Seq(S) /\ Len(front) = i - 1
      /\ \A k \in 1..(i - 1) : front[k] = q[k]
  <2>1. \A k \in 1..(i - 1) : q[k] \in S
    BY <1>1, <1>2
  <2>2. /\ front \in Seq(S)
        /\ Len(front) = IF 1 <= i - 1 THEN (i - 1) - 1 + 1 ELSE 0
        /\ \A k \in 1..((i - 1) - 1 + 1) : front[k] = q[1 + k - 1]
    BY <1>1, <2>1, SubSeqProperties
  <2> HIDE DEF front
  <2> QED  BY <1>1, <2>2
<1>4. /\ back \in Seq(S) /\ Len(back) = n - i + 1
      /\ \A k \in 1..(n - i + 1) : back[k] = s[i + k - 1]
  <2>1. \A k \in i..n : s[k] \in S
    BY <1>1, <1>2
  <2>2. /\ back \in Seq(S)
        /\ Len(back) = IF i <= n THEN n - i + 1 ELSE 0
        /\ \A k \in 1..(n - i + 1) : back[k] = s[i + k - 1]
    BY <1>1, <2>1, SubSeqProperties
  <2> HIDE DEF back, n
  <2> QED  BY <1>1, <2>2
<1>5. one \in Seq(S) /\ Len(one) = 1 /\ one[1] = x
  OBVIOUS
<1>6. r = most \o back
  BY DEF Spliced
<1> HIDE DEF front, back, n, one
<1>7. /\ most \in Seq(S) /\ Len(most) = Len(front) + Len(one)
      /\ \A k \in 1..(Len(front) + Len(one)) :
           most[k] = IF k <= Len(front) THEN front[k] ELSE one[k - Len(front)]
  <2>1. most = front \o one
    OBVIOUS
  <2>2. front \in Seq(S) /\ one \in Seq(S)
    BY <1>3, <1>5
  <2> HIDE DEF most
  <2> QED  BY <2>1, <2>2, Joined
<1> HIDE DEF most
<1>8. Len(most) = i /\ \A k \in 1..i : most[k] = IF k < i THEN q[k] ELSE x
  <2>1. Len(most) = i
    BY <1>1, <1>3, <1>5, <1>7
  <2>2. ASSUME NEW k \in 1..i PROVE most[k] = IF k < i THEN q[k] ELSE x
    <3>1. most[k] = IF k <= i - 1 THEN front[k] ELSE one[k - (i - 1)]
      BY <1>1, <1>3, <1>5, <1>7
    <3>2. CASE k < i
      BY <1>1, <1>3, <3>1, <3>2
    <3>3. CASE ~(k < i)
      <4>1. k - (i - 1) = 1 /\ ~(k <= i - 1)
        BY <1>1, <3>3
      <4> QED  BY <1>5, <3>1, <3>3, <4>1
    <3> QED  BY <3>2, <3>3
  <2> QED  BY <2>1, <2>2
<1>9. /\ r \in Seq(S) /\ Len(r) = Len(most) + Len(back)
      /\ \A k \in 1..(Len(most) + Len(back)) :
           r[k] = IF k <= Len(most) THEN most[k] ELSE back[k - Len(most)]
  BY <1>4, <1>6, <1>7, Joined
<1>10. Len(r) = n + 1
  BY <1>1, <1>4, <1>8, <1>9
<1>11. ASSUME NEW k \in 1..(n + 1)
       PROVE  r[k] = IF k < i THEN q[k] ELSE IF k = i THEN x ELSE s[k - 1]
  <2>1. r[k] = IF k <= i THEN most[k] ELSE back[k - i]
    BY <1>1, <1>4, <1>8, <1>9
  <2>2. CASE k <= i
    BY <1>1, <1>8, <2>1, <2>2
  <2>3. CASE ~(k <= i)
    <3>1. k - i \in 1..(n - i + 1) /\ i + (k - i) - 1 = k - 1 /\ ~(k < i) /\ k # i
      BY <1>1, <2>3
    <3> QED  BY <1>4, <2>1, <2>3, <3>1
  <2> QED  BY <2>2, <2>3
<1> QED  BY <1>1, <1>9, <1>10, <1>11 DEF n, ElementOf

-----------------------------------------------------------------------------
(***************************************************************************)
(* Going to sleep.                                                         *)
(***************************************************************************)

Distinct(q) == \A i, j \in DOMAIN q : q[i].thread = q[j].thread => i = j
SleepInv == list \in Seq(Node) /\ Distinct(list) /\ HeadNeverWraps

(* The loop of putToSleep stops.                                           *)
LEMMA SpotFound ==
  ASSUME list \in Seq(Node), NEW time \in 0..(UIntLimit - 1),
         NEW T, T = TimeAt(time), NEW i, i = Spot(time)
  PROVE  /\ i \in 1..(Len(list) + 1)
         /\ i <= Len(list) => list[i].timeLeft >= T[i]
         /\ \A j \in 1..(i - 1) : list[j].timeLeft < T[j]
<1> DEFINE n == Len(list)
           C == {j \in 1..(n + 1) : j <= n => list[j].timeLeft >= T[j]}
<1>1. /\ n \in Nat /\ \A k \in 1..n : list[k].timeLeft \in Nat
      /\ \A k \in 1..(n + 1) : T[k] \in Nat
  <2>1. n \in Nat /\ UIntLimit \in Nat /\ \A k \in 1..n : list[k].timeLeft \in Nat
    BY NodesAre
  <2>2. T \in [1..(n + 1) -> 0..(UIntLimit - 1)]
    BY TimeAtIs
  <2> HIDE DEF n
  <2>3. \A k \in 1..(n + 1) : T[k] \in 0..(UIntLimit - 1)
    BY <2>2
  <2>4. \A m \in 0..(UIntLimit - 1) : m \in Nat
    BY <2>1
  <2> QED  BY <2>1, <2>3, <2>4
<1> HIDE DEF n
<1>2. C \in SUBSET Nat /\ C # {}
  <2>1. n + 1 \in C
    BY <1>1
  <2> QED  BY <1>1, <2>1
<1>3. PICK m \in C : \A k \in C : ~(k < m)
  <2> HIDE DEF C
  <2> QED  BY <1>2, Least
<1>4. m \in 1..(n + 1) /\ (m <= n => list[m].timeLeft >= T[m])
  BY <1>3
<1>5. ASSUME NEW k \in 1..(m - 1) PROVE list[k].timeLeft < T[k]
  <2>1. k \in 1..n /\ k \in 1..(n + 1) /\ k < m
    BY <1>1, <1>4
  <2>2. ~(list[k].timeLeft >= T[k])
    BY <1>3, <2>1
  <2>3. list[k].timeLeft \in Nat /\ T[k] \in Nat
    BY <1>1, <2>1
  <2> QED  BY <2>2, <2>3
<1> HIDE DEF C
<1>6. i = CHOOSE j \in 1..(n + 1) :
            /\ j <= n => list[j].timeLeft >= T[j]
            /\ \A k \in 1..(j - 1) : list[k].timeLeft < T[k]
  BY DEF Spot, n
<1> QED  BY <1>4, <1>5, <1>6 DEF n

(* There the new sleeper's time has lost what the nodes in front wait for, *)
(* and no subtraction has wrapped.                                         *)
LEMMA LeftThere ==
  ASSUME list \in Seq(Node), NEW time \in 1..(UIntLimit - 1),
         NEW T, T = TimeAt(time), NEW w, w = Waits(list), NEW i, i = Spot(time)
  PROVE  /\ T[i] = time - w[i - 1] /\ T[i] \in 1..(UIntLimit - 1)
         /\ i <= Len(list) => UInt(list[i].timeLeft - T[i]) = list[i].timeLeft - T[i]
<1> DEFINE n == Len(list)
           P == {k \in 1..i : T[k] = time - w[k - 1] /\ T[k] >= 1}
<1>1. /\ n \in Nat /\ UIntLimit \in Nat \ {0}
      /\ \A k \in 1..n : list[k].timeLeft \in 0..(UIntLimit - 1)
  BY NodesAre
<1>2. /\ T \in [1..(n + 1) -> 0..(UIntLimit - 1)] /\ T[1] = time
      /\ \A k \in 2..(n + 1) : T[k] = UInt(T[k - 1] - list[k - 1].timeLeft)
  BY TimeAtIs
<1>3. /\ w \in [0..n -> Nat] /\ w[0] = 0
      /\ \A k \in 1..n : w[k] = w[k - 1] + list[k].timeLeft
  BY WaitsAre
<1>4. /\ i \in 1..(n + 1)
      /\ i <= n => list[i].timeLeft >= T[i]
      /\ \A j \in 1..(i - 1) : list[j].timeLeft < T[j]
  BY SpotFound
<1> HIDE DEF n
<1>5. \A m \in 0..(UIntLimit - 1) : UInt(m) = m
  BY <1>1 DEF UInt
<1>6. 1 \in P
  BY <1>2, <1>3, <1>4
<1>7. ASSUME NEW k \in 1..i, k # 1, k - 1 \in P PROVE k \in P
  <2> DEFINE h == k - 1
             d == list[h].timeLeft
  <2>1. /\ h \in 1..n /\ h \in 1..(i - 1) /\ k \in 2..(n + 1) /\ h \in 1..(n + 1)
        /\ h - 1 \in 0..n
    BY <1>1, <1>4, <1>7
  <2>2. T[h] = time - w[h - 1] /\ T[h] >= 1
    BY <1>7
  <2>3. d < T[h] /\ d \in 0..(UIntLimit - 1) /\ T[h] \in 0..(UIntLimit - 1)
    BY <1>1, <1>2, <1>4, <2>1
  <2>4. T[k] = UInt(T[h] - d)
    BY <1>2, <2>1
  <2>5. w[h] = w[h - 1] + d /\ w[h - 1] \in Nat
    BY <1>3, <2>1
  <2> HIDE DEF h, d
  <2>6. T[h] - d \in 0..(UIntLimit - 1) /\ T[h] - d >= 1
    BY <1>1, <2>3
  <2>7. T[k] = T[h] - d
    BY <1>5, <2>4, <2>6
  <2>8. T[k] = time - w[h] /\ T[k] >= 1
    BY <1>1, <2>2, <2>3, <2>5, <2>6, <2>7
  <2> QED  BY <2>8 DEF h
<1>8. i \in P
  <2>1. 1 \in Nat /\ i \in Nat /\ i \in 1..i
    BY <1>1, <1>4
  <2> HIDE DEF P
  <2>2. \A k \in 1..i : k \in P
    BY <1>6, <1>7, <2>1, Climb
  <2> QED  BY <2>1, <2>2
<1>9. T[i] = time - w[i - 1] /\ T[i] \in 1..(UIntLimit - 1)
  BY <1>1, <1>2, <1>4, <1>8
<1>10. ASSUME i <= n PROVE UInt(list[i].timeLeft - T[i]) = list[i].timeLeft - T[i]
  <2> DEFINE d == list[i].timeLeft
  <2>1. d \in 0..(UIntLimit - 1) /\ d >= T[i]
    BY <1>1, <1>4, <1>10
  <2> HIDE DEF d
  <2>2. d - T[i] \in 0..(UIntLimit - 1)
    BY <1>1, <1>9, <2>1
  <2> QED  BY <1>5, <2>2 DEF d
<1> QED  BY <1>9, <1>10 DEF n

(* The nodes after it.                                                     *)
LEMMA PutNodes ==
  ASSUME list \in Seq(Node), NEW t \in Thread, NEW time \in 1..(UIntLimit - 1),
         NEW T, T = TimeAt(time), NEW i, i = Spot(time), NEW r, r = list', putToSleep(t, time)
  PROVE  /\ r \in Seq(Node) /\ Len(r) = Len(list) + 1
         /\ \A k \in 1..(i - 1) : r[k] = list[k]
         /\ r[i] = [thread |-> t, timeLeft |-> T[i]]
         /\ \A k \in (i + 1)..(Len(list) + 1) :
              /\ r[k].thread = list[k - 1].thread
              /\ r[k].timeLeft = IF k = i + 1 THEN list[i].timeLeft - T[i]
                                              ELSE list[k - 1].timeLeft
<1> DEFINE n == Len(list)
           x == [thread |-> t, timeLeft |-> T[i]]
           s == [j \in 1..n |-> IF j = i THEN [list[j] EXCEPT !.timeLeft = UInt(@ - T[i])]
                                ELSE list[j]]
<1>1. /\ n \in Nat /\ UIntLimit \in Nat \ {0}
      /\ \A k \in 1..n : list[k] \in Node
  BY NodesAre
<1>2. i \in 1..(n + 1) /\ (i <= n => list[i].timeLeft >= T[i])
  <2>1. time \in 0..(UIntLimit - 1)
    BY <1>1
  <2> QED  BY <2>1, SpotFound
<1>3. /\ T[i] \in 1..(UIntLimit - 1)
      /\ i <= n => UInt(list[i].timeLeft - T[i]) = list[i].timeLeft - T[i]
  <2> DEFINE w == Waits(list)
  <2>1. w = Waits(list)
    OBVIOUS
  <2> HIDE DEF w
  <2> QED  BY <2>1, LeftThere
<1>4. r = Spliced(list, i, x, s)
  BY DEF putToSleep, Spliced
<1> HIDE DEF n
<1>5. x \in Node
  <2>1. T[i] \in 0..(UIntLimit - 1)
    BY <1>1, <1>3
  <2> QED  BY <2>1 DEF Node
<1>6. ASSUME NEW k \in 1..n
      PROVE  /\ s[k] \in Node /\ s[k].thread = list[k].thread
             /\ s[k].timeLeft = IF k = i THEN list[i].timeLeft - T[i] ELSE list[k].timeLeft
  <2>1. list[k] \in [thread : Thread, timeLeft : 0..(UIntLimit - 1)]
    BY <1>1 DEF Node
  <2>2. CASE k = i
    <3> DEFINE v == UInt(list[k].timeLeft - T[i])
    <3>1. v = list[k].timeLeft - T[i] /\ v \in 0..(UIntLimit - 1)
      BY <1>1, <1>2, <1>3, <2>1, <2>2
    <3>2. s[k] = [list[k] EXCEPT !.timeLeft = v]
      BY <2>2
    <3> HIDE DEF s, v
    <3> QED  BY <2>1, <2>2, <3>1, <3>2 DEF Node
  <2>3. CASE k # i
    BY <1>1, <2>3
  <2> QED  BY <2>2, <2>3
<1>7. s \in Seq(Node) /\ Len(s) = n
  <2>1. \A k \in 1..n : s[k] \in Node
    BY <1>6
  <2>2. s = [k \in 1..n |-> s[k]]
    OBVIOUS
  <2> HIDE DEF s
  <2>3. [k \in 1..n |-> s[k]] \in Seq(Node) /\ Len([k \in 1..n |-> s[k]]) = n
    BY <1>1, <2>1
  <2> QED  BY <2>2, <2>3
<1> HIDE DEF s, x
<1>8. /\ r \in Seq(Node) /\ Len(r) = n + 1
      /\ \A k \in 1..(n + 1) : ElementOf(list, i, x, s, r, k)
  BY <1>2, <1>4, <1>5, <1>7, WithOne DEF n
<1>9. \A k \in 1..(i - 1) : r[k] = list[k]
  BY <1>1, <1>2, <1>8 DEF ElementOf
<1>10. r[i] = x
  BY <1>1, <1>2, <1>8 DEF ElementOf
<1>11. ASSUME NEW k \in (i + 1)..(n + 1)
       PROVE  /\ r[k].thread = list[k - 1].thread
              /\ r[k].timeLeft = IF k = i + 1 THEN list[i].timeLeft - T[i]
                                              ELSE list[k - 1].timeLeft
  <2>1. k \in 1..(n + 1) /\ ~(k < i) /\ k # i /\ k - 1 \in 1..n /\ (k - 1 = i <=> k = i + 1)
    BY <1>1, <1>2
  <2>2. r[k] = s[k - 1]
    BY <1>8, <2>1 DEF ElementOf
  <2> QED  BY <1>6, <2>1, <2>2
<1> QED  BY <1>8, <1>9, <1>10, <1>11 DEF n, x

(* Nobody else's waiting changes; the new sleeper waits for its time.      *)
LEMMA PutWaits ==
  ASSUME list \in Seq(Node), NEW t \in Thread, NEW time \in 1..(UIntLimit - 1),
         NEW i, i = Spot(time), NEW r, r = list', putToSleep(t, time),
         NEW w, w = Waits(list), NEW v, v = Waits(r)
  PROVE  /\ \A k \in 1..(i - 1) : v[k] = w[k] /\ w[k] < time
         /\ v[i] = time
         /\ \A k \in i..Len(list) : v[k + 1] = w[k] /\ w[k] >= time
<1> DEFINE n == Len(list)
           T == TimeAt(time)
           W(k) == IF k < i THEN w[k] ELSE IF k = i THEN time ELSE w[k - 1]
           P == {k \in 0..(n + 1) : v[k] = W(k)}
<1>1. T = TimeAt(time)
  OBVIOUS
<1> HIDE DEF T
<1>2. n \in Nat /\ UIntLimit \in Nat \ {0}
  BY NodesAre
<1>3. /\ w \in [0..n -> Nat] /\ w[0] = 0
      /\ \A k \in 1..n : w[k] = w[k - 1] + list[k].timeLeft /\ list[k].timeLeft \in Nat
  BY WaitsAre, NodesAre
<1>4. i \in 1..(n + 1) /\ (i <= n => list[i].timeLeft >= T[i])
  <2>1. time \in 0..(UIntLimit - 1)
    BY <1>2
  <2> QED  BY <1>1, <2>1, SpotFound
<1>5. T[i] = time - w[i - 1] /\ T[i] \in 1..(UIntLimit - 1)
  BY <1>1, LeftThere
<1>6. /\ r \in Seq(Node) /\ Len(r) = n + 1
      /\ \A k \in 1..(i - 1) : r[k] = list[k]
      /\ r[i] = [thread |-> t, timeLeft |-> T[i]]
      /\ \A k \in (i + 1)..(n + 1) :
           r[k].timeLeft = IF k = i + 1 THEN list[i].timeLeft - T[i] ELSE list[k - 1].timeLeft
  BY <1>1, PutNodes
<1>7. v[0] = 0 /\ \A k \in 1..(n + 1) : v[k] = v[k - 1] + r[k].timeLeft
  BY <1>6, WaitsAre
<1>8. \A j \in 0..n : \A k \in j..n : w[j] <= w[k]
  BY WaitsGrow
<1> HIDE DEF n
<1>9. \A k \in 0..n : w[k] \in Nat
  BY <1>3
<1>10. 0 \in P
  BY <1>2, <1>3, <1>4, <1>7
<1>11. ASSUME NEW k \in 0..(n + 1), k # 0, k - 1 \in P PROVE k \in P
  <2>1. k \in 1..(n + 1) /\ k - 1 \in 0..n /\ v[k - 1] = W(k - 1)
    BY <1>2, <1>11
  <2>2. v[k] = W(k - 1) + r[k].timeLeft
    BY <1>7, <2>1
  <2>3. CASE k < i
    <3>1. k \in 1..(i - 1) /\ k \in 1..n /\ k - 1 < i
      BY <1>2, <1>4, <2>1, <2>3
    <3> QED  BY <1>3, <1>6, <2>2, <2>3, <3>1
  <2>4. CASE k = i
    <3>1. W(k - 1) = w[i - 1] /\ r[k].timeLeft = time - w[i - 1]
      BY <1>2, <1>4, <1>5, <1>6, <2>4
    <3>2. w[i - 1] \in Nat /\ W(k) = time
      BY <1>4, <1>9, <2>1, <2>4
    <3> HIDE DEF W
    <3>3. v[k] = time
      BY <1>2, <2>2, <3>1, <3>2
    <3> QED  BY <3>2, <3>3
  <2>5. CASE k = i + 1
    <3>1. i \in 1..n /\ k \in (i + 1)..(n + 1) /\ i - 1 \in 0..n /\ k - 1 = i
      BY <1>2, <1>4, <2>1, <2>5
    <3>2. W(k - 1) = time /\ W(k) = w[i]
      BY <1>4, <2>5, <3>1
    <3>3. r[k].timeLeft = list[i].timeLeft - (time - w[i - 1])
      BY <1>5, <1>6, <2>5, <3>1
    <3>4. w[i] = w[i - 1] + list[i].timeLeft /\ list[i].timeLeft \in Nat /\ w[i - 1] \in Nat
      BY <1>3, <1>9, <3>1
    <3> HIDE DEF W
    <3>5. v[k] = w[i]
      BY <1>2, <2>2, <3>2, <3>3, <3>4
    <3> QED  BY <3>2, <3>5
  <2>6. CASE k > i + 1
    <3>1. /\ k - 1 \in 1..n /\ k \in (i + 1)..(n + 1) /\ k # i + 1
          /\ (k - 1) - 1 = k - 2
      BY <1>2, <1>4, <2>1, <2>6
    <3>2. W(k - 1) = w[(k - 1) - 1] /\ W(k) = w[k - 1]
      BY <1>4, <2>1, <2>6
    <3>3. r[k].timeLeft = list[k - 1].timeLeft
      BY <1>6, <3>1
    <3>4. w[k - 1] = w[(k - 1) - 1] + list[k - 1].timeLeft
      BY <1>3, <3>1
    <3> HIDE DEF W
    <3> QED  BY <2>2, <3>2, <3>3, <3>4
  <2> QED  BY <1>4, <2>1, <2>3, <2>4, <2>5, <2>6
<1>12. \A k \in 0..(n + 1) : v[k] = W(k)
  <2>1. 0 \in Nat /\ n + 1 \in Nat
    BY <1>2
  <2> HIDE DEF P
  <2>2. \A k \in 0..(n + 1) : k \in P
    BY <1>10, <1>11, <2>1, Climb
  <2> QED  BY <2>2 DEF P
<1>13. ASSUME NEW k \in 1..(i - 1) PROVE v[k] = w[k] /\ w[k] < time
  <2>1. k \in 0..(n + 1) /\ k < i /\ k \in 0..n /\ i - 1 \in 0..n /\ i - 1 \in k..n
    BY <1>2, <1>4
  <2>2. w[k] <= w[i - 1] /\ w[k] \in Nat /\ w[i - 1] \in Nat
    BY <1>8, <1>9, <2>1
  <2> QED  BY <1>2, <1>5, <1>12, <2>1, <2>2
<1>14. v[i] = time
  BY <1>2, <1>4, <1>12
<1>15. ASSUME NEW k \in i..n PROVE v[k + 1] = w[k] /\ w[k] >= time
  <2>1. /\ k + 1 \in 0..(n + 1) /\ ~(k + 1 < i) /\ k + 1 # i /\ (k + 1) - 1 = k
        /\ i \in 0..n /\ k \in 0..n /\ i \in 1..n /\ i - 1 \in 0..n /\ i <= n
    BY <1>2, <1>4
  <2>2. w[i] <= w[k] /\ w[i] \in Nat /\ w[k] \in Nat /\ w[i - 1] \in Nat
    BY <1>8, <1>9, <2>1
  <2>3. w[i] = w[i - 1] + list[i].timeLeft /\ list[i].timeLeft \in Nat
    BY <1>3, <2>1
  <2>4. w[k] >= time
    <3> DEFINE a == w[i - 1]
               d == list[i].timeLeft
    <3>1. a \in Nat /\ d \in Nat /\ w[i] = a + d /\ d >= time - a
      BY <1>4, <1>5, <2>1, <2>2, <2>3
    <3> HIDE DEF a, d
    <3> QED  BY <1>2, <2>2, <3>1
  <2>5. v[k + 1] = w[k]
    BY <1>12, <2>1
  <2> QED  BY <2>4, <2>5
<1> QED  BY <1>13, <1>14, <1>15 DEF n

-----------------------------------------------------------------------------
(***************************************************************************)
(* What Sleepers sees of a list.                                           *)
(***************************************************************************)

LEMMA OrderIs ==
  ASSUME NEW q \in Seq(Node)
  PROVE  /\ Order(q) \in Seq(Thread) /\ Len(Order(q)) = Len(q)
         /\ \A k \in 1..Len(q) : Order(q)[k] = q[k].thread /\ Order(q)[k] \in Thread
<1> DEFINE n == Len(q)
<1>1. n \in Nat /\ \A k \in 1..n : q[k].thread \in Thread
  BY NodesAre
<1> HIDE DEF n
<1>2. [k \in 1..n |-> q[k].thread] \in Seq(Thread)
  BY <1>1
<1>3. Len([k \in 1..n |-> q[k].thread]) = n
  BY <1>1
<1> QED  BY <1>1, <1>2, <1>3 DEF Order, n

LEMMA LeftIs ==
  ASSUME NEW q \in Seq(Node), Distinct(q), NEW w, w = Waits(q)
  PROVE  /\ LeftOf(q) \in [Thread -> Nat]
         /\ \A k \in 1..Len(q) : LeftOf(q)[q[k].thread] = w[k]
         /\ \A t \in Thread : (\A k \in 1..Len(q) : q[k].thread # t) => LeftOf(q)[t] = 0
<1> DEFINE n == Len(q)
<1>1. /\ n \in Nat /\ DOMAIN q = 1..n /\ w \in [0..n -> Nat]
      /\ \A k \in 1..n : q[k].thread \in Thread
  BY NodesAre, WaitsAre
<1> HIDE DEF n
<1>2. ASSUME NEW k \in 1..n
      PROVE  LeftOf(q)[q[k].thread] = w[k] /\ w[k] \in Nat
  <2>1. q[k].thread \in Threads(q) /\ q[k].thread \in Thread
    BY <1>1 DEF Threads
  <2>2. (CHOOSE j \in DOMAIN q : q[j].thread = q[k].thread) = k
    BY <1>1 DEF Distinct
  <2>3. w[k] \in Nat
    BY <1>1
  <2> QED  BY <2>1, <2>2, <2>3 DEF LeftOf
<1>3. ASSUME NEW t \in Thread, \A k \in 1..n : q[k].thread # t PROVE LeftOf(q)[t] = 0
  BY <1>1, <1>3 DEF LeftOf, Threads
<1>4. LeftOf(q) \in [Thread -> Nat]
  <2>1. ASSUME NEW t \in Thread PROVE LeftOf(q)[t] \in Nat
    <3>1. CASE \E k \in 1..n : q[k].thread = t
      BY <1>2, <3>1
    <3>2. CASE ~ \E k \in 1..n : q[k].thread = t
      BY <1>3, <3>2
    <3> QED  BY <3>1, <3>2
  <2>2. LeftOf(q) = [t \in Thread |-> LeftOf(q)[t]]
    BY DEF LeftOf
  <2> QED  BY <2>1, <2>2
<1> QED  BY <1>2, <1>3, <1>4 DEF n

(* Everybody in a list whose head has a tick to go waits.                  *)
LEMMA AllWait ==
  ASSUME NEW q \in Seq(Node), q # << >> => q[1].timeLeft > 0, NEW w, w = Waits(q)
  PROVE  \A k \in 1..Len(q) : w[k] \in Nat /\ w[k] >= 1
<1> DEFINE n == Len(q)
<1>1. /\ n \in Nat /\ w \in [0..n -> Nat] /\ w[0] = 0
      /\ \A i \in 1..n : w[i] = w[i - 1] + q[i].timeLeft
      /\ \A k \in 1..n : q[k].timeLeft \in Nat
  BY NodesAre, WaitsAre
<1>2. SUFFICES ASSUME NEW k \in 1..n PROVE w[k] \in Nat /\ w[k] >= 1
  OBVIOUS
<1>3. \A i \in 1..n : w[1] <= w[i]
  <2>1. 1 \in 0..n /\ \A i \in 1..n : i \in 1..n
    BY <1>1, <1>2
  <2> QED  BY <2>1, WaitsGrow
<1>4. q # << >>
  BY <1>2
<1> HIDE DEF n
<1>5. 1 \in 1..n /\ k \in 0..n /\ 1 \in 0..n
  BY <1>1, <1>2
<1>6. w[1] = 0 + q[1].timeLeft /\ q[1].timeLeft \in Nat /\ q[1].timeLeft > 0
  BY <1>1, <1>4, <1>5
<1> QED  BY <1>1, <1>2, <1>3, <1>5, <1>6

(* Going to sleep as the system call sees it: behind those who have less   *)
(* to go.                                                                  *)
LEMMA PutMaps ==
  ASSUME SleepInv, NEW t \in Thread \ Threads(list), NEW time \in 1..(UIntLimit - 1),
         putToSleep(t, time), NEW r, r = list'
  PROVE  /\ r \in Seq(Node) /\ Distinct(r) /\ (r # << >> => r[1].timeLeft > 0)
         /\ LeftOf(list)[t] = 0
         /\ LeftOf(r) = [LeftOf(list) EXCEPT ![t] = time]
         /\ LET a == Order(list)
                p == 1 + Cardinality({k \in DOMAIN a : LeftOf(list)[a[k]] < time})
            IN  Order(r) = SubSeq(a, 1, p - 1) \o <<t>> \o SubSeq(a, p, Len(a))
<1> DEFINE n == Len(list)
           i == Spot(time)
           T == TimeAt(time)
           w == Waits(list)
           v == Waits(r)
<1>1. i = Spot(time) /\ T = TimeAt(time) /\ w = Waits(list) /\ v = Waits(r)
  OBVIOUS
<1> HIDE DEF i, T, w, v
<1>2. /\ list \in Seq(Node) /\ Distinct(list) /\ (list # << >> => list[1].timeLeft > 0)
  BY DEF SleepInv, HeadNeverWraps
<1>3. /\ n \in Nat /\ DOMAIN list = 1..n /\ UIntLimit \in Nat \ {0}
      /\ \A k \in 1..n : list[k].thread \in Thread
  BY <1>2, NodesAre
<1>4. i \in 1..(n + 1)
  <2>1. time \in 0..(UIntLimit - 1)
    BY <1>3
  <2> QED  BY <1>1, <1>2, <2>1, SpotFound
<1>5. /\ r \in Seq(Node) /\ Len(r) = n + 1
      /\ \A k \in 1..(i - 1) : r[k] = list[k]
      /\ r[i] = [thread |-> t, timeLeft |-> T[i]]
      /\ \A k \in (i + 1)..(n + 1) : r[k].thread = list[k - 1].thread
  BY <1>1, <1>2, PutNodes
<1>6. T[i] = time - w[i - 1] /\ T[i] \in 1..(UIntLimit - 1)
  BY <1>1, <1>2, LeftThere
<1>7. /\ \A k \in 1..(i - 1) : v[k] = w[k] /\ w[k] < time
      /\ v[i] = time
      /\ \A k \in i..n : v[k + 1] = w[k] /\ w[k] >= time
  BY <1>1, <1>2, PutWaits
<1>8. DOMAIN r = 1..(n + 1) /\ r # << >>
  BY <1>3, <1>5, NodesAre
<1> HIDE DEF n
(* Where the nodes of the new list come from.                              *)
<1>9. /\ r[i].thread = t
      /\ \A k \in 1..(i - 1) : k \in 1..n /\ r[k].thread = list[k].thread
      /\ \A k \in (i + 1)..(n + 1) : k - 1 \in 1..n /\ r[k].thread = list[k - 1].thread
  BY <1>3, <1>4, <1>5
<1>10. \A k \in 1..n : list[k].thread # t
  BY <1>3 DEF Threads
<1>11. Distinct(r)
  <2>1. SUFFICES ASSUME NEW j \in 1..(n + 1), NEW k \in 1..(n + 1), j < k
                 PROVE  r[j].thread # r[k].thread
    <3>1. \A j, k \in 1..(n + 1) : j # k => j < k \/ k < j
      BY <1>3
    <3> QED  BY <1>8, <2>1, <3>1 DEF Distinct
  <2>2. \A x, y \in 1..n : x # y => list[x].thread # list[y].thread
    BY <1>2, <1>3 DEF Distinct
  <2>3. CASE k < i
    <3>1. j \in 1..(i - 1) /\ k \in 1..(i - 1) /\ j # k
      BY <1>3, <1>4, <2>1, <2>3
    <3> QED  BY <1>9, <2>2, <3>1
  <2>4. CASE k = i
    <3>1. j \in 1..(i - 1)
      BY <1>3, <1>4, <2>1, <2>4
    <3> QED  BY <1>9, <1>10, <2>4, <3>1
  <2>5. CASE k > i
    <3>1. k \in (i + 1)..(n + 1) /\ k - 1 \in 1..n
      BY <1>3, <1>4, <2>1, <2>5
    <3>2. CASE j < i
      <4>1. j \in 1..(i - 1) /\ j # k - 1
        BY <1>3, <1>4, <2>5, <3>2
      <4> QED  BY <1>9, <2>2, <3>1, <4>1
    <3>3. CASE j = i
      BY <1>9, <1>10, <3>1, <3>3
    <3>4. CASE j > i
      <4>1. j \in (i + 1)..(n + 1) /\ j - 1 # k - 1
        BY <1>3, <1>4, <2>1, <3>4
      <4> QED  BY <1>9, <2>2, <3>1, <4>1
    <3> QED  BY <1>3, <1>4, <3>2, <3>3, <3>4
  <2> QED  BY <1>3, <1>4, <2>3, <2>4, <2>5
<1>12. r[1].timeLeft > 0
  <2>1. CASE i = 1
    BY <1>3, <1>5, <1>6, <2>1
  <2>2. CASE i # 1
    <3>1. 1 \in 1..(i - 1) /\ 1 \in 1..n
      BY <1>3, <1>4, <2>2
    <3>2. list # << >>
      BY <3>1 DEF n
    <3> QED  BY <1>2, <1>5, <3>1, <3>2
  <2> QED  BY <2>1, <2>2
<1>13. /\ LeftOf(list) \in [Thread -> Nat]
       /\ \A k \in 1..n : LeftOf(list)[list[k].thread] = w[k]
       /\ \A u \in Thread : (\A k \in 1..n : list[k].thread # u) => LeftOf(list)[u] = 0
  BY <1>1, <1>2, LeftIs DEF n
<1>14. /\ LeftOf(r) \in [Thread -> Nat]
       /\ \A k \in 1..(n + 1) : LeftOf(r)[r[k].thread] = v[k]
       /\ \A u \in Thread : (\A k \in 1..(n + 1) : r[k].thread # u) => LeftOf(r)[u] = 0
  BY <1>1, <1>5, <1>11, LeftIs
<1>15. LeftOf(list)[t] = 0
  BY <1>10, <1>13
<1>16. LeftOf(r) = [LeftOf(list) EXCEPT ![t] = time]
  <2>1. ASSUME NEW u \in Thread
        PROVE  LeftOf(r)[u] = IF u = t THEN time ELSE LeftOf(list)[u]
    <3>1. CASE u = t
      BY <1>3, <1>4, <1>7, <1>9, <1>14, <3>1
    <3>2. ASSUME u # t, NEW k \in 1..n, list[k].thread = u PROVE LeftOf(r)[u] = LeftOf(list)[u]
      <4>1. CASE k < i
        <5>1. k \in 1..(i - 1) /\ k \in 1..(n + 1)
          BY <1>3, <1>4, <4>1
        <5> QED  BY <1>7, <1>9, <1>13, <1>14, <3>2, <5>1
      <4>2. CASE ~(k < i)
        <5>1. k \in i..n /\ k + 1 \in (i + 1)..(n + 1) /\ k + 1 \in 1..(n + 1) /\ (k + 1) - 1 = k
          BY <1>3, <1>4, <4>2
        <5>2. r[k + 1].thread = u
          BY <1>9, <3>2, <5>1
        <5> QED  BY <1>7, <1>13, <1>14, <3>2, <5>1, <5>2
      <4> QED  BY <4>1, <4>2
    <3>3. ASSUME u # t, \A k \in 1..n : list[k].thread # u
          PROVE  LeftOf(r)[u] = 0 /\ LeftOf(list)[u] = 0
      <4>1. ASSUME NEW k \in 1..(n + 1) PROVE r[k].thread # u
        <5>1. k \in 1..(i - 1) \/ k = i \/ k \in (i + 1)..(n + 1)
          BY <1>3, <1>4
        <5> QED  BY <1>9, <3>3, <5>1
      <4> QED  BY <1>13, <1>14, <3>3, <4>1
    <3> QED  BY <3>1, <3>2, <3>3
  <2> QED  BY <1>13, <1>14, <2>1
<1>17. {k \in 1..n : w[k] < time} = 1..(i - 1)
  <2>1. \A k \in 1..(i - 1) : k \in 1..n
    BY <1>3, <1>4
  <2>2. ASSUME NEW k \in 1..n, w[k] < time PROVE k \in 1..(i - 1)
    <3>1. w[k] \in Nat
      BY <1>1, <1>2, <1>3, WaitsAre DEF n
    <3>2. CASE k \in i..n
      BY <1>3, <1>7, <2>2, <3>1, <3>2
    <3> QED  BY <1>3, <1>4, <3>2
  <2> QED  BY <1>7, <2>1, <2>2
<1> DEFINE a == Order(list)
           p == 1 + Cardinality({k \in DOMAIN a : LeftOf(list)[a[k]] < time})
<1>18. /\ a \in Seq(Thread) /\ Len(a) = n /\ DOMAIN a = 1..n
       /\ \A k \in 1..n : a[k] = list[k].thread /\ a[k] \in Thread
  BY <1>2, OrderIs, LenProperties DEF n
<1>19. p = i
  <2>1. {k \in DOMAIN a : LeftOf(list)[a[k]] < time} = 1..(i - 1)
    BY <1>13, <1>17, <1>18
  <2>2. Cardinality(1..(i - 1)) = i - 1
    <3>1. 1 \in Int /\ i - 1 \in Int /\ (i - 1) - 1 + 1 = i - 1 /\ (1 > i - 1 => i - 1 = 0)
      BY <1>3, <1>4
    <3> QED  BY <3>1, FS_Interval
  <2>3. p = 1 + Cardinality(1..(i - 1))
    BY <2>1
  <2> HIDE DEF p
  <2> QED  BY <1>3, <1>4, <2>2, <2>3
<1> HIDE DEF p, a
<1>20. Order(r) = Spliced(a, i, t, a)
  <2> DEFINE o == Order(r)
             s == Spliced(a, i, t, a)
  <2>1. /\ o \in Seq(Thread) /\ Len(o) = n + 1
        /\ \A k \in 1..(n + 1) : o[k] = r[k].thread
    BY <1>5, OrderIs
  <2>2. /\ s \in Seq(Thread) /\ Len(s) = n + 1
        /\ \A k \in 1..(n + 1) : ElementOf(a, i, t, a, s, k)
    BY <1>4, <1>18, WithOne
  <2> HIDE DEF o, s
  <2>3. ASSUME NEW k \in 1..(n + 1) PROVE o[k] = s[k]
    <3>1. CASE k < i
      <4>1. k \in 1..(i - 1) /\ k \in 1..n
        BY <1>3, <1>4, <3>1
      <4> QED  BY <1>9, <1>18, <2>1, <2>2, <3>1, <4>1 DEF ElementOf
    <3>2. CASE k = i
      BY <1>3, <1>4, <1>9, <2>1, <2>2, <3>2 DEF ElementOf
    <3>3. CASE k > i
      <4>1. k \in (i + 1)..(n + 1) /\ k - 1 \in 1..n /\ ~(k < i) /\ k # i
        BY <1>3, <1>4, <3>3
      <4> QED  BY <1>9, <1>18, <2>1, <2>2, <4>1 DEF ElementOf
    <3> QED  BY <1>3, <1>4, <3>1, <3>2, <3>3
  <2>4. o = s
    <3>1. \A k \in 1..Len(o) : o[k] = s[k]
      BY <2>1, <2>3
    <3> QED  BY <2>1, <2>2, <3>1, SeqEqual
  <2> QED  BY <2>4 DEF o, s
<1>21. Order(r) = SubSeq(a, 1, p - 1) \o <<t>> \o SubSeq(a, p, Len(a))
  BY <1>19, <1>20 DEF Spliced
<1> QED  BY <1>5, <1>8, <1>11, <1>12, <1>15, <1>16, <1>21 DEF a, p

-----------------------------------------------------------------------------
(***************************************************************************)
(* A tick.                                                                 *)
(***************************************************************************)

(* What is left of s when the first m nodes have gone.                     *)
Cut(s, m, r) ==
  /\ r \in Seq(Node) /\ Len(r) = Len(s) - m
  /\ \A k \in 1..(Len(s) - m) : r[k] = s[k + m]

LEMMA CutAt ==
  ASSUME NEW s \in Seq(Node), NEW m \in 0..Len(s), NEW r, r = SubSeq(s, m + 1, Len(s))
  PROVE  Cut(s, m, r)
<1> DEFINE n == Len(s)
<1>1. n \in Nat /\ \A k \in 1..n : s[k] \in Node
  BY NodesAre
<1> HIDE DEF n
<1>2. \A k \in (m + 1)..n : s[k] \in Node
  BY <1>1
<1>3. m + 1 \in Int /\ n \in Int
  BY <1>1
<1>4. /\ SubSeq(s, m + 1, n) \in Seq(Node)
      /\ Len(SubSeq(s, m + 1, n)) = IF m + 1 <= n THEN n - (m + 1) + 1 ELSE 0
      /\ \A k \in 1..(n - (m + 1) + 1) : SubSeq(s, m + 1, n)[k] = s[(m + 1) + k - 1]
  BY <1>2, <1>3, SubSeqProperties
<1>5. r = SubSeq(s, m + 1, n)
  BY DEF n
<1>6. Len(r) = n - m
  BY <1>1, <1>4, <1>5 DEF n
<1>7. ASSUME NEW k \in 1..(n - m) PROVE r[k] = s[k + m]
  <2>1. (m + 1) + k - 1 = k + m /\ k \in 1..(n - (m + 1) + 1)
    BY <1>1, <1>7
  <2> QED  BY <1>4, <1>5, <2>1
<1> QED  BY <1>4, <1>5, <1>6, <1>7 DEF Cut, n

(* The loop of updateTime stops: the nodes that wake are the first m.      *)
LEMMA DropFound ==
  ASSUME NEW s \in Seq(Node), s # << >>, s[1].timeLeft = 0, NEW r, r = DropAwake(s)
  PROVE  \E m \in 1..Len(s) :
           /\ \A k \in 1..m : s[k].timeLeft = 0
           /\ m < Len(s) => s[m + 1].timeLeft # 0
           /\ Cut(s, m, r)
<1> DEFINE n == Len(s)
           C == {j \in 1..n : j < n => s[j + 1].timeLeft # 0}
           Wakes(m) == /\ \A k \in 1..m : s[k].timeLeft = 0
                       /\ m < n => s[m + 1].timeLeft # 0
<1>1. n \in Nat /\ n # 0
  BY NodesAre, EmptySeq
<1> HIDE DEF n
<1>2. C \in SUBSET Nat /\ n \in C
  BY <1>1
<1>3. PICK m \in C : \A k \in C : ~(k < m)
  <2> HIDE DEF C
  <2> QED  BY <1>2, Least
<1>4. m \in 1..n /\ (m < n => s[m + 1].timeLeft # 0)
  BY <1>3
<1>5. ASSUME NEW k \in 1..m PROVE s[k].timeLeft = 0
  <2>1. CASE k # 1
    <3>1. k - 1 \in 1..n /\ k - 1 < m /\ k - 1 < n /\ (k - 1) + 1 = k
      BY <1>1, <1>4, <2>1
    <3>2. k - 1 \notin C
      BY <1>3, <3>1
    <3> QED  BY <3>1, <3>2
  <2> QED  BY <2>1
<1> HIDE DEF C
<1>6. Wakes(m)
  BY <1>4, <1>5
<1> DEFINE x == CHOOSE x \in 1..n : Wakes(x)
<1>7. x \in 1..n /\ Wakes(x)
  <2> HIDE DEF Wakes
  <2> QED  BY <1>4, <1>6
<1>8. r = SubSeq(s, x + 1, n)
  BY DEF DropAwake, n
<1> HIDE DEF x
<1>9. Cut(s, x, r)
  <2>1. x \in 0..n
    BY <1>1, <1>7
  <2> QED  BY <1>8, <2>1, CutAt DEF n
<1> QED  BY <1>7, <1>9 DEF n

(* A tick drops the first m nodes, which had one tick left, and shortens   *)
(* the next one.                                                           *)
Ticked(q, m, r) ==
  /\ r \in Seq(Node) /\ Len(r) = Len(q) - m
  /\ \A k \in 1..m : q[k].timeLeft = IF k = 1 THEN 1 ELSE 0
  /\ \A k \in 1..(Len(q) - m) :
       /\ r[k].thread = q[k + m].thread
       /\ r[k].timeLeft = IF k + m = 1 THEN q[1].timeLeft - 1 ELSE q[k + m].timeLeft
  /\ r # << >> => r[1].timeLeft > 0

LEMMA TickNodes ==
  ASSUME SleepInv, updateTime, NEW r, r = list'
  PROVE  list # << >> /\ \E m \in 0..Len(list) : Ticked(list, m, r)
<1> DEFINE n == Len(list)
           s == [list EXCEPT ![1].timeLeft = UInt(@ - 1)]
           d == list[1].timeLeft
<1>1. /\ list # << >> /\ list \in Seq(Node) /\ d > 0
      /\ r = IF s[1].timeLeft > 0 THEN s ELSE DropAwake(s)
  BY DEF updateTime, SleepInv, HeadNeverWraps
<1>2. /\ n \in Nat /\ n # 0 /\ UIntLimit \in Nat \ {0} /\ DOMAIN list = 1..n
      /\ \A k \in 1..n : list[k] \in Node /\ list[k].timeLeft \in Nat
  BY <1>1, NodesAre, EmptySeq
<1> HIDE DEF n
<1>3. 1 \in 1..n /\ list[1] \in Node /\ d \in 0..(UIntLimit - 1)
  BY <1>2 DEF Node
<1>4. UInt(d - 1) = d - 1 /\ d - 1 \in 0..(UIntLimit - 1)
  <2>1. \A m \in 0..(UIntLimit - 1) : UInt(m) = m
    BY <1>2 DEF UInt
  <2> HIDE DEF d
  <2>2. d - 1 \in 0..(UIntLimit - 1)
    BY <1>1, <1>2, <1>3
  <2> QED  BY <2>1, <2>2
<1> DEFINE e == [list[1] EXCEPT !.timeLeft = d - 1]
<1>5. e \in Node /\ e.timeLeft = d - 1 /\ e.thread = list[1].thread
  <2>1. list[1] \in [thread : Thread, timeLeft : 0..(UIntLimit - 1)]
    BY <1>3 DEF Node
  <2>2. d - 1 \in 0..(UIntLimit - 1)
    BY <1>4
  <2> HIDE DEF d
  <2> QED  BY <2>1, <2>2 DEF Node
<1>6. s = [list EXCEPT ![1] = e]
  BY <1>4
<1> HIDE DEF s, e
<1>7. /\ s \in Seq(Node) /\ Len(s) = n /\ s[1] = e
      /\ \A k \in 1..n : k # 1 => s[k] = list[k]
  BY <1>1, <1>2, <1>3, <1>5, <1>6, ExceptSeq DEF n
<1>8. \A k \in 1..n : /\ s[k].thread = list[k].thread
                      /\ s[k].timeLeft = IF k = 1 THEN d - 1 ELSE list[k].timeLeft
  BY <1>5, <1>7
<1>9. s # << >>
  BY <1>2, <1>7, EmptySeq
<1>10. ASSUME NEW m \in 0..n, Cut(s, m, r),
              \A k \in 1..m : s[k].timeLeft = 0, m < n => s[m + 1].timeLeft # 0
       PROVE  Ticked(list, m, r)
  <2>1. /\ r \in Seq(Node) /\ Len(r) = n - m
        /\ \A k \in 1..(n - m) : r[k] = s[k + m]
    BY <1>7, <1>10 DEF Cut
  <2>2. ASSUME NEW k \in 1..m PROVE list[k].timeLeft = IF k = 1 THEN 1 ELSE 0
    <3>1. k \in 1..n /\ s[k].timeLeft = 0
      BY <1>2, <1>10, <2>2
    <3> QED  BY <1>3, <1>8, <3>1
  <2>3. ASSUME NEW k \in 1..(n - m)
        PROVE  /\ r[k].thread = list[k + m].thread
               /\ r[k].timeLeft = IF k + m = 1 THEN d - 1 ELSE list[k + m].timeLeft
    <3>1. k + m \in 1..n
      BY <1>2, <2>3
    <3> QED  BY <1>8, <2>1, <2>3, <3>1
  <2>4. ASSUME r # << >> PROVE r[1].timeLeft > 0
    <3>1. n - m # 0
      <4>1. Len(r) = 0 => r = << >>
        BY <2>1, EmptySeq
      <4> QED  BY <2>1, <2>4, <4>1
    <3>2. m < n /\ 1 \in 1..(n - m) /\ 1 + m = m + 1 /\ m + 1 \in 1..n
      BY <1>2, <1>10, <3>1
    <3>3. s[m + 1].timeLeft # 0 /\ r[1] = s[m + 1]
      BY <1>10, <2>1, <3>2
    <3>4. s[m + 1].timeLeft \in Nat
      BY <1>1, <1>2, <1>3, <1>8, <3>2
    <3> QED  BY <3>3, <3>4
  <2> QED  BY <2>1, <2>2, <2>3, <2>4 DEF Ticked, n
<1>11. s[1].timeLeft = d - 1 /\ d - 1 \in Nat
  BY <1>1, <1>3, <1>8
<1>12. CASE s[1].timeLeft > 0
  <2>1. Cut(s, 0, r)
    BY <1>1, <1>2, <1>7, <1>12 DEF Cut
  <2>2. 0 \in 0..n /\ 0 + 1 = 1 /\ \A k \in 1..0 : FALSE
    BY <1>2
  <2>3. Ticked(list, 0, r)
    BY <1>10, <1>12, <2>1, <2>2
  <2> QED  BY <1>1, <2>2, <2>3 DEF n
<1>13. CASE ~(s[1].timeLeft > 0)
  <2>1. s[1].timeLeft = 0 /\ r = DropAwake(s)
    <3>1. r = DropAwake(s)
      BY <1>1, <1>13
    <3>2. s[1].timeLeft \in Nat
      <4> HIDE DEF d
      <4> QED  BY <1>11
    <3> QED  BY <1>13, <3>1, <3>2
  <2>2. PICK m \in 1..n : /\ \A k \in 1..m : s[k].timeLeft = 0
                          /\ m < n => s[m + 1].timeLeft # 0
                          /\ Cut(s, m, r)
    BY <1>7, <1>9, <2>1, DropFound
  <2>3. m \in 0..n
    BY <1>2
  <2>4. Ticked(list, m, r)
    BY <1>10, <2>2, <2>3
  <2> QED  BY <1>1, <2>3, <2>4 DEF n
<1> QED  BY <1>12, <1>13

(* The first m waited for this tick; everybody else waits one tick less.   *)
LEMMA TickWaits ==
  ASSUME SleepInv, NEW m \in 0..Len(list), NEW r, Ticked(list, m, r), list # << >>,
         NEW w, w = Waits(list), NEW v, v = Waits(r)
  PROVE  /\ \A k \in 1..m : w[k] = 1
         /\ \A k \in (m + 1)..Len(list) : w[k] \in Nat /\ w[k] >= 2
         /\ \A k \in 1..(Len(list) - m) : v[k] = w[k + m] - 1
<1> DEFINE n == Len(list)
           l == n - m
<1>1. list \in Seq(Node) /\ (list # << >> => list[1].timeLeft > 0)
  BY DEF SleepInv, HeadNeverWraps
<1>2. /\ n \in Nat /\ n # 0 /\ w \in [0..n -> Nat] /\ w[0] = 0
      /\ \A k \in 1..n : list[k].timeLeft \in Nat
      /\ \A k \in 1..n : w[k] = w[k - 1] + list[k].timeLeft
  BY <1>1, WaitsAre, NodesAre, EmptySeq
<1>3. /\ r \in Seq(Node) /\ Len(r) = n - m
      /\ \A k \in 1..m : list[k].timeLeft = IF k = 1 THEN 1 ELSE 0
      /\ \A k \in 1..(n - m) :
           r[k].timeLeft = IF k + m = 1 THEN list[1].timeLeft - 1 ELSE list[k + m].timeLeft
      /\ r # << >> => r[1].timeLeft > 0
  BY DEF Ticked
<1>4. \A j \in 0..n : \A k \in j..n : w[j] <= w[k]
  BY <1>1, WaitsGrow
<1>5. v \in [0..(n - m) -> Nat] /\ v[0] = 0 /\ \A k \in 1..(n - m) : v[k] = v[k - 1] + r[k].timeLeft
  BY <1>3, WaitsAre
<1>6. m \in 0..n
  OBVIOUS
<1> HIDE DEF n
<1>7. \A k \in 1..m : w[k] = 1
  <2> DEFINE P == {k \in 1..m : w[k] = 1}
  <2>1. CASE m = 0
    BY <2>1
  <2>2. CASE m # 0
    <3>1. 1 \in 1..m /\ 1 \in 1..n /\ 1 - 1 = 0
      BY <1>2, <1>6, <2>2
    <3>2. w[1] = w[0] + list[1].timeLeft /\ list[1].timeLeft = 1
      BY <1>2, <1>3, <3>1
    <3>3. 1 \in P
      BY <1>2, <3>1, <3>2
    <3>4. ASSUME NEW k \in 1..m, k # 1, k - 1 \in P PROVE k \in P
      <4>1. k \in 1..n /\ w[k - 1] = 1
        BY <1>2, <1>6, <3>4
      <4>2. w[k] = w[k - 1] + list[k].timeLeft /\ list[k].timeLeft = 0
        BY <1>2, <1>3, <3>4, <4>1
      <4> QED  BY <4>1, <4>2
    <3>5. 1 \in Nat /\ m \in Nat
      BY <1>2, <1>6
    <3> HIDE DEF P
    <3>6. \A k \in 1..m : k \in P
      BY <3>3, <3>4, <3>5, Climb
    <3> QED  BY <3>6 DEF P
  <2> QED  BY <2>1, <2>2
(* The first that stays.                                                   *)
<1>8. ASSUME m < n PROVE v[1] = w[m + 1] - 1 /\ w[m + 1] \in Nat /\ w[m + 1] >= 2
  <2>1. 1 \in 1..(n - m) /\ 1 + m = m + 1 /\ m + 1 \in 1..n /\ (m + 1) - 1 = m /\ 1 - 1 = 0
    BY <1>2, <1>6, <1>8
  <2>2. v[1] = r[1].timeLeft /\ v[1] \in Nat
    <3>1. v[1] = v[0] + r[1].timeLeft /\ v[1] \in Nat /\ 1 \in 0..(n - m)
      BY <1>2, <1>5, <1>6, <2>1
    <3>2. r[1].timeLeft \in Nat
      BY <1>3, <2>1, NodesAre
    <3> QED  BY <1>5, <3>1, <3>2
  <2>3. r[1].timeLeft > 0
    <3>1. r # << >>
      BY <1>3, <2>1, EmptySeq
    <3> QED  BY <1>3, <3>1
  <2>4. w[m + 1] = w[m] + list[m + 1].timeLeft /\ list[m + 1].timeLeft \in Nat
    BY <1>2, <2>1
  <2>5. CASE m = 0
    <3>1. r[1].timeLeft = list[1].timeLeft - 1
      BY <1>3, <2>1, <2>5
    <3> QED  BY <1>2, <2>2, <2>3, <2>4, <2>5, <3>1
  <2>6. CASE m # 0
    <3>1. m \in 1..m /\ m + 1 # 1
      BY <1>2, <1>6, <2>6
    <3>2. w[m] = 1 /\ r[1].timeLeft = list[m + 1].timeLeft
      BY <1>3, <1>7, <2>1, <3>1
    <3> QED  BY <2>2, <2>3, <2>4, <3>2
  <2> QED  BY <2>5, <2>6
<1>9. ASSUME NEW k \in (m + 1)..n PROVE w[k] \in Nat /\ w[k] >= 2
  <2>1. m < n /\ m + 1 \in 0..n /\ k \in 0..n
    BY <1>2, <1>6
  <2>2. w[m + 1] <= w[k] /\ w[k] \in Nat
    BY <1>2, <1>4, <2>1
  <2> QED  BY <1>8, <2>1, <2>2
<1>10. \A k \in 1..(n - m) : v[k] = w[k + m] - 1
  <2> DEFINE P == {k \in 1..(n - m) : v[k] = w[k + m] - 1}
  <2>1. CASE m = n
    BY <1>2, <2>1
  <2>2. CASE m # n
    <3>1. m < n /\ 1 \in 1..(n - m) /\ 1 + m = m + 1
      BY <1>2, <1>6, <2>2
    <3>2. 1 \in P
      BY <1>8, <3>1
    <3>3. ASSUME NEW k \in 1..(n - m), k # 1, k - 1 \in P PROVE k \in P
      <4>1. /\ k + m \in 1..n /\ (k + m) - 1 = (k - 1) + m /\ k + m # 1
            /\ (k - 1) + m \in 0..n
        BY <1>2, <1>6, <3>3
      <4>2. v[k] = v[k - 1] + list[k + m].timeLeft /\ v[k - 1] = w[(k - 1) + m] - 1
        BY <1>3, <1>5, <3>3, <4>1
      <4>3. /\ w[k + m] = w[(k - 1) + m] + list[k + m].timeLeft
            /\ list[k + m].timeLeft \in Nat /\ w[(k - 1) + m] \in Nat
        BY <1>2, <4>1
      <4> QED  BY <4>2, <4>3
    <3>4. 1 \in Nat /\ n - m \in Nat
      BY <1>2, <3>1
    <3> HIDE DEF P
    <3>5. \A k \in 1..(n - m) : k \in P
      BY <3>2, <3>3, <3>4, Climb
    <3> QED  BY <3>5 DEF P
  <2> QED  BY <2>1, <2>2
<1> QED  BY <1>7, <1>9, <1>10 DEF n

(* A tick as the system calls see it.                                      *)
LEMMA TickMaps ==
  ASSUME SleepInv, updateTime, NEW r, r = list'
  PROVE  /\ r \in Seq(Node) /\ Distinct(r) /\ (r # << >> => r[1].timeLeft > 0)
         /\ LeftOf(r) = [t \in Thread |-> IF LeftOf(list)[t] > 0
                                          THEN LeftOf(list)[t] - 1 ELSE 0]
         /\ LET a == Order(list)
                due == Cardinality({k \in DOMAIN a : LeftOf(list)[a[k]] = 1})
            IN  Order(r) = SubSeq(a, due + 1, Len(a))
<1> DEFINE n == Len(list)
           w == Waits(list)
           v == Waits(r)
<1>1. w = Waits(list) /\ v = Waits(r)
  OBVIOUS
<1> HIDE DEF w, v
<1>2. PICK m \in 0..n : Ticked(list, m, r)
  BY TickNodes
<1>3. /\ list \in Seq(Node) /\ Distinct(list) /\ (list # << >> => list[1].timeLeft > 0)
      /\ list # << >>
  BY TickNodes DEF SleepInv, HeadNeverWraps
<1>4. /\ \A k \in 1..m : w[k] = 1
      /\ \A k \in (m + 1)..n : w[k] \in Nat /\ w[k] >= 2
      /\ \A k \in 1..(n - m) : v[k] = w[k + m] - 1
  BY <1>1, <1>2, <1>3, TickWaits
<1>5. /\ n \in Nat /\ DOMAIN list = 1..n /\ \A k \in 1..n : list[k].thread \in Thread
  BY <1>3, NodesAre
<1>6. /\ r \in Seq(Node) /\ Len(r) = n - m /\ (r # << >> => r[1].timeLeft > 0)
      /\ \A k \in 1..(n - m) : r[k].thread = list[k + m].thread
  BY <1>2 DEF Ticked
<1>7. DOMAIN r = 1..(n - m)
  BY <1>6, NodesAre
<1> HIDE DEF n
<1>8. \A j, k \in 1..n : list[j].thread = list[k].thread => j = k
  BY <1>3, <1>5 DEF Distinct
<1>9. Distinct(r)
  <2>1. SUFFICES ASSUME NEW j \in 1..(n - m), NEW k \in 1..(n - m), r[j].thread = r[k].thread
                 PROVE  j = k
    BY <1>7 DEF Distinct
  <2>2. j + m \in 1..n /\ k + m \in 1..n
    BY <1>5
  <2>3. j + m = k + m
    BY <1>6, <1>8, <2>1, <2>2
  <2> QED  BY <1>5, <2>3
<1>10. /\ LeftOf(list) \in [Thread -> Nat]
       /\ \A k \in 1..n : LeftOf(list)[list[k].thread] = w[k]
       /\ \A u \in Thread : (\A k \in 1..n : list[k].thread # u) => LeftOf(list)[u] = 0
  BY <1>1, <1>3, LeftIs DEF n
<1>11. /\ LeftOf(r) \in [Thread -> Nat]
       /\ \A k \in 1..(n - m) : LeftOf(r)[r[k].thread] = v[k]
       /\ \A u \in Thread : (\A k \in 1..(n - m) : r[k].thread # u) => LeftOf(r)[u] = 0
  BY <1>1, <1>6, <1>9, LeftIs
<1>12. ASSUME NEW u \in Thread
       PROVE  LeftOf(r)[u] = IF LeftOf(list)[u] > 0 THEN LeftOf(list)[u] - 1 ELSE 0
  <2>1. ASSUME \A k \in 1..n : list[k].thread # u
        PROVE  LeftOf(r)[u] = 0 /\ LeftOf(list)[u] = 0
    <3>1. ASSUME NEW k \in 1..(n - m) PROVE r[k].thread # u
      <4>1. k + m \in 1..n
        BY <1>5
      <4> QED  BY <1>6, <2>1, <4>1
    <3> QED  BY <1>10, <1>11, <2>1, <3>1
  <2>2. ASSUME NEW k \in 1..m, list[k].thread = u
        PROVE  LeftOf(r)[u] = 0 /\ LeftOf(list)[u] = 1
    <3>1. k \in 1..n
      BY <1>5
    <3>2. ASSUME NEW j \in 1..(n - m) PROVE r[j].thread # u
      <4>1. j + m \in 1..n /\ j + m # k
        BY <1>5
      <4> QED  BY <1>6, <1>8, <2>2, <3>1, <4>1
    <3> QED  BY <1>4, <1>10, <1>11, <2>2, <3>1, <3>2
  <2>3. ASSUME NEW k \in (m + 1)..n, list[k].thread = u
        PROVE  /\ LeftOf(r)[u] = LeftOf(list)[u] - 1 /\ LeftOf(list)[u] \in Nat
               /\ LeftOf(list)[u] >= 2
    <3>1. k \in 1..n /\ k - m \in 1..(n - m) /\ (k - m) + m = k
      BY <1>5
    <3>2. r[k - m].thread = u
      BY <1>6, <2>3, <3>1
    <3>3. LeftOf(r)[u] = w[k] - 1
      BY <1>4, <1>11, <3>1, <3>2
    <3> QED  BY <1>4, <1>10, <2>3, <3>1, <3>3
  <2>4. \A k \in 1..n : k \in 1..m \/ k \in (m + 1)..n
    BY <1>5
  <2> QED  BY <2>1, <2>2, <2>3, <2>4
<1>13. LeftOf(r) = [t \in Thread |-> IF LeftOf(list)[t] > 0
                                     THEN LeftOf(list)[t] - 1 ELSE 0]
  BY <1>11, <1>12
<1> DEFINE a == Order(list)
           due == Cardinality({k \in DOMAIN a : LeftOf(list)[a[k]] = 1})
<1>14. /\ a \in Seq(Thread) /\ Len(a) = n /\ DOMAIN a = 1..n
       /\ \A k \in 1..n : a[k] = list[k].thread /\ a[k] \in Thread
  BY <1>3, OrderIs, LenProperties DEF n
<1>15. due = m
  <2>1. ASSUME NEW k \in 1..n PROVE LeftOf(list)[a[k]] = 1 <=> k \in 1..m
    <3>1. LeftOf(list)[a[k]] = w[k]
      BY <1>10, <1>14
    <3>2. CASE k \in 1..m
      BY <1>4, <3>1, <3>2
    <3>3. CASE k \in (m + 1)..n
      <4>1. k \notin 1..m
        BY <1>5, <3>3
      <4> QED  BY <1>4, <3>1, <3>3, <4>1
    <3> QED  BY <1>5, <3>2, <3>3
  <2>2. \A k \in 1..m : k \in 1..n
    BY <1>5
  <2> HIDE DEF a
  <2>3. {k \in DOMAIN a : LeftOf(list)[a[k]] = 1} = 1..m
    BY <1>14, <2>1, <2>2
  <2>4. Cardinality(1..m) = m
    <3>1. 1 \in Int /\ m \in Int /\ m - 1 + 1 = m /\ (1 > m => m = 0)
      BY <1>5
    <3> QED  BY <3>1, FS_Interval
  <2> QED  BY <2>3, <2>4
<1> HIDE DEF due, a
<1>16. Order(r) = SubSeq(a, m + 1, n)
  <2> DEFINE o == Order(r)
             s == SubSeq(a, m + 1, n)
  <2>1. /\ o \in Seq(Thread) /\ Len(o) = n - m
        /\ \A k \in 1..(n - m) : o[k] = r[k].thread
    BY <1>6, OrderIs
  <2>2. /\ s \in Seq(Thread) /\ Len(s) = IF m + 1 <= n THEN n - (m + 1) + 1 ELSE 0
        /\ \A k \in 1..(n - (m + 1) + 1) : s[k] = a[(m + 1) + k - 1]
    <3>1. m + 1 \in Int /\ n \in Int /\ \A k \in (m + 1)..n : a[k] \in Thread
      BY <1>5, <1>14
    <3> QED  BY <3>1, SubSeqProperties
  <2> HIDE DEF o, s
  <2>3. Len(s) = n - m
    BY <1>5, <2>2
  <2>4. ASSUME NEW k \in 1..(n - m) PROVE o[k] = s[k]
    <3>1. /\ k \in 1..(n - (m + 1) + 1) /\ (m + 1) + k - 1 = k + m /\ k + m \in 1..n
      BY <1>5
    <3> QED  BY <1>6, <1>14, <2>1, <2>2, <3>1
  <2>5. o = s
    <3>1. Len(o) = Len(s) /\ \A k \in 1..Len(o) : o[k] = s[k]
      BY <2>1, <2>3, <2>4
    <3> QED  BY <2>1, <2>2, <3>1, SeqEqual
  <2> QED  BY <2>5 DEF o, s
<1> QED  BY <1>6, <1>9, <1>13, <1>14, <1>15, <1>16 DEF a, due

-----------------------------------------------------------------------------
(***************************************************************************)
(* The invariant, and the refinement.                                      *)
(***************************************************************************)

LEMMA SleepAlways == Spec => []SleepInv
<1>1. Init => SleepInv
  BY EmptySeq DEF Init, SleepInv, Distinct, HeadNeverWraps
<1>2. SleepInv /\ [Next]_list => SleepInv'
  <2>1. SUFFICES ASSUME SleepInv, [Next]_list PROVE SleepInv'
    OBVIOUS
  <2>2. ASSUME NEW t \in Thread \ Asleep, NEW time \in SleepTime \ {0}, putToSleep(t, time)
        PROVE  SleepInv'
    <3> DEFINE r == list'
    <3>1. r = list'
      OBVIOUS
    <3> HIDE DEF r
    <3>2. time \in 1..(UIntLimit - 1) /\ t \in Thread \ Threads(list)
      BY SleepAssumption DEF Asleep
    <3>3. r \in Seq(Node) /\ Distinct(r) /\ (r # << >> => r[1].timeLeft > 0)
      BY <2>1, <2>2, <3>1, <3>2, PutMaps
    <3> QED  BY <3>1, <3>3 DEF SleepInv, HeadNeverWraps
  <2>3. CASE updateTime
    <3> DEFINE r == list'
    <3>1. r = list'
      OBVIOUS
    <3> HIDE DEF r
    <3>2. r \in Seq(Node) /\ Distinct(r) /\ (r # << >> => r[1].timeLeft > 0)
      BY <2>1, <2>3, <3>1, TickMaps
    <3> QED  BY <3>1, <3>2 DEF SleepInv, HeadNeverWraps
  <2>4. CASE UNCHANGED list
    BY <2>1, <2>4 DEF SleepInv, HeadNeverWraps
  <2> QED  BY <2>1, <2>2, <2>3, <2>4 DEF Next
<1> QED  BY <1>1, <1>2, PTL DEF Spec

(* The first node always has a tick to go: its decrement never wraps.      *)
THEOREM NeverWraps == Spec => []HeadNeverWraps
<1>1. SleepInv => HeadNeverWraps
  BY DEF SleepInv
<1> QED  BY <1>1, SleepAlways, PTL

(* The list is well typed, and no thread sleeps twice.                     *)
THEOREM SleepersTyped == Spec => []TypeOK
<1>1. SleepInv => TypeOK
  <2>1. SUFFICES ASSUME SleepInv PROVE TypeOK
    OBVIOUS
  <2> DEFINE n == Len(list)
             f == [k \in 1..n |-> list[k].thread]
  <2>2. list \in Seq(Node) /\ n \in Nat /\ DOMAIN list = 1..n
    BY <2>1, NodesAre DEF SleepInv
  <2>3. \A j, k \in 1..n : list[j].thread = list[k].thread => j = k
    BY <2>1, <2>2 DEF SleepInv, Distinct
  <2> HIDE DEF n
  <2>4. f \in Bijection(1..n, Asleep)
    <3>1. f \in [1..n -> Asleep] /\ \A u \in Asleep : \E k \in 1..n : f[k] = u
      BY <2>2 DEF Asleep, Threads
    <3>2. \A j, k \in 1..n : f[j] = f[k] => j = k
      BY <2>3
    <3> HIDE DEF f
    <3> QED  BY <3>1, <3>2 DEF Bijection, Injection, Surjection, IsInjective
  <2>5. ExistsBijection(1..n, Asleep)
    <3> HIDE DEF f
    <3> QED  BY <2>4, Fun_ExistsBij
  <2> QED  BY <2>2, <2>5, FS_CountingElements DEF TypeOK, n
<1> QED  BY <1>1, SleepAlways, PTL

LEMMA SameCount == \A S : Abstract!Cardinality(S) = Cardinality(S)
BY DEF Abstract!Cardinality, Cardinality

LEMMA NextMaps == SleepInv /\ [Next]_list =>
                    [Abstract!SleepersNext]_<<Order(list), LeftOf(list)>>
<1>1. SUFFICES ASSUME SleepInv, [Next]_list
               PROVE  Abstract!SleepersNext \/ UNCHANGED <<Order(list), LeftOf(list)>>
  OBVIOUS
<1>2. ASSUME NEW t \in Thread \ Asleep, NEW time \in SleepTime \ {0}, putToSleep(t, time)
      PROVE  Abstract!SleepersNext
  <2> DEFINE r == list'
  <2>1. r = list'
    OBVIOUS
  <2> HIDE DEF r
  <2>2. time \in 1..(UIntLimit - 1) /\ t \in Thread \ Threads(list)
    BY SleepAssumption DEF Asleep
  <2>3. /\ LeftOf(list)[t] = 0
        /\ LeftOf(r) = [LeftOf(list) EXCEPT ![t] = time]
        /\ LET a == Order(list)
               p == 1 + Cardinality({k \in DOMAIN a : LeftOf(list)[a[k]] < time})
           IN  Order(r) = SubSeq(a, 1, p - 1) \o <<t>> \o SubSeq(a, p, Len(a))
    BY <1>1, <1>2, <2>1, <2>2, PutMaps
  <2>4. Abstract!PutToSleep(t, time)
    BY <2>1, <2>3, SameCount DEF Abstract!PutToSleep, Abstract!Position
  <2>5. Abstract!SleepersNext
    BY <2>3, <2>4 DEF Abstract!SleepersNext
  <2> QED  BY <2>5
<1>3. CASE updateTime
  <2> DEFINE r == list'
  <2>1. r = list'
    OBVIOUS
  <2> HIDE DEF r
  <2>2. /\ LeftOf(r) = [t \in Thread |-> IF LeftOf(list)[t] > 0
                                         THEN LeftOf(list)[t] - 1 ELSE 0]
        /\ LET a == Order(list)
               due == Cardinality({k \in DOMAIN a : LeftOf(list)[a[k]] = 1})
           IN  Order(r) = SubSeq(a, due + 1, Len(a))
    BY <1>1, <1>3, <2>1, TickMaps
  <2>3. Abstract!UpdateTime
    BY <2>1, <2>2, SameCount DEF Abstract!UpdateTime, Abstract!Due
  <2> QED  BY <2>3 DEF Abstract!SleepersNext
<1>4. CASE UNCHANGED list
  BY <1>4
<1> QED  BY <1>1, <1>2, <1>3, <1>4 DEF Next

(* The list of differences implements the list of times: whatever the      *)
(* others ask for, a thread wakes at the tick it asked for, and those that *)
(* wake together wake in the order Sleepers says.                          *)
THEOREM SleepersImplemented == Spec => WakesOnTime
<1>1. Init => Abstract!SleepersInit
  <2>1. ASSUME Init PROVE Order(list) = << >> /\ LeftOf(list) = [t \in Thread |-> 0]
    BY <2>1 DEF Init, Order, LeftOf, Threads
  <2> QED  BY <2>1 DEF Abstract!SleepersInit
<1>2. SleepInv /\ [Next]_list => [Abstract!SleepersNext]_<<Order(list), LeftOf(list)>>
  BY NextMaps
<1> QED  BY <1>1, <1>2, SleepAlways, PTL
         DEF Spec, WakesOnTime, Abstract!SleepersSpec

=============================================================================
