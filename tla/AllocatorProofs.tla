--------------------------- MODULE AllocatorProofs ---------------------------
(***************************************************************************)
(* Proofs about the allocator, for every size of the heap and of a block,  *)
(* and every order of requests and frees: each block has one owner, free   *)
(* neighbours are joined, regions are large enough, and a request is       *)
(* refused only when no run of free blocks could hold it.                  *)
(*                                                                         *)
(* The invariant says of each block that it is free or in use and not      *)
(* both, which is what one fragment or region next to another cannot say.  *)
(* From it follows where a region is put back in the list, and that it     *)
(* touches none but its neighbours.                                        *)
(***************************************************************************)
EXTENDS MemoryAllocator, WellFoundedInduction, FiniteSetTheorems,
        SequenceTheorems, TLAPS

Fragment == [addr : 0..(HeapBlocks - 1), num : 1..HeapBlocks]

(* Fragments in order, that may touch; those that do not; and all of them  *)
(* in the heap.                                                            *)
Sorted(q) == \A i, j \in DOMAIN q : i < j => q[i].addr + q[i].num <= q[j].addr
GapAfter(q, k) == q[k].addr + q[k].num < q[k + 1].addr
Within(q) == \A i \in DOMAIN q : q[i].addr + q[i].num <= HeapBlocks

(* A block is in a fragment of a list, or in a region.                     *)
Covers(q, b) == \E i \in DOMAIN q : q[i].addr <= b /\ b < q[i].addr + q[i].num
Used(b) == \E a \in DOMAIN desc : a <= b /\ b < a + desc[a]

FreeListInv == Sorted(fmem) /\ FreeListJoined /\ Within(fmem)
RegionsInv ==
  /\ \A a \in DOMAIN desc : a + desc[a] <= HeapBlocks
  /\ \A a, b \in DOMAIN desc : a < b => a + desc[a] <= b
FreeOrUsed == \A b \in 0..(HeapBlocks - 1) : Covers(fmem, b) <=> ~Used(b)
RoomInv == \A a \in DOMAIN desc : Needed(asked[a]) <= desc[a]

AllocatorInv == TypeOK /\ FreeListInv /\ RegionsInv /\ FreeOrUsed /\ RoomInv

-----------------------------------------------------------------------------
(***************************************************************************)
(* The first of several places.                                            *)
(***************************************************************************)

LEMMA Least ==
  ASSUME NEW T \in SUBSET Nat, T # {}
  PROVE  \E m \in T : \A k \in T : ~(k < m)
<1> DEFINE R == OpToRel(<, Nat)
<1>1. \A x, y \in Nat : x < y => <<x, y>> \in R
  BY DEF OpToRel
<1>2. IsWellFoundedOn(R, Nat)
  BY NatLessThanWellFounded
<1> HIDE DEF R
<1>3. PICK m \in T : \A y \in T : ~ (<<y, m>> \in R)
  BY <1>2, WFMin
<1>4. \A k \in T : ~(k < m)
  BY <1>1, <1>3
<1> QED  BY <1>4

-----------------------------------------------------------------------------
(***************************************************************************)
(* Lists of fragments.                                                     *)
(***************************************************************************)

(* The element k of r, which is q without its element i; and of r, which is *)
(* q with x in front of its element i.                                     *)
ElementBut(q, i, r, k) == r[k] = IF k < i THEN q[k] ELSE q[k + 1]
ElementOf(q, i, x, r, k) ==
  r[k] = IF k < i THEN q[k] ELSE IF k = i THEN x ELSE q[k - 1]

LEMMA WithoutOne ==
  ASSUME NEW S, NEW q \in Seq(S), NEW i \in 1..Len(q), NEW r, r = Without(q, i)
  PROVE  /\ r \in Seq(S) /\ Len(r) = Len(q) - 1 /\ Len(q) \in Nat
         /\ \A k \in 1..(Len(q) - 1) : ElementBut(q, i, r, k)
<1> DEFINE n == Len(q)
           front == SubSeq(q, 1, i - 1)
           back == SubSeq(q, i + 1, n)
<1>1. n \in Nat /\ i \in Int /\ i - 1 \in Int /\ i + 1 \in Int /\ n \in Int /\ 1 <= i /\ i <= n
  BY LenProperties
<1>2. \A k \in 1..n : q[k] \in S
  BY ElementOfSeq
<1>3. /\ front \in Seq(S) /\ Len(front) = i - 1
      /\ \A k \in 1..(i - 1) : front[k] = q[k]
  <2>1. \A k \in 1..(i - 1) : q[k] \in S
    BY <1>1, <1>2
  <2>2. /\ front \in Seq(S)
        /\ Len(front) = IF 1 <= i - 1 THEN (i - 1) - 1 + 1 ELSE 0
        /\ \A k \in 1..((i - 1) - 1 + 1) : front[k] = q[1 + k - 1]
    BY <1>1, <2>1, SubSeqProperties
  <2> HIDE DEF front
  <2> QED  BY <1>1, <2>2
<1>4. /\ back \in Seq(S) /\ Len(back) = n - i
      /\ \A k \in 1..(n - i) : back[k] = q[i + k]
  <2>1. \A k \in (i + 1)..n : q[k] \in S
    BY <1>1, <1>2
  <2>2. /\ back \in Seq(S)
        /\ Len(back) = IF i + 1 <= n THEN n - (i + 1) + 1 ELSE 0
        /\ \A k \in 1..(n - (i + 1) + 1) : back[k] = q[(i + 1) + k - 1]
    BY <1>1, <2>1, SubSeqProperties
  <2> HIDE DEF back, n
  <2> QED  BY <1>1, <2>2
<1>5. r = front \o back
  BY DEF Without
<1> HIDE DEF front, back, n
<1>6. /\ r \in Seq(S) /\ Len(r) = Len(front) + Len(back)
      /\ \A k \in 1..(Len(front) + Len(back)) :
           r[k] = IF k <= Len(front) THEN front[k] ELSE back[k - Len(front)]
  BY <1>3, <1>4, <1>5, ConcatProperties
<1>7. Len(r) = n - 1
  BY <1>1, <1>3, <1>4, <1>6
<1>8. ASSUME NEW k \in 1..(n - 1)
      PROVE  r[k] = IF k < i THEN q[k] ELSE q[k + 1]
  <2>1. r[k] = IF k <= i - 1 THEN front[k] ELSE back[k - (i - 1)]
    BY <1>1, <1>3, <1>4, <1>6
  <2>2. CASE k < i
    BY <1>1, <1>3, <2>1, <2>2
  <2>3. CASE ~(k < i)
    <3>1. k - (i - 1) \in 1..(n - i) /\ i + (k - (i - 1)) = k + 1
      BY <1>1, <2>3
    <3> QED  BY <1>1, <1>4, <2>1, <2>3, <3>1
  <2> QED  BY <2>2, <2>3
<1> QED  BY <1>1, <1>6, <1>7, <1>8 DEF n, ElementBut

(* The list q with x in front of its element i.                            *)
Inserted(q, i, x) == SubSeq(q, 1, i - 1) \o <<x>> \o SubSeq(q, i, Len(q))

LEMMA WithOne ==
  ASSUME NEW S, NEW q \in Seq(S), NEW i \in 1..(Len(q) + 1), NEW x \in S,
         NEW r, r = Inserted(q, i, x)
  PROVE  /\ r \in Seq(S) /\ Len(r) = Len(q) + 1 /\ Len(q) \in Nat
         /\ \A k \in 1..(Len(q) + 1) : ElementOf(q, i, x, r, k)
<1> DEFINE n == Len(q)
           front == SubSeq(q, 1, i - 1)
           one == <<x>>
           back == SubSeq(q, i, n)
           most == front \o one
<1>1. n \in Nat /\ i \in Int /\ i - 1 \in Int /\ n \in Int /\ 1 <= i /\ i <= n + 1
  BY LenProperties
<1>2. \A k \in 1..n : q[k] \in S
  BY ElementOfSeq
<1>3. /\ front \in Seq(S) /\ Len(front) = i - 1
      /\ \A k \in 1..(i - 1) : front[k] = q[k]
  <2>1. \A k \in 1..(i - 1) : q[k] \in S
    BY <1>1, <1>2
  <2>2. /\ front \in Seq(S)
        /\ Len(front) = IF 1 <= i - 1 THEN (i - 1) - 1 + 1 ELSE 0
        /\ \A k \in 1..((i - 1) - 1 + 1) : front[k] = q[1 + k - 1]
    BY <1>1, <2>1, SubSeqProperties
  <2> HIDE DEF front
  <2> QED  BY <1>1, <2>2
<1>4. /\ back \in Seq(S) /\ Len(back) = n - i + 1
      /\ \A k \in 1..(n - i + 1) : back[k] = q[i + k - 1]
  <2>1. \A k \in i..n : q[k] \in S
    BY <1>1, <1>2
  <2>2. /\ back \in Seq(S)
        /\ Len(back) = IF i <= n THEN n - i + 1 ELSE 0
        /\ \A k \in 1..(n - i + 1) : back[k] = q[i + k - 1]
    BY <1>1, <2>1, SubSeqProperties
  <2> HIDE DEF back, n
  <2> QED  BY <1>1, <2>2
<1>5. one \in Seq(S) /\ Len(one) = 1 /\ one[1] = x
  OBVIOUS
<1>6. r = most \o back
  BY DEF Inserted
<1> HIDE DEF front, back, n, one
<1>7. /\ most \in Seq(S) /\ Len(most) = Len(front) + Len(one)
      /\ \A k \in 1..(Len(front) + Len(one)) :
           most[k] = IF k <= Len(front) THEN front[k] ELSE one[k - Len(front)]
  BY <1>3, <1>5, ConcatProperties
<1> HIDE DEF most
<1>8. Len(most) = i /\ \A k \in 1..i : most[k] = IF k < i THEN q[k] ELSE x
  <2>1. Len(most) = i
    BY <1>1, <1>3, <1>5, <1>7
  <2>2. ASSUME NEW k \in 1..i PROVE most[k] = IF k < i THEN q[k] ELSE x
    <3>1. most[k] = IF k <= i - 1 THEN front[k] ELSE one[k - (i - 1)]
      BY <1>1, <1>3, <1>5, <1>7
    <3>2. CASE k < i
      BY <1>1, <1>3, <3>1, <3>2
    <3>3. CASE ~(k < i)
      <4>1. k - (i - 1) = 1 /\ ~(k <= i - 1)
        BY <1>1, <3>3
      <4> QED  BY <1>5, <3>1, <3>3, <4>1
    <3> QED  BY <3>2, <3>3
  <2> QED  BY <2>1, <2>2
<1>9. /\ r \in Seq(S) /\ Len(r) = Len(most) + Len(back)
      /\ \A k \in 1..(Len(most) + Len(back)) :
           r[k] = IF k <= Len(most) THEN most[k] ELSE back[k - Len(most)]
  BY <1>4, <1>6, <1>7, ConcatProperties
<1>10. Len(r) = n + 1
  BY <1>1, <1>4, <1>8, <1>9
<1>11. ASSUME NEW k \in 1..(n + 1)
       PROVE  r[k] = IF k < i THEN q[k] ELSE IF k = i THEN x ELSE q[k - 1]
  <2>1. r[k] = IF k <= i THEN most[k] ELSE back[k - i]
    BY <1>1, <1>4, <1>8, <1>9
  <2>2. CASE k <= i
    BY <1>1, <1>8, <2>1, <2>2
  <2>3. CASE ~(k <= i)
    <3>1. k - i \in 1..(n - i + 1) /\ i + (k - i) - 1 = k - 1 /\ ~(k < i) /\ k # i
      BY <1>1, <2>3
    <3> QED  BY <1>4, <2>1, <2>3, <3>1
  <2> QED  BY <2>2, <2>3
<1> QED  BY <1>1, <1>9, <1>10, <1>11 DEF n, ElementOf

(* Joining an element with the next keeps the list's order and its blocks, *)
(* and closes the one gap it is asked to.  The set P is of earlier places  *)
(* where fragments may touch.                                              *)
LEMMA JoinOne ==
  ASSUME NEW q \in Seq(Fragment), Sorted(q), Within(q),
         NEW i \in 1..Len(q), NEW P \in SUBSET (0..(i - 1)),
         \A k \in 1..(Len(q) - 1) : k # i /\ k \notin P => GapAfter(q, k),
         NEW r, r = tryToJoin(q, i)
  PROVE  /\ r \in Seq(Fragment) /\ Sorted(r) /\ Within(r)
         /\ Len(r) \in Nat /\ i <= Len(r)
         /\ \A k \in 1..(Len(r) - 1) : k \notin P => GapAfter(r, k)
         /\ \A b \in Int : Covers(r, b) <=> Covers(q, b)
<1>1. /\ Len(q) \in Nat /\ DOMAIN q = 1..Len(q) /\ i \in Int /\ 1 <= i /\ i <= Len(q)
      /\ HeapBlocks \in Nat
      /\ \A k \in 1..Len(q) :
           /\ q[k] \in Fragment /\ q[k].addr \in Nat /\ q[k].num \in Nat
           /\ q[k].num >= 1
  <2>1. Len(q) \in Nat /\ DOMAIN q = 1..Len(q)
    BY LenProperties
  <2>2. \A k \in 1..Len(q) : q[k] \in Fragment
    BY ElementOfSeq
  <2>3. HeapBlocks \in Nat
    BY AllocatorAssumption
  <2> QED  BY <2>1, <2>2, <2>3 DEF Fragment
<1>0. Len(q) \in Nat /\ i \in Int /\ 1 <= i /\ i <= Len(q) /\ HeapBlocks \in Nat
  BY <1>1
<1>2. CASE i = Len(q) \/ (i # Len(q) /\ q[i].addr + q[i].num # q[i + 1].addr)
  <2>1. r = q
    BY <1>2 DEF tryToJoin
  <2>2. i # Len(q) => GapAfter(q, i)
    <3>1. SUFFICES ASSUME i # Len(q) PROVE GapAfter(q, i)
      OBVIOUS
    <3>2. i + 1 \in 1..Len(q) /\ i < i + 1
      BY <1>0, <3>1
    <3>3. q[i].addr + q[i].num <= q[i + 1].addr
      BY <1>1, <3>2 DEF Sorted
    <3>4. q[i].addr + q[i].num \in Int /\ q[i + 1].addr \in Int
      BY <1>1, <3>2
    <3>5. q[i].addr + q[i].num # q[i + 1].addr
      BY <1>2, <3>1
    <3> QED  BY <3>3, <3>4, <3>5 DEF GapAfter
  <2>3. \A k \in 1..(Len(q) - 1) : k \notin P => GapAfter(q, k)
    <3>1. SUFFICES ASSUME NEW k \in 1..(Len(q) - 1), k \notin P PROVE GapAfter(q, k)
      OBVIOUS
    <3>2. k = i => i # Len(q)
      BY <1>0
    <3> QED  BY <2>2, <3>1, <3>2
  <2> QED  BY <1>1, <2>1, <2>3
<1>3. CASE i # Len(q) /\ q[i].addr + q[i].num = q[i + 1].addr
  <2> DEFINE m == [q EXCEPT ![i].num = @ + q[i + 1].num]
             n == Len(q)
  <2>1. i + 1 \in 1..n /\ i \in 1..n /\ n \in Nat
    BY <1>1, <1>3
  <2>2. q[i].num + q[i + 1].num \in 1..HeapBlocks
    <3>1. q[i + 1].addr + q[i + 1].num <= HeapBlocks
      BY <1>1, <2>1 DEF Within
    <3>2. /\ q[i].num \in Nat /\ q[i].num >= 1 /\ q[i].addr \in Nat
          /\ q[i + 1].num \in Nat /\ q[i + 1].num >= 1
      BY <1>1, <2>1
    <3> HIDE DEF m, n
    <3> QED  BY <1>0, <1>3, <3>1, <3>2
  <2>3. m \in Seq(Fragment)
    <3>1. q \in [1..n -> Fragment]
      BY <1>1, LenProperties
    <3>2. [q[i] EXCEPT !.num = @ + q[i + 1].num] \in Fragment
      BY <1>1, <2>1, <2>2 DEF Fragment
    <3>3. m = [q EXCEPT ![i] = [q[i] EXCEPT !.num = @ + q[i + 1].num]]
      OBVIOUS
    <3>4. m \in [1..n -> Fragment]
      BY <3>1, <3>2, <3>3
    <3> QED  BY <1>1, <3>4
  <2>4. Len(m) = n
    BY <1>1, <2>3, LenProperties
  <2>5. /\ m[i].addr = q[i].addr /\ m[i].num = q[i].num + q[i + 1].num
        /\ \A k \in 1..n : k # i => m[k] = q[k]
    <3>1. DOMAIN q = 1..n /\ q[i] \in Fragment
      BY <1>1, <2>1
    <3> QED  BY <2>1, <3>1 DEF Fragment
  <2>6. r = Without(m, i + 1)
    BY <1>3 DEF tryToJoin
  <2> HIDE DEF m
  <2>7. /\ r \in Seq(Fragment) /\ Len(r) = n - 1
        /\ \A k \in 1..(n - 1) : r[k] = IF k < i + 1 THEN m[k] ELSE m[k + 1]
    <3> DEFINE w == i + 1
    <3>1. w \in 1..Len(m) /\ r = Without(m, w)
      BY <2>1, <2>4, <2>6
    <3> HIDE DEF n, w
    <3>2. /\ r \in Seq(Fragment) /\ Len(r) = Len(m) - 1
          /\ \A k \in 1..(Len(m) - 1) : ElementBut(m, w, r, k)
      BY <2>3, <3>1, WithoutOne
    <3> QED  BY <2>4, <3>2 DEF w, ElementBut
  <2> HIDE DEF n
  <2>8. DOMAIN r = 1..(n - 1) /\ Len(r) \in Nat /\ i <= Len(r)
    BY <1>1, <2>1, <2>7, LenProperties DEF n
  <2>9. /\ \A k \in 1..(n - 1) : k < i => r[k] = q[k]
        /\ r[i].addr = q[i].addr /\ r[i].num = q[i].num + q[i + 1].num
        /\ \A k \in 1..(n - 1) : k > i => r[k] = q[k + 1]
    <3>1. i \in 1..(n - 1)
      BY <2>1
    <3>2. \A k \in 1..(n - 1) : k > i => (~(k < i + 1) /\ k + 1 \in 1..n /\ k + 1 # i)
      BY <2>1
    <3>3. \A k \in 1..(n - 1) : k < i => (k < i + 1 /\ k \in 1..n /\ k # i)
      BY <2>1
    <3>4. i < i + 1
      BY <2>1
    <3> QED  BY <2>5, <2>7, <3>1, <3>2, <3>3, <3>4
  <2>10. /\ \A k \in 1..n : q[k].addr \in Nat /\ q[k].num \in Nat /\ q[k].num >= 1
         /\ \A j, k \in 1..n : j < k => q[j].addr + q[j].num <= q[k].addr
         /\ \A k \in 1..n : q[k].addr + q[k].num <= HeapBlocks
         /\ q[i].addr + q[i].num = q[i + 1].addr
    BY <1>1, <1>3 DEF n, Sorted, Within
  (* What the fragment k of the shorter list was made of.                  *)
  <2>11. ASSUME NEW k \in 1..(n - 1)
         PROVE  /\ r[k].addr = q[IF k <= i THEN k ELSE k + 1].addr
                /\ r[k].addr + r[k].num
                     = q[IF k < i THEN k ELSE k + 1].addr + q[IF k < i THEN k ELSE k + 1].num
                /\ (IF k <= i THEN k ELSE k + 1) \in 1..n
                /\ (IF k < i THEN k ELSE k + 1) \in 1..n
    <3>1. CASE k < i
      BY <2>1, <2>9, <3>1
    <3>2. CASE k = i
      BY <2>1, <2>9, <2>10, <3>2
    <3>3. CASE k > i
      BY <2>1, <2>9, <3>3
    <3> QED  BY <2>1, <3>1, <3>2, <3>3
  <2>12. Sorted(r)
    <3>1. SUFFICES ASSUME NEW j \in 1..(n - 1), NEW k \in 1..(n - 1), j < k
                   PROVE  r[j].addr + r[j].num <= r[k].addr
      BY <2>8 DEF Sorted
    <3> DEFINE x == IF j < i THEN j ELSE j + 1
               y == IF k <= i THEN k ELSE k + 1
    <3>2. x \in 1..n /\ y \in 1..n /\ x < y
      BY <2>1, <3>1
    <3>3. r[j].addr + r[j].num = q[x].addr + q[x].num /\ r[k].addr = q[y].addr
      BY <2>11
    <3> HIDE DEF x, y
    <3> QED  BY <2>10, <3>2, <3>3
  <2>13. Within(r)
    BY <2>8, <2>10, <2>11 DEF Within
  <2>14. \A k \in 1..(n - 1 - 1) : k \notin P => GapAfter(r, k)
    <3>1. SUFFICES ASSUME NEW k \in 1..(n - 1 - 1), k \notin P
                   PROVE  GapAfter(r, k)
      OBVIOUS
    <3> DEFINE x == IF k < i THEN k ELSE k + 1
               y == IF k + 1 <= i THEN k + 1 ELSE k + 1 + 1
    <3>2. /\ k \in 1..(n - 1) /\ k + 1 \in 1..(n - 1) /\ y = x + 1
          /\ x \in 1..(n - 1) /\ x # i /\ (x > i \/ x = k)
      BY <2>1
    <3>3. r[k].addr + r[k].num = q[x].addr + q[x].num /\ r[k + 1].addr = q[y].addr
      BY <2>11, <3>2
    <3> HIDE DEF x, y
    <3>4. x \notin P
      BY <2>1, <3>1, <3>2
    <3>5. GapAfter(q, x)
      BY <3>2, <3>4 DEF n
    <3> QED  BY <3>2, <3>3, <3>5 DEF GapAfter
  <2>15. ASSUME NEW b \in Int PROVE Covers(r, b) <=> Covers(q, b)
    <3>1. ASSUME NEW k \in 1..(n - 1), r[k].addr <= b, b < r[k].addr + r[k].num
          PROVE  Covers(q, b)
      <4>1. CASE k # i
        <5> DEFINE x == IF k < i THEN k ELSE k + 1
        <5>1. r[k] = q[x] /\ x \in DOMAIN q
          BY <1>1, <2>1, <2>9, <4>1 DEF n
        <5> HIDE DEF x
        <5> QED  BY <3>1, <5>1 DEF Covers
      <4>2. CASE k = i
        <5>1. \/ q[i].addr <= b /\ b < q[i].addr + q[i].num
              \/ q[i + 1].addr <= b /\ b < q[i + 1].addr + q[i + 1].num
          BY <2>1, <2>9, <2>10, <3>1, <4>2
        <5> QED  BY <1>1, <2>1, <5>1 DEF Covers, n
      <4> QED  BY <4>1, <4>2
    <3>2. ASSUME NEW k \in 1..n, q[k].addr <= b, b < q[k].addr + q[k].num
          PROVE  Covers(r, b)
      <4>1. CASE k < i
        <5>1. k \in 1..(n - 1) /\ r[k] = q[k]
          BY <2>1, <2>9, <4>1
        <5> QED  BY <2>8, <3>2, <5>1 DEF Covers
      <4>2. CASE k = i \/ k = i + 1
        <5> DEFINE w == i + 1
                   A == q[i].addr
                   N == q[i].num
                   B == q[w].addr
                   M == q[w].num
        <5>1. /\ A \in Nat /\ N \in Nat /\ B \in Nat /\ M \in Nat /\ A + N = B
              /\ r[i].addr = A /\ r[i].num = N + M /\ i \in 1..(n - 1)
          BY <2>1, <2>9, <2>10
        <5>2. \/ A <= b /\ b < A + N
              \/ B <= b /\ b < B + M
          BY <3>2, <4>2
        <5> HIDE DEF A, N, B, M, w
        <5>3. A <= b /\ b < A + (N + M)
          BY <5>1, <5>2
        <5> QED  BY <2>8, <5>1, <5>3 DEF Covers
      <4>3. CASE k > i + 1
        <5> DEFINE x == k - 1
        <5>1. x \in 1..(n - 1) /\ x > i /\ x + 1 = k
          BY <2>1, <4>3
        <5>2. r[x] = q[k]
          BY <2>9, <5>1
        <5> HIDE DEF x
        <5> QED  BY <2>8, <3>2, <5>1, <5>2 DEF Covers
      <4> QED  BY <2>1, <4>1, <4>2, <4>3
    <3> QED  BY <1>1, <2>8, <3>1, <3>2 DEF Covers, n
  <2> QED  BY <2>7, <2>8, <2>12, <2>13, <2>14, <2>15
<1> QED  BY <1>2, <1>3

-----------------------------------------------------------------------------
(***************************************************************************)
(* Allocating.                                                             *)
(***************************************************************************)

LEMMA FragmentsAre ==
  ASSUME NEW q \in Seq(Fragment)
  PROVE  /\ Len(q) \in Nat /\ DOMAIN q = 1..Len(q)
         /\ \A k \in 1..Len(q) :
              /\ q[k] \in Fragment /\ q[k].addr \in Nat /\ q[k].num \in Nat
              /\ q[k].num >= 1
<1>1. Len(q) \in Nat /\ DOMAIN q = 1..Len(q)
  BY LenProperties
<1>2. \A k \in 1..Len(q) : q[k] \in Fragment
  BY ElementOfSeq
<1>3. HeapBlocks \in Nat
  BY AllocatorAssumption
<1> QED  BY <1>1, <1>2, <1>3 DEF Fragment

(* The search of mem_alloc finds a fragment if there is one.               *)
LEMMA FirstFitFound ==
  ASSUME fmem \in Seq(Fragment), NEW s \in Nat, \E j \in DOMAIN fmem : fmem[j].num >= s,
         NEW i, i = FirstFit(s)
  PROVE  i \in 1..Len(fmem) /\ fmem[i].num >= s
<1> DEFINE T == {j \in DOMAIN fmem : fmem[j].num >= s}
<1>1. Len(fmem) \in Nat /\ DOMAIN fmem = 1..Len(fmem)
  BY FragmentsAre
<1>2. T \in SUBSET Nat /\ T # {}
  BY <1>1
<1>3. PICK m \in T : \A k \in T : ~(k < m)
  BY <1>2, Least
<1>4. \A j \in 1..(m - 1) : j < m /\ j \in DOMAIN fmem
  BY <1>1, <1>2, <1>3
<1>5. \A j \in 1..(m - 1) : ~(fmem[j].num >= s)
  BY <1>3, <1>4
<1>6. \A j \in 1..(m - 1) : fmem[j].num < s
  <2>1. \A j \in 1..(m - 1) : fmem[j].num \in Int
    BY <1>1, <1>4, FragmentsAre
  <2> QED  BY <1>5, <2>1
<1>7. fmem[m].num >= s /\ m \in DOMAIN fmem
  BY <1>3
<1>8. i \in DOMAIN fmem /\ fmem[i].num >= s
  BY <1>6, <1>7 DEF FirstFit
<1> QED  BY <1>1, <1>8

(* What is left of the fragment it finds, and what is given away.          *)
LEMMA CutOne ==
  ASSUME fmem \in Seq(Fragment), FreeListInv, NEW i \in 1..Len(fmem),
         NEW s \in Nat, s >= 1, fmem[i].num >= s,
         NEW got, got = Granted(fmem[i].num, s), NEW r, r = Cut(i, s)
  PROVE  /\ got \in 1..HeapBlocks /\ got >= s /\ got <= fmem[i].num /\ got <= s + 1
         /\ r \in Seq(Fragment) /\ Sorted(r) /\ Within(r)
         /\ \A k \in 1..(Len(r) - 1) : GapAfter(r, k)
         /\ \A b \in Int :
              Covers(r, b) <=> /\ Covers(fmem, b)
                               /\ ~(fmem[i].addr <= b /\ b < fmem[i].addr + got)
<1> DEFINE n == Len(fmem)
<1>1. /\ n \in Nat /\ DOMAIN fmem = 1..n /\ HeapBlocks \in Nat
      /\ \A k \in 1..n :
           /\ fmem[k] \in Fragment /\ fmem[k].addr \in Nat /\ fmem[k].num \in Nat
           /\ fmem[k].num >= 1
  BY FragmentsAre, AllocatorAssumption
<1>2. /\ \A j, k \in 1..n : j < k => fmem[j].addr + fmem[j].num <= fmem[k].addr
      /\ \A k \in 1..n : fmem[k].addr + fmem[k].num <= HeapBlocks
      /\ \A k \in 1..(n - 1) : fmem[k].addr + fmem[k].num < fmem[k + 1].addr
  BY <1>1 DEF FreeListInv, FreeListJoined, Sorted, Within
<1>3. /\ n \in Nat /\ i \in Int /\ 1 <= i /\ i <= n /\ HeapBlocks \in Nat
      /\ fmem[i].addr \in Nat /\ fmem[i].num \in Nat
      /\ fmem[i].addr + fmem[i].num <= HeapBlocks
  BY <1>1, <1>2
<1> HIDE DEF n
<1>4. got \in 1..HeapBlocks /\ got >= s /\ got <= fmem[i].num /\ got <= s + 1
  BY <1>3 DEF Granted
(* No block is in two fragments.                                           *)
<1>5. ASSUME NEW b \in Int, NEW k \in 1..n, k # i,
             fmem[k].addr <= b, b < fmem[k].addr + fmem[k].num
      PROVE  ~(fmem[i].addr <= b /\ b < fmem[i].addr + fmem[i].num)
  <2>1. i < k => fmem[i].addr + fmem[i].num <= fmem[k].addr
    BY <1>2 DEF n
  <2>2. k < i => fmem[k].addr + fmem[k].num <= fmem[i].addr
    BY <1>2 DEF n
  <2>3. fmem[k].addr \in Nat /\ fmem[k].num \in Nat
    BY <1>1
  <2>4. i < k \/ k < i
    BY <1>3, <1>5
  <2> QED  BY <1>3, <1>5, <2>1, <2>2, <2>3, <2>4
<1>6. CASE fmem[i].num - s <= 1
  <2>1. got = fmem[i].num /\ r = Without(fmem, i)
    BY <1>6 DEF Granted, Cut
  <2>2. /\ r \in Seq(Fragment) /\ Len(r) = n - 1
        /\ \A k \in 1..(n - 1) : r[k] = IF k < i THEN fmem[k] ELSE fmem[k + 1]
    <3>1. /\ r \in Seq(Fragment) /\ Len(r) = Len(fmem) - 1
          /\ \A k \in 1..(Len(fmem) - 1) : ElementBut(fmem, i, r, k)
      BY <2>1, WithoutOne
    <3> QED  BY <3>1 DEF n, ElementBut
  <2>3. DOMAIN r = 1..(n - 1)
    BY <2>2, LenProperties
  <2> DEFINE from(k) == IF k < i THEN k ELSE k + 1
  <2>4. \A k \in 1..(n - 1) : r[k] = fmem[from(k)] /\ from(k) \in 1..n
    BY <1>3, <2>2
  <2>5. \A j, k \in 1..(n - 1) : j < k => from(j) < from(k)
    BY <1>3
  <2>6. \A k \in 1..(n - 1 - 1) :
          /\ k \in 1..(n - 1) /\ k + 1 \in 1..(n - 1) /\ from(k) \in 1..(n - 1)
          /\ from(k) + 1 \in 1..n
          /\ from(k + 1) = from(k) + 1 \/ from(k + 1) > from(k) + 1
    BY <1>3
  <2>7. \A k \in 1..n : k # i => \E j \in 1..(n - 1) : from(j) = k
    <3>1. SUFFICES ASSUME NEW k \in 1..n, k # i
                   PROVE  \E j \in 1..(n - 1) : from(j) = k
      OBVIOUS
    <3>2. CASE k < i
      <4>1. k \in 1..(n - 1) /\ from(k) = k
        BY <1>3, <3>2
      <4> QED  BY <4>1
    <3>3. CASE ~(k < i)
      <4>1. k - 1 \in 1..(n - 1) /\ from(k - 1) = k
        BY <1>3, <3>1, <3>3
      <4> QED  BY <4>1
    <3> QED  BY <3>2, <3>3
  <2>8. \A k \in 1..(n - 1) : from(k) # i
    BY <1>3
  <2> HIDE DEF from
  <2>9. Sorted(r)
    BY <1>2, <2>3, <2>4, <2>5 DEF Sorted
  <2>10. Within(r)
    BY <1>2, <2>3, <2>4 DEF Within
  <2>11. ASSUME NEW k \in 1..(n - 1 - 1) PROVE GapAfter(r, k)
    <3> DEFINE x == from(k)
               w == x + 1
               y == from(k + 1)
    <3>1. /\ r[k] = fmem[x] /\ r[k + 1] = fmem[y] /\ x \in 1..(n - 1) /\ x \in 1..n
          /\ y \in 1..n /\ w \in 1..n /\ (y = w \/ y > w)
      BY <2>4, <2>6
    <3>2. fmem[x].addr + fmem[x].num < fmem[w].addr
      BY <1>2, <3>1
    <3> HIDE DEF x, y, w
    <3>3. y = w \/ fmem[w].addr + fmem[w].num <= fmem[y].addr
      BY <1>2, <3>1
    <3>4. /\ fmem[x].addr \in Nat /\ fmem[x].num \in Nat
          /\ fmem[w].addr \in Nat /\ fmem[w].num \in Nat /\ fmem[y].addr \in Nat
      BY <1>1, <3>1
    <3>5. fmem[x].addr + fmem[x].num < fmem[y].addr
      <4>1. CASE y = w
        BY <3>2, <4>1
      <4>2. CASE fmem[w].addr + fmem[w].num <= fmem[y].addr
        <5> DEFINE ex == fmem[x].addr + fmem[x].num
                   aw == fmem[w].addr
                   ay == fmem[y].addr
                   nw == fmem[w].num
        <5>1. ex \in Int /\ aw \in Nat /\ ay \in Nat /\ nw \in Nat /\ ex < aw
              /\ aw + nw <= ay
          BY <3>2, <3>4, <4>2
        <5> HIDE DEF ex, aw, ay, nw
        <5>2. ex < ay
          BY <5>1
        <5> QED  BY <5>2 DEF ex, ay
      <4> QED  BY <3>3, <4>1, <4>2
    <3> QED  BY <3>1, <3>5 DEF GapAfter
  <2>12. ASSUME NEW b \in Int
         PROVE  Covers(r, b) <=> /\ Covers(fmem, b)
                                 /\ ~(fmem[i].addr <= b /\ b < fmem[i].addr + got)
    <3>1. Covers(r, b) <=> \E k \in 1..n : /\ k # i
                                           /\ fmem[k].addr <= b
                                           /\ b < fmem[k].addr + fmem[k].num
      BY <2>3, <2>4, <2>7, <2>8 DEF Covers
    <3> QED  BY <1>1, <1>5, <2>1, <3>1 DEF Covers
  <2> QED  BY <1>4, <2>2, <2>9, <2>10, <2>11, <2>12
<1>7. CASE ~(fmem[i].num - s <= 1)
  <2> DEFINE f == [addr |-> fmem[i].addr + s, num |-> fmem[i].num - s]
  <2>1. got = s /\ r = [fmem EXCEPT ![i] = f]
    BY <1>7 DEF Granted, Cut
  <2>2. f \in Fragment /\ f.addr = fmem[i].addr + s /\ f.num = fmem[i].num - s
    <3>1. fmem[i].addr + s \in 0..(HeapBlocks - 1) /\ fmem[i].num - s \in 1..HeapBlocks
      <4> DEFINE x == fmem[i].addr
                 y == fmem[i].num
      <4>1. /\ x \in Nat /\ y \in Nat /\ s \in Nat /\ x + y <= HeapBlocks /\ y >= s
            /\ ~(y - s <= 1) /\ HeapBlocks \in Nat
        BY <1>3, <1>7
      <4> HIDE DEF x, y
      <4>2. x + s \in 0..(HeapBlocks - 1) /\ y - s \in 1..HeapBlocks
        BY <4>1
      <4> QED  BY <4>2 DEF x, y
    <3> QED  BY <3>1 DEF Fragment
  <2> HIDE DEF f
  <2>3. /\ r \in Seq(Fragment) /\ Len(r) = n /\ DOMAIN r = 1..n /\ r[i] = f
        /\ \A k \in 1..n : k # i => r[k] = fmem[k]
    <3>1. fmem \in [1..n -> Fragment] /\ i \in 1..n
      BY <1>1, LenProperties DEF n
    <3>2. r \in [1..n -> Fragment]
      BY <2>1, <2>2, <3>1
    <3>3. r[i] = f /\ \A k \in 1..n : k # i => r[k] = fmem[k]
      BY <2>1, <3>1
    <3>4. r \in Seq(Fragment)
      BY <1>3, <3>2
    <3>5. DOMAIN r = 1..n /\ DOMAIN r = 1..Len(r) /\ Len(r) \in Nat
      BY <3>2, <3>4, LenProperties
    <3>6. Len(r) = n
      BY <1>3, <3>5
    <3> QED  BY <3>3, <3>4, <3>5, <3>6
  <2>4. /\ r[i].addr = fmem[i].addr + s
        /\ r[i].addr + r[i].num = fmem[i].addr + fmem[i].num
    <3> DEFINE A == fmem[i].addr
               N == fmem[i].num
    <3>1. r[i].addr = A + s /\ r[i].num = N - s /\ A \in Nat /\ N \in Nat
      BY <1>3, <2>2, <2>3
    <3> HIDE DEF A, N
    <3>2. (A + s) + (N - s) = A + N
      BY <3>1
    <3>3. r[i].addr = A + s /\ r[i].addr + r[i].num = A + N
      BY <3>1, <3>2
    <3> QED  BY <3>3 DEF A, N
  <2>5. \A k \in 1..n : /\ r[k].addr + r[k].num = fmem[k].addr + fmem[k].num
                        /\ fmem[k].addr <= r[k].addr
                        /\ fmem[k].addr \in Int /\ r[k].addr \in Int
                        /\ fmem[k].addr + fmem[k].num \in Int
    BY <1>1, <1>3, <2>3, <2>4
  <2>6. Sorted(r)
    <3>1. SUFFICES ASSUME NEW j \in 1..n, NEW k \in 1..n, j < k
                   PROVE  r[j].addr + r[j].num <= r[k].addr
      BY <2>3 DEF Sorted
    <3>2. fmem[j].addr + fmem[j].num <= fmem[k].addr
      BY <1>2, <3>1
    <3> QED  BY <2>5, <3>2
  <2>7. Within(r)
    BY <1>2, <2>3, <2>5 DEF Within
  <2>8. ASSUME NEW k \in 1..(n - 1) PROVE GapAfter(r, k)
    <3>1. k \in 1..n /\ k + 1 \in 1..n
      BY <1>3
    <3>2. fmem[k].addr + fmem[k].num < fmem[k + 1].addr
      BY <1>2
    <3>3. /\ r[k].addr + r[k].num = fmem[k].addr + fmem[k].num
          /\ fmem[k + 1].addr <= r[k + 1].addr /\ fmem[k + 1].addr \in Int
          /\ r[k + 1].addr \in Int /\ fmem[k].addr + fmem[k].num \in Int
      BY <2>5, <3>1
    <3> QED  BY <3>2, <3>3 DEF GapAfter
  <2>9. ASSUME NEW b \in Int
        PROVE  Covers(r, b) <=> /\ Covers(fmem, b)
                                /\ ~(fmem[i].addr <= b /\ b < fmem[i].addr + got)
    <3>1. ASSUME NEW k \in 1..n, k # i
          PROVE  (r[k].addr <= b /\ b < r[k].addr + r[k].num)
                   <=> /\ fmem[k].addr <= b /\ b < fmem[k].addr + fmem[k].num
                       /\ ~(fmem[i].addr <= b /\ b < fmem[i].addr + got)
      <4>1. r[k] = fmem[k]
        BY <2>3, <3>1
      <4>2. fmem[i].addr + got <= fmem[i].addr + fmem[i].num
        BY <1>3, <1>4
      <4>3. fmem[i].addr + got \in Int /\ fmem[i].addr + fmem[i].num \in Int
        BY <1>3, <1>4
      <4>4. (fmem[k].addr <= b /\ b < fmem[k].addr + fmem[k].num)
              => ~(fmem[i].addr <= b /\ b < fmem[i].addr + fmem[i].num)
        BY <1>5, <3>1
      <4> QED  BY <4>1, <4>2, <4>3, <4>4
    <3>2. (r[i].addr <= b /\ b < r[i].addr + r[i].num)
            <=> /\ fmem[i].addr <= b /\ b < fmem[i].addr + fmem[i].num
                /\ ~(fmem[i].addr <= b /\ b < fmem[i].addr + got)
      BY <1>3, <2>1, <2>4
    <3>3. \A k \in 1..n : (r[k].addr <= b /\ b < r[k].addr + r[k].num)
                   <=> /\ fmem[k].addr <= b /\ b < fmem[k].addr + fmem[k].num
                       /\ ~(fmem[i].addr <= b /\ b < fmem[i].addr + got)
      BY <3>1, <3>2
    <3> QED  BY <1>1, <2>3, <3>3 DEF Covers
  <2> QED  BY <1>4, <2>3, <2>6, <2>7, <2>8, <2>9
<1> QED  BY <1>6, <1>7

LEMMA NeededIs ==
  ASSUME NEW bytes \in Size
  PROVE  numOfBlcks(bytes) \in Nat /\ Needed(bytes) = numOfBlcks(bytes) + 1
<1>1. bytes + BlockSize - 1 \in Int /\ SizeLimit \in Nat \ {0} /\ BlockSize \in Nat \ {0}
  BY AllocatorAssumption
<1> DEFINE x == (bytes + BlockSize - 1) % SizeLimit
<1>2. x \in Nat
  BY <1>1
<1> HIDE DEF x
<1>3. x \div BlockSize \in Nat
  BY <1>1, <1>2
<1> QED  BY <1>3 DEF numOfBlcks, Needed, x

(* What every invariant says of the lists and the regions, in one place.   *)
LEMMA InvariantGives ==
  ASSUME AllocatorInv
  PROVE  /\ fmem \in Seq(Fragment) /\ FreeListInv
         /\ HeapBlocks \in Nat \ {0}
         /\ \A a \in DOMAIN desc : /\ a \in 0..(HeapBlocks - 1) /\ desc[a] \in 1..HeapBlocks
                                   /\ a + desc[a] <= HeapBlocks /\ asked[a] \in Size
BY AllocatorAssumption DEF AllocatorInv, TypeOK, Fragment, RegionsInv

(* A request that is granted gets a run of free blocks, long enough, and   *)
(* exactly those are free no longer.                                       *)
LEMMA Granting ==
  ASSUME AllocatorInv, NEW bytes \in Size, mem_alloc(bytes),
         \E j \in DOMAIN fmem : fmem[j].num >= Needed(bytes)
  PROVE  \E a \in 0..(HeapBlocks - 1), got \in 1..HeapBlocks :
           /\ got \in {Needed(bytes), Needed(bytes) + 1} /\ a + got <= HeapBlocks
           /\ \A b \in a..(a + got - 1) : b \in 0..(HeapBlocks - 1) /\ Covers(fmem, b)
           /\ fmem' \in Seq(Fragment) /\ FreeListInv'
           /\ \A b \in Int : Covers(fmem', b) <=> Covers(fmem, b) /\ ~(a <= b /\ b < a + got)
           /\ desc' = [x \in DOMAIN desc \cup {a} |-> IF x = a THEN got ELSE desc[x]]
           /\ asked' = [x \in DOMAIN desc' |-> IF x = a THEN bytes ELSE asked[x]]
           /\ refused' = NotRefused
<1> DEFINE s == Needed(bytes)
           i == FirstFit(s)
           a == fmem[i].addr
           got == Granted(fmem[i].num, s)
           r == Cut(i, s)
<1>1. s \in Nat /\ s >= 1
  BY NeededIs
<1>2. fmem \in Seq(Fragment) /\ FreeListInv /\ HeapBlocks \in Nat \ {0}
  BY InvariantGives
<1>3. /\ fmem' = r /\ refused' = NotRefused
      /\ desc' = [x \in DOMAIN desc \cup {a} |-> IF x = a THEN got ELSE desc[x]]
      /\ asked' = [x \in DOMAIN desc' |-> IF x = a THEN bytes ELSE asked[x]]
  BY DEF mem_alloc
<1>4. i \in 1..Len(fmem) /\ fmem[i].num >= s
  <2> HIDE DEF s
  <2> QED  BY <1>1, <1>2, FirstFitFound DEF s
<1>5. /\ got \in 1..HeapBlocks /\ got >= s /\ got <= fmem[i].num /\ got <= s + 1
      /\ r \in Seq(Fragment) /\ Sorted(r) /\ Within(r)
      /\ \A k \in 1..(Len(r) - 1) : GapAfter(r, k)
      /\ \A b \in Int : Covers(r, b) <=> Covers(fmem, b) /\ ~(a <= b /\ b < a + got)
  <2> HIDE DEF s, i
  <2> QED  BY <1>1, <1>2, <1>4, CutOne
<1>6. /\ fmem[i] \in Fragment /\ a \in 0..(HeapBlocks - 1) /\ fmem[i].num \in Nat
      /\ a + fmem[i].num <= HeapBlocks /\ i \in DOMAIN fmem
  <2> HIDE DEF i
  <2>1. /\ fmem[i] \in Fragment /\ fmem[i].num \in Nat /\ i \in DOMAIN fmem
    BY <1>2, <1>4, FragmentsAre
  <2> QED  BY <1>2, <2>1 DEF Fragment, FreeListInv, Within
<1> HIDE DEF s, i, got, r
<1>7. FreeListInv'
  BY <1>3, <1>5 DEF FreeListInv, FreeListJoined, GapAfter, Sorted, Within
<1>8. ASSUME NEW b \in a..(a + got - 1)
      PROVE  b \in 0..(HeapBlocks - 1) /\ Covers(fmem, b)
  <2>1. b \in Int /\ a <= b /\ b < a + fmem[i].num /\ b \in 0..(HeapBlocks - 1)
    <3> HIDE DEF a
    <3>1. /\ a \in 0..(HeapBlocks - 1) /\ got \in 1..HeapBlocks /\ fmem[i].num \in Nat
          /\ got <= fmem[i].num /\ a + fmem[i].num <= HeapBlocks /\ HeapBlocks \in Nat
      BY <1>2, <1>5, <1>6 DEF a
    <3> QED  BY <3>1
  <2> QED  BY <1>6, <2>1 DEF Covers
<1>9. got \in {s, s + 1}
  BY <1>1, <1>5
<1>10. a + got <= HeapBlocks
  <2> HIDE DEF a
  <2>1. a + fmem[i].num <= HeapBlocks /\ a \in Int
    BY <1>6 DEF a
  <2> QED  BY <1>2, <1>5, <1>6, <2>1
<1> HIDE DEF a
<1>11. a \in 0..(HeapBlocks - 1)
  BY <1>6 DEF a
<1>12. \A b \in Int : Covers(fmem', b) <=> Covers(fmem, b) /\ ~(a <= b /\ b < a + got)
  BY <1>3, <1>5 DEF a
<1>13. /\ desc' = [x \in DOMAIN desc \cup {a} |-> IF x = a THEN got ELSE desc[x]]
       /\ asked' = [x \in DOMAIN desc' |-> IF x = a THEN bytes ELSE asked[x]]
  BY <1>3 DEF a
<1>14. \A b \in a..(a + got - 1) : b \in 0..(HeapBlocks - 1) /\ Covers(fmem, b)
  BY <1>8 DEF a
<1> QED
  BY <1>3, <1>5, <1>7, <1>9, <1>10, <1>11, <1>12, <1>13, <1>14 DEF s

LEMMA AllocKeepsInv ==
  ASSUME AllocatorInv, NEW bytes \in Size, mem_alloc(bytes)
  PROVE  AllocatorInv'
<1>1. CASE ~ \E j \in DOMAIN fmem : fmem[j].num >= Needed(bytes)
  <2>1. refused' = bytes /\ UNCHANGED <<fmem, desc, asked>>
    BY <1>1 DEF mem_alloc
  <2> QED
    BY <2>1 DEF AllocatorInv, TypeOK, FreeListInv, FreeListJoined, Sorted, Within,
                RegionsInv, FreeOrUsed, Covers, Used, RoomInv, Needed, numOfBlcks
<1>2. CASE \E j \in DOMAIN fmem : fmem[j].num >= Needed(bytes)
  <2>1. PICK a \in 0..(HeapBlocks - 1), got \in 1..HeapBlocks :
           /\ got \in {Needed(bytes), Needed(bytes) + 1} /\ a + got <= HeapBlocks
           /\ \A b \in a..(a + got - 1) : b \in 0..(HeapBlocks - 1) /\ Covers(fmem, b)
           /\ fmem' \in Seq(Fragment) /\ FreeListInv'
           /\ \A b \in Int : Covers(fmem', b) <=> Covers(fmem, b) /\ ~(a <= b /\ b < a + got)
           /\ desc' = [x \in DOMAIN desc \cup {a} |-> IF x = a THEN got ELSE desc[x]]
           /\ asked' = [x \in DOMAIN desc' |-> IF x = a THEN bytes ELSE asked[x]]
           /\ refused' = NotRefused
    BY <1>2, Granting
  <2>2. /\ HeapBlocks \in Nat \ {0}
        /\ \A x \in DOMAIN desc : /\ x \in 0..(HeapBlocks - 1) /\ desc[x] \in 1..HeapBlocks
                                  /\ x + desc[x] <= HeapBlocks /\ asked[x] \in Size
    BY InvariantGives
  <2>3. /\ DOMAIN desc' = DOMAIN desc \cup {a} /\ desc'[a] = got /\ asked'[a] = bytes
        /\ \A x \in DOMAIN desc : x # a => desc'[x] = desc[x] /\ asked'[x] = asked[x]
    BY <2>1
  <2>4. \A b \in a..(a + got - 1) : ~Used(b) /\ b \in 0..(HeapBlocks - 1)
    BY <2>1 DEF AllocatorInv, FreeOrUsed
  (* The new region is apart from all others.                              *)
  <2>5. ASSUME NEW x \in DOMAIN desc
        PROVE  x # a /\ (x < a => x + desc[x] <= a) /\ (a < x => a + got <= x)
    <3>1. /\ x \in 0..(HeapBlocks - 1) /\ desc[x] \in 1..HeapBlocks
          /\ a \in 0..(HeapBlocks - 1) /\ got \in 1..HeapBlocks /\ HeapBlocks \in Nat
      BY <2>2
    <3>2. ASSUME NEW b \in Int, x <= b, b < x + desc[x], a <= b, b < a + got PROVE FALSE
      <4>1. b \in a..(a + got - 1)
        BY <3>1, <3>2
      <4>2. Used(b)
        BY <3>2 DEF Used
      <4> QED  BY <2>4, <4>1, <4>2
    <3> DEFINE n == desc[x]
    <3>3. n \in 1..HeapBlocks
      BY <3>1
    <3>4. \A b \in Int : ~(x <= b /\ b < x + n /\ a <= b /\ b < a + got)
      BY <3>2
    <3> HIDE DEF n
    <3>5. /\ ~(x <= a /\ a < x + n /\ a <= a /\ a < a + got)
          /\ ~(x <= x /\ x < x + n /\ a <= x /\ x < a + got)
      BY <3>1, <3>4
    <3>6. x # a /\ (x < a => x + n <= a) /\ (a < x => a + got <= x)
      BY <3>1, <3>3, <3>5
    <3> QED  BY <3>6 DEF n
  <2>6. TypeOK'
    <3>1. \A x \in DOMAIN desc' : desc'[x] \in 1..HeapBlocks /\ asked'[x] \in Size
      BY <2>2, <2>3
    <3>2. desc' \in [DOMAIN desc' -> 1..HeapBlocks] /\ asked' \in [DOMAIN desc' -> Size]
      BY <2>1, <3>1
    <3>3. DOMAIN desc' \subseteq 0..(HeapBlocks - 1)
      BY <2>2, <2>3
    <3> QED  BY <2>1, <3>2, <3>3 DEF TypeOK, Fragment
  <2>7. RegionsInv'
    <3>1. \A x \in DOMAIN desc' : x + desc'[x] <= HeapBlocks
      BY <2>1, <2>2, <2>3
    <3>2. ASSUME NEW x \in DOMAIN desc', NEW y \in DOMAIN desc', x < y
          PROVE  x + desc'[x] <= y
      <4>1. CASE x # a /\ y # a
        BY <2>3, <3>2, <4>1 DEF AllocatorInv, RegionsInv
      <4>2. CASE x = a /\ y # a
        BY <2>3, <2>5, <3>2, <4>2
      <4>3. CASE x # a /\ y = a
        BY <2>3, <2>5, <3>2, <4>3
      <4>4. CASE x = a /\ y = a
        BY <2>1, <3>2, <4>4
      <4> QED  BY <4>1, <4>2, <4>3, <4>4
    <3> QED  BY <3>1, <3>2 DEF RegionsInv
  <2>8. FreeOrUsed'
    <3>1. SUFFICES ASSUME NEW b \in 0..(HeapBlocks - 1)
                   PROVE  Covers(fmem', b) <=> ~Used(b)'
      BY DEF FreeOrUsed, Covers
    <3>2. Covers(fmem', b) <=> Covers(fmem, b) /\ ~(a <= b /\ b < a + got)
      BY <2>1
    <3>3. Used(b)' <=> Used(b) \/ (a <= b /\ b < a + got)
      BY <2>3, <2>5 DEF Used
    <3> QED  BY <3>2, <3>3 DEF AllocatorInv, FreeOrUsed
  <2>9. RoomInv'
    <3>1. SUFFICES ASSUME NEW x \in DOMAIN desc' PROVE Needed(asked'[x]) <= desc'[x]
      BY DEF RoomInv, Needed, numOfBlcks
    <3>2. CASE x = a
      <4>1. Needed(bytes) \in Nat
        BY NeededIs
      <4> QED  BY <2>1, <2>3, <3>2, <4>1
    <3>3. CASE x # a
      BY <2>3, <3>3 DEF AllocatorInv, RoomInv
    <3> QED  BY <3>2, <3>3
  <2> QED  BY <2>1, <2>6, <2>7, <2>8, <2>9 DEF AllocatorInv
<1> QED  BY <1>1, <1>2

-----------------------------------------------------------------------------
(***************************************************************************)
(* Freeing.                                                                *)
(***************************************************************************)

(* The place i is that of a region at a; PutBack's search stops at one.    *)
PlaceOf(a, i) ==
  /\ i \in 1..(Len(fmem) + 1)
  /\ i <= Len(fmem) => a < fmem[i].addr
  /\ \A k \in 1..(i - 1) : fmem[k].addr <= a

LEMMA SpotFound ==
  ASSUME fmem \in Seq(Fragment), NEW a \in Int,
         NEW i, i = CHOOSE j \in 1..(Len(fmem) + 1) :
                      /\ j <= Len(fmem) => a < fmem[j].addr
                      /\ \A k \in 1..(j - 1) : fmem[k].addr <= a
  PROVE  PlaceOf(a, i)
<1> DEFINE T == {j \in 1..(Len(fmem) + 1) : j <= Len(fmem) => a < fmem[j].addr}
<1>1. /\ Len(fmem) \in Nat
      /\ \A k \in 1..Len(fmem) : fmem[k].addr \in Nat
  BY FragmentsAre
<1>2. T \in SUBSET Nat /\ T # {}
  <2>1. Len(fmem) + 1 \in T
    BY <1>1
  <2> QED  BY <1>1, <2>1
<1>3. PICK m \in T : \A k \in T : ~(k < m)
  BY <1>2, Least
<1>4. m \in 1..(Len(fmem) + 1) /\ (m <= Len(fmem) => a < fmem[m].addr)
  BY <1>3
<1>5. ASSUME NEW k \in 1..(m - 1) PROVE fmem[k].addr <= a
  <2>1. k \in 1..Len(fmem) /\ k \in 1..(Len(fmem) + 1) /\ k < m
    BY <1>1, <1>4
  <2>2. ~(a < fmem[k].addr)
    BY <1>3, <2>1
  <2>3. fmem[k].addr \in Int
    BY <1>1, <2>1
  <2> QED  BY <2>2, <2>3
<1> HIDE DEF T
<1> QED  BY <1>4, <1>5 DEF PlaceOf

(* A region is apart from every free fragment.                             *)
LEMMA Apart ==
  ASSUME AllocatorInv, NEW a \in DOMAIN desc, NEW k \in 1..Len(fmem)
  PROVE  fmem[k].addr + fmem[k].num <= a \/ a + desc[a] <= fmem[k].addr
<1>1. /\ fmem[k].addr \in Nat /\ fmem[k].num \in Nat /\ fmem[k].num >= 1
      /\ k \in DOMAIN fmem /\ fmem[k] \in Fragment
  BY InvariantGives, FragmentsAre
<1>2. /\ a \in 0..(HeapBlocks - 1) /\ desc[a] \in 1..HeapBlocks
      /\ a + desc[a] <= HeapBlocks /\ HeapBlocks \in Nat
  BY InvariantGives
<1>3. ASSUME NEW b \in Int, a <= b, b < a + desc[a],
             fmem[k].addr <= b, b < fmem[k].addr + fmem[k].num
      PROVE  FALSE
  <2>1. Used(b)
    BY <1>3 DEF Used
  <2>2. Covers(fmem, b)
    BY <1>1, <1>3 DEF Covers
  <2> DEFINE n == desc[a]
  <2>3. n \in 1..HeapBlocks /\ a + n <= HeapBlocks /\ b < a + n
    BY <1>2, <1>3
  <2> HIDE DEF n
  <2>4. b \in 0..(HeapBlocks - 1)
    BY <1>2, <1>3, <2>3
  <2> QED  BY <2>1, <2>2, <2>4 DEF AllocatorInv, FreeOrUsed
<1> DEFINE n == desc[a]
           x == fmem[k].addr
           m == fmem[k].num
<1>4. /\ ~(a <= a /\ a < a + n /\ x <= a /\ a < x + m)
      /\ ~(a <= x /\ x < a + n /\ x <= x /\ x < x + m)
  BY <1>1, <1>2, <1>3
<1>5. n \in Nat /\ n >= 1 /\ x \in Nat /\ m \in Nat /\ m >= 1 /\ a \in Nat
  BY <1>1, <1>2
<1> HIDE DEF n, x, m
<1>6. x + m <= a \/ a + n <= x
  BY <1>4, <1>5
<1> QED  BY <1>6 DEF n, x, m

(* The region in its place of the list, joined with nothing yet.           *)
LEMMA PutIn ==
  ASSUME AllocatorInv, NEW a \in DOMAIN desc, NEW i, PlaceOf(a, i),
         NEW x, x = [addr |-> a, num |-> desc[a]],
         NEW q, q = Inserted(fmem, i, x)
  PROVE  /\ q \in Seq(Fragment) /\ Sorted(q) /\ Within(q)
         /\ Len(q) = Len(fmem) + 1 /\ Len(fmem) \in Nat
         /\ \A k \in 1..(Len(q) - 1) : k # i /\ k # i - 1 => GapAfter(q, k)
         /\ \A b \in Int : Covers(q, b) <=> Covers(fmem, b) \/ (a <= b /\ b < a + desc[a])
<1> DEFINE n == Len(fmem)
<1>0. /\ i \in 1..(Len(fmem) + 1)
      /\ i <= Len(fmem) => a < fmem[i].addr
      /\ \A k \in 1..(i - 1) : fmem[k].addr <= a
  BY DEF PlaceOf
<1>1. /\ n \in Nat /\ DOMAIN fmem = 1..n /\ HeapBlocks \in Nat
      /\ \A k \in 1..n : /\ fmem[k].addr \in Nat /\ fmem[k].num \in Nat
                         /\ fmem[k].num >= 1
  BY InvariantGives, FragmentsAre
<1>2. /\ \A j, k \in 1..n : j < k => fmem[j].addr + fmem[j].num <= fmem[k].addr
      /\ \A k \in 1..n : fmem[k].addr + fmem[k].num <= HeapBlocks
      /\ \A k \in 1..(n - 1) : fmem[k].addr + fmem[k].num < fmem[k + 1].addr
  BY <1>1, InvariantGives DEF FreeListInv, FreeListJoined, Sorted, Within
<1>3. /\ a \in 0..(HeapBlocks - 1) /\ desc[a] \in 1..HeapBlocks
      /\ a + desc[a] <= HeapBlocks
  BY InvariantGives
<1>4. x \in Fragment /\ x.addr = a /\ x.num = desc[a]
  BY <1>3 DEF Fragment
<1>6. /\ q \in Seq(Fragment) /\ Len(q) = n + 1
      /\ \A k \in 1..(n + 1) :
           q[k] = IF k < i THEN fmem[k] ELSE IF k = i THEN x ELSE fmem[k - 1]
  <2> HIDE DEF n
  <2>1. fmem \in Seq(Fragment) /\ x \in Fragment
    BY <1>4, InvariantGives
  <2>2. /\ q \in Seq(Fragment) /\ Len(q) = Len(fmem) + 1
        /\ \A k \in 1..(Len(fmem) + 1) :
             q[k] = IF k < i THEN fmem[k] ELSE IF k = i THEN x ELSE fmem[k - 1]
    <3>1. /\ q \in Seq(Fragment) /\ Len(q) = Len(fmem) + 1
          /\ \A k \in 1..(Len(fmem) + 1) : ElementOf(fmem, i, x, q, k)
      BY <1>0, <2>1, WithOne
    <3> QED  BY <3>1 DEF ElementOf
  <2> QED  BY <2>2 DEF n
<1>7. DOMAIN q = 1..(n + 1)
  BY <1>6, LenProperties
<1>8. n \in Nat /\ i \in Int /\ 1 <= i /\ i <= n + 1
  BY <1>0, <1>1
<1>9. \A k \in 1..n : fmem[k].addr + fmem[k].num <= a \/ a + desc[a] <= fmem[k].addr
  BY Apart
<1>10. ASSUME NEW k \in 1..n, k < i PROVE fmem[k].addr + fmem[k].num <= a
  <2>1. k \in 1..(i - 1)
    BY <1>8, <1>10
  <2>2. fmem[k].addr <= a /\ fmem[k].addr \in Nat
    BY <1>0, <1>1, <2>1
  <2> QED  BY <1>3, <1>9, <2>2
<1>11. ASSUME NEW k \in 1..n, ~(k < i) PROVE a + desc[a] <= fmem[k].addr
  <2>1. i \in 1..n /\ i <= n /\ (i = k \/ i < k)
    BY <1>8, <1>11
  <2>2. a < fmem[i].addr
    BY <1>0, <2>1
  <2>3. i < k => fmem[i].addr + fmem[i].num <= fmem[k].addr
    BY <1>2, <2>1
  <2>4. /\ fmem[k].addr \in Nat /\ fmem[k].num \in Nat /\ fmem[k].num >= 1
        /\ fmem[i].addr \in Nat /\ fmem[i].num \in Nat
    BY <1>1, <2>1
  <2>5. a < fmem[k].addr
    <3> DEFINE e == fmem[i].addr
               f == fmem[k].addr
               g == fmem[i].num
    <3>1. e \in Nat /\ f \in Nat /\ g \in Nat /\ a < e /\ (i < k => e + g <= f)
      BY <2>2, <2>3, <2>4
    <3>2. i = k => f = e
      OBVIOUS
    <3> HIDE DEF e, f, g
    <3>3. a < f
      BY <1>3, <2>1, <3>1, <3>2
    <3> QED  BY <3>3 DEF f
  <2>6. fmem[k].addr + fmem[k].num <= a \/ a + desc[a] <= fmem[k].addr
    BY <1>9
  <2> QED  BY <1>3, <2>4, <2>5, <2>6
<1> HIDE DEF n
(* Elements of the new list.                                               *)
<1>12. \A k \in 1..(n + 1) :
         /\ k < i => q[k] = fmem[k] /\ k \in 1..n
         /\ k = i => q[k].addr = a /\ q[k].num = desc[a]
         /\ k > i => q[k] = fmem[k - 1] /\ k - 1 \in 1..n /\ ~(k - 1 < i)
  BY <1>4, <1>6, <1>8
<1>13. Sorted(q)
  <2>1. SUFFICES ASSUME NEW j \in 1..(n + 1), NEW k \in 1..(n + 1), j < k
                 PROVE  q[j].addr + q[j].num <= q[k].addr
    BY <1>7 DEF Sorted
  <2>2. CASE j < i /\ k < i
    BY <1>2, <1>12, <2>1, <2>2
  <2>3. CASE j < i /\ k = i
    BY <1>10, <1>12, <2>1, <2>3
  <2>4. CASE j < i /\ k > i
    <3> DEFINE w == k - 1
    <3>1. w \in 1..n /\ q[k] = fmem[w] /\ q[j] = fmem[j] /\ j \in 1..n /\ j < w
      BY <1>8, <1>12, <2>1, <2>4
    <3> HIDE DEF w
    <3> QED  BY <1>2, <3>1
  <2>5. CASE j = i /\ k > i
    <3> DEFINE w == k - 1
    <3>1. /\ w \in 1..n /\ q[k] = fmem[w] /\ q[j].addr = a /\ q[j].num = desc[a]
          /\ ~(w < i)
      BY <1>8, <1>12, <2>1, <2>5
    <3> HIDE DEF w
    <3> QED  BY <1>11, <3>1
  <2>6. CASE j > i /\ k > i
    <3> DEFINE v == j - 1
               w == k - 1
    <3>1. w \in 1..n /\ v \in 1..n /\ q[k] = fmem[w] /\ q[j] = fmem[v] /\ v < w
      BY <1>8, <1>12, <2>1, <2>6
    <3> HIDE DEF v, w
    <3> QED  BY <1>2, <3>1
  <2> QED  BY <1>8, <2>1, <2>2, <2>3, <2>4, <2>5, <2>6
<1>14. Within(q)
  <2>1. SUFFICES ASSUME NEW k \in 1..(n + 1) PROVE q[k].addr + q[k].num <= HeapBlocks
    BY <1>7 DEF Within
  <2>2. CASE k < i
    BY <1>2, <1>12, <2>2
  <2>3. CASE k = i
    BY <1>3, <1>12, <2>3
  <2>4. CASE k > i
    BY <1>2, <1>12, <2>4
  <2> QED  BY <1>8, <2>2, <2>3, <2>4
<1>15. ASSUME NEW k \in 1..(n + 1 - 1), k # i, k # i - 1 PROVE GapAfter(q, k)
  <2>1. CASE k < i
    <3> DEFINE w == k + 1
    <3>1. /\ k \in 1..(n + 1) /\ w \in 1..(n + 1) /\ w < i /\ k < i
          /\ k \in 1..(n - 1)
      BY <1>8, <1>15, <2>1
    <3>2. fmem[k].addr + fmem[k].num < fmem[w].addr
      BY <1>2, <3>1
    <3> HIDE DEF w
    <3>3. q[k] = fmem[k] /\ q[w] = fmem[w]
      BY <1>12, <3>1
    <3> QED  BY <3>2, <3>3 DEF GapAfter, w
  <2>2. CASE k > i
    <3> DEFINE w == k + 1
               v == k - 1
               u == w - 1
    <3>1. /\ k \in 1..(n + 1) /\ w \in 1..(n + 1) /\ w > i /\ k > i
          /\ v \in 1..(n - 1) /\ v + 1 = u
      BY <1>8, <1>15, <2>2
    <3>2. fmem[v].addr + fmem[v].num < fmem[u].addr
      BY <1>2, <3>1
    <3>3. q[k] = fmem[v] /\ q[w] = fmem[u]
      BY <1>12, <3>1
    <3> QED  BY <3>2, <3>3 DEF GapAfter
  <2> QED  BY <1>8, <1>15, <2>1, <2>2
<1>16. ASSUME NEW b \in Int
       PROVE  Covers(q, b) <=> Covers(fmem, b) \/ (a <= b /\ b < a + desc[a])
  <2>1. ASSUME NEW k \in 1..(n + 1), q[k].addr <= b, b < q[k].addr + q[k].num
        PROVE  Covers(fmem, b) \/ (a <= b /\ b < a + desc[a])
    <3>1. CASE k < i
      <4>1. k \in DOMAIN fmem /\ q[k] = fmem[k]
        BY <1>1, <1>12, <3>1
      <4> QED  BY <2>1, <4>1 DEF Covers
    <3>2. CASE k = i
      BY <1>12, <2>1, <3>2
    <3>3. CASE k > i
      <4> DEFINE w == k - 1
      <4>1. w \in DOMAIN fmem /\ q[k] = fmem[w]
        BY <1>1, <1>12, <3>3
      <4> HIDE DEF w
      <4> QED  BY <2>1, <4>1 DEF Covers
    <3> QED  BY <1>8, <3>1, <3>2, <3>3
  <2>2. ASSUME a <= b, b < a + desc[a] PROVE Covers(q, b)
    <3>1. i \in DOMAIN q /\ q[i].addr = a /\ q[i].num = desc[a]
      BY <1>7, <1>8, <1>12
    <3> QED  BY <2>2, <3>1 DEF Covers
  <2>3. ASSUME NEW k \in 1..n, fmem[k].addr <= b, b < fmem[k].addr + fmem[k].num
        PROVE  Covers(q, b)
    <3>1. CASE k < i
      <4>1. k \in DOMAIN q /\ q[k] = fmem[k]
        BY <1>6, <1>7, <1>8, <3>1
      <4> QED  BY <2>3, <4>1 DEF Covers
    <3>2. CASE ~(k < i)
      <4> DEFINE w == k + 1
      <4>1. w \in 1..(n + 1) /\ w > i /\ w - 1 = k
        BY <1>8, <3>2
      <4>2. w \in DOMAIN q /\ q[w] = fmem[k]
        BY <1>7, <1>12, <4>1
      <4> HIDE DEF w
      <4> QED  BY <2>3, <4>2 DEF Covers
    <3> QED  BY <3>1, <3>2
  <2> QED  BY <1>1, <1>7, <2>1, <2>2, <2>3 DEF Covers, n
<1> QED  BY <1>6, <1>8, <1>13, <1>14, <1>15, <1>16 DEF n


LEMMA FreeKeepsInv ==
  ASSUME AllocatorInv, NEW a \in DOMAIN desc, mem_free(a)
  PROVE  AllocatorInv'
<1> DEFINE x == [addr |-> a, num |-> desc[a]]
           i == CHOOSE j \in 1..(Len(fmem) + 1) :
                  /\ j <= Len(fmem) => a < fmem[j].addr
                  /\ \A k \in 1..(j - 1) : fmem[k].addr <= a
           q == Inserted(fmem, i, x)
           joined == tryToJoin(q, i)
<1>1. /\ fmem' = IF i = 1 THEN joined ELSE tryToJoin(joined, i - 1)
      /\ desc' = [b \in DOMAIN desc \ {a} |-> desc[b]]
      /\ asked' = [b \in DOMAIN desc \ {a} |-> asked[b]]
      /\ refused' = NotRefused
  BY DEF mem_free, PutBack, Inserted
<1>2. /\ a \in 0..(HeapBlocks - 1) /\ desc[a] \in 1..HeapBlocks
      /\ a + desc[a] <= HeapBlocks /\ HeapBlocks \in Nat /\ fmem \in Seq(Fragment)
  BY InvariantGives
<1>3. PlaceOf(a, i)
  <2>1. a \in Int
    BY <1>2
  <2> QED  BY <1>2, <2>1, SpotFound
<1> HIDE DEF i
<1>4. /\ q \in Seq(Fragment) /\ Sorted(q) /\ Within(q)
      /\ Len(q) = Len(fmem) + 1 /\ Len(fmem) \in Nat
      /\ \A k \in 1..(Len(q) - 1) : k # i /\ k # i - 1 => GapAfter(q, k)
      /\ \A b \in Int : Covers(q, b) <=> Covers(fmem, b) \/ (a <= b /\ b < a + desc[a])
  <2>1. x = [addr |-> a, num |-> desc[a]] /\ q = Inserted(fmem, i, x)
    OBVIOUS
  <2> HIDE DEF x, q
  <2> QED  BY <1>3, <2>1, PutIn
<1> HIDE DEF x, q
<1>5. i \in 1..Len(q) /\ {i - 1} \in SUBSET (0..(i - 1)) /\ i \in Int /\ 1 <= i
  BY <1>3, <1>4 DEF PlaceOf
<1>6. /\ joined \in Seq(Fragment) /\ Sorted(joined) /\ Within(joined)
      /\ Len(joined) \in Nat /\ i <= Len(joined)
      /\ \A k \in 1..(Len(joined) - 1) : k \notin {i - 1} => GapAfter(joined, k)
      /\ \A b \in Int : Covers(joined, b) <=> Covers(q, b)
  <2> DEFINE P == {i - 1}
  <2>1. P \in SUBSET (0..(i - 1))
    BY <1>5
  <2>2. \A k \in 1..(Len(q) - 1) : k # i /\ k \notin P => GapAfter(q, k)
    BY <1>4
  <2> HIDE DEF P
  <2>3. /\ joined \in Seq(Fragment) /\ Sorted(joined) /\ Within(joined)
        /\ Len(joined) \in Nat /\ i <= Len(joined)
        /\ \A k \in 1..(Len(joined) - 1) : k \notin P => GapAfter(joined, k)
        /\ \A b \in Int : Covers(joined, b) <=> Covers(q, b)
    <3> DEFINE r == joined
    <3>1. r = tryToJoin(q, i)
      OBVIOUS
    <3> HIDE DEF r
    <3>2. /\ r \in Seq(Fragment) /\ Sorted(r) /\ Within(r)
          /\ Len(r) \in Nat /\ i <= Len(r)
          /\ \A k \in 1..(Len(r) - 1) : k \notin P => GapAfter(r, k)
          /\ \A b \in Int : Covers(r, b) <=> Covers(q, b)
      BY <1>4, <1>5, <2>1, <2>2, <3>1, JoinOne
    <3> QED  BY <3>2 DEF r
  <2> QED  BY <2>3 DEF P
<1> HIDE DEF joined
<1>7. /\ fmem' \in Seq(Fragment) /\ Sorted(fmem') /\ Within(fmem')
      /\ \A k \in 1..(Len(fmem') - 1) : GapAfter(fmem', k)
      /\ \A b \in Int : Covers(fmem', b) <=> Covers(q, b)
  <2>1. CASE i = 1
    <3>1. \A k \in 1..(Len(joined) - 1) : k \notin {i - 1}
      BY <1>6, <2>1
    <3> QED  BY <1>1, <1>6, <2>1, <3>1
  <2>2. CASE i # 1
    <3> DEFINE h == i - 1
               r == fmem'
               P == {}
    <3>1. r = tryToJoin(joined, h) /\ h \in 1..Len(joined) /\ P \in SUBSET (0..(h - 1))
      BY <1>1, <1>5, <1>6, <2>2
    <3>2. \A k \in 1..(Len(joined) - 1) : k # h /\ k \notin P => GapAfter(joined, k)
      BY <1>6
    <3> HIDE DEF h, r, P
    <3>3. /\ r \in Seq(Fragment) /\ Sorted(r) /\ Within(r)
          /\ \A k \in 1..(Len(r) - 1) : k \notin P => GapAfter(r, k)
          /\ \A b \in Int : Covers(r, b) <=> Covers(joined, b)
      BY <1>6, <3>1, <3>2, JoinOne
    <3>4. \A b \in Int : Covers(r, b) <=> Covers(q, b)
      BY <1>6, <3>3
    <3> QED  BY <3>3, <3>4 DEF r, P
  <2> QED  BY <2>1, <2>2
<1>8. FreeListInv'
  BY <1>7 DEF FreeListInv, FreeListJoined, GapAfter, Sorted, Within
<1>9. /\ DOMAIN desc' = DOMAIN desc \ {a} /\ DOMAIN asked' = DOMAIN desc \ {a}
      /\ \A b \in DOMAIN desc \ {a} : desc'[b] = desc[b] /\ asked'[b] = asked[b]
  BY <1>1
<1>10. TypeOK'
  <2>1. \A b \in DOMAIN desc' : /\ desc'[b] \in 1..HeapBlocks /\ asked'[b] \in Size
                                /\ b \in 0..(HeapBlocks - 1)
    BY <1>9, InvariantGives
  <2>2. desc' \in [DOMAIN desc' -> 1..HeapBlocks] /\ asked' \in [DOMAIN desc' -> Size]
    BY <1>1, <2>1
  <2> QED  BY <1>1, <1>7, <2>1, <2>2 DEF TypeOK, Fragment
<1>11. RegionsInv'
  BY <1>9 DEF AllocatorInv, RegionsInv
<1>12. RoomInv'
  BY <1>9 DEF AllocatorInv, RoomInv, Needed, numOfBlcks
<1>13. ASSUME NEW b \in 0..(HeapBlocks - 1)
       PROVE  Used(b)' <=> Used(b) /\ ~(a <= b /\ b < a + desc[a])
  <2>1. ASSUME NEW c \in DOMAIN desc, c # a, c <= b, b < c + desc[c]
        PROVE  ~(a <= b /\ b < a + desc[a])
    <3>1. c < a => c + desc[c] <= a
      BY DEF AllocatorInv, RegionsInv
    <3>2. a < c => a + desc[a] <= c
      BY DEF AllocatorInv, RegionsInv
    <3>3. c \in 0..(HeapBlocks - 1) /\ desc[c] \in 1..HeapBlocks
      BY InvariantGives
    <3> QED  BY <1>2, <2>1, <3>1, <3>2, <3>3
  <2> QED  BY <1>9, <2>1 DEF Used
<1>14. FreeOrUsed'
  <2>1. SUFFICES ASSUME NEW b \in 0..(HeapBlocks - 1)
                 PROVE  Covers(fmem', b) <=> ~Used(b)'
    BY DEF FreeOrUsed, Covers
  <2>2. Covers(fmem', b) <=> Covers(fmem, b) \/ (a <= b /\ b < a + desc[a])
    BY <1>4, <1>7
  <2>3. Used(b)' <=> Used(b) /\ ~(a <= b /\ b < a + desc[a])
    BY <1>13
  <2>4. Covers(fmem, b) <=> ~Used(b)
    BY DEF AllocatorInv, FreeOrUsed
  <2> QED  BY <2>2, <2>3, <2>4
<1> QED  BY <1>8, <1>10, <1>11, <1>12, <1>14 DEF AllocatorInv

-----------------------------------------------------------------------------
(***************************************************************************)
(* Every behaviour.                                                        *)
(***************************************************************************)

LEMMA InitInv == Init => AllocatorInv
<1> SUFFICES ASSUME Init PROVE AllocatorInv
  OBVIOUS
<1> DEFINE x == [addr |-> 0, num |-> HeapBlocks]
<1>1. HeapBlocks \in Nat \ {0}
  BY AllocatorAssumption
<1>2. x \in Fragment /\ x.addr = 0 /\ x.num = HeapBlocks
  BY <1>1 DEF Fragment
<1>3. fmem = <<x>> /\ desc = << >> /\ asked = << >> /\ refused = NotRefused
  BY DEF Init
<1> HIDE DEF x
<1>4. fmem \in Seq(Fragment) /\ Len(fmem) = 1 /\ DOMAIN fmem = {1} /\ fmem[1] = x
  BY <1>2, <1>3
<1>5. DOMAIN desc = {} /\ DOMAIN asked = {}
  BY <1>3
<1>6. FreeListInv
  BY <1>1, <1>2, <1>4 DEF FreeListInv, FreeListJoined, Sorted, Within
<1>7. FreeOrUsed
  BY <1>1, <1>2, <1>4, <1>5 DEF FreeOrUsed, Covers, Used
<1>8. TypeOK
  <2>1. desc \in [DOMAIN desc -> 1..HeapBlocks] /\ asked \in [DOMAIN desc -> Size]
    BY <1>3, <1>5
  <2> QED  BY <1>3, <1>4, <1>5, <2>1 DEF TypeOK, Fragment
<1> QED  BY <1>5, <1>6, <1>7, <1>8 DEF AllocatorInv, RegionsInv, RoomInv

LEMMA NextInv == AllocatorInv /\ [Next]_vars => AllocatorInv'
<1> SUFFICES ASSUME AllocatorInv, [Next]_vars PROVE AllocatorInv'
  OBVIOUS
<1>1. CASE \E bytes \in Size : mem_alloc(bytes)
  BY <1>1, AllocKeepsInv
<1>2. CASE \E a \in DOMAIN desc : mem_free(a)
  BY <1>2, FreeKeepsInv
<1>3. CASE UNCHANGED vars
  BY <1>3 DEF vars, AllocatorInv, TypeOK, FreeListInv, FreeListJoined, Sorted, Within,
              RegionsInv, FreeOrUsed, Covers, Used, RoomInv, Needed, numOfBlcks
<1> QED  BY <1>1, <1>2, <1>3 DEF Next

(* The invariant holds after any requests and frees, for every heap.        *)
THEOREM AllocatorAlways == Spec => []AllocatorInv
BY InitInv, NextInv, PTL DEF Spec

(* Whatever is asked for and freed, fragments stay inside the heap and     *)
(* every region keeps the descriptor it was given (mem_alloc, mem_free).   *)
THEOREM HeapTyped == Spec => []TypeOK
<1>1. AllocatorInv => TypeOK
  BY DEF AllocatorInv
<1> QED  BY <1>1, AllocatorAlways, PTL

(* No two free fragments ever touch: the two tryToJoin of mem_free are     *)
(* enough, in whatever order regions come back.                            *)
THEOREM FragmentsJoined == Spec => []FreeListJoined
<1>1. AllocatorInv => FreeListJoined
  BY DEF AllocatorInv, FreeListInv
<1> QED  BY <1>1, AllocatorAlways, PTL

(* Every block has one owner, a fragment or a region, at all times: the    *)
(* cut, the rest that goes with a region and the joins lose no block and   *)
(* give none away twice.                                                   *)
THEOREM OneOwner == Spec => []BlocksConserved
<1>1. ASSUME AllocatorInv, NEW b \in 0..(HeapBlocks - 1) PROVE Owners(b) = 1
  <2> DEFINE F == {i \in DOMAIN fmem :
                     b \in fmem[i].addr..(fmem[i].addr + fmem[i].num - 1)}
             U == {a \in DOMAIN desc : b \in a..(a + desc[a] - 1)}
  <2>1. Owners(b) = Cardinality(F) + Cardinality(U)
    BY DEF Owners
  <2>2. /\ fmem \in Seq(Fragment) /\ HeapBlocks \in Nat \ {0} /\ b \in Nat
        /\ DOMAIN fmem = 1..Len(fmem) /\ Len(fmem) \in Nat
        /\ \A k \in DOMAIN fmem : fmem[k].addr \in Nat /\ fmem[k].num \in Nat
        /\ \A a \in DOMAIN desc : a \in Nat /\ desc[a] \in Nat
    BY <1>1, InvariantGives, FragmentsAre
  <2>3. \A k \in DOMAIN fmem : k \in F <=> fmem[k].addr <= b /\ b < fmem[k].addr + fmem[k].num
    BY <2>2
  <2>4. \A a \in DOMAIN desc : a \in U <=> a <= b /\ b < a + desc[a]
    BY <2>2
  <2>5. F \subseteq DOMAIN fmem /\ U \subseteq DOMAIN desc
    OBVIOUS
  <2> HIDE DEF F, U
  <2>6. ASSUME NEW j \in F, NEW k \in F, j < k PROVE FALSE
    <3>1. fmem[j].addr + fmem[j].num <= fmem[k].addr
      BY <1>1, <2>5, <2>6 DEF AllocatorInv, FreeListInv, Sorted
    <3>2. b < fmem[j].addr + fmem[j].num /\ fmem[k].addr <= b
      BY <2>3, <2>5
    <3>3. fmem[j].addr \in Nat /\ fmem[j].num \in Nat /\ fmem[k].addr \in Nat
      BY <2>2, <2>5
    <3> QED  BY <2>2, <3>1, <3>2, <3>3
  <2>7. ASSUME NEW a \in U, NEW c \in U, a < c PROVE FALSE
    <3>1. a + desc[a] <= c
      BY <1>1, <2>5, <2>7 DEF AllocatorInv, RegionsInv
    <3>2. b < a + desc[a] /\ c <= b
      BY <2>4, <2>5
    <3>3. a \in Nat /\ desc[a] \in Nat /\ c \in Nat
      BY <2>2, <2>5
    <3> QED  BY <2>2, <3>1, <3>2, <3>3
  <2>8. (F = {} <=> ~Covers(fmem, b)) /\ (U = {} <=> ~Used(b))
    BY <2>3, <2>4, <2>5 DEF Covers, Used
  <2>9. Covers(fmem, b) <=> ~Used(b)
    BY <1>1 DEF AllocatorInv, FreeOrUsed
  <2>10. IsFiniteSet({}) /\ Cardinality({}) = 0
    BY FS_EmptySet
  <2>11. CASE Used(b)
    <3>1. PICK a \in U : TRUE
      BY <2>8, <2>11
    <3>2. \A c \in U : c = a
      <4>1. \A c \in U : ~(a < c) /\ ~(c < a) /\ a \in Nat /\ c \in Nat
        BY <2>2, <2>5, <2>7
      <4> QED  BY <4>1
    <3>3. U = {a}
      BY <3>2
    <3>4. Cardinality(U) = 1
      BY <3>3, FS_Singleton
    <3> QED  BY <2>1, <2>8, <2>9, <2>10, <2>11, <3>4
  <2>12. CASE ~Used(b)
    <3>1. PICK i \in F : TRUE
      BY <2>8, <2>9, <2>12
    <3>2. \A k \in F : k = i
      <4>1. \A k \in F : ~(i < k) /\ ~(k < i) /\ i \in Nat /\ k \in Nat
        BY <2>2, <2>5, <2>6
      <4> QED  BY <4>1
    <3>3. F = {i}
      BY <3>2
    <3>4. Cardinality(F) = 1
      BY <3>3, FS_Singleton
    <3> QED  BY <2>1, <2>8, <2>10, <2>12, <3>4
  <2> QED  BY <2>11, <2>12
<1>2. AllocatorInv => BlocksConserved
  BY <1>1 DEF BlocksConserved
<1> QED  BY <1>2, AllocatorAlways, PTL

(* A region has room for its descriptor and for all the bytes that were    *)
(* asked for (numOfBlcks rounds up), if the sizes programs ask for are far *)
(* enough from the limit of a size_t for the rounding not to wrap.         *)
THEOREM RequestsHeld ==
  ASSUME \A bytes \in Size : bytes + BlockSize - 1 < SizeLimit
  PROVE  Spec => []HoldsRequest
<1>1. ASSUME NEW bytes \in Size, NEW n \in Nat, Needed(bytes) <= n
      PROVE  bytes <= (n - 1) * BlockSize
  <2> DEFINE x == bytes + BlockSize - 1
  <2>1. bytes \in Nat /\ BlockSize \in Nat \ {0} /\ SizeLimit \in Nat \ {0} /\ x \in 0..(SizeLimit - 1)
    BY AllocatorAssumption
  <2> HIDE DEF x
  <2>2. x % SizeLimit = x
    BY <2>1
  <2> DEFINE d == x \div BlockSize
  <2>3. Needed(bytes) = d + 1
    BY <2>2 DEF Needed, numOfBlcks, x
  <2>4. d \in Nat /\ x < (d + 1) * BlockSize
    BY <2>1
  <2> HIDE DEF d
  <2>5. bytes <= d * BlockSize
    <3> DEFINE p == d * BlockSize
    <3>1. (d + 1) * BlockSize = p + BlockSize /\ p \in Nat
      BY <2>1, <2>4
    <3> HIDE DEF p
    <3>2. bytes <= p
      BY <2>1, <2>4, <3>1 DEF x
    <3> QED  BY <3>2 DEF p
  <2>6. d <= n - 1 /\ n - 1 \in Nat
    BY <2>3, <2>4, <1>1
  <2>7. d * BlockSize <= (n - 1) * BlockSize
    <3> DEFINE m == n - 1
    <3>1. m \in Nat /\ d \in Nat /\ BlockSize \in Nat /\ d <= m
      BY <2>1, <2>4, <2>6
    <3> HIDE DEF m
    <3>2. d * BlockSize <= m * BlockSize
      <4>1. PICK e \in Nat : m = d + e
        BY <3>1
      <4>2. m * BlockSize = d * BlockSize + e * BlockSize /\ e * BlockSize \in Nat
        BY <3>1, <4>1
      <4>3. d * BlockSize \in Nat
        BY <3>1
      <4> QED  BY <4>2, <4>3
    <3> QED  BY <3>2 DEF m
  <2>8. (n - 1) * BlockSize \in Nat /\ d * BlockSize \in Nat
    BY <2>1, <2>4, <2>6
  <2> QED  BY <2>1, <2>5, <2>7, <2>8
<1>2. AllocatorInv => HoldsRequest
  <2> SUFFICES ASSUME AllocatorInv, NEW a \in DOMAIN desc
               PROVE  asked[a] <= (desc[a] - 1) * BlockSize
    BY DEF HoldsRequest
  <2>1. asked[a] \in Size /\ desc[a] \in Nat
    BY InvariantGives
  <2>2. Needed(asked[a]) <= desc[a]
    BY DEF AllocatorInv, RoomInv
  <2> QED  BY <1>1, <2>1, <2>2
<1> QED  BY <1>2, AllocatorAlways, PTL

-----------------------------------------------------------------------------
(***************************************************************************)
(* What the allocator promises: the steps of Heap.                         *)
(***************************************************************************)

(* Free blocks in a row are in one fragment, as no two fragments touch.    *)
LEMMA FreeRun ==
  ASSUME fmem \in Seq(Fragment), FreeListInv, NEW a \in Nat, NEW n \in Nat, n >= 1,
         \A b \in a..(a + n - 1) : Covers(fmem, b)
  PROVE  \E i \in DOMAIN fmem : fmem[i].num >= n
<1>1. /\ Len(fmem) \in Nat /\ DOMAIN fmem = 1..Len(fmem)
      /\ \A k \in 1..Len(fmem) : fmem[k].addr \in Nat /\ fmem[k].num \in Nat
  BY FragmentsAre
<1>2. a \in a..(a + n - 1)
  OBVIOUS
<1>3. PICK i \in DOMAIN fmem : fmem[i].addr <= a /\ a < fmem[i].addr + fmem[i].num
  BY <1>2 DEF Covers
<1> DEFINE x == fmem[i].addr
           m == fmem[i].num
           e == x + m
<1>4. x \in Nat /\ m \in Nat /\ x <= a /\ a < e /\ e \in Nat
  BY <1>1, <1>3
<1>5. CASE a + n <= e
  <2>1. m >= n
    <3>1. x + m \in Nat /\ e = x + m
      BY <1>4
    <3> HIDE DEF x, m, e
    <3> QED  BY <1>4, <1>5, <3>1
  <2> QED  BY <2>1
<1>6. CASE ~(a + n <= e)
  <2>1. e \in a..(a + n - 1)
    <3> HIDE DEF e
    <3> QED  BY <1>4, <1>6
  <2>2. PICK k \in DOMAIN fmem : fmem[k].addr <= e /\ e < fmem[k].addr + fmem[k].num
    BY <2>1 DEF Covers
  <2> DEFINE y == fmem[k].addr
             l == fmem[k].num
  <2>3. /\ y \in Nat /\ l \in Nat /\ y <= e /\ e < y + l
        /\ i \in 1..Len(fmem) /\ k \in 1..Len(fmem)
    BY <1>1, <2>2
  <2>4. k # i
    <3>1. k = i => y = x /\ l = m
      OBVIOUS
    <3>2. e = x + m
      OBVIOUS
    <3> HIDE DEF x, m, e, y, l
    <3> QED  BY <1>4, <2>3, <3>1, <3>2
  <2>5. k < i => y + l <= x
    BY DEF FreeListInv, Sorted
  <2>6. i < k => e < y
    <3>1. SUFFICES ASSUME i < k PROVE e < y
      OBVIOUS
    <3> DEFINE w == i + 1
               z == fmem[w].addr
    <3>2. i \in 1..(Len(fmem) - 1) /\ w \in 1..Len(fmem) /\ (w = k \/ w < k)
      BY <1>1, <2>3, <3>1
    <3>3. e < z
      BY <3>2 DEF FreeListInv, FreeListJoined
    <3>4. w < k => z + fmem[w].num <= y
      BY <1>1, <3>2 DEF FreeListInv, Sorted
    <3>5. z \in Nat /\ fmem[w].num \in Nat
      BY <1>1, <3>2
    <3>6. w = k => z = y
      OBVIOUS
    <3> HIDE DEF w, z, y, e
    <3> QED  BY <1>4, <2>3, <3>2, <3>3, <3>4, <3>5, <3>6
  <2>7. e = x + m
    OBVIOUS
  <2> HIDE DEF x, m, e, y, l
  <2> QED  BY <1>4, <2>3, <2>4, <2>5, <2>6, <2>7
<1> QED  BY <1>5, <1>6

Regions == {[addr |-> a, size |-> desc[a]] : a \in DOMAIN desc}

(* Blocks of no region are those the abstract heap has to give.            *)
LEMMA AvailableAre ==
  ASSUME AllocatorInv, NEW b \in 0..(HeapBlocks - 1)
  PROVE  b \in Abstract!Available <=> Covers(fmem, b)
<1>1. \A a \in DOMAIN desc : a \in Int /\ desc[a] \in Int
  BY InvariantGives
<1>2. b \in UNION {Abstract!Region(r) : r \in Regions} <=> Used(b)
  <2>1. b \in UNION {Abstract!Region(r) : r \in Regions}
          <=> \E r \in Regions : b \in r.addr..(r.addr + r.size - 1)
    BY DEF Abstract!Region
  <2>2. (\E r \in Regions : b \in r.addr..(r.addr + r.size - 1))
          <=> \E a \in DOMAIN desc : b \in a..(a + desc[a] - 1)
    <3> DEFINE In(x, n) == b \in x..(x + n - 1)
    <3> HIDE DEF In
    <3>1. ASSUME NEW r \in Regions, In(r.addr, r.size)
          PROVE  \E a \in DOMAIN desc : In(a, desc[a])
      <4>1. PICK a \in DOMAIN desc : r = [addr |-> a, size |-> desc[a]]
        BY DEF Regions
      <4>2. r.addr = a /\ r.size = desc[a]
        BY <4>1
      <4> QED  BY <3>1, <4>2
    <3>2. ASSUME NEW a \in DOMAIN desc, In(a, desc[a])
          PROVE  \E r \in Regions : In(r.addr, r.size)
      <4> DEFINE r == [addr |-> a, size |-> desc[a]]
      <4>1. r \in Regions /\ r.addr = a /\ r.size = desc[a]
        BY DEF Regions
      <4> HIDE DEF r
      <4> QED  BY <3>2, <4>1
    <3> QED  BY <3>1, <3>2 DEF In
  <2>3. \A a \in DOMAIN desc : b \in a..(a + desc[a] - 1) <=> a <= b /\ b < a + desc[a]
    BY <1>1
  <2> QED  BY <2>1, <2>2, <2>3 DEF Used
<1>3. b \in Abstract!Available <=> ~Used(b)
  BY <1>2 DEF Abstract!Available, Regions
<1> QED  BY <1>3 DEF AllocatorInv, FreeOrUsed

LEMMA GrantIsAlloc ==
  ASSUME AllocatorInv, NEW bytes \in Size, mem_alloc(bytes),
         \E j \in DOMAIN fmem : fmem[j].num >= Needed(bytes)
  PROVE  Abstract!Alloc(numOfBlcks(bytes))
<1> DEFINE s == numOfBlcks(bytes)
<1>1. PICK a \in 0..(HeapBlocks - 1), got \in 1..HeapBlocks :
         /\ got \in {Needed(bytes), Needed(bytes) + 1} /\ a + got <= HeapBlocks
         /\ \A b \in a..(a + got - 1) : b \in 0..(HeapBlocks - 1) /\ Covers(fmem, b)
         /\ desc' = [x \in DOMAIN desc \cup {a} |-> IF x = a THEN got ELSE desc[x]]
         /\ refused' = NotRefused
  BY Granting
<1> DEFINE r == [addr |-> a, size |-> got]
<1>2. s \in Nat /\ got \in {s + 1, s + 2}
  <2>1. s \in Nat /\ Needed(bytes) = s + 1
    BY NeededIs
  <2> HIDE DEF s
  <2> QED  BY <1>1, <2>1
<1> HIDE DEF s
<1>3. HeapBlocks \in Nat
  BY AllocatorAssumption
<1>4. Abstract!Region(r) \subseteq Abstract!Available
  <2>1. Abstract!Region(r) = a..(a + got - 1)
    BY DEF Abstract!Region
  <2> QED  BY <1>1, <2>1, AvailableAre
<1>5. r \in Abstract!Fits(s)
  BY <1>2, <1>4 DEF Abstract!Fits
<1>6. a \notin DOMAIN desc
  <2>1. a \in a..(a + got - 1)
    BY <1>3
  <2>2. ~Used(a)
    BY <1>1, <2>1 DEF AllocatorInv, FreeOrUsed
  <2>3. a \in DOMAIN desc => desc[a] \in 1..HeapBlocks
    BY InvariantGives
  <2> QED  BY <1>3, <2>2, <2>3 DEF Used
<1>7. Regions' = Regions \cup {r}
  <2>1. /\ DOMAIN desc' = DOMAIN desc \cup {a} /\ desc'[a] = got
        /\ \A x \in DOMAIN desc : desc'[x] = desc[x]
    BY <1>1, <1>6
  <2> QED  BY <2>1 DEF Regions
<1> HIDE DEF r
<1> QED  BY <1>1, <1>5, <1>7 DEF Abstract!Alloc, Abstract!NotRefused, Regions, s

LEMMA RefusalIsRefuse ==
  ASSUME AllocatorInv, NEW bytes \in Size, mem_alloc(bytes),
         ~ \E j \in DOMAIN fmem : fmem[j].num >= Needed(bytes)
  PROVE  Abstract!Refuse(numOfBlcks(bytes))
<1> DEFINE s == numOfBlcks(bytes)
<1>1. refused' = bytes /\ desc' = desc
  BY DEF mem_alloc
<1>2. s \in Nat /\ Needed(bytes) = s + 1
  BY NeededIs
<1>3. bytes # NotRefused
  BY AllocatorAssumption DEF NotRefused
<1> HIDE DEF s
<1>4. ASSUME NEW r \in Abstract!Fits(s) PROVE FALSE
  <2> DEFINE a == r.addr
             n == r.size
  <2>1. a \in 0..(HeapBlocks - 1) /\ n \in {s + 1, s + 2} /\ HeapBlocks \in Nat
    BY AllocatorAssumption DEF Abstract!Fits
  <2>2. Abstract!Region(r) \subseteq Abstract!Available
    BY DEF Abstract!Fits
  <2>3. Abstract!Region(r) = a..(a + n - 1)
    BY DEF Abstract!Region
  <2> HIDE DEF a, n
  <2>4. \A b \in a..(a + n - 1) : b \in 0..(HeapBlocks - 1) /\ Covers(fmem, b)
    <3>1. \A b \in a..(a + n - 1) : b \in Abstract!Available
      BY <2>2, <2>3
    <3>2. \A b \in a..(a + n - 1) : b \in 0..(HeapBlocks - 1)
      BY <3>1 DEF Abstract!Available
    <3> QED  BY <3>1, <3>2, AvailableAre
  <2>5. a \in Nat /\ n \in Nat /\ n >= 1 /\ n >= s + 1
    BY <1>2, <2>1
  <2>6. PICK i \in DOMAIN fmem : fmem[i].num >= n
    BY <2>4, <2>5, InvariantGives, FreeRun
  <2>7. fmem[i].num \in Nat
    BY InvariantGives, FragmentsAre
  <2> QED  BY <1>2, <2>5, <2>6, <2>7
<1>5. Abstract!Fits(s) = {}
  BY <1>4
<1>6. Regions' = Regions
  BY <1>1 DEF Regions
<1> QED  BY <1>1, <1>3, <1>5, <1>6 DEF Abstract!Refuse, Regions, s

LEMMA FreeIsFree ==
  ASSUME AllocatorInv, NEW a \in DOMAIN desc, mem_free(a)
  PROVE  Abstract!Free
<1> DEFINE r == [addr |-> a, size |-> desc[a]]
<1>1. /\ refused' = NotRefused /\ DOMAIN desc' = DOMAIN desc \ {a}
      /\ \A b \in DOMAIN desc \ {a} : desc'[b] = desc[b]
  BY DEF mem_free
<1>2. r \in Regions
  BY DEF Regions
<1>3. Regions' = Regions \ {r}
  <2>1. ASSUME NEW b \in DOMAIN desc, b # a PROVE [addr |-> b, size |-> desc[b]] # r
    <3>1. [addr |-> b, size |-> desc[b]].addr = b /\ r.addr = a
      OBVIOUS
    <3> QED  BY <2>1, <3>1
  <2>2. Regions' = {[addr |-> b, size |-> desc[b]] : b \in DOMAIN desc \ {a}}
    BY <1>1 DEF Regions
  <2> HIDE DEF r
  <2>3. \A b \in DOMAIN desc : b = a => [addr |-> b, size |-> desc[b]] = r
    BY DEF r
  <2> QED  BY <2>1, <2>2, <2>3 DEF Regions
<1> HIDE DEF r
<1> QED  BY <1>1, <1>2, <1>3 DEF Abstract!Free, Abstract!NotRefused, Regions

Answer == IF refused = NotRefused THEN -1 ELSE numOfBlcks(refused)

LEMMA NextMaps ==
  AllocatorInv /\ [Next]_vars => [Abstract!HeapNext]_<<Regions, Answer>>
<1> SUFFICES ASSUME AllocatorInv, [Next]_vars
             PROVE  [Abstract!HeapNext]_<<Regions, Answer>>
  OBVIOUS
<1>1. ASSUME NEW bytes \in Size, mem_alloc(bytes) PROVE Abstract!HeapNext
  <2>1. Abstract!Alloc(numOfBlcks(bytes)) \/ Abstract!Refuse(numOfBlcks(bytes))
    BY <1>1, GrantIsAlloc, RefusalIsRefuse
  <2> QED  BY <2>1 DEF Abstract!HeapNext
<1>2. ASSUME NEW a \in DOMAIN desc, mem_free(a) PROVE Abstract!HeapNext
  <2>1. Abstract!Free
    BY <1>2, FreeIsFree
  <2> QED  BY <2>1 DEF Abstract!HeapNext
<1>3. ASSUME UNCHANGED vars PROVE UNCHANGED <<Regions, Answer>>
  <2>1. Regions' = Regions
    BY <1>3 DEF vars, Regions
  <2>2. Answer' = Answer
    BY <1>3 DEF vars, Answer, numOfBlcks
  <2> QED  BY <2>1, <2>2
<1> QED  BY <1>1, <1>2, <1>3 DEF Next

(* The allocator does what Heap promises, whatever order regions are freed *)
(* in: every region is made of free blocks and large enough, and nullptr   *)
(* means that no run of free blocks could have held the request.           *)
THEOREM AllocatorImplements == Spec => AllocatesWhenPossible
<1>1. Init => Abstract!HeapInit
  BY DEF Init, Abstract!HeapInit, Abstract!NotRefused
<1>2. AllocatorInv /\ [Next]_vars => [Abstract!HeapNext]_<<Regions, Answer>>
  BY NextMaps
<1> QED  BY <1>1, <1>2, AllocatorAlways, PTL
         DEF Spec, AllocatesWhenPossible, Abstract!HeapSpec, Regions, Answer

=============================================================================
