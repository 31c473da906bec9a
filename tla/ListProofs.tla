------------------------------ MODULE ListProofs ------------------------------
(***************************************************************************)
(* Proofs about where the kernel's threads are: every thread that has not  *)
(* ended is the running one or in exactly one list, at one place of it;    *)
(* its status tells which; and nobody is overtaken.                        *)
(*                                                                         *)
(* A handler moves threads between lists in four ways: it appends one, it  *)
(* inserts one among the sleepers, it takes one from the front, and it     *)
(* carries the front part of one list to the end of another.  The first    *)
(* part of the module says what these do to one sequence, the second what  *)
(* they do to a family of lists, the third applies that to each action.    *)
(* Then come the status and the order, and from these how long a ready     *)
(* thread may have to wait for its turn; last, that the sleepers' list is  *)
(* used as its implementation takes for granted, and that n signals in a   *)
(* row are what Signal(s, n) says.                                         *)
(***************************************************************************)
EXTENDS KernelProofs, WellFoundedInduction

Members(q) == {q[i] : i \in DOMAIN q}
Distinct(q) == \A i, j \in DOMAIN q : q[i] = q[j] => i = j

-----------------------------------------------------------------------------
(***************************************************************************)
(* One sequence.                                                           *)
(***************************************************************************)

LEMMA EmptyParts == Members(<< >>) = {} /\ Distinct(<< >>)
BY DEF Members, Distinct

LEMMA Singleton ==
  ASSUME NEW t \in Thread
  PROVE  <<t>> \in Seq(Thread) /\ Distinct(<<t>>) /\ Members(<<t>>) = {t}
<1>1. /\ <<t>> \in Seq(Thread) /\ DOMAIN <<t>> = {1} /\ <<t>>[1] = t
  OBVIOUS
<1> QED  BY <1>1 DEF Members, Distinct

(* Two lists that share no thread, one behind the other.                   *)
LEMMA JoinedParts ==
  ASSUME NEW q \in Seq(Thread), NEW r \in Seq(Thread)
  PROVE  /\ q \o r \in Seq(Thread)
         /\ Members(q \o r) = Members(q) \cup Members(r)
         /\ Distinct(q) /\ Distinct(r) /\ Members(q) \cap Members(r) = {} =>
              Distinct(q \o r)
<1> DEFINE m == Len(q)
           n == Len(r)
           c == q \o r
<1>1. /\ m \in Nat /\ n \in Nat
      /\ DOMAIN q = 1..m /\ DOMAIN r = 1..n
  BY LenProperties
<1>2. /\ c \in Seq(Thread) /\ Len(c) = m + n
      /\ \A i \in 1..(m + n) : c[i] = IF i <= m THEN q[i] ELSE r[i - m]
  BY ConcatProperties
<1>3. DOMAIN c = 1..(m + n)
  BY <1>2, LenProperties
<1> HIDE DEF c, m, n
<1>4. Members(c) = Members(q) \cup Members(r)
  <2>1. ASSUME NEW i \in 1..(m + n)
        PROVE  c[i] \in Members(q) \cup Members(r)
    <3>1. CASE i <= m
      <4>1. i \in 1..m /\ c[i] = q[i]
        BY <1>1, <1>2, <3>1
      <4> QED  BY <1>1, <4>1 DEF Members
    <3>2. CASE ~(i <= m)
      <4>1. i - m \in 1..n /\ c[i] = r[i - m]
        BY <1>1, <1>2, <3>2
      <4> QED  BY <1>1, <4>1 DEF Members
    <3> QED  BY <3>1, <3>2
  <2>2. ASSUME NEW i \in 1..m
        PROVE  q[i] \in Members(c)
    <3>1. i \in 1..(m + n) /\ c[i] = q[i]
      BY <1>1, <1>2
    <3> QED  BY <1>3, <3>1 DEF Members
  <2>3. ASSUME NEW i \in 1..n
        PROVE  r[i] \in Members(c)
    <3>1. i + m \in 1..(m + n) /\ c[i + m] = r[i]
      BY <1>1, <1>2
    <3> QED  BY <1>3, <3>1 DEF Members
  <2>4. \A e \in Members(c) : e \in Members(q) \cup Members(r)
    BY <1>3, <2>1 DEF Members
  <2>5. \A e \in Members(q) \cup Members(r) : e \in Members(c)
    BY <1>1, <2>2, <2>3 DEF Members
  <2> QED  BY <2>4, <2>5
<1>5. ASSUME Distinct(q), Distinct(r), Members(q) \cap Members(r) = {},
             NEW i \in 1..(m + n), NEW j \in 1..(m + n), c[i] = c[j]
      PROVE  i = j
  <2>1. ASSUME NEW a \in 1..m, NEW b \in 1..n
        PROVE  q[a] # r[b]
    BY <1>1, <1>5 DEF Members
  <2>2. CASE i <= m /\ j <= m
    <3>1. i \in 1..m /\ j \in 1..m /\ q[i] = q[j]
      BY <1>1, <1>2, <1>5, <2>2
    <3> QED  BY <1>1, <1>5, <3>1 DEF Distinct
  <2>3. CASE i <= m /\ ~(j <= m)
    <3>1. j - m \in 1..n /\ i \in 1..m
      BY <1>1, <2>3
    <3> QED  BY <1>2, <1>5, <2>1, <2>3, <3>1
  <2>4. CASE ~(i <= m) /\ j <= m
    <3>1. i - m \in 1..n /\ j \in 1..m
      BY <1>1, <2>4
    <3> QED  BY <1>2, <1>5, <2>1, <2>4, <3>1
  <2>5. CASE ~(i <= m) /\ ~(j <= m)
    <3>1. i - m \in 1..n /\ j - m \in 1..n /\ r[i - m] = r[j - m]
      BY <1>1, <1>2, <1>5, <2>5
    <3>2. i - m = j - m
      BY <1>1, <1>5, <3>1 DEF Distinct
    <3> QED  BY <1>1, <3>2
  <2> QED  BY <2>2, <2>3, <2>4, <2>5
<1> QED  BY <1>2, <1>3, <1>4, <1>5 DEF c, Distinct

(* The two parts of a list without repetitions.                            *)
LEMMA SplitParts ==
  ASSUME NEW q \in Seq(Thread), Distinct(q), NEW k \in 0..Len(q)
  PROVE  LET front == SubSeq(q, 1, k)
             rest == SubSeq(q, k + 1, Len(q))
         IN  /\ front \in Seq(Thread) /\ rest \in Seq(Thread)
             /\ Distinct(front) /\ Distinct(rest)
             /\ Members(front) \cap Members(rest) = {}
             /\ Members(front) \cup Members(rest) = Members(q)
<1> DEFINE front == SubSeq(q, 1, k)
           rest == SubSeq(q, k + 1, Len(q))
           n == Len(q)
<1>1. n \in Nat /\ DOMAIN q = 1..n /\ k \in Nat /\ k <= n
  BY LenProperties
<1>2. /\ front \in Seq(Thread) /\ Len(front) = k
      /\ \A i \in 1..k : front[i] = q[i]
  BY <1>1, PartOfSeq
<1>3. /\ rest \in Seq(Thread) /\ Len(rest) = n - k
      /\ \A i \in 1..(n - k) : rest[i] = q[k + i]
  <2>1. k + 1 \in 1..(n + 1) /\ n \in 0..n
    BY <1>1
  <2>2. /\ rest \in Seq(Thread)
        /\ Len(rest) = IF k + 1 <= n THEN n - (k + 1) + 1 ELSE 0
        /\ \A i \in 1..(n - (k + 1) + 1) : rest[i] = q[(k + 1) + i - 1]
    BY <2>1, PartOfSeq
  <2>3. n - (k + 1) + 1 = n - k /\ \A i \in Nat : (k + 1) + i - 1 = k + i
    BY <1>1
  <2> HIDE DEF rest, n
  <2>4. \A i \in 1..(n - k) : rest[i] = q[k + i]
    BY <1>1, <2>2, <2>3
  <2> QED  BY <1>1, <2>2, <2>4
<1>4. DOMAIN front = 1..k /\ DOMAIN rest = 1..(n - k)
  BY <1>2, <1>3, LenProperties
<1> HIDE DEF front, rest, n
<1>5. \A i, j \in 1..n : q[i] = q[j] => i = j
  BY <1>1 DEF Distinct
<1>6. Distinct(front)
  BY <1>1, <1>2, <1>4, <1>5 DEF Distinct
<1>7. Distinct(rest)
  <2> SUFFICES ASSUME NEW i \in 1..(n - k), NEW j \in 1..(n - k), rest[i] = rest[j]
               PROVE  i = j
    BY <1>4 DEF Distinct
  <2>1. k + i \in 1..n /\ k + j \in 1..n /\ q[k + i] = q[k + j]
    BY <1>1, <1>3
  <2>2. k + i = k + j
    BY <1>5, <2>1
  <2> QED  BY <1>1, <2>2
<1>8. Members(front) \cap Members(rest) = {}
  <2> SUFFICES ASSUME NEW i \in 1..k, NEW j \in 1..(n - k), front[i] = rest[j]
               PROVE  FALSE
    BY <1>4 DEF Members
  <2>1. i \in 1..n /\ k + j \in 1..n /\ q[i] = q[k + j]
    BY <1>1, <1>2, <1>3
  <2>2. i = k + j
    BY <1>5, <2>1
  <2> QED  BY <1>1, <2>2
<1>9. Members(front) \cup Members(rest) = Members(q)
  <2>1. \A i \in 1..k : front[i] \in Members(q)
    BY <1>1, <1>2 DEF Members
  <2>2. ASSUME NEW i \in 1..(n - k)
        PROVE  rest[i] \in Members(q)
    <3>1. k + i \in 1..n /\ rest[i] = q[k + i]
      BY <1>1, <1>3
    <3> QED  BY <1>1, <3>1 DEF Members
  <2>3. ASSUME NEW i \in 1..n
        PROVE  q[i] \in Members(front) \cup Members(rest)
    <3>1. CASE i <= k
      BY <1>1, <1>2, <1>4, <3>1 DEF Members
    <3>2. CASE ~(i <= k)
      <4>1. i - k \in 1..(n - k) /\ rest[i - k] = q[i]
        BY <1>1, <1>3, <3>2
      <4> QED  BY <1>4, <4>1 DEF Members
    <3> QED  BY <3>1, <3>2
  <2>4. \A e \in Members(front) \cup Members(rest) : e \in Members(q)
    BY <1>4, <2>1, <2>2 DEF Members
  <2>5. \A e \in Members(q) : e \in Members(front) \cup Members(rest)
    BY <1>1, <2>3 DEF Members
  <2> QED  BY <2>4, <2>5
<1> QED  BY <1>2, <1>3, <1>6, <1>7, <1>8, <1>9 DEF front, rest

(* A thread that is not in a list is added to its end, or anywhere in it.  *)
LEMMA AppendedPart ==
  ASSUME NEW q \in Seq(Thread), Distinct(q), NEW t \in Thread, t \notin Members(q)
  PROVE  /\ Append(q, t) \in Seq(Thread)
         /\ Distinct(Append(q, t))
         /\ Members(Append(q, t)) = Members(q) \cup {t}
<1> DEFINE one == <<t>>
<1>1. Append(q, t) = q \o one
  BY AppendIsConcat
<1>2. one \in Seq(Thread) /\ Distinct(one) /\ Members(one) = {t}
  BY Singleton
<1> HIDE DEF one
<1>3. Members(q) \cap Members(one) = {}
  BY <1>2
<1> QED  BY <1>1, <1>2, <1>3, JoinedParts

LEMMA InsertedPart ==
  ASSUME NEW q \in Seq(Thread), Distinct(q), NEW t \in Thread, t \notin Members(q),
         NEW p \in 1..(Len(q) + 1)
  PROVE  LET r == SubSeq(q, 1, p - 1) \o <<t>> \o SubSeq(q, p, Len(q))
         IN  r \in Seq(Thread) /\ Distinct(r) /\ Members(r) = Members(q) \cup {t}
<1> DEFINE front == SubSeq(q, 1, p - 1)
           rest == SubSeq(q, p, Len(q))
           one == <<t>>
<1>1. Len(q) \in Nat
  BY LenProperties
<1>2. p - 1 \in 0..Len(q) /\ (p - 1) + 1 = p
  BY <1>1
<1>3. /\ front \in Seq(Thread) /\ rest \in Seq(Thread)
      /\ Distinct(front) /\ Distinct(rest)
      /\ Members(front) \cap Members(rest) = {}
      /\ Members(front) \cup Members(rest) = Members(q)
  BY <1>2, SplitParts
<1>4. one \in Seq(Thread) /\ Distinct(one) /\ Members(one) = {t}
  BY Singleton
<1> HIDE DEF front, rest, one
<1>5. Members(front) \cap Members(one) = {}
  BY <1>3, <1>4
<1>6. /\ front \o one \in Seq(Thread)
      /\ Distinct(front \o one)
      /\ Members(front \o one) = Members(front) \cup {t}
  BY <1>3, <1>4, <1>5, JoinedParts
<1>7. Members(front \o one) \cap Members(rest) = {}
  BY <1>3, <1>6
<1>8. /\ (front \o one) \o rest \in Seq(Thread)
      /\ Distinct((front \o one) \o rest)
      /\ Members((front \o one) \o rest) = Members(front \o one) \cup Members(rest)
  BY <1>3, <1>6, <1>7, JoinedParts
<1>9. Members((front \o one) \o rest) = Members(q) \cup {t}
  BY <1>3, <1>6, <1>8
<1> QED  BY <1>8, <1>9 DEF front, rest, one

(* The first thread of a list is taken.                                    *)
LEMMA TakenPart ==
  ASSUME NEW q \in Seq(Thread), Distinct(q), q # << >>
  PROVE  /\ Head(q) \in Thread /\ Head(q) \in Members(q)
         /\ Tail(q) \in Seq(Thread) /\ Distinct(Tail(q))
         /\ Members(Tail(q)) = Members(q) \ {Head(q)}
<1>1. Len(q) \in Nat \ {0}
  BY EmptySeq
<1>2. Tail(q) = SubSeq(q, 2, Len(q))
  BY TailIsSubSeq
<1>3. 1 \in 0..Len(q) /\ 1 + 1 = 2 /\ 1 \in 1..Len(q)
  BY <1>1
<1>4. /\ Distinct(Tail(q)) /\ Tail(q) \in Seq(Thread)
      /\ Members(SubSeq(q, 1, 1)) \cap Members(Tail(q)) = {}
      /\ Members(SubSeq(q, 1, 1)) \cup Members(Tail(q)) = Members(q)
  <2>1. LET front == SubSeq(q, 1, 1)
            rest == SubSeq(q, 1 + 1, Len(q))
        IN  /\ front \in Seq(Thread) /\ rest \in Seq(Thread)
            /\ Distinct(front) /\ Distinct(rest)
            /\ Members(front) \cap Members(rest) = {}
            /\ Members(front) \cup Members(rest) = Members(q)
    BY <1>3, SplitParts
  <2> QED  BY <1>2, <1>3, <2>1
<1>5. Members(SubSeq(q, 1, 1)) = {Head(q)}
  <2>1. /\ Len(SubSeq(q, 1, 1)) = 1 /\ SubSeq(q, 1, 1)[1] = q[1]
        /\ SubSeq(q, 1, 1) \in Seq(Thread)
    BY <1>1, <1>3, PartOfSeq
  <2>2. DOMAIN SubSeq(q, 1, 1) = 1..1
    BY <2>1, LenProperties
  <2>3. 1..1 = {1}
    OBVIOUS
  <2>4. q[1] = Head(q)
    BY <1>1
  <2> QED  BY <2>1, <2>2, <2>3, <2>4 DEF Members
<1>6. Head(q) \in Thread
  BY HeadTailProperties
<1> QED  BY <1>4, <1>5, <1>6

-----------------------------------------------------------------------------
(***************************************************************************)
(* A family of lists, one for each name: Holds(L, S) says that the threads *)
(* of S, and no others, are in the lists L, each at one place.             *)
(***************************************************************************)

Holds(L, S) ==
  /\ L \in [ListName -> Seq(Thread)]
  /\ \A x \in ListName : Distinct(L[x])
  /\ \A x, y \in ListName : x # y => Members(L[x]) \cap Members(L[y]) = {}
  /\ S = UNION {Members(L[x]) : x \in ListName}

(* M is L with the list x replaced by q.                                   *)
Replaced(L, M, x, q) ==
  /\ M = [y \in ListName |-> M[y]]
  /\ M[x] = q
  /\ \A y \in ListName : y # x => M[y] = L[y]

LEMMA ReplacedTyped ==
  ASSUME NEW L \in [ListName -> Seq(Thread)], NEW M, NEW x \in ListName,
         NEW q \in Seq(Thread), Replaced(L, M, x, q)
  PROVE  M \in [ListName -> Seq(Thread)]
<1>1. \A y \in ListName : M[y] \in Seq(Thread)
  BY DEF Replaced
<1> QED  BY <1>1 DEF Replaced

(* A thread that is in no list enters one.                                 *)
LEMMA Entered ==
  ASSUME NEW L, NEW S, Holds(L, S), NEW x \in ListName, NEW t \in Thread, t \notin S,
         NEW q \in Seq(Thread), Distinct(q), Members(q) = Members(L[x]) \cup {t},
         NEW M, Replaced(L, M, x, q)
  PROVE  Holds(M, S \cup {t})
<1>1. /\ M \in [ListName -> Seq(Thread)]
      /\ M[x] = q
      /\ \A y \in ListName : y # x => M[y] = L[y]
  BY ReplacedTyped DEF Holds, Replaced
<1>2. \A y \in ListName : t \notin Members(L[y])
  BY DEF Holds
<1>3. \A y \in ListName : Distinct(M[y])
  BY <1>1 DEF Holds
<1>4. \A y, z \in ListName : y # z => Members(M[y]) \cap Members(M[z]) = {}
  <2> SUFFICES ASSUME NEW y \in ListName, NEW z \in ListName, y # z
               PROVE  Members(M[y]) \cap Members(M[z]) = {}
    OBVIOUS
  <2>1. Members(L[y]) \cap Members(L[z]) = {}
    BY DEF Holds
  <2>2. CASE y = x
    BY <1>1, <1>2, <2>1, <2>2
  <2>3. CASE z = x
    BY <1>1, <1>2, <2>1, <2>3
  <2>4. CASE y # x /\ z # x
    BY <1>1, <2>1, <2>4
  <2> QED  BY <2>2, <2>3, <2>4
<1>5. S \cup {t} = UNION {Members(M[y]) : y \in ListName}
  <2>1. S = UNION {Members(L[y]) : y \in ListName}
    BY DEF Holds
  <2>2. \A e \in S \cup {t} : \E y \in ListName : e \in Members(M[y])
    BY <1>1, <2>1
  <2>3. \A y \in ListName : \A e \in Members(M[y]) : e \in S \cup {t}
    BY <1>1, <2>1
  <2> QED  BY <2>2, <2>3
<1> QED  BY <1>1, <1>3, <1>4, <1>5 DEF Holds

(* A thread leaves the list it is in.                                      *)
LEMMA Left ==
  ASSUME NEW L, NEW S, Holds(L, S), NEW x \in ListName, NEW t \in Members(L[x]),
         NEW q \in Seq(Thread), Distinct(q), Members(q) = Members(L[x]) \ {t},
         NEW M, Replaced(L, M, x, q)
  PROVE  Holds(M, S \ {t})
<1>1. /\ M \in [ListName -> Seq(Thread)]
      /\ M[x] = q
      /\ \A y \in ListName : y # x => M[y] = L[y]
  BY ReplacedTyped DEF Holds, Replaced
<1>2. \A y \in ListName : y # x => t \notin Members(L[y])
  BY DEF Holds
<1>3. \A y \in ListName : Distinct(M[y])
  BY <1>1 DEF Holds
<1>4. \A y, z \in ListName : y # z => Members(M[y]) \cap Members(M[z]) = {}
  <2> SUFFICES ASSUME NEW y \in ListName, NEW z \in ListName, y # z
               PROVE  Members(M[y]) \cap Members(M[z]) = {}
    OBVIOUS
  <2>1. Members(L[y]) \cap Members(L[z]) = {}
    BY DEF Holds
  <2>2. CASE y = x
    BY <1>1, <2>1, <2>2
  <2>3. CASE z = x
    BY <1>1, <2>1, <2>3
  <2>4. CASE y # x /\ z # x
    BY <1>1, <2>1, <2>4
  <2> QED  BY <2>2, <2>3, <2>4
<1>5. S \ {t} = UNION {Members(M[y]) : y \in ListName}
  <2>1. S = UNION {Members(L[y]) : y \in ListName}
    BY DEF Holds
  <2>2. \A e \in S \ {t} : \E y \in ListName : e \in Members(M[y])
    BY <1>1, <2>1
  <2>3. \A y \in ListName : \A e \in Members(M[y]) : e \in S \ {t}
    BY <1>1, <1>2, <2>1
  <2> QED  BY <2>2, <2>3
<1> QED  BY <1>1, <1>3, <1>4, <1>5 DEF Holds

(* The front of one list goes to the end of another.                       *)
LEMMA Carried ==
  ASSUME NEW L, NEW S, Holds(L, S), NEW x \in ListName, NEW y \in ListName, x # y,
         NEW k \in 0..Len(L[x]),
         NEW N, Replaced(L, N, x, SubSeq(L[x], k + 1, Len(L[x]))),
         NEW M, Replaced(N, M, y, L[y] \o SubSeq(L[x], 1, k))
  PROVE  Holds(M, S)
<1> DEFINE front == SubSeq(L[x], 1, k)
           rest == SubSeq(L[x], k + 1, Len(L[x]))
           r == L[y] \o front
<1>1. /\ L \in [ListName -> Seq(Thread)]
      /\ Distinct(L[x]) /\ Distinct(L[y])
      /\ Members(L[x]) \cap Members(L[y]) = {}
  BY DEF Holds
<1>2. L[x] \in Seq(Thread) /\ L[y] \in Seq(Thread)
  BY <1>1
<1>3. /\ front \in Seq(Thread) /\ rest \in Seq(Thread)
      /\ Distinct(front) /\ Distinct(rest)
      /\ Members(front) \cap Members(rest) = {}
      /\ Members(front) \cup Members(rest) = Members(L[x])
  BY <1>1, <1>2, SplitParts
<1> SUFFICES ASSUME Replaced(L, N, x, rest), Replaced(N, M, y, r)
             PROVE  Holds(M, S)
  OBVIOUS
<1> HIDE DEF front, rest
<1>4. Members(L[y]) \cap Members(front) = {}
  BY <1>1, <1>3
<1>5. r \in Seq(Thread) /\ Distinct(r) /\ Members(r) = Members(L[y]) \cup Members(front)
  BY <1>1, <1>2, <1>3, <1>4, JoinedParts
<1> HIDE DEF r
<1>6. /\ M \in [ListName -> Seq(Thread)]
      /\ M[x] = rest /\ M[y] = r
      /\ \A z \in ListName : z # x /\ z # y => M[z] = L[z]
  <2>1. N \in [ListName -> Seq(Thread)]
    BY <1>1, <1>3, ReplacedTyped
  <2>2. M \in [ListName -> Seq(Thread)]
    BY <1>5, <2>1, ReplacedTyped
  <2> QED  BY <2>2 DEF Replaced
<1>7. \A z \in ListName : Distinct(M[z])
  BY <1>3, <1>5, <1>6 DEF Holds
<1>8. \A z, w \in ListName : z # w => Members(M[z]) \cap Members(M[w]) = {}
  <2> SUFFICES ASSUME NEW z \in ListName, NEW w \in ListName, z # w
               PROVE  Members(M[z]) \cap Members(M[w]) = {}
    OBVIOUS
  <2>1. /\ Members(L[z]) \cap Members(L[w]) = {}
        /\ z # x => Members(L[z]) \cap Members(L[x]) = {}
        /\ z # y => Members(L[z]) \cap Members(L[y]) = {}
        /\ w # x => Members(L[w]) \cap Members(L[x]) = {}
        /\ w # y => Members(L[w]) \cap Members(L[y]) = {}
    BY DEF Holds
  <2>2. CASE z = x \/ w = x
    BY <1>1, <1>3, <1>5, <1>6, <2>1, <2>2
  <2>3. CASE z # x /\ w # x /\ (z = y \/ w = y)
    BY <1>3, <1>5, <1>6, <2>1, <2>3
  <2>4. CASE z # x /\ w # x /\ z # y /\ w # y
    BY <1>6, <2>1, <2>4
  <2> QED  BY <2>2, <2>3, <2>4
<1>9. S = UNION {Members(M[z]) : z \in ListName}
  <2>1. S = UNION {Members(L[z]) : z \in ListName}
    BY DEF Holds
  <2>2. ASSUME NEW e \in S
        PROVE  \E z \in ListName : e \in Members(M[z])
    <3>1. PICK z \in ListName : e \in Members(L[z])
      BY <2>1
    <3>2. CASE z = x
      BY <1>3, <1>5, <1>6, <3>1, <3>2
    <3>3. CASE z # x
      BY <1>5, <1>6, <3>1, <3>3
    <3> QED  BY <3>2, <3>3
  <2>3. \A z \in ListName : \A e \in Members(M[z]) : e \in S
    BY <1>3, <1>5, <1>6, <2>1
  <2> QED  BY <2>2, <2>3
<1> QED  BY <1>6, <1>7, <1>8, <1>9 DEF Holds

-----------------------------------------------------------------------------
(***************************************************************************)
(* The kernel's lists.                                                     *)
(***************************************************************************)

(* The lists of a ready list, the sleepers, the semaphores' queues and the *)
(* joiners.                                                                *)
Build(rd, sl, bl, jn) ==
  [x \in ListName |-> IF x = READYLIST THEN rd
                      ELSE IF x = SLEEPLIST THEN sl
                      ELSE IF x[1] = "sem" THEN bl[x[2]]
                      ELSE jn[x[2]]]

Lists == Build(linkedList, asleep, blocked, semToSignal)

LiveThreads == {t \in Thread : Live(t)}

(* The threads that should be in a list: all but the running one, while    *)
(* the kernel runs.                                                        *)
Waiting == {t \in LiveThreads : mode = "on" => t # runningThread}

PlaceInv ==
  /\ Holds(Lists, Waiting)
  /\ mode = "on" => runningThread = Idle \/ runningThread \in LiveThreads
  /\ mode = "halted" =>
       linkedList = << >> /\ asleep = << >> /\ blocked[ConsoleSem] = << >>

(* A thread that is over was created.                                      *)
OverWereCreated == \A t \in Thread : isOver[t] => t \in created

LEMMA Names ==
  /\ READYLIST \in ListName /\ SLEEPLIST \in ListName /\ READYLIST # SLEEPLIST
  /\ \A s \in Sem : /\ <<"sem", s>> \in ListName
                    /\ <<"sem", s>> # READYLIST /\ <<"sem", s>> # SLEEPLIST
  /\ \A t \in Thread : /\ <<"join", t>> \in ListName
                       /\ <<"join", t>> # READYLIST /\ <<"join", t>> # SLEEPLIST
BY DEF ListName, READYLIST, SLEEPLIST

(* The first part of a name tells its kind.                                *)
LEMMA Kinds ==
  ASSUME NEW x \in ListName
  PROVE  /\ x[1] \in {"ready", "asleep", "sem", "join"}
         /\ x[1] = "ready" <=> x = READYLIST
         /\ x[1] = "asleep" <=> x = SLEEPLIST
         /\ x[1] = "sem" => x[2] \in Sem /\ x = <<"sem", x[2]>>
         /\ x[1] = "join" => x[2] \in Thread /\ x = <<"join", x[2]>>
<1>1. CASE x = READYLIST
  BY <1>1 DEF READYLIST, SLEEPLIST
<1>2. CASE x = SLEEPLIST
  BY <1>2 DEF READYLIST, SLEEPLIST
<1>3. CASE x \in {"sem"} \X Sem
  BY <1>3 DEF READYLIST, SLEEPLIST
<1>4. CASE x \in {"join"} \X Thread
  BY <1>4 DEF READYLIST, SLEEPLIST
<1> QED  BY <1>1, <1>2, <1>3, <1>4 DEF ListName

(* What each name stands for.                                              *)
LEMMA Built ==
  ASSUME NEW rd, NEW sl, NEW bl, NEW jn
  PROVE  LET L == Build(rd, sl, bl, jn)
         IN  /\ L[READYLIST] = rd /\ L[SLEEPLIST] = sl
             /\ \A s \in Sem : L[<<"sem", s>>] = bl[s]
             /\ \A t \in Thread : L[<<"join", t>>] = jn[t]
<1> DEFINE L == Build(rd, sl, bl, jn)
<1>1. L[READYLIST] = rd
  BY Names DEF Build, READYLIST
<1>2. L[SLEEPLIST] = sl
  BY Names DEF Build, SLEEPLIST
<1>3. ASSUME NEW s \in Sem PROVE L[<<"sem", s>>] = bl[s]
  <2> DEFINE x == <<"sem", s>>
  <2>1. x \in ListName /\ x # READYLIST /\ x # SLEEPLIST
    BY Names
  <2>2. x[1] = "sem" /\ x[2] = s
    OBVIOUS
  <2> HIDE DEF x
  <2>3. L[x] = bl[s]
    BY <2>1, <2>2 DEF Build
  <2> QED  BY <2>3 DEF x
<1>4. ASSUME NEW t \in Thread PROVE L[<<"join", t>>] = jn[t]
  <2> DEFINE x == <<"join", t>>
  <2>1. x \in ListName /\ x # READYLIST /\ x # SLEEPLIST
    BY Names
  <2>2. x[1] = "join" /\ x[2] = t
    OBVIOUS
  <2> HIDE DEF x
  <2>3. L[x] = jn[t]
    BY <2>1, <2>2 DEF Build
  <2> QED  BY <2>3 DEF x
<1> QED  BY <1>1, <1>2, <1>3, <1>4

(* One list replaced by another.                                           *)
LEMMA ReadyReplaced ==
  ASSUME NEW rd, NEW sl, NEW bl, NEW jn, NEW q
  PROVE  Replaced(Build(rd, sl, bl, jn), Build(q, sl, bl, jn), READYLIST, q)
BY Names DEF Replaced, Build

LEMMA SleepersReplaced ==
  ASSUME NEW rd, NEW sl, NEW bl, NEW jn, NEW q
  PROVE  Replaced(Build(rd, sl, bl, jn), Build(rd, q, bl, jn), SLEEPLIST, q)
BY Names DEF Replaced, Build

LEMMA QueueReplaced ==
  ASSUME NEW rd, NEW sl, NEW bl, NEW jn, NEW s \in Sem,
         NEW after, \A r \in Sem : r # s => after[r] = bl[r]
  PROVE  Replaced(Build(rd, sl, bl, jn), Build(rd, sl, after, jn), <<"sem", s>>, after[s])
<1> DEFINE n == <<"sem", s>>
<1>1. n[1] = "sem" /\ n[2] = s
  OBVIOUS
<1>2. n \in ListName /\ n # READYLIST /\ n # SLEEPLIST
  BY Names
<1>3. \A x \in ListName : x[1] = "sem" => x[2] \in Sem /\ (x[2] = s <=> x = n)
  BY Kinds
<1> HIDE DEF n
<1>4. Replaced(Build(rd, sl, bl, jn), Build(rd, sl, after, jn), n, after[s])
  BY <1>1, <1>2, <1>3 DEF Replaced, Build
<1> QED  BY <1>4 DEF n

LEMMA JoinersReplaced ==
  ASSUME NEW rd, NEW sl, NEW bl, NEW jn, NEW t \in Thread,
         NEW after, \A u \in Thread : u # t => after[u] = jn[u]
  PROVE  Replaced(Build(rd, sl, bl, jn), Build(rd, sl, bl, after), <<"join", t>>, after[t])
<1> DEFINE n == <<"join", t>>
<1>1. n[1] = "join" /\ n[2] = t
  OBVIOUS
<1>2. n \in ListName /\ n # READYLIST /\ n # SLEEPLIST
  BY Names
<1>3. \A x \in ListName : x # READYLIST /\ x # SLEEPLIST /\ x[1] # "sem" =>
        x[2] \in Thread /\ (x[2] = t <=> x = n)
  BY Kinds
<1> HIDE DEF n
<1>4. Replaced(Build(rd, sl, bl, jn), Build(rd, sl, bl, after), n, after[t])
  BY <1>1, <1>2, <1>3 DEF Replaced, Build
<1> QED  BY <1>4 DEF n

-----------------------------------------------------------------------------
(***************************************************************************)
(* What a change of the running thread does to the lists.  Before it every *)
(* live thread is in a list; it takes the next one out, unless the kernel  *)
(* stops.                                                                  *)
(***************************************************************************)

LEMMA SwitchPlaces ==
  ASSUME NEW q \in Seq(Thread), NEW st, NEW tr,
         Holds(Build(q, asleep', blocked', semToSignal'), LiveThreads'),
         SwitchFrom(q, asleep', blocked', st, tr)
  PROVE  PlaceInv'
<1> DEFINE L == Build(q, asleep', blocked', semToSignal')
<1>1. L[READYLIST] = q
  BY Built
<1>2. Replaced(L, Lists', READYLIST, linkedList')
  BY ReadyReplaced DEF Lists
<1>3. Holds(L, LiveThreads')
  OBVIOUS
<1> HIDE DEF L
<1>4. CASE ModeAfterGet(q, asleep', blocked') # "on"
  <2>1. mode' # "on" /\ linkedList' = q
    BY <1>4 DEF SwitchFrom
  <2>2. Lists' = Build(q, asleep', blocked', semToSignal')
    BY <2>1 DEF Lists
  <2>3. Waiting' = LiveThreads'
    BY <2>1 DEF Waiting
  <2>4. Holds(Lists', Waiting')
    BY <2>2, <2>3
  <2>5. mode' = "halted" =>
          q = << >> /\ asleep' = << >> /\ blocked'[ConsoleSem] = << >>
    BY DEF SwitchFrom, ModeAfterGet
  <2>6. Holds(Lists, Waiting)'
    BY <2>4
  <2> QED  BY <2>1, <2>5, <2>6 DEF PlaceInv
<1>5. CASE ModeAfterGet(q, asleep', blocked') = "on"
  <2>1. /\ mode' = "on"
        /\ runningThread' = NextThread(q)
        /\ linkedList' = IF q = << >> THEN q ELSE Tail(q)
    BY <1>5 DEF SwitchFrom
  <2>2. Waiting' = LiveThreads' \ {runningThread'}
    BY <2>1 DEF Waiting
  <2>3. CASE q = << >>
    <3>1. runningThread' = Idle /\ linkedList' = q
      BY <2>1, <2>3 DEF NextThread
    <3>2. Waiting' = LiveThreads'
      BY <2>2, <3>1, KernelAssumption DEF LiveThreads
    <3>3. Lists' = Build(q, asleep', blocked', semToSignal')
      BY <3>1 DEF Lists
    <3>4. Holds(Lists, Waiting)'
      BY <3>2, <3>3
    <3> QED  BY <2>1, <3>1, <3>4 DEF PlaceInv
  <2>4. CASE q # << >>
    <3>1. runningThread' = Head(q) /\ linkedList' = Tail(q)
      BY <2>1, <2>4 DEF NextThread
    <3>2. Distinct(q)
      BY <1>1, <1>3, Names DEF Holds
    <3>3. /\ Head(q) \in Members(q)
          /\ Tail(q) \in Seq(Thread) /\ Distinct(Tail(q))
          /\ Members(Tail(q)) = Members(q) \ {Head(q)}
      BY <2>4, <3>2, TakenPart
    <3>4. Holds(Lists', LiveThreads' \ {Head(q)})
      BY <1>1, <1>2, <1>3, <3>1, <3>3, Names, Left
    <3>5. Holds(Lists, Waiting)'
      BY <2>2, <3>1, <3>4
    <3>6. Head(q) \in LiveThreads'
      BY <1>1, <1>3, <3>3, Names DEF Holds
    <3> QED  BY <2>1, <3>1, <3>5, <3>6 DEF PlaceInv
  <2> QED  BY <2>3, <2>4
<1> QED  BY <1>4, <1>5

(* A dispatch puts the running thread back first, the idle thread apart.   *)
LEMMA DispatchPlaces ==
  ASSUME NEW q0 \in Seq(Thread), NEW st, NEW tr,
         UNCHANGED <<blocked, created, isOver>>,
         runningThread = Idle \/ runningThread \in LiveThreads,
         Holds(Build(q0, asleep', blocked', semToSignal'), LiveThreads \ {runningThread}),
         Dispatch(q0, asleep', st, tr)
  PROVE  PlaceInv'
<1> DEFINE q == PutThread(q0, runningThread)
           L == Build(q0, asleep', blocked', semToSignal')
           M == Build(q, asleep', blocked', semToSignal')
           begun == IF isBeginning[NextThread(q)] = 1
                      THEN [tr EXCEPT ![NextThread(q)] = 0] ELSE tr
           ready == [st EXCEPT ![runningThread] = "READY"]
<1>1. SwitchFrom(q, asleep', blocked', ready, begun)
  BY DEF Dispatch
<1>2. LiveThreads' = LiveThreads
  BY DEF LiveThreads, Live
<1>3. q \in Seq(Thread) /\ Holds(Build(q, asleep', blocked', semToSignal'), LiveThreads)
  <2>1. CASE runningThread = Idle
    <3>1. q = q0
      BY <2>1 DEF PutThread
    <3>2. LiveThreads \ {runningThread} = LiveThreads
      BY <2>1, KernelAssumption DEF LiveThreads
    <3> QED  BY <3>1, <3>2
  <2>2. CASE runningThread # Idle
    <3>1. runningThread \in LiveThreads /\ runningThread \in Thread
      BY <2>2 DEF LiveThreads
    <3>2. q = Append(q0, runningThread)
      BY <2>2 DEF PutThread
    <3>3. L[READYLIST] = q0
      BY Built
    <3>4. Holds(L, LiveThreads \ {runningThread})
      OBVIOUS
    <3>5. Replaced(L, M, READYLIST, q)
      BY ReadyReplaced
    <3> HIDE DEF L, M
    <3>6. Distinct(q0) /\ runningThread \notin Members(q0)
      BY <3>3, <3>4, Names DEF Holds
    <3>7. /\ q \in Seq(Thread) /\ Distinct(q)
          /\ Members(q) = Members(q0) \cup {runningThread}
      BY <3>1, <3>2, <3>6, AppendedPart
    <3> HIDE DEF q
    <3>8. Holds(M, (LiveThreads \ {runningThread}) \cup {runningThread})
      BY <3>1, <3>3, <3>4, <3>5, <3>7, Names, Entered
    <3>9. (LiveThreads \ {runningThread}) \cup {runningThread} = LiveThreads
      BY <3>1
    <3> QED  BY <3>7, <3>8, <3>9 DEF M
  <2> QED  BY <2>1, <2>2
<1> HIDE DEF q, begun, ready
<1> QED  BY <1>1, <1>2, <1>3, SwitchPlaces

(* A step that leaves the lists, the running thread and the set of live    *)
(* threads alone.                                                          *)
LEMMA NothingMoves ==
  ASSUME PlaceInv,
         UNCHANGED <<created, isOver, semToSignal, blocked, asleep,
                     linkedList, runningThread, mode>>
  PROVE  PlaceInv'
<1>1. Lists' = Lists /\ LiveThreads' = LiveThreads /\ Waiting' = Waiting
  BY DEF Lists, LiveThreads, Live, Waiting
<1>2. Holds(Lists, Waiting)'
  BY <1>1 DEF PlaceInv
<1> QED  BY <1>1, <1>2 DEF PlaceInv

-----------------------------------------------------------------------------
(***************************************************************************)
(* The actions.                                                            *)
(***************************************************************************)

LEMMA ListsTyped ==
  ASSUME IInv
  PROVE  /\ linkedList \in Seq(Thread) /\ asleep \in Seq(Thread)
         /\ blocked \in [Sem -> Seq(Thread)]
         /\ semToSignal \in [Thread -> Seq(Thread)]
         /\ Lists[READYLIST] = linkedList
         /\ Lists[SLEEPLIST] = asleep
         /\ \A s \in Sem : Lists[<<"sem", s>>] = blocked[s]
         /\ \A t \in Thread : Lists[<<"join", t>>] = semToSignal[t]
BY Built DEF IInv, TypeOK, Lists

(* The lists of a step in which one list changes.                          *)
LEMMA JoinersChange ==
  ASSUME IInv, NEW u \in Thread, NEW r, semToSignal' = [semToSignal EXCEPT ![u] = r],
         UNCHANGED <<blocked, asleep>>
  PROVE  Replaced(Lists, Build(linkedList, asleep', blocked', semToSignal'),
                  <<"join", u>>, r)
<1>1. /\ \A v \in Thread : v # u => semToSignal'[v] = semToSignal[v]
      /\ semToSignal'[u] = r
  BY ListsTyped
<1>2. Replaced(Lists, Build(linkedList, asleep, blocked, semToSignal'),
               <<"join", u>>, semToSignal'[u])
  BY <1>1, JoinersReplaced DEF Lists
<1> QED  BY <1>1, <1>2

LEMMA QueueChanges ==
  ASSUME IInv, NEW s \in Sem, NEW r, blocked' = [blocked EXCEPT ![s] = r],
         UNCHANGED <<semToSignal, asleep>>
  PROVE  Replaced(Lists, Build(linkedList, asleep', blocked', semToSignal'),
                  <<"sem", s>>, r)
<1>1. /\ \A x \in Sem : x # s => blocked'[x] = blocked[x]
      /\ blocked'[s] = r
  BY ListsTyped
<1>2. Replaced(Lists, Build(linkedList, asleep, blocked', semToSignal),
               <<"sem", s>>, blocked'[s])
  BY <1>1, QueueReplaced DEF Lists
<1> QED  BY <1>1, <1>2

LEMMA SleepersChange ==
  ASSUME UNCHANGED <<blocked, semToSignal>>
  PROVE  Replaced(Lists, Build(linkedList, asleep', blocked', semToSignal'),
                  SLEEPLIST, asleep')
<1>1. Replaced(Lists, Build(linkedList, asleep', blocked, semToSignal),
               SLEEPLIST, asleep')
  BY SleepersReplaced DEF Lists
<1> QED  BY <1>1

LEMMA CreatePlaces ==
  ASSUME IInv, PlaceInv, OverWereCreated, NEW t \in Thread, ThreadCreate(t)
  PROVE  PlaceInv'
<1>1. /\ linkedList' = Append(linkedList, t)
      /\ UNCHANGED <<runningThread, isOver, semToSignal, blocked, asleep, mode>>
      /\ created' = created \cup {t} /\ t \notin created
      /\ mode = "on" /\ runningThread \in Thread
  BY KernelAssumption DEF ThreadCreate, PutThread, semVars, sleepVars, UserTraps
<1>2. LiveThreads' = LiveThreads \cup {t} /\ t \notin LiveThreads
  BY <1>1 DEF LiveThreads, Live, OverWereCreated
<1>3. runningThread \in LiveThreads
  BY <1>1, KernelAssumption DEF PlaceInv
<1>4. Waiting' = Waiting \cup {t} /\ t \notin Waiting
  BY <1>1, <1>2, <1>3 DEF Waiting
<1>5. Distinct(linkedList) /\ t \notin Members(linkedList)
  BY <1>4, ListsTyped, Names DEF PlaceInv, Holds
<1>6. /\ linkedList' \in Seq(Thread) /\ Distinct(linkedList')
      /\ Members(linkedList') = Members(linkedList) \cup {t}
  BY <1>1, <1>5, ListsTyped, AppendedPart
<1>7. Replaced(Lists, Lists', READYLIST, linkedList')
  <2>1. Lists' = Build(linkedList', asleep, blocked, semToSignal)
    BY <1>1 DEF Lists
  <2> QED  BY <2>1, ReadyReplaced DEF Lists
<1>8. Holds(Lists', Waiting \cup {t})
  BY <1>4, <1>6, <1>7, ListsTyped, Names, Entered DEF PlaceInv
<1>9. Holds(Lists, Waiting)'
  BY <1>4, <1>8
<1> QED  BY <1>1, <1>2, <1>3, <1>9 DEF PlaceInv

(* A whole list is a front part of itself, with nothing behind.            *)
LEMMA WholeList ==
  ASSUME NEW q \in Seq(Thread)
  PROVE  /\ Len(q) \in 0..Len(q)
         /\ SubSeq(q, 1, Len(q)) = q
         /\ SubSeq(q, Len(q) + 1, Len(q)) = << >>
<1>1. Len(q) \in Nat
  BY LenProperties
<1>2. SubSeq(q, 1, Len(q)) = q
  BY SubSeqFull
<1>3. Len(q) + 1 \in Int /\ Len(q) \in Int /\ Len(q) < Len(q) + 1
  BY <1>1
<1>4. SubSeq(q, Len(q) + 1, Len(q)) = << >>
  BY <1>3, SubSeqEmpty
<1> QED  BY <1>1, <1>2, <1>4

(* Exit: the joiners go to the ready list, and the thread is live no more. *)
LEMMA ExitPlaces ==
  ASSUME IInv, PlaceInv, ThreadExit
  PROVE  PlaceInv'
<1> DEFINE t == runningThread
           jn == semToSignal[t]
           q == linkedList \o jn
           name == <<"join", t>>
<1>1. /\ mode = "on" /\ t \in Thread
      /\ isOver' = [isOver EXCEPT ![t] = TRUE]
      /\ semToSignal' = [semToSignal EXCEPT ![t] = << >>]
      /\ UNCHANGED <<created, blocked, asleep>>
  BY DEF ThreadExit, UserTraps, semVars, sleepVars
<1>2. PICK st : SwitchFrom(q, asleep', blocked', st, timeRunning)
  BY <1>1 DEF ThreadExit
<1>3. LiveThreads' = Waiting
  BY <1>1 DEF LiveThreads, Live, Waiting, IInv, TypeOK
<1>4. /\ linkedList \in Seq(Thread) /\ jn \in Seq(Thread)
      /\ Lists[READYLIST] = linkedList /\ Lists[name] = jn
      /\ name \in ListName /\ name # READYLIST
  BY <1>1, ListsTyped, Names
<1>5. q \in Seq(Thread)
  BY <1>4, ConcatProperties
<1>6. /\ Len(jn) \in 0..Len(jn)
      /\ SubSeq(jn, 1, Len(jn)) = jn
      /\ SubSeq(jn, Len(jn) + 1, Len(jn)) = << >>
  BY <1>4, WholeList
<1> DEFINE N == Build(linkedList, asleep', blocked', semToSignal')
           M == Build(q, asleep', blocked', semToSignal')
<1>7. Replaced(Lists, N, name, << >>)
  BY <1>1, JoinersChange
<1>8. Replaced(N, M, READYLIST, q)
  BY ReadyReplaced
<1> HIDE DEF name, jn, N, M
<1>9. Holds(M, Waiting)
  BY <1>4, <1>6, <1>7, <1>8, Names, Carried DEF PlaceInv
<1> HIDE DEF q
<1> QED  BY <1>2, <1>3, <1>5, <1>9, SwitchPlaces DEF M

LEMMA ThreadDispatchPlaces ==
  ASSUME IInv, PlaceInv, ThreadDispatch
  PROVE  PlaceInv'
<1>1. /\ mode = "on"
      /\ UNCHANGED <<created, isOver, semToSignal, blocked, asleep>>
      /\ Dispatch(linkedList, asleep', status, timeRunning)
  BY DEF ThreadDispatch, UserTraps, semVars, sleepVars
<1>2. Waiting = LiveThreads \ {runningThread}
  BY <1>1 DEF Waiting
<1>3. Build(linkedList, asleep', blocked', semToSignal') = Lists
  BY <1>1 DEF Lists
<1>4. Holds(Build(linkedList, asleep', blocked', semToSignal'), LiveThreads \ {runningThread})
  BY <1>2, <1>3 DEF PlaceInv
<1>5. runningThread = Idle \/ runningThread \in LiveThreads
  BY <1>1 DEF PlaceInv
<1> QED  BY <1>1, <1>4, <1>5, ListsTyped, DispatchPlaces

(* A user thread that traps is live and in no list.                        *)
LEMMA CallerIsLive ==
  ASSUME PlaceInv, UserTraps
  PROVE  /\ runningThread \in LiveThreads
         /\ Waiting = LiveThreads \ {runningThread}
BY KernelAssumption DEF PlaceInv, UserTraps, Waiting

LEMMA JoinPlaces ==
  ASSUME IInv, PlaceInv, NEW u \in Thread, ThreadJoin(u)
  PROVE  PlaceInv'
<1> DEFINE t == runningThread
           name == <<"join", u>>
           r == Append(semToSignal[u], t)
<1>1. /\ UserTraps /\ t \in Thread
      /\ semToSignal' = [semToSignal EXCEPT ![u] = r]
      /\ UNCHANGED <<created, isOver, blocked, asleep>>
  BY DEF ThreadJoin, UserTraps, semVars, sleepVars
<1>2. PICK st : SwitchFrom(linkedList, asleep', blocked', st, timeRunning)
  BY <1>1 DEF ThreadJoin
<1>3. t \in LiveThreads /\ t \notin Waiting /\ Waiting \cup {t} = LiveThreads
  BY <1>1, CallerIsLive
<1>4. LiveThreads' = LiveThreads
  BY <1>1 DEF LiveThreads, Live
<1>5. /\ semToSignal[u] \in Seq(Thread) /\ Lists[name] = semToSignal[u]
      /\ name \in ListName
  BY ListsTyped, Names
<1> DEFINE M == Build(linkedList, asleep', blocked', semToSignal')
<1>6. Replaced(Lists, M, name, r)
  <2> HIDE DEF r
  <2> QED  BY <1>1, JoinersChange
<1> HIDE DEF name, M
<1>7. Distinct(semToSignal[u]) /\ t \notin Members(semToSignal[u])
  BY <1>3, <1>5 DEF PlaceInv, Holds
<1>8. r \in Seq(Thread) /\ Distinct(r) /\ Members(r) = Members(semToSignal[u]) \cup {t}
  BY <1>1, <1>5, <1>7, AppendedPart
<1> HIDE DEF r
<1>9. Holds(M, Waiting \cup {t})
  BY <1>1, <1>3, <1>5, <1>6, <1>8, Entered DEF PlaceInv
<1>10. Holds(M, LiveThreads')
  BY <1>3, <1>4, <1>9
<1> QED  BY <1>2, <1>10, ListsTyped, SwitchPlaces DEF M

LEMMA WaitPlaces ==
  ASSUME IInv, PlaceInv, NEW s \in Sem, SemWait(s)
  PROVE  PlaceInv'
<1>1. CASE val[s] - 1 < 0
  <2> DEFINE t == runningThread
             name == <<"sem", s>>
             r == Append(blocked[s], t)
  <2>1. /\ UserTraps /\ t \in Thread
        /\ blocked' = [blocked EXCEPT ![s] = r]
        /\ UNCHANGED <<created, isOver, semToSignal, asleep>>
    BY <1>1 DEF SemWait, UserTraps, threadVars, sleepVars
  <2>2. PICK st : SwitchFrom(linkedList, asleep', blocked', st, timeRunning)
    BY <1>1, <2>1 DEF SemWait
  <2>3. t \in LiveThreads /\ t \notin Waiting /\ Waiting \cup {t} = LiveThreads
    BY <2>1, CallerIsLive
  <2>4. LiveThreads' = LiveThreads
    BY <2>1 DEF LiveThreads, Live
  <2>5. /\ blocked[s] \in Seq(Thread) /\ Lists[name] = blocked[s]
        /\ name \in ListName
    BY ListsTyped, Names
  <2> DEFINE M == Build(linkedList, asleep', blocked', semToSignal')
  <2>6. Replaced(Lists, M, name, r)
    <3> HIDE DEF r
    <3> QED  BY <2>1, QueueChanges
  <2> HIDE DEF name, M
  <2>7. Distinct(blocked[s]) /\ t \notin Members(blocked[s])
    BY <2>3, <2>5 DEF PlaceInv, Holds
  <2>8. r \in Seq(Thread) /\ Distinct(r) /\ Members(r) = Members(blocked[s]) \cup {t}
    BY <2>1, <2>5, <2>7, AppendedPart
  <2> HIDE DEF r
  <2>9. Holds(M, Waiting \cup {t})
    BY <2>1, <2>3, <2>5, <2>6, <2>8, Entered DEF PlaceInv
  <2>10. Holds(M, LiveThreads')
    BY <2>3, <2>4, <2>9
  <2> QED  BY <2>2, <2>10, ListsTyped, SwitchPlaces DEF M
<1>2. CASE ~(val[s] - 1 < 0)
  BY <1>2, NothingMoves DEF SemWait, threadVars, sleepVars, runVars
<1> QED  BY <1>1, <1>2

LEMMA SleepPlaces ==
  ASSUME IInv, PlaceInv, NEW ticks \in SleepTime, TimeSleep(ticks)
  PROVE  PlaceInv'
<1> DEFINE time == ticks % UIntLimit
<1>1. CASE time # 0
  <2> DEFINE t == runningThread
             p == Position(time)
             r == SubSeq(asleep, 1, p - 1) \o <<t>> \o SubSeq(asleep, p, Len(asleep))
  <2>1. /\ UserTraps /\ t \in Thread
        /\ asleep' = r
        /\ UNCHANGED <<created, isOver, semToSignal, blocked>>
    BY <1>1 DEF TimeSleep, Sleeps, PutToSleep, UserTraps, threadVars, semVars
  <2>2. PICK st : SwitchFrom(linkedList, asleep', blocked', st, timeRunning)
    BY <1>1, <2>1 DEF TimeSleep, Sleeps
  <2>3. t \in LiveThreads /\ t \notin Waiting /\ Waiting \cup {t} = LiveThreads
    BY <2>1, CallerIsLive
  <2>4. LiveThreads' = LiveThreads
    BY <2>1 DEF LiveThreads, Live
  <2>5. p \in 1..(Len(asleep) + 1)
    <3>1. time \in Nat
      BY KernelAssumption
    <3> QED  BY <3>1, ListsTyped, PositionInRange
  <2>6. Distinct(asleep) /\ t \notin Members(asleep)
    BY <2>3, ListsTyped, Names DEF PlaceInv, Holds
  <2> HIDE DEF p
  <2>7. r \in Seq(Thread) /\ Distinct(r) /\ Members(r) = Members(asleep) \cup {t}
    BY <2>1, <2>5, <2>6, ListsTyped, InsertedPart
  <2> HIDE DEF r
  <2> DEFINE M == Build(linkedList, asleep', blocked', semToSignal')
  <2>8. Replaced(Lists, M, SLEEPLIST, r)
    BY <2>1, SleepersChange
  <2> HIDE DEF M
  <2>9. Holds(M, Waiting \cup {t})
    BY <2>1, <2>3, <2>7, <2>8, ListsTyped, Names, Entered DEF PlaceInv
  <2>10. Holds(M, LiveThreads')
    BY <2>3, <2>4, <2>9
  <2> QED  BY <2>2, <2>10, ListsTyped, SwitchPlaces DEF M
<1>2. CASE time = 0
  BY <1>2, NothingMoves DEF TimeSleep, Sleeps, threadVars, semVars, sleepVars, runVars
<1> QED  BY <1>1, <1>2

(* The front of a semaphore's queue goes to the ready list, and the caller *)
(* goes on.                                                                *)
LEMMA ReleasePlaces ==
  ASSUME IInv, PlaceInv, NEW s \in Sem, NEW k \in 0..Len(blocked[s]),
         blocked' = [blocked EXCEPT ![s] = SubSeq(blocked[s], k + 1, Len(blocked[s]))],
         linkedList' = linkedList \o SubSeq(blocked[s], 1, k),
         UNCHANGED <<created, isOver, semToSignal, asleep, runningThread, mode>>,
         mode = "on"
  PROVE  PlaceInv'
<1> DEFINE name == <<"sem", s>>
           rest == SubSeq(blocked[s], k + 1, Len(blocked[s]))
           front == SubSeq(blocked[s], 1, k)
           N == Build(linkedList, asleep', blocked', semToSignal')
<1>1. Waiting' = Waiting /\ LiveThreads' = LiveThreads
  BY DEF Waiting, LiveThreads, Live
<1>2. /\ Lists[READYLIST] = linkedList /\ Lists[name] = blocked[s]
      /\ name \in ListName /\ name # READYLIST
  BY ListsTyped, Names
<1>3. Replaced(Lists, N, name, rest)
  <2> HIDE DEF rest
  <2> QED  BY QueueChanges DEF rest
<1>4. Replaced(N, Lists', READYLIST, linkedList \o front)
  <2>1. Replaced(N, Lists', READYLIST, linkedList')
    BY ReadyReplaced DEF Lists
  <2> QED  BY <2>1
<1> HIDE DEF name, N
<1>5. Holds(Lists', Waiting)
  BY <1>2, <1>3, <1>4, Names, Carried DEF PlaceInv
<1>6. Holds(Lists, Waiting)'
  BY <1>1, <1>5
<1> QED  BY <1>1, <1>6 DEF PlaceInv

LEMMA ClosePlaces ==
  ASSUME IInv, PlaceInv, NEW s \in UserSem, SemClose(s)
  PROVE  PlaceInv'
<1>1. s \in Sem /\ blocked[s] \in Seq(Thread)
  BY ListsTyped DEF Sem
<1>2. /\ mode = "on"
      /\ blocked' = [blocked EXCEPT ![s] = << >>]
      /\ linkedList' = linkedList \o blocked[s]
      /\ UNCHANGED <<created, isOver, semToSignal, asleep, runningThread, mode>>
  BY DEF SemClose, UserTraps, DrainWaiters, threadVars, sleepVars
<1> QED  BY <1>1, <1>2, WholeList, ReleasePlaces

LEMMA SignalPlaces ==
  ASSUME IInv, PlaceInv, NEW s \in UserSem, SemSignal(s)
  PROVE  PlaceInv'
<1>1. /\ s \in Sem /\ s \in open' /\ open \subseteq open' /\ Signal(s, 1) /\ 1 \in Nat
      /\ mode = "on"
      /\ UNCHANGED <<created, isOver, semToSignal, asleep, runningThread, mode>>
  BY DEF SemSignal, UserTraps, threadVars, sleepVars, Sem
<1>2. Releases(s, 1) \in 0..Len(blocked[s])
  BY <1>1, SignalEffect
<1>3. /\ blocked' = [blocked EXCEPT ![s] =
                       SubSeq(blocked[s], Releases(s, 1) + 1, Len(blocked[s]))]
      /\ linkedList' = linkedList \o SubSeq(blocked[s], 1, Releases(s, 1))
  BY <1>1 DEF Signal
<1> QED  BY <1>1, <1>2, <1>3, ReleasePlaces

LEMMA ConsolePlaces ==
  ASSUME IInv, PlaceInv, NEW n \in 0..MaxBurst, ConsoleInterrupt(n)
  PROVE  PlaceInv'
<1> DEFINE s == ConsoleSem
           k == Releases(s, n)
<1>1. /\ n \in Nat /\ s \in Sem /\ s \in open' /\ open \subseteq open' /\ Signal(s, n)
      /\ mode = "on"
      /\ UNCHANGED <<created, isOver, semToSignal, asleep, runningThread, mode>>
  BY KernelAssumption DEF ConsoleInterrupt, Interrupts, threadVars, sleepVars, Sem
<1>2. k \in 0..Len(blocked[s])
  BY <1>1, SignalEffect
<1>3. /\ blocked' = [blocked EXCEPT ![s] = SubSeq(blocked[s], k + 1, Len(blocked[s]))]
      /\ linkedList' = linkedList \o SubSeq(blocked[s], 1, k)
  BY <1>1 DEF Signal
<1> HIDE DEF k
<1> QED  BY <1>1, <1>2, <1>3, ReleasePlaces

(* A tick: the sleepers whose time has come go to the ready list, and the  *)
(* running thread behind them when its slice is over.                      *)
LEMMA TimerPlaces ==
  ASSUME IInv, PlaceInv, TimerInterrupt
  PROVE  PlaceInv'
<1> DEFINE tr == [timeRunning EXCEPT ![runningThread] =
                    IF @ < TimeSlice THEN @ + 1 ELSE @]
           q == linkedList \o Awakened
           st == Woken(status, Awakened)
           rest == SubSeq(asleep, Due + 1, Len(asleep))
           N == Build(linkedList, asleep', blocked', semToSignal')
           M == Build(q, asleep', blocked', semToSignal')
<1>1. /\ mode = "on" /\ asleep' = rest
      /\ UNCHANGED <<created, isOver, semToSignal, blocked>>
      /\ IF tr[runningThread] >= TimeSlice
           THEN Dispatch(q, asleep', st, tr)
           ELSE linkedList' = q /\ UNCHANGED <<runningThread, mode>>
  BY DEF TimerInterrupt, Interrupts, UpdateTime, semVars
<1>2. Due \in 0..Len(asleep) /\ q \in Seq(Thread)
  BY ListsTyped, DueInRange, SleepersTyped, ConcatProperties DEF IInv, TypeOK
<1>3. Replaced(Lists, N, SLEEPLIST, rest)
  BY <1>1, SleepersChange
<1>4. Replaced(N, M, READYLIST, q)
  BY ReadyReplaced
<1> HIDE DEF N
<1>5. Holds(M, Waiting)
  <2> HIDE DEF M
  <2> QED  BY <1>2, <1>3, <1>4, ListsTyped, Names, Carried DEF PlaceInv, Awakened
<1>6. /\ runningThread = Idle \/ runningThread \in LiveThreads
      /\ Waiting = LiveThreads \ {runningThread}
  BY <1>1 DEF PlaceInv, Waiting
<1>7. CASE tr[runningThread] >= TimeSlice
  <2>1. Dispatch(q, asleep', st, tr)
    BY <1>1, <1>7
  <2> HIDE DEF q, st, tr
  <2> QED  BY <1>1, <1>2, <1>5, <1>6, <2>1, DispatchPlaces
<1>8. CASE ~(tr[runningThread] >= TimeSlice)
  <2>1. linkedList' = q /\ UNCHANGED <<runningThread, mode>>
    BY <1>1, <1>8
  <2>2. Lists' = M
    BY <1>1, <2>1 DEF Lists
  <2>3. Waiting' = Waiting /\ LiveThreads' = LiveThreads
    BY <1>1, <2>1 DEF Waiting, LiveThreads, Live
  <2> HIDE DEF M
  <2>4. Holds(Lists, Waiting)'
    BY <1>5, <2>2, <2>3
  <2> QED  BY <1>1, <1>6, <2>1, <2>3, <2>4 DEF PlaceInv
<1> QED  BY <1>7, <1>8

-----------------------------------------------------------------------------
(***************************************************************************)
(* The invariant.                                                          *)
(***************************************************************************)

LEMMA InitPlaces == Init => PlaceInv /\ OverWereCreated
<1> SUFFICES ASSUME Init PROVE PlaceInv /\ OverWereCreated
  OBVIOUS
<1>1. /\ linkedList = << >> /\ asleep = << >>
      /\ \A s \in Sem : blocked[s] = << >>
      /\ \A t \in Thread : semToSignal[t] = << >>
      /\ mode = "on" /\ runningThread = Main /\ Main \in Thread
      /\ LiveThreads = {Main}
  BY KernelAssumption DEF Init, SleepersInit, LiveThreads, Live
<1>2. Lists = [x \in ListName |-> << >>]
  <2>1. \A x \in ListName : Lists[x] = << >>
    BY <1>1, Kinds DEF Lists, Build
  <2>2. Lists = [x \in ListName |-> Lists[x]]
    BY DEF Lists, Build
  <2> QED  BY <2>1, <2>2
<1>3. Waiting = {}
  BY <1>1 DEF Waiting
<1>4. Holds(Lists, Waiting)
  BY <1>2, <1>3, EmptyParts DEF Holds
<1>5. OverWereCreated
  BY DEF Init, OverWereCreated
<1> QED  BY <1>1, <1>4, <1>5 DEF PlaceInv

(* Threads are never un-created, and only a live thread ends.              *)
LEMMA OverStep ==
  ASSUME PlaceInv, OverWereCreated, [Next]_vars, IInv
  PROVE  OverWereCreated'
<1>1. created \subseteq created'
  BY DEF Next, SystemCall, ThreadCreate, ThreadJoin, ThreadExit, ThreadDispatch,
         SemOpen, SemClose, SemSignal, SemWait, TimeSleep, ConsoleCall, MemoryCall,
         RejectedCall, TimerInterrupt, ConsoleInterrupt, Stopped, vars, threadVars
<1>2. \/ UNCHANGED isOver
      \/ /\ UserTraps
         /\ isOver' = [isOver EXCEPT ![runningThread] = TRUE]
  BY DEF Next, SystemCall, ThreadCreate, ThreadJoin, ThreadExit, ThreadDispatch,
         SemOpen, SemClose, SemSignal, SemWait, TimeSleep, ConsoleCall, MemoryCall,
         RejectedCall, TimerInterrupt, ConsoleInterrupt, Stopped, vars, threadVars
<1>3. UserTraps => runningThread \in created
  BY CallerIsLive DEF LiveThreads, Live
<1> QED  BY <1>1, <1>2, <1>3 DEF OverWereCreated, IInv, TypeOK

LEMMA NextPlaces ==
  IInv /\ PlaceInv /\ OverWereCreated /\ [Next]_vars => PlaceInv' /\ OverWereCreated'
<1> SUFFICES ASSUME IInv, PlaceInv, OverWereCreated, [Next]_vars PROVE PlaceInv'
  BY OverStep
<1>1. CASE SystemCall
  <2>1. ASSUME NEW t \in Thread, ThreadCreate(t) \/ ThreadJoin(t) PROVE PlaceInv'
    BY <2>1, CreatePlaces, JoinPlaces
  <2>2. CASE ThreadExit
    BY <2>2, ExitPlaces
  <2>3. CASE ThreadDispatch
    BY <2>3, ThreadDispatchPlaces
  <2>4. ASSUME NEW s \in UserSem, NEW init \in InitVal, SemOpen(s, init)
        PROVE  PlaceInv'
    BY <2>4, NothingMoves DEF SemOpen, threadVars, sleepVars, runVars
  <2>5. ASSUME NEW s \in UserSem, SemClose(s) \/ SemSignal(s) PROVE PlaceInv'
    BY <2>5, ClosePlaces, SignalPlaces
  <2>6. ASSUME NEW s \in Sem, SemWait(s) PROVE PlaceInv'
    BY <2>6, WaitPlaces
  <2>7. ASSUME NEW t \in SleepTime, TimeSleep(t) PROVE PlaceInv'
    BY <2>7, SleepPlaces
  <2>8. ASSUME NEW code \in Operation,
               RejectedCall(code) \/ MemoryCall(code) \/ ConsoleCall(code)
        PROVE  PlaceInv'
    BY <2>8, NothingMoves
    DEF RejectedCall, MemoryCall, ConsoleCall, threadVars, semVars, sleepVars, runVars
  <2> QED
    BY <1>1, <2>1, <2>2, <2>3, <2>4, <2>5, <2>6, <2>7, <2>8 DEF SystemCall, Operation
<1>2. CASE TimerInterrupt
  BY <1>2, TimerPlaces
<1>3. ASSUME NEW n \in 0..MaxBurst, ConsoleInterrupt(n) PROVE PlaceInv'
  BY <1>3, ConsolePlaces
<1>4. CASE Stopped \/ UNCHANGED vars
  BY <1>4, NothingMoves DEF Stopped, vars
<1> QED  BY <1>1, <1>2, <1>3, <1>4 DEF Next

LEMMA PlacementHolds == Spec => [](PlaceInv /\ OverWereCreated)
<1>1. Init => PlaceInv /\ OverWereCreated
  BY InitPlaces
<1>2. IInv /\ (PlaceInv /\ OverWereCreated) /\ [Next]_vars
        => (PlaceInv /\ OverWereCreated)'
  BY NextPlaces
<1> QED  BY <1>1, <1>2, InvariantHolds, PTL DEF Spec

LEMMA NamedLists == \A x \in ListName : List(x) = Lists[x]
<1> SUFFICES ASSUME NEW x \in ListName PROVE List(x) = Lists[x]
  OBVIOUS
<1>1. CASE x = READYLIST
  BY <1>1, Names DEF List, Lists, Build, READYLIST
<1>2. CASE x = SLEEPLIST
  BY <1>2, Names DEF List, Lists, Build, SLEEPLIST
<1>3. CASE x # READYLIST /\ x # SLEEPLIST /\ x[1] = "sem"
  BY <1>3 DEF List, Lists, Build
<1>4. CASE x # READYLIST /\ x # SLEEPLIST /\ x[1] = "join"
  BY <1>4 DEF List, Lists, Build
<1> QED  BY <1>1, <1>2, <1>3, <1>4, Kinds

LEMMA PlacedTwice == PlaceInv => NoThreadTwice
<1> SUFFICES ASSUME PlaceInv, NEW x \in ListName, NEW i \in DOMAIN List(x)
             PROVE  /\ Live(List(x)[i])
                    /\ mode = "on" => List(x)[i] # runningThread
                    /\ \A y \in ListName : \A j \in DOMAIN List(y) :
                         List(x)[i] = List(y)[j] => x = y /\ i = j
  BY DEF NoThreadTwice
<1> DEFINE t == List(x)[i]
<1>1. t \in Members(Lists[x])
  BY NamedLists DEF Members
<1>2. t \in Waiting
  BY <1>1 DEF PlaceInv, Holds
<1>3. Live(t) /\ (mode = "on" => t # runningThread)
  BY <1>2 DEF Waiting, LiveThreads
<1>4. ASSUME NEW y \in ListName, NEW j \in DOMAIN List(y), t = List(y)[j]
      PROVE  x = y /\ i = j
  <2>1. t \in Members(Lists[y])
    BY <1>4, NamedLists DEF Members
  <2>2. x = y
    BY <1>1, <2>1 DEF PlaceInv, Holds
  <2>3. Distinct(Lists[x])
    BY DEF PlaceInv, Holds
  <2> QED  BY <1>4, <2>2, <2>3, NamedLists DEF Distinct
<1> QED  BY <1>3, <1>4

LEMMA PlacedSomewhere == PlaceInv => NoThreadLost
<1> SUFFICES ASSUME PlaceInv, NEW t \in Thread, Live(t),
                    ~(mode = "on" /\ runningThread = t)
             PROVE  \E x \in ListName : \E i \in DOMAIN List(x) : List(x)[i] = t
  BY DEF NoThreadLost
<1>1. t \in Waiting
  BY DEF Waiting, LiveThreads
<1>2. PICK x \in ListName : t \in Members(Lists[x])
  BY <1>1 DEF PlaceInv, Holds
<1> QED  BY <1>2, NamedLists DEF Members

(* When main returns, the lists of threads that could go on are empty, so  *)
(* whoever is live is in one of the others.                                *)
LEMMA PlacedWhenHalted == IInv /\ PlaceInv => HaltOnlyWhenStuck
<1> SUFFICES ASSUME IInv, PlaceInv, mode = "halted", NEW t \in Thread, Live(t)
             PROVE  \/ \E s \in UserSem : \E i \in DOMAIN blocked[s] : blocked[s][i] = t
                    \/ \E u \in Thread : \E i \in DOMAIN semToSignal[u] :
                         semToSignal[u][i] = t
  BY DEF HaltOnlyWhenStuck
<1>1. linkedList = << >> /\ asleep = << >> /\ blocked[ConsoleSem] = << >>
  BY DEF PlaceInv
<1>2. t \in Waiting
  BY DEF Waiting, LiveThreads
<1>3. PICK x \in ListName : t \in Members(Lists[x])
  BY <1>2 DEF PlaceInv, Holds
<1>4. x # READYLIST /\ x # SLEEPLIST
  BY <1>1, <1>3, ListsTyped, EmptyParts
<1>5. CASE x[1] = "sem"
  <2> DEFINE s == x[2]
  <2>1. s \in Sem /\ x = <<"sem", s>>
    BY <1>5, Kinds
  <2>2. Lists[x] = blocked[s]
    BY <2>1, ListsTyped
  <2>3. s # ConsoleSem
    BY <1>1, <1>3, <2>2, EmptyParts
  <2> QED  BY <1>3, <2>1, <2>2, <2>3 DEF Members, Sem
<1>6. CASE x[1] = "join"
  <2> DEFINE u == x[2]
  <2>1. u \in Thread /\ x = <<"join", u>>
    BY <1>6, Kinds
  <2>2. Lists[x] = semToSignal[u]
    BY <2>1, ListsTyped
  <2> QED  BY <1>3, <2>1, <2>2 DEF Members
<1> QED  BY <1>4, <1>5, <1>6, Kinds

(* No handler, in any order and between any interrupts, leaves a thread in *)
(* two lists, twice in one, or in one while it runs: no saved context is   *)
(* ever resumed twice.                                                     *)
THEOREM NeverTwice == Spec => []NoThreadTwice
BY PlacementHolds, PlacedTwice, PTL

(* No handler drops the last pointer to a thread with work left to do.     *)
THEOREM NeverLost == Spec => []NoThreadLost
BY PlacementHolds, PlacedSomewhere, PTL

(* getThread returns to main only when every thread that has not ended     *)
(* waits for another thread that will never come.                          *)
THEOREM HaltsRightly == Spec => []HaltOnlyWhenStuck
BY InvariantHolds, PlacementHolds, PlacedWhenHalted, PTL

-----------------------------------------------------------------------------
(***************************************************************************)
(* The status.  It is written in one place and the list in another, so the *)
(* argument needs to know that a handler's writes hit only the threads it  *)
(* moves: that is the placement before and after the step.  The order, in  *)
(* the end, needs only the types: every handler leaves the ready list as   *)
(* it was with threads added behind it, perhaps without its first, and a   *)
(* semaphore's queue as it was, perhaps grown at its end or cut at its     *)
(* front.                                                                  *)
(***************************************************************************)

(* What the list x says of the status and the A1 slot of a thread in it.   *)
Fit(x, st, word) ==
  IF x = READYLIST THEN st = "READY" \/ (st = "SUSPENDED" /\ word = Closed)
  ELSE st = IF x = SLEEPLIST THEN "SLEEPING" ELSE "SUSPENDED"

ListedFit == \A x \in ListName : \A t \in Members(Lists[x]) : Fit(x, status[t], a1[t])

RunnerFits ==
  mode = "on" => \/ status[runningThread] = "RUNNING"
                 \/ runningThread = Main /\ isBeginning[Main] = 1

OverFit == \A t \in Thread : isOver[t] => status[t] = "EXITING"

StatusInv == ListedFit /\ RunnerFits /\ OverFit

-----------------------------------------------------------------------------
(***************************************************************************)
(* One step.                                                               *)
(***************************************************************************)

(* A step that moves the threads of one set into one list, gives them the  *)
(* status of that list, and leaves the status of the others alone.         *)
LEMMA MoveFits ==
  ASSUME ListedFit, PlaceInv',
         NEW target \in ListName, NEW moved \in SUBSET Thread,
         \A x \in ListName :
           Members(Lists'[x]) \subseteq
             Members(Lists[x]) \cup (IF x = target THEN moved ELSE {}),
         \A t \in moved \cap Waiting' :
           t \in Members(Lists'[target]) /\ Fit(target, status'[t], a1'[t]),
         \A t \in Waiting' \ moved : status'[t] = status[t] /\ a1'[t] = a1[t]
  PROVE  ListedFit'
<1> SUFFICES ASSUME NEW x \in ListName, NEW t \in Members(Lists'[x])
             PROVE  Fit(x, status'[t], a1'[t])
  BY DEF ListedFit
<1>1. t \in Waiting'
  BY DEF PlaceInv, Holds
<1>2. CASE t \in moved
  <2>1. t \in Members(Lists'[target]) /\ Fit(target, status'[t], a1'[t])
    BY <1>1, <1>2
  <2>2. x = target
    BY <2>1 DEF PlaceInv, Holds
  <2> QED  BY <2>1, <2>2
<1>3. CASE t \notin moved
  <2>1. t \in Members(Lists[x])
    BY <1>3
  <2>2. Fit(x, status[t], a1[t])
    BY <2>1 DEF ListedFit
  <2> QED  BY <1>1, <1>3, <2>2
<1> QED  BY <1>2, <1>3

(* The members of a list are its first and those of its rest.              *)
LEMMA RestOfList ==
  ASSUME NEW q \in Seq(Thread), q # << >>
  PROVE  /\ Members(Tail(q)) \subseteq Members(q)
         /\ \A t \in Members(q) : t = Head(q) \/ t \in Members(Tail(q))
<1>1. /\ Len(q) \in Nat \ {0} /\ DOMAIN q = 1..Len(q)
      /\ Head(q) = q[1]
  BY EmptySeq, LenProperties
<1>2. /\ DOMAIN Tail(q) = 1..(Len(q) - 1)
      /\ \A i \in 1..(Len(q) - 1) : Tail(q)[i] = q[i + 1]
  BY <1>1, HeadTailProperties, LenProperties
<1> DEFINE n == Len(q)
           r == Tail(q)
<1> HIDE DEF n, r
<1>3. ASSUME NEW i \in 1..(n - 1) PROVE r[i] \in Members(q)
  <2>1. i + 1 \in 1..n /\ r[i] = q[i + 1]
    BY <1>1, <1>2 DEF n, r
  <2> QED  BY <1>1, <2>1 DEF Members, n
<1>4. ASSUME NEW i \in 1..n PROVE q[i] = Head(q) \/ q[i] \in Members(r)
  <2>1. CASE i = 1
    BY <1>1, <2>1
  <2>2. CASE i # 1
    <3>1. i - 1 \in 1..(n - 1) /\ r[i - 1] = q[i]
      BY <1>1, <1>2, <2>2 DEF n, r
    <3> QED  BY <1>2, <3>1 DEF Members, n, r
  <2> QED  BY <2>1, <2>2
<1>5. \A t \in Members(r) : t \in Members(q)
  BY <1>2, <1>3 DEF Members, n, r
<1>6. \A t \in Members(q) : t = Head(q) \/ t \in Members(r)
  BY <1>1, <1>4 DEF Members, n
<1> QED  BY <1>5, <1>6 DEF r

(* What a change of the running thread does to statuses and ready list.    *)
LEMMA SwitchMarks ==
  ASSUME PlaceInv', NEW q \in Seq(Thread), NEW st \in [Proc -> State], NEW tr,
         SwitchFrom(q, asleep', blocked', st, tr)
  PROVE  /\ RunnerFits'
         /\ \A t \in Waiting' : status'[t] = st[t]
         /\ \A t \in Thread : isOver'[t] => status'[t] = st[t]
         /\ Members(linkedList') \subseteq Members(q)
         /\ \A t \in Waiting' : t \in Members(q) => t \in Members(linkedList')
         /\ mode' # "on" => runningThread' = runningThread
<1>1. CASE ModeAfterGet(q, asleep', blocked') # "on"
  BY <1>1 DEF SwitchFrom, RunnerFits
<1>2. CASE ModeAfterGet(q, asleep', blocked') = "on"
  <2>1. /\ mode' = "on"
        /\ runningThread' = NextThread(q)
        /\ linkedList' = IF q = << >> THEN q ELSE Tail(q)
        /\ status' = [st EXCEPT ![runningThread'] = "RUNNING"]
    BY <1>2 DEF SwitchFrom
  <2>2. runningThread' \in Proc
    BY <2>1, HeadTailProperties DEF NextThread, Proc
  <2>3. RunnerFits'
    BY <2>1, <2>2 DEF RunnerFits
  <2>4. \A t \in Thread : t # runningThread' => status'[t] = st[t]
    BY <2>1, <2>2 DEF Proc
  <2>5. \A t \in Waiting' : t \in Thread /\ t # runningThread'
    BY <2>1 DEF Waiting, LiveThreads
  <2>6. \A t \in Thread : isOver'[t] => t # runningThread'
    BY <2>1, KernelAssumption DEF PlaceInv, LiveThreads, Live
  <2>7. /\ Members(linkedList') \subseteq Members(q)
        /\ \A t \in Members(q) : t = runningThread' \/ t \in Members(linkedList')
    <3>1. CASE q = << >>
      BY <2>1, <3>1, EmptyParts
    <3>2. CASE q # << >>
      BY <2>1, <3>2, RestOfList DEF NextThread
    <3> QED  BY <3>1, <3>2
  <2> QED  BY <2>1, <2>3, <2>4, <2>5, <2>6, <2>7
<1> QED  BY <1>1, <1>2

(* The lists M are those before the step with the threads of moved brought *)
(* into one of them; st gives those the status of that list, keeps that of *)
(* the others, and has EXITING for whoever is over.                        *)
Moved(M, target, moved, st) ==
  /\ \A x \in ListName :
       Members(M[x]) \subseteq Members(Lists[x]) \cup (IF x = target THEN moved ELSE {})
  /\ \A t \in moved \cap Waiting' :
       t \in Members(M[target]) /\ Fit(target, st[t], a1'[t])
  /\ \A t \in Waiting' \ moved : st[t] = status[t] /\ a1'[t] = a1[t]
  /\ \A t \in Thread : isOver'[t] => st[t] = "EXITING"

(* A handler that moves threads into one list and then changes the running *)
(* thread, with the statuses as it leaves them before that.                *)
LEMMA SwitchFits ==
  ASSUME PlaceInv', ListedFit,
         NEW q \in Seq(Thread), NEW st \in [Proc -> State], NEW tr,
         SwitchFrom(q, asleep', blocked', st, tr),
         NEW target \in ListName, NEW moved \in SUBSET Thread,
         Moved(Build(q, asleep', blocked', semToSignal'), target, moved, st)
  PROVE  StatusInv'
<1> DEFINE M == Build(q, asleep', blocked', semToSignal')
<1>0. /\ \A x \in ListName :
           Members(M[x]) \subseteq
             Members(Lists[x]) \cup (IF x = target THEN moved ELSE {})
      /\ \A t \in moved \cap Waiting' :
           t \in Members(M[target]) /\ Fit(target, st[t], a1'[t])
      /\ \A t \in Waiting' \ moved : st[t] = status[t] /\ a1'[t] = a1[t]
      /\ \A t \in Thread : isOver'[t] => st[t] = "EXITING"
  BY DEF Moved
<1>1. /\ RunnerFits'
      /\ \A t \in Waiting' : status'[t] = st[t]
      /\ \A t \in Thread : isOver'[t] => status'[t] = st[t]
      /\ Members(linkedList') \subseteq Members(q)
      /\ \A t \in Waiting' : t \in Members(q) => t \in Members(linkedList')
  BY SwitchMarks
<1>2. Replaced(M, Lists', READYLIST, linkedList') /\ M[READYLIST] = q
  BY ReadyReplaced, Built DEF Lists
<1> HIDE DEF M
<1>3. \A x \in ListName : Members(Lists'[x]) \subseteq Members(M[x])
  <2> SUFFICES ASSUME NEW x \in ListName
               PROVE  Members(Lists'[x]) \subseteq Members(M[x])
    OBVIOUS
  <2>1. CASE x = READYLIST
    BY <1>1, <1>2, <2>1 DEF Replaced
  <2>2. CASE x # READYLIST
    <3>1. Lists'[x] = M[x]
      BY <1>2, <2>2 DEF Replaced
    <3> QED  BY <3>1
  <2> QED  BY <2>1, <2>2
<1>4. \A t \in Waiting' : t \in Members(M[target]) => t \in Members(Lists'[target])
  <2>1. CASE target = READYLIST
    BY <1>1, <1>2, <2>1 DEF Replaced
  <2>2. CASE target # READYLIST
    <3>1. Lists'[target] = M[target]
      BY <1>2, <2>2 DEF Replaced
    <3> QED  BY <3>1
  <2> QED  BY <2>1, <2>2
<1>5. ListedFit'
  <2>1. \A x \in ListName :
          Members(Lists'[x]) \subseteq
            Members(Lists[x]) \cup (IF x = target THEN moved ELSE {})
    <3> SUFFICES ASSUME NEW x \in ListName
                 PROVE  Members(Lists'[x]) \subseteq
                          Members(Lists[x]) \cup (IF x = target THEN moved ELSE {})
      OBVIOUS
    <3>1. Members(Lists'[x]) \subseteq Members(M[x])
      BY <1>3
    <3>2. Members(M[x]) \subseteq
            Members(Lists[x]) \cup (IF x = target THEN moved ELSE {})
      BY <1>0
    <3> QED  BY <3>1, <3>2
  <2>2. \A t \in moved \cap Waiting' :
          t \in Members(Lists'[target]) /\ Fit(target, status'[t], a1'[t])
    BY <1>0, <1>1, <1>4
  <2>3. \A t \in Waiting' \ moved : status'[t] = status[t] /\ a1'[t] = a1[t]
    BY <1>0, <1>1
  <2> QED  BY <2>1, <2>2, <2>3, MoveFits
<1>6. OverFit'
  BY <1>0, <1>1 DEF OverFit
<1> QED  BY <1>1, <1>5, <1>6 DEF StatusInv

(* The same for a dispatch that finds the threads of moved at the end of   *)
(* the ready list; it sets the running thread's status itself.             *)
Readied(L, moved, st) ==
  /\ \A x \in ListName :
       Members(L[x]) \subseteq
         Members(Lists[x]) \cup (IF x = READYLIST THEN moved ELSE {})
  /\ \A t \in moved : t \in Members(L[READYLIST]) /\ st[t] = "READY"
  /\ \A t \in Waiting' \ moved :
       t # runningThread => st[t] = status[t] /\ a1'[t] = a1[t]
  /\ \A t \in Thread : isOver'[t] => st[t] = "EXITING"

LEMMA DispatchFits ==
  ASSUME PlaceInv', ListedFit, runningThread \in Proc, isBeginning \in [Proc -> {0, 1}],
         NEW q0 \in Seq(Thread), NEW st \in [Proc -> State], NEW tr,
         Dispatch(q0, asleep', st, tr), UNCHANGED <<blocked, isOver>>,
         runningThread \in Thread => ~isOver[runningThread],
         NEW moved \in SUBSET Thread,
         Readied(Build(q0, asleep', blocked', semToSignal'), moved, st)
  PROVE  StatusInv'
<1> DEFINE L == Build(q0, asleep', blocked', semToSignal')
           q == PutThread(q0, runningThread)
           M == Build(q, asleep', blocked', semToSignal')
           begun == IF isBeginning[NextThread(q)] = 1
                      THEN [tr EXCEPT ![NextThread(q)] = 0] ELSE tr
           ready == [st EXCEPT ![runningThread] = "READY"]
           all == moved \cup ({runningThread} \cap Thread)
<1>1. SwitchFrom(q, asleep', blocked', ready, begun)
  BY DEF Dispatch
<1>2. /\ q \in Seq(Thread)
      /\ Members(q) = Members(q0) \cup ({runningThread} \cap Thread)
  <2>1. CASE runningThread = Idle
    BY <2>1, KernelAssumption DEF PutThread
  <2>2. CASE runningThread # Idle
    <3> DEFINE one == <<runningThread>>
    <3>1. runningThread \in Thread /\ q = Append(q0, runningThread)
      BY <2>2 DEF PutThread, Proc
    <3>2. q = q0 \o one
      BY <3>1, AppendIsConcat
    <3>3. one \in Seq(Thread) /\ Members(one) = {runningThread}
      BY <3>1, Singleton
    <3> HIDE DEF one
    <3>4. q \in Seq(Thread) /\ Members(q) = Members(q0) \cup {runningThread}
      BY <3>2, <3>3, JoinedParts
    <3> QED  BY <3>1, <3>4
  <2> QED  BY <2>1, <2>2
<1>3. /\ ready \in [Proc -> State]
      /\ \A t \in Thread : t # runningThread => ready[t] = st[t]
      /\ ready[runningThread] = "READY"
  BY DEF State, Proc
<1>4. /\ Replaced(L, M, READYLIST, q) /\ L[READYLIST] = q0 /\ M[READYLIST] = q
  BY ReadyReplaced, Built
<1>0. /\ \A x \in ListName :
           Members(L[x]) \subseteq
             Members(Lists[x]) \cup (IF x = READYLIST THEN moved ELSE {})
      /\ \A t \in moved : t \in Members(q0) /\ st[t] = "READY"
      /\ \A t \in Waiting' \ moved :
           t # runningThread => st[t] = status[t] /\ a1'[t] = a1[t]
      /\ \A t \in Thread : isOver'[t] => st[t] = "EXITING"
  BY <1>4 DEF Readied
<1> HIDE DEF L, q, M, begun, ready
<1>5. \A x \in ListName :
        Members(M[x]) \subseteq
          Members(Lists[x]) \cup (IF x = READYLIST THEN all ELSE {})
  <2> SUFFICES ASSUME NEW x \in ListName
               PROVE  Members(M[x]) \subseteq
                        Members(Lists[x]) \cup (IF x = READYLIST THEN all ELSE {})
    OBVIOUS
  <2>1. Members(L[x]) \subseteq
          Members(Lists[x]) \cup (IF x = READYLIST THEN moved ELSE {})
    BY <1>0
  <2>2. CASE x = READYLIST
    BY <1>2, <1>4, <2>1, <2>2
  <2>3. CASE x # READYLIST
    <3>1. M[x] = L[x]
      BY <1>4, <2>3 DEF Replaced
    <3> QED  BY <2>1, <2>3, <3>1
  <2> QED  BY <2>2, <2>3
<1>6. \A t \in all \cap Waiting' :
        t \in Members(M[READYLIST]) /\ Fit(READYLIST, ready[t], a1'[t])
  BY <1>0, <1>2, <1>3, <1>4 DEF Fit
<1>7. \A t \in Waiting' : t \in Thread
  BY DEF Waiting, LiveThreads
<1>8. \A t \in Waiting' \ all : ready[t] = status[t] /\ a1'[t] = a1[t]
  BY <1>0, <1>3, <1>7
<1>9. \A t \in Thread : isOver'[t] => ready[t] = "EXITING"
  BY <1>0, <1>3
<1>10. Moved(M, READYLIST, all, ready)
  BY <1>5, <1>6, <1>8, <1>9 DEF Moved
<1>11. READYLIST \in ListName /\ all \in SUBSET Thread
  BY Names
<1> HIDE DEF all
<1> QED  BY <1>1, <1>2, <1>3, <1>10, <1>11, SwitchFits DEF M

-----------------------------------------------------------------------------
(***************************************************************************)
(* The actions.                                                            *)
(***************************************************************************)

(* A handler writes only the A1 slots of the thread it interrupted and of  *)
(* the one it returns to.                                                  *)
LEMMA SlotsKept ==
  ASSUME a1 \in [Proc -> Word], NEW code, NEW result,
         Returns(code, result) \/ ReturnsNothing(code)
  PROVE  \A t \in Thread : t # runningThread /\ t # runningThread' => a1'[t] = a1[t]
BY DEF Returns, ReturnsNothing, Proc

(* Woken gives READY to the members of a list and nothing to the others.   *)
LEMMA WokenMembers ==
  ASSUME NEW st, NEW q, NEW t \in Thread
  PROVE  Woken(st, q)[t] = IF t \in Members(q) THEN "READY" ELSE st[t]
BY DEF Woken, Members, Proc

LEMMA WaitingIs ==
  /\ \A t \in Waiting : t \in Thread /\ t \in created /\ ~isOver[t]
  /\ \A t \in Waiting : mode = "on" => t # runningThread
BY DEF Waiting, LiveThreads, Live

(* A call that changes neither lists nor statuses, and returns to its      *)
(* caller.                                                                 *)
LEMMA NothingFits ==
  ASSUME IInv, PlaceInv, StatusInv,
         UNCHANGED <<created, isOver, semToSignal, blocked, asleep, linkedList,
                     runningThread, mode, status, isBeginning>>,
         \A t \in Thread : t # runningThread => a1'[t] = a1[t], mode = "on"
  PROVE  StatusInv'
<1>1. Lists' = Lists
  BY DEF Lists
<1>2. ASSUME NEW x \in ListName, NEW t \in Members(Lists[x])
      PROVE  t \in Thread /\ t # runningThread
  <2>1. t \in Waiting
    BY DEF PlaceInv, Holds
  <2> QED  BY <2>1, WaitingIs
<1>3. ListedFit'
  BY <1>1, <1>2 DEF ListedFit, StatusInv
<1> QED  BY <1>3 DEF StatusInv, RunnerFits, OverFit

(* A handler that moves the threads of one list into another and goes on   *)
(* with the same thread.                                                   *)
LEMMA SameRunnerFits ==
  ASSUME StatusInv, PlaceInv',
         UNCHANGED <<runningThread, mode>>,
         status'[runningThread] = status[runningThread],
         isBeginning'[Main] = isBeginning[Main] \/ runningThread # Main,
         NEW target \in ListName, NEW moved \in SUBSET Thread,
         Moved(Lists', target, moved, status')
  PROVE  StatusInv'
<1>1. ListedFit'
  BY MoveFits DEF Moved, StatusInv
<1>2. RunnerFits'
  BY DEF RunnerFits, StatusInv
<1>3. OverFit'
  BY DEF Moved, OverFit
<1> QED  BY <1>1, <1>2, <1>3 DEF StatusInv

LEMMA CreateFits ==
  ASSUME IInv, PlaceInv, OverWereCreated, PlaceInv', StatusInv,
         NEW t \in Thread, ThreadCreate(t)
  PROVE  StatusInv'
<1>1. /\ linkedList' = Append(linkedList, t) /\ t \notin created
      /\ created' = created \cup {t}
      /\ status' = [status EXCEPT ![t] = "READY"]
      /\ isBeginning' = [isBeginning EXCEPT ![t] = 0]
      /\ UNCHANGED <<runningThread, isOver, semToSignal, blocked, asleep, mode>>
      /\ UserTraps /\ Returns(THREAD_CREATE, Ok)
  BY KernelAssumption DEF ThreadCreate, PutThread, semVars, sleepVars
<1>2. runningThread \in created /\ t # runningThread /\ ~isOver[t]
  BY <1>1, CallerIsLive DEF LiveThreads, Live, OverWereCreated
<1>3. Replaced(Lists, Lists', READYLIST, linkedList') /\ Lists[READYLIST] = linkedList
  <2>1. Lists' = Build(linkedList', asleep, blocked, semToSignal)
    BY <1>1 DEF Lists
  <2> QED  BY <2>1, ReadyReplaced, ListsTyped DEF Lists
<1>4. Members(linkedList') = Members(linkedList) \cup {t}
  <2>1. linkedList' = linkedList \o <<t>>
    BY <1>1, ListsTyped, AppendIsConcat
  <2> QED  BY <2>1, ListsTyped, Singleton, JoinedParts
<1>5. Moved(Lists', READYLIST, {t}, status')
  <2>1. \A x \in ListName :
          Members(Lists'[x]) \subseteq
            Members(Lists[x]) \cup (IF x = READYLIST THEN {t} ELSE {})
    <3> SUFFICES ASSUME NEW x \in ListName
                 PROVE  Members(Lists'[x]) \subseteq
                          Members(Lists[x]) \cup (IF x = READYLIST THEN {t} ELSE {})
      OBVIOUS
    <3>1. x # READYLIST => Lists'[x] = Lists[x]
      BY <1>3 DEF Replaced
    <3> QED  BY <1>3, <1>4, <3>1 DEF Replaced
  <2>2. t \in Members(Lists'[READYLIST]) /\ Fit(READYLIST, status'[t], a1'[t])
    BY <1>1, <1>3, <1>4 DEF Replaced, Fit, IInv, TypeOK, Proc
  <2>3. \A u \in Waiting' \ {t} : status'[u] = status[u] /\ a1'[u] = a1[u]
    <3> SUFFICES ASSUME NEW u \in Waiting', u # t
                 PROVE  status'[u] = status[u] /\ a1'[u] = a1[u]
      OBVIOUS
    <3>1. u \in Thread /\ u # runningThread /\ u # runningThread'
      BY <1>1 DEF Waiting, LiveThreads, UserTraps
    <3>2. a1'[u] = a1[u]
      BY <1>1, <3>1, SlotsKept DEF IInv, TypeOK
    <3> QED  BY <1>1, <3>1, <3>2 DEF IInv, TypeOK, Proc
  <2>4. \A u \in Thread : isOver'[u] => status'[u] = "EXITING"
    BY <1>1, <1>2 DEF StatusInv, OverFit, IInv, TypeOK, Proc
  <2> QED  BY <2>1, <2>2, <2>3, <2>4 DEF Moved
<1>6. /\ status'[runningThread] = status[runningThread]
      /\ isBeginning'[Main] = isBeginning[Main] \/ runningThread # Main
  BY <1>1, <1>2 DEF IInv, TypeOK, Proc
<1> QED  BY <1>1, <1>5, <1>6, Names, SameRunnerFits

(* The front of the list x goes to the end of the ready list.              *)
Brought(L, M, front, S) ==
  /\ \A y \in ListName :
       Members(M[y]) \subseteq
         Members(L[y]) \cup (IF y = READYLIST THEN Members(front) ELSE {})
  /\ Members(front) \subseteq Members(M[READYLIST])
  /\ Members(front) \subseteq S

LEMMA CarriedParts ==
  ASSUME NEW L, NEW S, Holds(L, S), NEW x \in ListName, x # READYLIST,
         NEW k \in 0..Len(L[x]),
         NEW front, front = SubSeq(L[x], 1, k),
         NEW rest, rest = SubSeq(L[x], k + 1, Len(L[x])),
         NEW N, Replaced(L, N, x, rest),
         NEW M, NEW q, q = L[READYLIST] \o front, Replaced(N, M, READYLIST, q)
  PROVE  Brought(L, M, front, S)
<1>1. L[x] \in Seq(Thread) /\ L[READYLIST] \in Seq(Thread) /\ Distinct(L[x])
  BY Names DEF Holds
<1>2. /\ front \in Seq(Thread)
      /\ Members(front) \cup Members(rest) = Members(L[x])
  BY <1>1, SplitParts
<1>3. Members(L[READYLIST] \o front) = Members(L[READYLIST]) \cup Members(front)
  BY <1>1, <1>2, JoinedParts
<1>4. /\ M[READYLIST] = L[READYLIST] \o front
      /\ N[x] = rest
      /\ \A y \in ListName : y # READYLIST => M[y] = N[y]
      /\ \A y \in ListName : y # x => N[y] = L[y]
  BY DEF Replaced
<1>5. ASSUME NEW y \in ListName
      PROVE  Members(M[y]) \subseteq
               Members(L[y]) \cup (IF y = READYLIST THEN Members(front) ELSE {})
  <2>1. CASE y = READYLIST
    BY <1>3, <1>4, <2>1
  <2>2. CASE y = x
    BY <1>2, <1>4, <2>2
  <2>3. CASE y # READYLIST /\ y # x
    BY <1>4, <2>3
  <2> QED  BY <2>1, <2>2, <2>3
<1>6. Members(front) \subseteq Members(L[x]) /\ Members(L[x]) \subseteq S
  BY <1>2 DEF Holds
<1> QED  BY <1>3, <1>4, <1>5, <1>6 DEF Brought

(* The first k threads of a semaphore's queue are made ready, and the      *)
(* running thread goes on.                                                 *)
Freed(s, k) ==
  /\ k \in 0..Len(blocked[s])
  /\ blocked' = [blocked EXCEPT ![s] = SubSeq(blocked[s], k + 1, Len(blocked[s]))]
  /\ linkedList' = linkedList \o SubSeq(blocked[s], 1, k)
  /\ UNCHANGED <<created, isOver, semToSignal, asleep, runningThread, mode, isBeginning>>
  /\ mode = "on"

LEMMA ReleaseFits ==
  ASSUME IInv, PlaceInv, StatusInv, PlaceInv', NEW s \in Sem, NEW k, Freed(s, k),
         NEW front, front = SubSeq(blocked[s], 1, k),
         \A t \in Members(front) : Fit(READYLIST, status'[t], a1'[t]),
         \A t \in Proc : t \notin Members(front) => status'[t] = status[t],
         \A t \in Thread : t \notin Members(front) /\ t # runningThread =>
           a1'[t] = a1[t]
  PROVE  StatusInv'
<1> DEFINE name == <<"sem", s>>
           N == Build(linkedList, asleep', blocked', semToSignal')
           rest == SubSeq(blocked[s], k + 1, Len(blocked[s]))
           q == linkedList \o front
<1>1. /\ Lists[READYLIST] = linkedList /\ Lists[name] = blocked[s]
      /\ name \in ListName /\ name # READYLIST /\ READYLIST \in ListName
  BY ListsTyped, Names
<1>2. Replaced(Lists, N, name, rest)
  BY QueueChanges DEF Freed
<1>3. Replaced(N, Lists', READYLIST, q)
  BY ReadyReplaced DEF Lists, Freed
<1>4. k \in 0..Len(Lists[name]) /\ Holds(Lists, Waiting)
  BY <1>1 DEF Freed, PlaceInv
<1>5. /\ front = SubSeq(Lists[name], 1, k)
       /\ rest = SubSeq(Lists[name], k + 1, Len(Lists[name]))
       /\ q = Lists[READYLIST] \o front
  BY <1>1
<1> HIDE DEF name, N, rest, q
<1>6. Brought(Lists, Lists', front, Waiting)
  BY <1>1, <1>2, <1>3, <1>4, <1>5, CarriedParts
<1>7. /\ \A y \in ListName :
           Members(Lists'[y]) \subseteq
             Members(Lists[y]) \cup (IF y = READYLIST THEN Members(front) ELSE {})
      /\ Members(front) \subseteq Members(Lists'[READYLIST])
      /\ Members(front) \subseteq Waiting
  BY <1>6 DEF Brought
<1>8. /\ Members(front) \in SUBSET Thread
      /\ runningThread \notin Members(front)
      /\ \A t \in Members(front) : ~isOver[t]
  BY <1>7, WaitingIs DEF Freed
<1>9. UNCHANGED <<isOver, runningThread, mode, isBeginning>> /\ mode = "on"
  BY DEF Freed
<1>10. \A t \in Waiting' : t \in Thread /\ t # runningThread
  BY <1>9 DEF Waiting, LiveThreads
<1>11. \A t \in Thread : isOver'[t] => status'[t] = "EXITING"
  BY <1>8, <1>9 DEF StatusInv, OverFit, Proc
<1>12. \A t \in Waiting' \ Members(front) : status'[t] = status[t] /\ a1'[t] = a1[t]
  BY <1>10 DEF Proc
<1>13. Moved(Lists', READYLIST, Members(front), status')
  BY <1>7, <1>11, <1>12 DEF Moved
<1>14. status'[runningThread] = status[runningThread]
  BY <1>8 DEF IInv, TypeOK
<1> QED  BY <1>1, <1>8, <1>9, <1>13, <1>14, SameRunnerFits

LEMMA SignalFits ==
  ASSUME IInv, PlaceInv, StatusInv, PlaceInv', NEW s \in UserSem, SemSignal(s)
  PROVE  StatusInv'
<1> DEFINE k == Releases(s, 1)
           front == SubSeq(blocked[s], 1, k)
<1>1. /\ s \in Sem /\ s \in open' /\ open \subseteq open' /\ Signal(s, 1) /\ 1 \in Nat
      /\ UserTraps /\ mode = "on"
      /\ UNCHANGED <<created, isOver, semToSignal, asleep, runningThread, mode, isBeginning>>
      /\ Returns(SEM_SIGNAL, Ok)
  BY DEF SemSignal, UserTraps, threadVars, sleepVars, Sem
<1>2. k \in 0..Len(blocked[s])
  BY <1>1, SignalEffect
<1>3. Freed(s, k) /\ status' = Woken(status, front)
  BY <1>1, <1>2 DEF Freed, Signal
<1> HIDE DEF k, front
<1>4. \A t \in Members(front) : Fit(READYLIST, status'[t], a1'[t])
  <2>1. front \in Seq(Thread)
    BY <1>1, <1>2, ListsTyped, LenProperties, PartOfSeq DEF front
  <2>2. \A t \in Members(front) : t \in Thread
    BY <2>1 DEF Members
  <2> QED  BY <1>3, <2>2, WokenMembers DEF Fit
<1>5. \A t \in Proc : t \notin Members(front) => status'[t] = status[t]
  BY <1>3 DEF Woken, Members
<1>6. \A t \in Thread : t \notin Members(front) /\ t # runningThread => a1'[t] = a1[t]
  BY <1>1, SlotsKept DEF IInv, TypeOK
<1> QED  BY <1>1, <1>3, <1>4, <1>5, <1>6, ReleaseFits DEF front

LEMMA ConsoleFits ==
  ASSUME IInv, PlaceInv, StatusInv, PlaceInv', NEW n \in 0..MaxBurst, ConsoleInterrupt(n)
  PROVE  StatusInv'
<1> DEFINE s == ConsoleSem
           k == Releases(s, n)
           front == SubSeq(blocked[s], 1, k)
<1>1. /\ n \in Nat /\ s \in Sem /\ s \in open' /\ open \subseteq open' /\ Signal(s, n)
      /\ mode = "on"
      /\ UNCHANGED <<created, isOver, semToSignal, asleep, runningThread, mode, isBeginning>>
      /\ a1' = [a1 EXCEPT ![runningThread] = Data]
  BY KernelAssumption DEF ConsoleInterrupt, Interrupts, threadVars, sleepVars, Sem
<1>2. k \in 0..Len(blocked[s])
  BY <1>1, SignalEffect
<1>3. Freed(s, k) /\ status' = Woken(status, front)
  BY <1>1, <1>2 DEF Freed, Signal
<1> HIDE DEF s, k, front
<1>4. \A t \in Members(front) : Fit(READYLIST, status'[t], a1'[t])
  <2>1. front \in Seq(Thread)
    BY <1>1, <1>2, ListsTyped, LenProperties, PartOfSeq DEF front
  <2>2. \A t \in Members(front) : t \in Thread
    BY <2>1 DEF Members
  <2> QED  BY <1>3, <2>2, WokenMembers DEF Fit
<1>5. \A t \in Proc : t \notin Members(front) => status'[t] = status[t]
  BY <1>3 DEF Woken, Members
<1>6. \A t \in Thread : t \notin Members(front) /\ t # runningThread => a1'[t] = a1[t]
  BY <1>1 DEF IInv, TypeOK, Proc
<1> QED  BY <1>1, <1>3, <1>4, <1>5, <1>6, ReleaseFits DEF front

(* Closing leaves the waiters' statuses: SUSPENDED, with the error code in *)
(* their slots.                                                            *)
LEMMA CloseFits ==
  ASSUME IInv, PlaceInv, StatusInv, PlaceInv', NEW s \in UserSem, SemClose(s)
  PROVE  StatusInv'
<1> DEFINE k == Len(blocked[s])
           front == blocked[s]
<1>1. /\ s \in Sem /\ front \in Seq(Thread) /\ Lists[<<"sem", s>>] = front
      /\ <<"sem", s>> \in ListName
      /\ <<"sem", s>> # READYLIST /\ <<"sem", s>> # SLEEPLIST
  BY ListsTyped, Names DEF Sem
<1>2. /\ mode = "on" /\ UserTraps
      /\ blocked' = [blocked EXCEPT ![s] = << >>]
      /\ linkedList' = linkedList \o front
      /\ UNCHANGED <<created, isOver, semToSignal, asleep, runningThread, mode, isBeginning>>
      /\ status' = status
      /\ a1' = [p \in Proc |-> IF p = runningThread THEN Ok
                               ELSE IF \E i \in DOMAIN front : front[i] = p
                               THEN Closed ELSE a1[p]]
  BY DEF SemClose, UserTraps, DrainWaiters, threadVars, sleepVars
<1>3. /\ k \in 0..k
      /\ SubSeq(front, 1, k) = front
      /\ SubSeq(front, k + 1, k) = << >>
  BY <1>1, WholeList
<1>4. Freed(s, k)
  BY <1>2, <1>3 DEF Freed
<1> HIDE DEF k, front
<1>5. \A t \in Members(front) : t \in Thread /\ t # runningThread
  <2>1. \A t \in Members(front) : t \in Waiting
    BY <1>1 DEF PlaceInv, Holds
  <2> QED  BY <1>2, <2>1, WaitingIs
<1>6. \A t \in Members(front) : Fit(READYLIST, status'[t], a1'[t])
  <2>1. \A t \in Members(front) : status[t] = "SUSPENDED"
    BY <1>1 DEF StatusInv, ListedFit, Fit
  <2>2. \A t \in Members(front) : a1'[t] = Closed
    BY <1>2, <1>5 DEF Members, Proc
  <2> QED  BY <1>2, <2>1, <2>2 DEF Fit
<1>7. \A t \in Thread : t \notin Members(front) /\ t # runningThread => a1'[t] = a1[t]
  BY <1>2 DEF Members, Proc
<1>8. /\ front = SubSeq(blocked[s], 1, k)
      /\ \A t \in Proc : t \notin Members(front) => status'[t] = status[t]
  BY <1>2, <1>3 DEF front
<1> QED  BY <1>1, <1>4, <1>6, <1>7, <1>8, ReleaseFits

LEMMA ExitFits ==
  ASSUME IInv, PlaceInv, OverWereCreated, StatusInv, PlaceInv', ThreadExit
  PROVE  StatusInv'
<1> DEFINE t == runningThread
           jn == semToSignal[t]
           q == linkedList \o jn
           mark == [status EXCEPT ![t] = "EXITING"]
           st == Woken(mark, jn)
           name == <<"join", t>>
           rest == << >>
           N == Build(linkedList, asleep', blocked', semToSignal')
           M == Build(q, asleep', blocked', semToSignal')
<1>1. /\ UserTraps /\ mode = "on" /\ t \in Thread /\ t \in Proc
      /\ isOver' = [isOver EXCEPT ![t] = TRUE]
      /\ semToSignal' = [semToSignal EXCEPT ![t] = << >>]
      /\ UNCHANGED <<created, blocked, asleep>>
      /\ SwitchFrom(q, asleep', blocked', st, timeRunning)
      /\ Returns(THREAD_EXIT, Error) \/ ReturnsNothing(THREAD_EXIT)
  BY DEF ThreadExit, UserTraps, semVars, sleepVars, Proc
<1>2. /\ linkedList \in Seq(Thread) /\ jn \in Seq(Thread)
      /\ Lists[READYLIST] = linkedList /\ Lists[name] = jn
      /\ name \in ListName /\ name # READYLIST
  BY <1>1, ListsTyped, Names
<1>3. q \in Seq(Thread) /\ st \in [Proc -> State]
  BY <1>2, ConcatProperties, WokenTyped DEF IInv, TypeOK, State
<1>4. /\ Len(jn) \in 0..Len(jn)
      /\ jn = SubSeq(jn, 1, Len(jn))
      /\ rest = SubSeq(jn, Len(jn) + 1, Len(jn))
  BY <1>2, WholeList
<1>5. Replaced(Lists, N, name, rest)
  BY <1>1, JoinersChange
<1>6. Replaced(N, M, READYLIST, q)
  BY ReadyReplaced
<1>7. \A u \in Thread : st[u] = IF u \in Members(jn) THEN "READY"
                               ELSE IF u = t THEN "EXITING" ELSE status[u]
  <2>1. \A u \in Thread : mark[u] = IF u = t THEN "EXITING" ELSE status[u]
    BY <1>1 DEF IInv, TypeOK, Proc
  <2> HIDE DEF mark, jn
  <2> QED  BY <2>1, WokenMembers
<1>8. q = Lists[READYLIST] \o jn
  BY <1>2
<1> HIDE DEF jn, q, st, mark, name, rest, N
<1>9. Brought(Lists, M, jn, Waiting)
  <2> HIDE DEF M
  <2> QED  BY <1>2, <1>4, <1>5, <1>6, <1>8, CarriedParts DEF PlaceInv
<1>10. /\ Members(jn) \in SUBSET Thread
       /\ \A u \in Members(jn) : ~isOver[u] /\ u # t
  BY <1>1, <1>9, WaitingIs DEF Brought
<1>11. \A u \in Waiting' : u \in Thread /\ u # t
  BY <1>1 DEF Waiting, LiveThreads, Live, IInv, TypeOK
<1>12. \A u \in Waiting' : a1'[u] = a1[u]
  <2>1. \A u \in Waiting' : u # runningThread'
    BY <1>1, <1>3, <1>11, SwitchMarks DEF Waiting
  <2> QED  BY <1>1, <1>11, <2>1, SlotsKept DEF IInv, TypeOK
<1>13. \A u \in Thread : isOver'[u] => st[u] = "EXITING"
  BY <1>1, <1>7, <1>10 DEF StatusInv, OverFit, IInv, TypeOK
<1>14. Moved(M, READYLIST, Members(jn), st)
  <2> HIDE DEF M
  <2>1. \A u \in Members(jn) : u \in Members(M[READYLIST]) /\ Fit(READYLIST, st[u], a1'[u])
    BY <1>7, <1>9, <1>10 DEF Fit, Brought
  <2>2. \A u \in Waiting' \ Members(jn) : st[u] = status[u] /\ a1'[u] = a1[u]
    BY <1>7, <1>11, <1>12
  <2> QED  BY <1>9, <1>13, <2>1, <2>2 DEF Moved, Brought
<1> QED  BY <1>1, <1>3, <1>10, <1>14, Names, SwitchFits DEF StatusInv

(* A user thread that gives up the processor keeps its place among the     *)
(* threads that run.                                                       *)
LEMMA ThreadDispatchFits ==
  ASSUME IInv, PlaceInv, StatusInv, PlaceInv', ThreadDispatch
  PROVE  StatusInv'
<1>1. /\ UserTraps /\ mode = "on"
      /\ UNCHANGED <<created, isOver, semToSignal, blocked, asleep>>
      /\ Dispatch(linkedList, asleep', status, timeRunning)
      /\ ReturnsNothing(THREAD_DISPATCH)
  BY DEF ThreadDispatch, UserTraps, semVars, sleepVars
<1>2. Build(linkedList, asleep', blocked', semToSignal') = Lists
  BY <1>1 DEF Lists
<1>3. \A t \in Thread : t # runningThread => a1'[t] = a1[t]
  BY <1>1 DEF ReturnsNothing, IInv, TypeOK, Proc
<1>4. \A t \in Waiting' : t \in Thread
  BY DEF Waiting, LiveThreads
<1>5. Readied(Lists, {}, status)
  BY <1>1, <1>3, <1>4 DEF Readied, StatusInv, OverFit
<1>6. runningThread \in Thread => ~isOver[runningThread]
  BY <1>1, CallerIsLive DEF LiveThreads, Live
<1>7. /\ runningThread \in Proc /\ isBeginning \in [Proc -> {0, 1}]
      /\ status \in [Proc -> State]
  BY DEF IInv, TypeOK
<1>8. /\ Readied(Build(linkedList, asleep', blocked', semToSignal'), {}, status)
      /\ UNCHANGED <<blocked, isOver>> /\ ListedFit
      /\ {} \in SUBSET Thread /\ linkedList \in Seq(Thread)
  BY <1>1, <1>2, <1>5, ListsTyped DEF StatusInv
<1> QED  BY <1>1, <1>6, <1>7, <1>8, DispatchFits

LEMMA GrownList ==
  ASSUME NEW q \in Seq(Thread), NEW t \in Thread
  PROVE  /\ Append(q, t) \in Seq(Thread)
         /\ Members(Append(q, t)) = Members(q) \cup {t}
<1> DEFINE one == <<t>>
<1>1. Append(q, t) = q \o one
  BY AppendIsConcat
<1>2. one \in Seq(Thread) /\ Members(one) = {t}
  BY Singleton
<1> HIDE DEF one
<1> QED  BY <1>1, <1>2, JoinedParts

(* A caller that blocks enters the list x at some place, with the status   *)
(* of that list.                                                           *)
LEMMA BlockFits ==
  ASSUME IInv, PlaceInv, StatusInv, PlaceInv', UserTraps,
         NEW x \in ListName, x # READYLIST,
         NEW word, word = IF x = SLEEPLIST THEN "SLEEPING" ELSE "SUSPENDED",
         NEW q \in Seq(Thread), Members(q) = Members(Lists[x]) \cup {runningThread},
         Replaced(Lists, Build(linkedList, asleep', blocked', semToSignal'), x, q),
         UNCHANGED isOver,
         NEW st, st = [status EXCEPT ![runningThread] = word],
         SwitchFrom(linkedList, asleep', blocked', st, timeRunning),
         \A t \in Thread : t # runningThread /\ t # runningThread' => a1'[t] = a1[t]
  PROVE  StatusInv'
<1> DEFINE M == Build(linkedList, asleep', blocked', semToSignal')
<1>1. /\ runningThread \in Thread /\ runningThread \in Proc /\ mode = "on"
      /\ ~isOver[runningThread]
      /\ linkedList \in Seq(Thread)
  BY CallerIsLive, ListsTyped DEF UserTraps, Proc, LiveThreads, Live
<1>2. /\ st \in [Proc -> State] /\ st[runningThread] = word
      /\ \A t \in Thread : t # runningThread => st[t] = status[t]
  BY <1>1 DEF State, IInv, TypeOK, Proc
<1>3. Replaced(Lists, M, x, q)
  OBVIOUS
<1>4. \A t \in Waiting' \ {runningThread} : t \in Thread /\ t # runningThread'
  <2>1. mode' # "on" => runningThread' = runningThread
    BY <1>1, <1>2, SwitchMarks
  <2> QED  BY <2>1 DEF Waiting, LiveThreads
<1> HIDE DEF M
<1>5. \A y \in ListName :
        Members(M[y]) \subseteq
          Members(Lists[y]) \cup (IF y = x THEN {runningThread} ELSE {})
  <2> SUFFICES ASSUME NEW y \in ListName
               PROVE  Members(M[y]) \subseteq
                        Members(Lists[y]) \cup (IF y = x THEN {runningThread} ELSE {})
    OBVIOUS
  <2>1. CASE y = x
    BY <1>3, <2>1 DEF Replaced
  <2>2. CASE y # x
    <3>1. M[y] = Lists[y]
      BY <1>3, <2>2 DEF Replaced
    <3> QED  BY <3>1
  <2> QED  BY <2>1, <2>2
<1>6. runningThread \in Members(M[x]) /\ Fit(x, st[runningThread], a1'[runningThread])
  BY <1>2, <1>3 DEF Replaced, Fit
<1>7. \A t \in Waiting' \ {runningThread} : st[t] = status[t] /\ a1'[t] = a1[t]
  BY <1>2, <1>4
<1>8. \A t \in Thread : isOver'[t] => st[t] = "EXITING"
  BY <1>1, <1>2 DEF StatusInv, OverFit
<1>9. Moved(M, x, {runningThread}, st)
  BY <1>5, <1>6, <1>7, <1>8 DEF Moved
<1>10. {runningThread} \in SUBSET Thread /\ ListedFit
  BY <1>1 DEF StatusInv
<1> QED  BY <1>1, <1>2, <1>9, <1>10, SwitchFits DEF M

LEMMA JoinFits ==
  ASSUME IInv, PlaceInv, StatusInv, PlaceInv', NEW u \in Thread, ThreadJoin(u)
  PROVE  StatusInv'
<1> DEFINE x == <<"join", u>>
           q == Append(semToSignal[u], runningThread)
           st == [status EXCEPT ![runningThread] = "SUSPENDED"]
<1>1. /\ UserTraps /\ runningThread \in Thread
      /\ semToSignal' = [semToSignal EXCEPT ![u] = q]
      /\ UNCHANGED <<blocked, asleep>> /\ UNCHANGED isOver
      /\ SwitchFrom(linkedList, asleep', blocked', st, timeRunning)
      /\ ReturnsNothing(THREAD_JOIN)
  BY DEF ThreadJoin, UserTraps, semVars, sleepVars
<1>2. /\ semToSignal[u] \in Seq(Thread) /\ Lists[x] = semToSignal[u]
      /\ x \in ListName /\ x # READYLIST /\ x # SLEEPLIST
  BY ListsTyped, Names
<1>3. Replaced(Lists, Build(linkedList, asleep', blocked', semToSignal'), x, q)
  <2> HIDE DEF q
  <2> QED  BY <1>1, JoinersChange
<1>4. q \in Seq(Thread) /\ Members(q) = Members(Lists[x]) \cup {runningThread}
  BY <1>1, <1>2, GrownList
<1>5. \A t \in Thread : t # runningThread => a1'[t] = a1[t]
  BY <1>1 DEF ReturnsNothing, IInv, TypeOK, Proc
<1> HIDE DEF x, q, st
<1> QED  BY <1>1, <1>2, <1>3, <1>4, <1>5, BlockFits DEF st

LEMMA WaitFits ==
  ASSUME IInv, PlaceInv, StatusInv, PlaceInv', NEW s \in Sem, SemWait(s)
  PROVE  StatusInv'
<1>1. /\ UserTraps /\ runningThread \in Thread /\ mode = "on"
      /\ UNCHANGED <<created, isOver, isBeginning, semToSignal, asleep>>
      /\ Returns(SEM_WAIT, Ok) \/ ReturnsNothing(SEM_WAIT)
  BY DEF SemWait, UserTraps, threadVars, sleepVars
<1>2. \A t \in Thread : t # runningThread /\ t # runningThread' => a1'[t] = a1[t]
  BY <1>1, SlotsKept DEF IInv, TypeOK
<1>3. CASE val[s] - 1 < 0
  <2> DEFINE x == <<"sem", s>>
             q == Append(blocked[s], runningThread)
             st == [status EXCEPT ![runningThread] = "SUSPENDED"]
  <2>1. /\ blocked' = [blocked EXCEPT ![s] = q]
        /\ SwitchFrom(linkedList, asleep', blocked', st, timeRunning)
    BY <1>1, <1>3 DEF SemWait
  <2>2. /\ blocked[s] \in Seq(Thread) /\ Lists[x] = blocked[s]
        /\ x \in ListName /\ x # READYLIST /\ x # SLEEPLIST
    BY ListsTyped, Names
  <2>3. Replaced(Lists, Build(linkedList, asleep', blocked', semToSignal'), x, q)
    <3> HIDE DEF q
    <3> QED  BY <1>1, <2>1, QueueChanges
  <2>4. q \in Seq(Thread) /\ Members(q) = Members(Lists[x]) \cup {runningThread}
    BY <1>1, <2>2, GrownList
  <2>5. UNCHANGED isOver
    BY <1>1
  <2> HIDE DEF x, q, st
  <2> QED  BY <1>1, <1>2, <2>1, <2>2, <2>3, <2>4, <2>5, BlockFits DEF st
<1>4. CASE ~(val[s] - 1 < 0)
  <2>1. UNCHANGED <<blocked, linkedList, runningThread, mode, status>>
    BY <1>4 DEF SemWait, runVars
  <2> QED  BY <1>1, <1>2, <2>1, NothingFits
<1> QED  BY <1>3, <1>4

LEMMA SleepFits ==
  ASSUME IInv, PlaceInv, StatusInv, PlaceInv', NEW ticks \in SleepTime, TimeSleep(ticks)
  PROVE  StatusInv'
<1> DEFINE time == ticks % UIntLimit
<1>1. /\ UserTraps /\ runningThread \in Thread /\ mode = "on"
      /\ UNCHANGED <<created, isOver, isBeginning, semToSignal, blocked>>
      /\ Returns(TIME_SLEEP, Ok)
  BY DEF TimeSleep, UserTraps, threadVars, semVars
<1>2. \A t \in Thread : t # runningThread /\ t # runningThread' => a1'[t] = a1[t]
  BY <1>1, SlotsKept DEF IInv, TypeOK
<1>3. CASE time # 0
  <2> DEFINE st == [status EXCEPT ![runningThread] = "SLEEPING"]
             p == Position(time)
             r == SubSeq(asleep, 1, p - 1) \o <<runningThread>>
                    \o SubSeq(asleep, p, Len(asleep))
  <2>1. /\ SwitchFrom(linkedList, asleep', blocked', st, timeRunning)
        /\ asleep' = r
    BY <1>1, <1>3 DEF TimeSleep, Sleeps, PutToSleep
  <2>2. p \in 1..(Len(asleep) + 1)
    <3>1. time \in Nat
      BY KernelAssumption
    <3> QED  BY <3>1, ListsTyped, PositionInRange
  <2>3. Distinct(asleep) /\ runningThread \notin Members(asleep)
    <3>1. runningThread \notin Waiting
      BY <1>1, CallerIsLive
    <3> QED  BY <3>1, ListsTyped, Names DEF PlaceInv, Holds
  <2> HIDE DEF p
  <2>4. r \in Seq(Thread) /\ Members(r) = Members(asleep) \cup {runningThread}
    BY <1>1, <2>2, <2>3, ListsTyped, InsertedPart
  <2> HIDE DEF r, st
  <2>5. Replaced(Lists, Build(linkedList, asleep', blocked', semToSignal'), SLEEPLIST, r)
    BY <1>1, <2>1, SleepersChange
  <2>6. /\ UNCHANGED isOver
        /\ SLEEPLIST \in ListName /\ SLEEPLIST # READYLIST /\ Lists[SLEEPLIST] = asleep
    BY <1>1, ListsTyped, Names
  <2> QED  BY <1>1, <1>2, <2>1, <2>4, <2>5, <2>6, BlockFits DEF st
<1>4. CASE time = 0
  <2>1. UNCHANGED <<asleep, linkedList, runningThread, mode, status>>
    BY <1>4 DEF TimeSleep, Sleeps, sleepVars, runVars
  <2> QED  BY <1>1, <1>2, <2>1, NothingFits
<1> QED  BY <1>3, <1>4

LEMMA TimerFits ==
  ASSUME IInv, PlaceInv, StatusInv, PlaceInv', TimerInterrupt
  PROVE  StatusInv'
<1> DEFINE tr == [timeRunning EXCEPT ![runningThread] =
                    IF @ < TimeSlice THEN @ + 1 ELSE @]
           front == Awakened
           q == linkedList \o front
           st == Woken(status, front)
           rest == SubSeq(asleep, Due + 1, Len(asleep))
           N == Build(linkedList, asleep', blocked', semToSignal')
           L == Build(q, asleep', blocked', semToSignal')
<1>1. /\ mode = "on" /\ asleep' = rest
      /\ UNCHANGED <<created, isOver, semToSignal, blocked>>
      /\ a1' = [a1 EXCEPT ![runningThread] = Data]
      /\ IF tr[runningThread] >= TimeSlice
           THEN Dispatch(q, asleep', st, tr)
           ELSE /\ linkedList' = q /\ status' = st
                /\ UNCHANGED <<runningThread, mode, isBeginning>>
  BY DEF TimerInterrupt, Interrupts, UpdateTime, semVars
<1>2. /\ Due \in 0..Len(asleep) /\ q \in Seq(Thread) /\ front \in Seq(Thread)
      /\ st \in [Proc -> State]
      /\ runningThread \in Proc /\ isBeginning \in [Proc -> {0, 1}]
  BY ListsTyped, DueInRange, SleepersTyped, WokenTyped, ConcatProperties
  DEF IInv, TypeOK
<1>3. Replaced(Lists, N, SLEEPLIST, rest)
  BY <1>1, SleepersChange
<1>4. Replaced(N, L, READYLIST, q)
  BY ReadyReplaced
<1>5. /\ front = SubSeq(Lists[SLEEPLIST], 1, Due)
      /\ rest = SubSeq(Lists[SLEEPLIST], Due + 1, Len(Lists[SLEEPLIST]))
      /\ q = Lists[READYLIST] \o front
      /\ Due \in 0..Len(Lists[SLEEPLIST])
      /\ SLEEPLIST \in ListName /\ SLEEPLIST # READYLIST /\ READYLIST \in ListName
  BY <1>2, ListsTyped, Names DEF Awakened
<1>6. /\ \A t \in Thread : st[t] = IF t \in Members(front) THEN "READY" ELSE status[t]
      /\ \A t \in Proc : t \notin Members(front) => st[t] = status[t]
  <2> HIDE DEF front
  <2>1. \A t \in Thread : st[t] = IF t \in Members(front) THEN "READY" ELSE status[t]
    BY WokenMembers
  <2>2. \A t \in Proc : t \notin Members(front) => st[t] = status[t]
    BY DEF Woken, Members
  <2> QED  BY <2>1, <2>2
<1> HIDE DEF tr, front, q, st, rest, N
<1>7. Brought(Lists, L, front, Waiting)
  <2> HIDE DEF L
  <2> QED  BY <1>3, <1>4, <1>5, CarriedParts DEF PlaceInv
<1>8. /\ Members(front) \in SUBSET Thread
      /\ runningThread \notin Members(front)
      /\ \A t \in Members(front) : ~isOver[t]
  BY <1>1, <1>7, WaitingIs DEF Brought
<1>9. \A t \in Thread : t # runningThread => a1'[t] = a1[t]
  BY <1>1 DEF IInv, TypeOK, Proc
<1>10. \A t \in Thread : isOver'[t] => st[t] = "EXITING"
  BY <1>1, <1>6, <1>8 DEF StatusInv, OverFit
<1>11. \A t \in Members(front) : t \in Members(L[READYLIST]) /\ st[t] = "READY"
  <2> HIDE DEF L
  <2> QED  BY <1>6, <1>7, <1>8 DEF Brought
<1>12. \A t \in Waiting' \ Members(front) :
         t # runningThread => st[t] = status[t] /\ a1'[t] = a1[t]
  BY <1>6, <1>9 DEF Waiting, LiveThreads
<1>13. CASE tr[runningThread] >= TimeSlice
  <2>1. Dispatch(q, asleep', st, tr)
    BY <1>1, <1>13
  <2>2. Readied(L, Members(front), st)
    <3> HIDE DEF L
    <3> QED  BY <1>7, <1>10, <1>11, <1>12 DEF Readied, Brought
  <2>3. runningThread \in Thread => ~isOver[runningThread]
    BY <1>1, KernelAssumption DEF PlaceInv, LiveThreads, Live
  <2>4. UNCHANGED <<blocked, isOver>> /\ ListedFit
    BY <1>1 DEF StatusInv
  <2> QED  BY <1>2, <1>8, <2>1, <2>2, <2>3, <2>4, DispatchFits
<1>14. CASE ~(tr[runningThread] >= TimeSlice)
  <2>1. /\ linkedList' = q /\ status' = st
        /\ UNCHANGED <<runningThread, mode>> /\ isBeginning'[Main] = isBeginning[Main]
    BY <1>1, <1>14
  <2>2. Lists' = L
    BY <1>1, <2>1 DEF Lists
  <2>3. \A t \in Waiting' : t # runningThread
    BY <1>1, <2>1 DEF Waiting
  <2>4. Moved(Lists', READYLIST, Members(front), status')
    <3> HIDE DEF L
    <3>1. \A t \in Members(front) :
            t \in Members(L[READYLIST]) /\ Fit(READYLIST, st[t], a1'[t])
      BY <1>11 DEF Fit
    <3> QED  BY <1>7, <1>10, <1>12, <2>1, <2>2, <2>3, <3>1 DEF Moved, Brought
  <2>5. status'[runningThread] = status[runningThread]
    BY <1>2, <1>6, <1>8, <2>1
  <2> QED  BY <1>5, <1>8, <2>1, <2>4, <2>5, SameRunnerFits
<1> QED  BY <1>13, <1>14

-----------------------------------------------------------------------------
(***************************************************************************)
(* The invariant.                                                          *)
(***************************************************************************)

LEMMA InitFits == Init => StatusInv
<1> SUFFICES ASSUME Init PROVE StatusInv
  OBVIOUS
<1>1. /\ linkedList = << >> /\ asleep = << >>
      /\ \A s \in Sem : blocked[s] = << >>
      /\ \A t \in Thread : semToSignal[t] = << >>
      /\ runningThread = Main /\ isBeginning[Main] = 1
      /\ \A t \in Thread : ~isOver[t]
  BY KernelAssumption DEF Init, SleepersInit, Proc
<1>2. \A x \in ListName : Lists[x] = << >>
  BY <1>1, Kinds DEF Lists, Build
<1>3. ListedFit
  BY <1>2, EmptyParts DEF ListedFit
<1> QED  BY <1>1, <1>3 DEF StatusInv, RunnerFits, OverFit

LEMMA NextFits ==
  IInv /\ PlaceInv /\ OverWereCreated /\ PlaceInv' /\ StatusInv /\ [Next]_vars
    => StatusInv'
<1> SUFFICES ASSUME IInv, PlaceInv, OverWereCreated, PlaceInv', StatusInv, [Next]_vars
             PROVE  StatusInv'
  OBVIOUS
<1>1. CASE SystemCall
  <2>1. ASSUME NEW t \in Thread, ThreadCreate(t) \/ ThreadJoin(t) PROVE StatusInv'
    BY <2>1, CreateFits, JoinFits
  <2>2. CASE ThreadExit
    BY <2>2, ExitFits
  <2>3. CASE ThreadDispatch
    BY <2>3, ThreadDispatchFits
  <2>4. ASSUME NEW s \in UserSem, NEW init \in InitVal, SemOpen(s, init)
        PROVE  StatusInv'
    <3>1. Returns(SEM_OPEN, Ok) /\ UNCHANGED runningThread /\ mode = "on"
      BY <2>4 DEF SemOpen, runVars, UserTraps
    <3>2. \A t \in Thread : t # runningThread => a1'[t] = a1[t]
      BY <3>1, SlotsKept DEF IInv, TypeOK
    <3>3. UNCHANGED <<created, isOver, semToSignal, blocked, asleep, linkedList,
                      runningThread, mode, status, isBeginning>>
      BY <2>4 DEF SemOpen, threadVars, sleepVars, runVars
    <3> QED  BY <3>1, <3>2, <3>3, NothingFits
  <2>5. ASSUME NEW s \in UserSem, SemClose(s) \/ SemSignal(s) PROVE StatusInv'
    BY <2>5, CloseFits, SignalFits
  <2>6. ASSUME NEW s \in Sem, SemWait(s) PROVE StatusInv'
    BY <2>6, WaitFits
  <2>7. ASSUME NEW t \in SleepTime, TimeSleep(t) PROVE StatusInv'
    BY <2>7, SleepFits
  <2>8. ASSUME NEW code \in Operation,
               RejectedCall(code) \/ MemoryCall(code) \/ ConsoleCall(code)
        PROVE  StatusInv'
    <3>1. /\ \E result \in Word : Returns(code, result) \/ ReturnsNothing(code)
          /\ UNCHANGED runningThread /\ mode = "on"
      BY <2>8 DEF RejectedCall, MemoryCall, ConsoleCall, runVars, UserTraps, Word
    <3>2. \A t \in Thread : t # runningThread => a1'[t] = a1[t]
      BY <3>1, SlotsKept DEF IInv, TypeOK
    <3>3. UNCHANGED <<created, isOver, semToSignal, blocked, asleep, linkedList,
                      runningThread, mode, status, isBeginning>>
      BY <2>8 DEF RejectedCall, MemoryCall, ConsoleCall, threadVars, semVars,
                  sleepVars, runVars
    <3> QED  BY <3>1, <3>2, <3>3, NothingFits
  <2> QED
    BY <1>1, <2>1, <2>2, <2>3, <2>4, <2>5, <2>6, <2>7, <2>8 DEF SystemCall, Operation
<1>2. CASE TimerInterrupt
  BY <1>2, TimerFits
<1>3. ASSUME NEW n \in 0..MaxBurst, ConsoleInterrupt(n) PROVE StatusInv'
  BY <1>3, ConsoleFits
<1>4. CASE Stopped \/ UNCHANGED vars
  <2>1. UNCHANGED vars
    BY <1>4 DEF Stopped
  <2>2. Lists' = Lists
    BY <2>1 DEF vars, Lists
  <2>3. UNCHANGED <<status, a1, mode, runningThread, isBeginning, isOver>>
    BY <2>1 DEF vars
  <2>4. ListedFit'
    BY <2>2, <2>3 DEF StatusInv, ListedFit
  <2> QED  BY <2>3, <2>4 DEF StatusInv, RunnerFits, OverFit
<1> QED  BY <1>1, <1>2, <1>3, <1>4 DEF Next

LEMMA FitsTrack == StatusInv => StatusTracksList
<1> SUFFICES ASSUME StatusInv, NEW x \in ListName, NEW i \in DOMAIN List(x)
             PROVE  LET t == List(x)[i]
                    IN  CASE x[1] = "ready"  -> \/ status[t] = "READY"
                                                \/ /\ status[t] = "SUSPENDED"
                                                   /\ a1[t] = Closed
                          [] x[1] = "asleep" -> status[t] = "SLEEPING"
                          [] OTHER           -> status[t] = "SUSPENDED"
  BY DEF StatusTracksList, StatusInv, RunnerFits, OverFit
<1> DEFINE t == List(x)[i]
<1>1. Fit(x, status[t], a1[t])
  BY NamedLists DEF StatusInv, ListedFit, Members
<1> HIDE DEF t
<1>2. /\ x[1] = "ready" <=> x = READYLIST
      /\ x[1] = "asleep" <=> x = SLEEPLIST
      /\ READYLIST # SLEEPLIST
  BY Kinds, Names
<1>3. (CASE x[1] = "ready"  -> \/ status[t] = "READY"
                               \/ status[t] = "SUSPENDED" /\ a1[t] = Closed
         [] x[1] = "asleep" -> status[t] = "SLEEPING"
         [] OTHER           -> status[t] = "SUSPENDED")
  <2> HIDE DEF READYLIST, SLEEPLIST
  <2> QED  BY <1>1, <1>2 DEF Fit
<1> QED  BY <1>3 DEF t

(* Whatever handler moved a thread last, its status is that of the list it *)
(* is in: no path to a list forgets the status, and none marks a thread it *)
(* does not move.                                                          *)
THEOREM StatusKept == Spec => []StatusTracksList
<1>1. Spec => []StatusInv
  <2>1. Init => StatusInv
    BY InitFits
  <2>2. IInv /\ PlaceInv /\ OverWereCreated /\ PlaceInv' /\ StatusInv /\ [Next]_vars
          => StatusInv'
    BY NextFits
  <2> QED  BY <2>1, <2>2, InvariantHolds, PlacementHolds, PTL DEF Spec
<1> QED  BY <1>1, FitsTrack, PTL

-----------------------------------------------------------------------------

QueueSteps == \A s \in Sem : QueueStep(blocked[s], blocked'[s])

-----------------------------------------------------------------------------
(***************************************************************************)
(* One list.                                                               *)
(***************************************************************************)

LEMMA LongerExtends ==
  ASSUME NEW q \in Seq(Thread), NEW r \in Seq(Thread)
  PROVE  Extends(q \o r, q)
<1>1. /\ Len(q) \in Nat /\ Len(r) \in Nat /\ Len(q \o r) = Len(q) + Len(r)
  BY LenProperties, ConcatProperties
<1>2. SubSeq(q \o r, 1, Len(q)) = q
  <2>1. CASE Len(q) = 0
    <3>1. q = << >>
      BY <2>1, EmptySeq
    <3>2. SubSeq(q \o r, 1, Len(q)) = << >>
      BY <2>1, SubSeqEmpty
    <3> QED  BY <3>1, <3>2
  <2>2. CASE Len(q) # 0
    <3>1. 1 \in 1..Len(q) /\ Len(q) \in 1..Len(q)
      BY <1>1, <2>2
    <3> QED  BY <3>1, SubSeqOfConcat1, SubSeqFull
  <2> QED  BY <2>1, <2>2
<1> QED  BY <1>1, <1>2 DEF Extends

LEMMA SameExtends ==
  ASSUME NEW q \in Seq(Thread)
  PROVE  Extends(q, q)
BY SubSeqFull, LenProperties DEF Extends

(* A list that stays, or grows at its end, makes a step of no departures.  *)
LEMMA QueueGrows ==
  ASSUME NEW q \in Seq(Thread), NEW r, Extends(r, q)
  PROVE  QueueStep(q, r)
<1>1. Len(q) \in Nat
  BY LenProperties
<1>2. 0 \in 0..Len(q) /\ 0 + 1 = 1 /\ ~(0 > 0)
  BY <1>1
<1>3. SubSeq(q, 0 + 1, Len(q)) = q
  BY <1>2, SubSeqFull
<1> QED  BY <1>2, <1>3 DEF QueueStep

LEMMA QueueStays ==
  ASSUME IInv, UNCHANGED blocked
  PROVE  QueueSteps
BY ListsTyped, SameExtends, QueueGrows DEF QueueSteps

-----------------------------------------------------------------------------
(***************************************************************************)
(* The ready list.                                                         *)
(***************************************************************************)

LEMMA ReadyGrows ==
  ASSUME linkedList \in Seq(Thread), NEW r \in Seq(Thread), linkedList' = linkedList \o r
  PROVE  ReadyStep
BY LongerExtends DEF ReadyStep

LEMMA ReadyStays ==
  ASSUME linkedList \in Seq(Thread), UNCHANGED linkedList
  PROVE  ReadyStep
BY SameExtends DEF ReadyStep

(* A handler that adds the threads of r to the ready list and changes the  *)
(* running thread: the next thread is the first of the list as it was,     *)
(* unless that was empty.                                                  *)
LEMMA SwitchIsFifo ==
  ASSUME linkedList \in Seq(Thread), NEW r \in Seq(Thread),
         NEW sl, NEW bl, NEW st, NEW tr,
         SwitchFrom(linkedList \o r, sl, bl, st, tr)
  PROVE  ReadyStep
<1> DEFINE q == linkedList \o r
<1>1. q \in Seq(Thread)
  BY ConcatProperties
<1>2. CASE ModeAfterGet(q, sl, bl) # "on" \/ q = << >>
  <2>1. linkedList' = q
    BY <1>2 DEF SwitchFrom
  <2> QED  BY <2>1, ReadyGrows
<1>3. CASE ModeAfterGet(q, sl, bl) = "on" /\ q # << >>
  <2>1. runningThread' = Head(q) /\ linkedList' = Tail(q)
    BY <1>3 DEF SwitchFrom, NextThread
  <2>2. CASE linkedList = << >>
    <3>1. Tail(q) \in Seq(Thread)
      BY <1>1, <1>3, HeadTailProperties
    <3>2. linkedList' = linkedList \o Tail(q)
      BY <2>1, <2>2, <3>1, ConcatEmptySeq
    <3> QED  BY <3>1, <3>2, ReadyGrows
  <2>3. CASE linkedList # << >>
    <3>1. /\ Len(linkedList) \in Nat \ {0} /\ Len(r) \in Nat
          /\ Len(q) = Len(linkedList) + Len(r)
          /\ \A i \in 1..Len(q) : q[i] = IF i <= Len(linkedList) THEN linkedList[i]
                                         ELSE r[i - Len(linkedList)]
      BY <2>3, EmptySeq, LenProperties, ConcatProperties
    <3>2. Head(q) = Head(linkedList)
      <4>1. q[1] = linkedList[1]
        BY <3>1
      <4>2. Head(q) = q[1] /\ Head(linkedList) = linkedList[1]
        BY <3>1
      <4> QED  BY <4>1, <4>2
    <3>3. Tail(linkedList) \in Seq(Thread)
      BY <2>3, HeadTailProperties
    <3>4. Tail(q) = Tail(linkedList) \o r
      <4> DEFINE one == <<linkedList[1]>>
                 rest == Tail(linkedList)
      <4>1. one \in Seq(Thread) /\ Len(one) = 1 /\ linkedList[1] \in Thread
        BY <3>1, ElementOfSeq
      <4>2. 1 \in 1..Len(linkedList) /\ Len(linkedList) \in 1..Len(linkedList)
        BY <3>1
      <4>3. SubSeq(linkedList, 1, Len(linkedList))
              = one \o SubSeq(linkedList, 1 + 1, Len(linkedList))
        BY <4>2, SubSeqRecursiveFirst
      <4>4. /\ SubSeq(linkedList, 1, Len(linkedList)) = linkedList
            /\ rest = SubSeq(linkedList, 2, Len(linkedList)) /\ 1 + 1 = 2
        BY <2>3, SubSeqFull, TailIsSubSeq
      <4>5. linkedList = one \o rest
        BY <4>3, <4>4
      <4> HIDE DEF rest
      <4>6. q = one \o (rest \o r)
        BY <3>3, <4>1, <4>5, ConcatAssociative DEF rest
      <4>7. rest \o r \in Seq(Thread)
        BY <3>3, ConcatProperties DEF rest
      <4>8. Tail(one \o (rest \o r)) = rest \o r
        <5> DEFINE z == rest \o r
                   w == one \o z
        <5> HIDE DEF z
        <5>1. /\ z \in Seq(Thread) /\ w \in Seq(Thread)
              /\ Len(z) \in Nat /\ Len(w) = 1 + Len(z)
              /\ \A i \in 1..(1 + Len(z)) : w[i] = IF i <= 1 THEN one[i] ELSE z[i - 1]
          BY <4>1, <4>7, ConcatProperties, LenProperties DEF z
        <5> HIDE DEF w, one
        <5>2. w # << >>
          BY <5>1, EmptySeq
        <5>3. /\ Tail(w) \in Seq(Thread) /\ Len(Tail(w)) = Len(w) - 1
              /\ \A i \in 1..Len(Tail(w)) : Tail(w)[i] = w[i + 1]
          BY <5>1, <5>2, HeadTailProperties
        <5>4. Len(Tail(w)) = Len(z)
          BY <5>1, <5>3
        <5>5. ASSUME NEW i \in 1..Len(Tail(w)) PROVE Tail(w)[i] = z[i]
          <6>1. i + 1 \in 1..(1 + Len(z)) /\ ~(i + 1 <= 1) /\ (i + 1) - 1 = i
            BY <5>1, <5>4
          <6> QED  BY <5>1, <5>3, <6>1
        <5>6. Tail(w) = z
          BY <5>1, <5>3, <5>4, <5>5, SeqEqual
        <5> QED  BY <5>6 DEF w, z
      <4> QED  BY <4>6, <4>8 DEF rest
    <3>5. Extends(linkedList', Tail(linkedList))
      BY <2>1, <3>3, <3>4, LongerExtends
    <3> QED  BY <2>1, <2>3, <3>2, <3>5 DEF ReadyStep
  <2> QED  BY <2>2, <2>3
<1> QED  BY <1>2, <1>3

LEMMA SwitchAlone ==
  ASSUME linkedList \in Seq(Thread), NEW sl, NEW bl, NEW st, NEW tr,
         SwitchFrom(linkedList, sl, bl, st, tr)
  PROVE  ReadyStep
<1>1. linkedList = linkedList \o << >> /\ << >> \in Seq(Thread)
  BY ConcatEmptySeq
<1> QED  BY <1>1, SwitchIsFifo

(* A dispatch adds the running thread behind those that were woken.        *)
LEMMA AddedBehind ==
  ASSUME linkedList \in Seq(Thread), NEW r \in Seq(Thread), runningThread \in Proc
  PROVE  \E z \in Seq(Thread) :
           PutThread(linkedList \o r, runningThread) = linkedList \o z
<1> DEFINE q == PutThread(linkedList \o r, runningThread)
<1>1. CASE runningThread = Idle
  BY <1>1 DEF PutThread
<1>2. CASE runningThread # Idle
  <2>1. /\ runningThread \in Thread /\ linkedList \o r \in Seq(Thread)
        /\ q = Append(linkedList \o r, runningThread)
    BY <1>2, ConcatProperties DEF PutThread, Proc
  <2> DEFINE one == <<runningThread>>
  <2>2. q = (linkedList \o r) \o one
    BY <2>1, AppendIsConcat
  <2>3. one \in Seq(Thread)
    BY <2>1
  <2> HIDE DEF one, q
  <2>4. q = linkedList \o (r \o one) /\ r \o one \in Seq(Thread)
    BY <2>2, <2>3, ConcatAssociative, ConcatProperties
  <2> QED  BY <2>4 DEF q
<1> QED  BY <1>1, <1>2

LEMMA DispatchIsFifo ==
  ASSUME linkedList \in Seq(Thread), NEW r \in Seq(Thread), runningThread \in Proc,
         NEW sl, NEW st, NEW tr, Dispatch(linkedList \o r, sl, st, tr)
  PROVE  ReadyStep
<1> DEFINE q == PutThread(linkedList \o r, runningThread)
<1>1. \E st1, begun : SwitchFrom(q, sl, blocked, st1, begun)
  BY DEF Dispatch
<1>2. \E z \in Seq(Thread) : q = linkedList \o z
  BY AddedBehind
<1> HIDE DEF q
<1> QED  BY <1>1, <1>2, SwitchIsFifo

-----------------------------------------------------------------------------
(***************************************************************************)
(* The actions.                                                            *)
(***************************************************************************)

Fifo == ReadyStep /\ QueueSteps

(* The front of a semaphore's queue goes behind the ready list.            *)
LEMMA ReleaseIsFifo ==
  ASSUME IInv, NEW s \in Sem, NEW k \in 0..Len(blocked[s]),
         blocked' = [blocked EXCEPT ![s] = SubSeq(blocked[s], k + 1, Len(blocked[s]))],
         linkedList' = linkedList \o SubSeq(blocked[s], 1, k)
  PROVE  Fifo
<1> DEFINE front == SubSeq(blocked[s], 1, k)
           rest == SubSeq(blocked[s], k + 1, Len(blocked[s]))
<1>1. /\ linkedList \in Seq(Thread) /\ blocked \in [Sem -> Seq(Thread)]
      /\ blocked[s] \in Seq(Thread) /\ Len(blocked[s]) \in Nat
  BY ListsTyped, LenProperties
<1>2. k \in 0..Len(blocked[s]) /\ k + 1 \in 1..(Len(blocked[s]) + 1)
      /\ 1 \in 1..(Len(blocked[s]) + 1) /\ Len(blocked[s]) \in 0..Len(blocked[s])
  BY <1>1
<1>3. front \in Seq(Thread) /\ rest \in Seq(Thread)
  BY <1>1, <1>2, PartOfSeq
<1>4. ReadyStep
  BY <1>1, <1>3, ReadyGrows
<1>5. QueueStep(blocked[s], rest)
  <2>1. Extends(rest, rest)
    BY <1>3, SameExtends
  <2> QED  BY <1>2, <2>1 DEF QueueStep
<1>6. ASSUME NEW u \in Sem PROVE QueueStep(blocked[u], blocked'[u])
  <2>1. CASE u = s
    <3>1. blocked'[u] = rest
      BY <1>1, <2>1
    <3> QED  BY <1>5, <2>1, <3>1
  <2>2. CASE u # s
    <3>1. blocked'[u] = blocked[u] /\ blocked[u] \in Seq(Thread)
      BY <1>1, <2>2
    <3> QED  BY <3>1, SameExtends, QueueGrows
  <2> QED  BY <2>1, <2>2
<1> QED  BY <1>4, <1>6 DEF Fifo, QueueSteps

LEMMA ExitIsFifo ==
  ASSUME IInv, ThreadExit
  PROVE  Fifo
<1>1. PICK st : /\ UserTraps /\ UNCHANGED blocked
                /\ SwitchFrom(linkedList \o semToSignal[runningThread], asleep, blocked,
                              st, timeRunning)
  BY DEF ThreadExit, semVars
<1>2. semToSignal[runningThread] \in Seq(Thread) /\ linkedList \in Seq(Thread)
  BY <1>1, ListsTyped DEF UserTraps
<1> QED  BY <1>1, <1>2, SwitchIsFifo, QueueStays DEF Fifo

LEMMA WaitIsFifo ==
  ASSUME IInv, NEW s \in Sem, SemWait(s)
  PROVE  Fifo
<1>1. linkedList \in Seq(Thread) /\ blocked \in [Sem -> Seq(Thread)]
  BY ListsTyped
<1>2. CASE val[s] - 1 < 0
  <2>1. PICK st : /\ UserTraps
                  /\ blocked' = [blocked EXCEPT ![s] = Append(blocked[s], runningThread)]
                  /\ SwitchFrom(linkedList, asleep, blocked', st, timeRunning)
    BY <1>2 DEF SemWait
  <2>2. ReadyStep
    BY <1>1, <2>1, SwitchAlone
  <2>3. ASSUME NEW u \in Sem PROVE QueueStep(blocked[u], blocked'[u])
    <3>1. blocked[u] \in Seq(Thread) /\ runningThread \in Thread
      BY <1>1, <2>1 DEF UserTraps
    <3>2. CASE u = s
      <4> DEFINE one == <<runningThread>>
      <4>1. blocked'[u] = Append(blocked[u], runningThread)
        BY <1>1, <2>1, <3>2
      <4>2. blocked'[u] = blocked[u] \o one
        BY <3>1, <4>1, AppendIsConcat
      <4>3. one \in Seq(Thread)
        BY <3>1
      <4> HIDE DEF one
      <4>4. Extends(blocked'[u], blocked[u])
        BY <3>1, <4>2, <4>3, LongerExtends
      <4> QED  BY <3>1, <4>4, QueueGrows
    <3>3. CASE u # s
      <4>1. blocked'[u] = blocked[u]
        BY <1>1, <2>1, <3>3
      <4> QED  BY <3>1, <4>1, SameExtends, QueueGrows
    <3> QED  BY <3>2, <3>3
  <2> QED  BY <2>2, <2>3 DEF Fifo, QueueSteps
<1>3. CASE ~(val[s] - 1 < 0)
  <2>1. UNCHANGED <<blocked, linkedList>>
    BY <1>3 DEF SemWait, runVars
  <2> QED  BY <1>1, <2>1, ReadyStays, QueueStays DEF Fifo
<1> QED  BY <1>2, <1>3

LEMMA TimerIsFifo ==
  ASSUME IInv, TimerInterrupt
  PROVE  Fifo
<1>1. /\ linkedList \in Seq(Thread) /\ Awakened \in Seq(Thread) /\ runningThread \in Proc
  BY ListsTyped, SleepersTyped DEF IInv, TypeOK
<1>2. /\ UNCHANGED blocked
      /\ \/ linkedList' = linkedList \o Awakened
         \/ \E st, tr : Dispatch(linkedList \o Awakened, asleep', st, tr)
  BY DEF TimerInterrupt, semVars
<1>3. ReadyStep
  BY <1>1, <1>2, ReadyGrows, DispatchIsFifo
<1> QED  BY <1>2, <1>3, QueueStays DEF Fifo

LEMMA NextIsFifo == IInv /\ [Next]_vars => Fifo
<1> SUFFICES ASSUME IInv, [Next]_vars PROVE Fifo
  OBVIOUS
<1>0. linkedList \in Seq(Thread) /\ runningThread \in Proc
  BY ListsTyped DEF IInv, TypeOK
<1>1. CASE SystemCall
  <2>1. ASSUME NEW t \in Thread, ThreadCreate(t) PROVE Fifo
    <3> DEFINE one == <<t>>
    <3>1. linkedList' = Append(linkedList, t) /\ UNCHANGED blocked
      BY <2>1, KernelAssumption DEF ThreadCreate, PutThread, semVars
    <3>2. linkedList' = linkedList \o one
      BY <1>0, <3>1, AppendIsConcat
    <3>3. one \in Seq(Thread)
      OBVIOUS
    <3> HIDE DEF one
    <3> QED  BY <1>0, <3>1, <3>2, <3>3, ReadyGrows, QueueStays DEF Fifo
  <2>2. ASSUME NEW u \in Thread, ThreadJoin(u) PROVE Fifo
    <3>1. /\ UNCHANGED blocked
          /\ \E st : SwitchFrom(linkedList, asleep, blocked, st, timeRunning)
      BY <2>2 DEF ThreadJoin, semVars
    <3> QED  BY <1>0, <3>1, SwitchAlone, QueueStays DEF Fifo
  <2>3. CASE ThreadDispatch
    <3>1. UNCHANGED blocked /\ Dispatch(linkedList, asleep, status, timeRunning)
      BY <2>3 DEF ThreadDispatch, semVars
    <3>2. linkedList = linkedList \o << >> /\ << >> \in Seq(Thread)
      BY <1>0, ConcatEmptySeq
    <3>3. Dispatch(linkedList \o << >>, asleep, status, timeRunning)
      BY <3>1, <3>2
    <3>4. ReadyStep
      BY <1>0, <3>2, <3>3, DispatchIsFifo
    <3> QED  BY <3>1, <3>4, QueueStays DEF Fifo
  <2>4. ASSUME NEW s \in UserSem, SemClose(s) PROVE Fifo
    <3>1. /\ s \in Sem /\ blocked[s] \in Seq(Thread)
          /\ linkedList' = linkedList \o blocked[s]
          /\ blocked' = [blocked EXCEPT ![s] = << >>]
      BY <2>4, ListsTyped DEF SemClose, DrainWaiters, Sem
    <3> QED  BY <3>1, WholeList, ReleaseIsFifo
  <2>5. ASSUME NEW s \in UserSem, SemSignal(s) PROVE Fifo
    <3>1. s \in Sem /\ Signal(s, 1) /\ s \in open' /\ open \subseteq open' /\ 1 \in Nat
      BY <2>5 DEF SemSignal, Sem
    <3>2. Releases(s, 1) \in 0..Len(blocked[s])
      BY <3>1, SignalEffect
    <3> QED  BY <3>1, <3>2, ReleaseIsFifo DEF Signal
  <2>6. ASSUME NEW t \in SleepTime, TimeSleep(t) PROVE Fifo
    <3>1. /\ UNCHANGED blocked
          /\ \/ UNCHANGED linkedList
             \/ \E st : SwitchFrom(linkedList, asleep', blocked, st, timeRunning)
      BY <2>6 DEF TimeSleep, semVars, runVars
    <3> QED  BY <1>0, <3>1, ReadyStays, SwitchAlone, QueueStays DEF Fifo
  <2>7. ASSUME \/ \E s \in UserSem, init \in InitVal : SemOpen(s, init)
               \/ \E code \in Operation :
                    RejectedCall(code) \/ MemoryCall(code) \/ ConsoleCall(code)
        PROVE  Fifo
    <3>1. UNCHANGED <<linkedList, blocked>>
      BY <2>7 DEF SemOpen, RejectedCall, MemoryCall, ConsoleCall, semVars, runVars
    <3> QED  BY <1>0, <3>1, ReadyStays, QueueStays DEF Fifo
  <2> QED
    BY <1>1, <2>1, <2>2, <2>3, <2>4, <2>5, <2>6, <2>7, ExitIsFifo, WaitIsFifo
    DEF SystemCall, Operation
<1>2. CASE TimerInterrupt
  BY <1>2, TimerIsFifo
<1>3. ASSUME NEW n \in 0..MaxBurst, ConsoleInterrupt(n) PROVE Fifo
  <2> DEFINE s == ConsoleSem
  <2>1. /\ n \in Nat /\ s \in Sem /\ s \in open' /\ open \subseteq open' /\ Signal(s, n)
    BY <1>3, KernelAssumption DEF ConsoleInterrupt, Sem
  <2>2. Releases(s, n) \in 0..Len(blocked[s])
    BY <2>1, SignalEffect
  <2> QED  BY <2>1, <2>2, ReleaseIsFifo DEF Signal
<1>4. CASE Stopped \/ UNCHANGED vars
  <2>1. UNCHANGED <<linkedList, blocked>>
    BY <1>4 DEF Stopped, vars
  <2> QED  BY <1>0, <2>1, ReadyStays, QueueStays DEF Fifo
<1> QED  BY <1>1, <1>2, <1>3, <1>4 DEF Next

(* No thread is overtaken in the ready list or in a semaphore's queue, by  *)
(* any handler and whatever else the handler moves in the same step.       *)
THEOREM FirstComeFirstServed == Spec => ListsAreFifo
<1>1. IInv /\ [Next]_vars
        => [ReadyStep /\ \A s \in Sem : QueueStep(blocked[s], blocked'[s])]_vars
  BY NextIsFifo DEF Fifo, QueueSteps
<1> QED  BY <1>1, InvariantHolds, PTL DEF Spec, ListsAreFifo

-----------------------------------------------------------------------------
(***************************************************************************)
(* The turn of a ready thread.                                             *)
(***************************************************************************)

(* One step of TurnComes.                                                  *)
TurnStep ==
  \A i \in DOMAIN linkedList :
    \/ runningThread' = linkedList[i]
    \/ \E j \in DOMAIN linkedList' :
         /\ linkedList'[j] = linkedList[i]
         /\ TicksToTurn(j)' <= TicksToTurn(i)
         /\ TimerInterrupt => TicksToTurn(j)' < TicksToTurn(i)

(* One place nearer to the front is one slice nearer to the processor.     *)
LEMMA OneSlice ==
  ASSUME NEW i \in Nat
  PROVE  /\ i * TimeSlice \in Int
         /\ (i - 1) * TimeSlice = i * TimeSlice - TimeSlice
BY KernelAssumption

LEMMA TimesTyped ==
  ASSUME IInv
  PROVE  /\ runningThread \in Proc /\ linkedList \in Seq(Thread)
         /\ timeRunning[runningThread] \in 0..TimeSlice
         /\ TimeSlice \in Nat \ {0}
BY KernelAssumption DEF IInv, TypeOK

(* The running thread goes on, and what is ready keeps its place.          *)
LEMMA StayTurns ==
  ASSUME IInv, NEW r \in Seq(Thread), linkedList' = linkedList \o r,
         UNCHANGED runningThread,
         LET ran == timeRunning[runningThread]
             now == timeRunning'[runningThread]
         IN  \/ now = ran /\ ~TimerInterrupt
             \/ now = ran + 1 /\ now < TimeSlice
  PROVE  TurnStep
<1> DEFINE ran == timeRunning[runningThread]
           now == timeRunning'[runningThread]
<1> SUFFICES ASSUME NEW i \in DOMAIN linkedList
             PROVE  \E j \in DOMAIN linkedList' :
                      /\ linkedList'[j] = linkedList[i]
                      /\ TicksToTurn(j)' <= TicksToTurn(i)
                      /\ TimerInterrupt => TicksToTurn(j)' < TicksToTurn(i)
  BY DEF TurnStep
<1>1. i \in Nat /\ i \in DOMAIN linkedList' /\ linkedList'[i] = linkedList[i]
  <2>1. /\ linkedList' \in Seq(Thread) /\ linkedList \in Seq(Thread)
        /\ Len(linkedList') = Len(linkedList) + Len(r)
        /\ \A k \in 1..(Len(linkedList) + Len(r)) :
             linkedList'[k] = IF k <= Len(linkedList) THEN linkedList[k]
                              ELSE r[k - Len(linkedList)]
    BY TimesTyped, ConcatProperties
  <2>2. /\ Len(linkedList) \in Nat /\ Len(r) \in Nat
        /\ DOMAIN linkedList = 1..Len(linkedList)
        /\ DOMAIN linkedList' = 1..Len(linkedList')
    BY <2>1, LenProperties
  <2>3. i \in 1..Len(linkedList) /\ i \in 1..(Len(linkedList) + Len(r))
    BY <2>2
  <2> QED  BY <2>1, <2>2, <2>3
<1>2. TicksToTurn(i) = i * TimeSlice - (IF ran < TimeSlice THEN ran ELSE TimeSlice - 1)
  BY DEF TicksToTurn
<1>3. TicksToTurn(i)' = i * TimeSlice - (IF now < TimeSlice THEN now ELSE TimeSlice - 1)
  BY DEF TicksToTurn
<1>4. ran \in 0..TimeSlice /\ TimeSlice \in Nat \ {0} /\ i * TimeSlice \in Int
  BY <1>1, TimesTyped, OneSlice
<1>5. (now = ran /\ ~TimerInterrupt) \/ (now = ran + 1 /\ now < TimeSlice)
  OBVIOUS
<1> HIDE DEF ran, now
<1>6. /\ TicksToTurn(i)' <= TicksToTurn(i)
      /\ now # ran => TicksToTurn(i)' < TicksToTurn(i)
  BY <1>2, <1>3, <1>4, <1>5
<1>7. TimerInterrupt => now # ran
  BY <1>4, <1>5
<1> QED  BY <1>1, <1>6, <1>7

(* The first of the ready list gets the processor, with a whole slice, and *)
(* the others move up one place.                                           *)
LEMMA SwitchTurns ==
  ASSUME IInv, NEW r \in Seq(Thread), NEW sl, NEW bl, NEW st,
         NEW tr \in [Proc -> 0..TimeSlice],
         SwitchFrom(linkedList \o r, sl, bl, st, tr)
  PROVE  TurnStep
<1> DEFINE q == linkedList \o r
           n == Len(linkedList)
<1> SUFFICES ASSUME NEW i \in DOMAIN linkedList, runningThread' # linkedList[i]
             PROVE  \E j \in DOMAIN linkedList' :
                      /\ linkedList'[j] = linkedList[i]
                      /\ TicksToTurn(j)' < TicksToTurn(i)
                      /\ TicksToTurn(j)' <= TicksToTurn(i)
  BY DEF TurnStep
<1>1. /\ q \in Seq(Thread) /\ Len(q) = n + Len(r)
      /\ n \in Nat /\ Len(r) \in Nat
      /\ i \in 1..n
      /\ \A k \in 1..(n + Len(r)) :
           q[k] = IF k <= n THEN linkedList[k] ELSE r[k - n]
  BY TimesTyped, ConcatProperties, LenProperties
<1>2. q # << >> /\ Len(q) \in Nat /\ Len(q) >= n /\ q[1] = linkedList[1] /\ q[i] = linkedList[i]
  <2> HIDE DEF q, n
  <2>1. 1 \in 1..(n + Len(r)) /\ i \in 1..(n + Len(r)) /\ 1 <= n /\ i <= n
    BY <1>1
  <2>2. Len(q) # 0
    BY <1>1, <2>1
  <2> QED  BY <1>1, <2>1, <2>2, EmptySeq
<1>3. /\ runningThread' = Head(q) /\ linkedList' = Tail(q)
      /\ timeRunning' = [tr EXCEPT ![Head(q)] = 0]
  BY <1>2 DEF SwitchFrom, ModeAfterGet, NextThread, ResetTime
<1>4. /\ Tail(q) \in Seq(Thread) /\ Len(Tail(q)) = Len(q) - 1
      /\ \A k \in 1..Len(Tail(q)) : Tail(q)[k] = q[k + 1]
  BY <1>1, <1>2, HeadTailProperties
<1>5. Head(q) = q[1] /\ q[1] \in Thread /\ Head(q) \in Proc
  <2>1. 1 \in 1..Len(q)
    <3> HIDE DEF q, n
    <3> QED  BY <1>1, <1>2
  <2>2. q[1] \in Thread
    BY <1>1, <2>1, ElementOfSeq
  <2>3. Head(q) = q[1]
    BY <1>1, <1>2
  <2> QED  BY <2>2, <2>3 DEF Proc
<1>6. timeRunning'[runningThread'] = 0
  BY <1>3, <1>5
<1> HIDE DEF q, n
<1> DEFINE j == i - 1
           ran == timeRunning[runningThread]
<1>7. i # 1
  BY <1>2, <1>3, <1>5
<1>8. /\ j \in 1..Len(Tail(q)) /\ j + 1 = i /\ i \in Nat
      /\ DOMAIN Tail(q) = 1..Len(Tail(q))
  BY <1>1, <1>2, <1>4, <1>7, LenProperties
<1>9. j \in DOMAIN linkedList' /\ linkedList'[j] = linkedList[i]
  BY <1>2, <1>3, <1>4, <1>8
<1>10. TicksToTurn(i) = i * TimeSlice - (IF ran < TimeSlice THEN ran ELSE TimeSlice - 1)
  BY DEF TicksToTurn
<1>11. TicksToTurn(j)' = j * TimeSlice - 0
  <2>1. 0 < TimeSlice
    BY TimesTyped
  <2> QED  BY <1>6, <2>1 DEF TicksToTurn
<1>12. /\ ran \in 0..TimeSlice /\ TimeSlice \in Nat \ {0}
       /\ i * TimeSlice \in Int /\ j * TimeSlice = i * TimeSlice - TimeSlice
  BY <1>8, TimesTyped, OneSlice
<1> HIDE DEF j, ran
<1>13. TicksToTurn(j)' < TicksToTurn(i) /\ TicksToTurn(j)' <= TicksToTurn(i)
  BY <1>10, <1>11, <1>12
<1> QED  BY <1>9, <1>13

(* A dispatch adds the running thread behind those that were woken.        *)
LEMMA DispatchTurns ==
  ASSUME IInv, NEW r \in Seq(Thread), NEW sl, NEW st,
         NEW tr \in [Proc -> 0..TimeSlice], Dispatch(linkedList \o r, sl, st, tr)
  PROVE  TurnStep
<1> DEFINE q == PutThread(linkedList \o r, runningThread)
           begun == IF isBeginning[NextThread(q)] = 1
                      THEN [tr EXCEPT ![NextThread(q)] = 0] ELSE tr
<1>1. /\ linkedList \in Seq(Thread) /\ runningThread \in Proc
      /\ begun \in [Proc -> 0..TimeSlice]
  <2>1. 0 \in 0..TimeSlice
    BY TimesTyped
  <2> QED  BY <2>1, TimesTyped
<1>2. \E st1 : SwitchFrom(q, sl, blocked, st1, begun)
  BY DEF Dispatch
<1> HIDE DEF begun
<1>3. \E z \in Seq(Thread) : q = linkedList \o z
  BY <1>1, AddedBehind
<1> HIDE DEF q
<1> QED  BY <1>1, <1>2, <1>3, SwitchTurns

LEMMA AloneTurns ==
  ASSUME IInv, NEW sl, NEW bl, NEW st, SwitchFrom(linkedList, sl, bl, st, timeRunning)
  PROVE  TurnStep
<1>1. /\ linkedList = linkedList \o << >> /\ << >> \in Seq(Thread)
      /\ timeRunning \in [Proc -> 0..TimeSlice]
  BY TimesTyped, ConcatEmptySeq DEF IInv, TypeOK
<1> QED  BY <1>1, SwitchTurns

(* A call that adds threads to the ready list and changes nothing else.    *)
LEMMA CallTurns ==
  ASSUME IInv, ~TimerInterrupt, NEW r \in Seq(Thread), linkedList' = linkedList \o r,
         UNCHANGED <<runningThread, timeRunning>>
  PROVE  TurnStep
BY StayTurns

LEMMA IdleTurns ==
  ASSUME IInv, ~TimerInterrupt, UNCHANGED <<runningThread, timeRunning, linkedList>>
  PROVE  TurnStep
<1>1. linkedList = linkedList \o << >> /\ << >> \in Seq(Thread)
  BY TimesTyped, ConcatEmptySeq
<1> QED  BY <1>1, CallTurns

(* A call that frees waiters.                                              *)
LEMMA ReleaseTurns ==
  ASSUME IInv, ~TimerInterrupt, NEW s \in Sem, NEW k \in 0..Len(blocked[s]),
         linkedList' = linkedList \o SubSeq(blocked[s], 1, k),
         UNCHANGED <<runningThread, timeRunning>>
  PROVE  TurnStep
<1>1. blocked[s] \in Seq(Thread) /\ Len(blocked[s]) \in Nat
  BY ListsTyped, LenProperties
<1>2. 1 \in 1..(Len(blocked[s]) + 1)
  BY <1>1
<1>3. SubSeq(blocked[s], 1, k) \in Seq(Thread)
  BY <1>1, <1>2, PartOfSeq
<1> QED  BY <1>3, CallTurns

LEMMA TimerTurns ==
  ASSUME IInv, TimerInterrupt
  PROVE  TurnStep
<1> DEFINE t == runningThread
           ran == timeRunning[t]
           tr == [timeRunning EXCEPT ![t] = IF ran < TimeSlice THEN ran + 1 ELSE ran]
<1>1. /\ Awakened \in Seq(Thread) /\ t \in Proc /\ ran \in 0..TimeSlice
      /\ TimeSlice \in Nat \ {0} /\ timeRunning \in [Proc -> 0..TimeSlice]
  BY SleepersTyped, TimesTyped DEF IInv, TypeOK
<1>2. tr \in [Proc -> 0..TimeSlice]
  <2>1. (IF ran < TimeSlice THEN ran + 1 ELSE ran) \in 0..TimeSlice
    BY <1>1
  <2> HIDE DEF ran
  <2> QED  BY <1>1, <2>1
<1>3. CASE tr[t] >= TimeSlice
  <2>1. \E st : Dispatch(linkedList \o Awakened, asleep', st, tr)
    BY <1>3 DEF TimerInterrupt
  <2> HIDE DEF tr
  <2> QED  BY <1>1, <1>2, <2>1, DispatchTurns
<1>4. CASE ~(tr[t] >= TimeSlice)
  <2>1. /\ linkedList' = linkedList \o Awakened /\ timeRunning' = tr
        /\ UNCHANGED runningThread
    BY <1>4 DEF TimerInterrupt
  <2>2. tr[t] = IF ran < TimeSlice THEN ran + 1 ELSE ran
    BY <1>1
  <2>3. timeRunning'[t] = ran + 1 /\ timeRunning'[t] < TimeSlice
    <3> HIDE DEF ran, tr
    <3> QED  BY <1>1, <1>4, <2>1, <2>2
  <2> QED  BY <1>1, <2>1, <2>3, StayTurns
<1> QED  BY <1>3, <1>4

LEMMA NextTurns == IInv /\ [Next]_vars => TurnStep
<1> SUFFICES ASSUME IInv, [Next]_vars, ~TimerInterrupt PROVE TurnStep
  BY TimerTurns
<1>0. /\ linkedList \in Seq(Thread) /\ runningThread \in Proc
      /\ timeRunning \in [Proc -> 0..TimeSlice]
  BY ListsTyped DEF IInv, TypeOK
<1>1. ASSUME NEW t \in Thread, ThreadCreate(t) PROVE TurnStep
  <2> DEFINE one == <<t>>
  <2>1. linkedList' = Append(linkedList, t) /\ UNCHANGED <<runningThread, timeRunning>>
    BY <1>1, KernelAssumption DEF ThreadCreate, PutThread
  <2>2. linkedList' = linkedList \o one
    BY <1>0, <2>1, AppendIsConcat
  <2>3. one \in Seq(Thread)
    OBVIOUS
  <2> HIDE DEF one
  <2> QED  BY <2>1, <2>2, <2>3, CallTurns
<1>2. CASE ThreadExit
  <2>1. /\ UserTraps
        /\ \E st : SwitchFrom(linkedList \o semToSignal[runningThread], asleep, blocked,
                              st, timeRunning)
    BY <1>2 DEF ThreadExit
  <2>2. semToSignal[runningThread] \in Seq(Thread)
    BY <2>1, ListsTyped DEF UserTraps
  <2> QED  BY <1>0, <2>1, <2>2, SwitchTurns
<1>3. CASE ThreadDispatch
  <2>1. Dispatch(linkedList, asleep, status, timeRunning)
    BY <1>3 DEF ThreadDispatch
  <2>2. linkedList = linkedList \o << >> /\ << >> \in Seq(Thread)
    BY <1>0, ConcatEmptySeq
  <2>3. Dispatch(linkedList \o << >>, asleep, status, timeRunning)
    BY <2>1, <2>2
  <2> QED  BY <1>0, <2>2, <2>3, DispatchTurns
<1>4. ASSUME NEW s \in Sem, SemWait(s) PROVE TurnStep
  <2>1. \/ UNCHANGED <<runningThread, timeRunning, linkedList>>
        \/ \E st : SwitchFrom(linkedList, asleep, blocked', st, timeRunning)
    BY <1>4 DEF SemWait, runVars
  <2> QED  BY <2>1, IdleTurns, AloneTurns
<1>5. ASSUME NEW t \in SleepTime, TimeSleep(t) PROVE TurnStep
  <2>1. \/ UNCHANGED <<runningThread, timeRunning, linkedList>>
        \/ \E st : SwitchFrom(linkedList, asleep', blocked, st, timeRunning)
    BY <1>5 DEF TimeSleep, runVars
  <2> QED  BY <2>1, IdleTurns, AloneTurns
<1>6. ASSUME NEW u \in Thread, ThreadJoin(u) PROVE TurnStep
  <2>1. \E st : SwitchFrom(linkedList, asleep, blocked, st, timeRunning)
    BY <1>6 DEF ThreadJoin
  <2> QED  BY <2>1, AloneTurns
<1>7. ASSUME NEW s \in UserSem, SemClose(s) PROVE TurnStep
  <2>1. /\ s \in Sem /\ blocked[s] \in Seq(Thread)
        /\ linkedList' = linkedList \o blocked[s]
        /\ UNCHANGED <<runningThread, timeRunning>>
    BY <1>7, ListsTyped DEF SemClose, Sem
  <2> QED  BY <2>1, CallTurns
<1>8. ASSUME NEW s \in Sem, NEW n \in Nat, s \in open', open \subseteq open', Signal(s, n),
             UNCHANGED <<runningThread, timeRunning>>
      PROVE  TurnStep
  <2>1. Releases(s, n) \in 0..Len(blocked[s])
    BY <1>8, SignalEffect
  <2> QED  BY <1>8, <2>1, ReleaseTurns DEF Signal
<1>9. ASSUME NEW s \in UserSem, SemSignal(s) PROVE TurnStep
  <2>1. /\ s \in Sem /\ Signal(s, 1) /\ s \in open' /\ open \subseteq open' /\ 1 \in Nat
        /\ UNCHANGED <<runningThread, timeRunning>>
    BY <1>9 DEF SemSignal, Sem
  <2> QED  BY <1>8, <2>1
<1>10. ASSUME NEW n \in 0..MaxBurst, ConsoleInterrupt(n) PROVE TurnStep
  <2>1. /\ n \in Nat /\ ConsoleSem \in Sem /\ ConsoleSem \in open' /\ open \subseteq open'
        /\ Signal(ConsoleSem, n) /\ UNCHANGED <<runningThread, timeRunning>>
    BY <1>10, KernelAssumption DEF ConsoleInterrupt, Sem
  <2> QED  BY <1>8, <2>1
<1>11. ASSUME \/ \E s \in UserSem, init \in InitVal : SemOpen(s, init)
              \/ \E code \in Operation :
                   RejectedCall(code) \/ MemoryCall(code) \/ ConsoleCall(code)
              \/ Stopped \/ UNCHANGED vars
       PROVE  TurnStep
  <2>1. UNCHANGED <<runningThread, timeRunning, linkedList>>
    BY <1>11
    DEF SemOpen, RejectedCall, MemoryCall, ConsoleCall, semVars, runVars, Stopped, vars
  <2> QED  BY <2>1, IdleTurns
<1>12. CASE SystemCall
  BY <1>1, <1>2, <1>3, <1>4, <1>5, <1>6, <1>7, <1>9, <1>11, <1>12 DEF SystemCall, Operation
<1> QED  BY <1>10, <1>11, <1>12 DEF Next

(* No ready thread is held up: it has the processor after at most as many  *)
(* slices as its place in the list, whoever blocks, sleeps, yields, ends   *)
(* or is woken meanwhile.  What is left of ReadyThreadRuns is that the     *)
(* timer goes on ticking.                                                  *)
THEOREM TurnsCome == Spec => TurnComes
<1>1. IInv /\ [Next]_vars
        => [\A i \in DOMAIN linkedList :
              \/ runningThread' = linkedList[i]
              \/ \E j \in DOMAIN linkedList' :
                   /\ linkedList'[j] = linkedList[i]
                   /\ TicksToTurn(j)' <= TicksToTurn(i)
                   /\ TimerInterrupt => TicksToTurn(j)' < TicksToTurn(i)]_vars
  BY NextTurns DEF TurnStep
<1> QED  BY <1>1, InvariantHolds, PTL DEF Spec, TurnComes

(* What TurnComes counts down from: with n threads nobody who is ready has *)
(* more than n slices of ticks to wait, and whoever waits has at least one *)
(* tick to go.  With TurnComes this bounds the wait of every ready thread. *)
WaitBounded ==
  \A i \in DOMAIN linkedList :
    TicksToTurn(i) \in 1..(Cardinality(Thread) * TimeSlice)

(* A list without repetition is not longer than there are threads.         *)
LEMMA ReadyListIsShort ==
  ASSUME IInv, PlaceInv, IsFiniteSet(Thread)
  PROVE  Len(linkedList) <= Cardinality(Thread)
<1> DEFINE n == Len(linkedList)
           c == Cardinality(Thread)
<1>1. /\ linkedList \in Seq(Thread) /\ Distinct(linkedList)
  BY ListsTyped, Names DEF PlaceInv, Holds
<1>2. n \in Nat /\ linkedList \in [1..n -> Thread] /\ DOMAIN linkedList = 1..n
  BY <1>1, LenProperties
<1>3. IsFiniteSet(1..n) /\ Cardinality(1..n) = n
  <2>1. /\ IsFiniteSet(1..n)
        /\ Cardinality(1..n) = IF 1 > n THEN 0 ELSE n - 1 + 1
    BY <1>2, FS_Interval
  <2> QED  BY <1>2, <2>1
<1>4. c \in Nat
  BY FS_CardinalityType
<1>5. ~(c < n)
  <2> SUFFICES ASSUME c < n PROVE FALSE
    OBVIOUS
  <2> HIDE DEF n
  <2>1. \E x, y \in 1..n : x # y /\ linkedList[x] = linkedList[y]
    BY <1>2, <1>3, FS_PigeonHole
  <2> QED  BY <1>1, <1>2, <2>1 DEF Distinct
<1> QED  BY <1>2, <1>4, <1>5

LEMMA ShortWait ==
  ASSUME IInv, PlaceInv, IsFiniteSet(Thread)
  PROVE  WaitBounded
<1> DEFINE c == Cardinality(Thread)
<1> SUFFICES ASSUME NEW i \in DOMAIN linkedList
             PROVE  TicksToTurn(i) \in 1..(c * TimeSlice)
  BY DEF WaitBounded
<1>1. c \in Nat
  BY FS_CardinalityType
<1>2. i \in Nat /\ 1 <= i /\ i <= c
  BY <1>1, ReadyListIsShort, TimesTyped, LenProperties
<1>3. TimeSlice <= i * TimeSlice /\ i * TimeSlice <= c * TimeSlice
  <2> HIDE DEF c
  <2>1. \A m, n, k \in Nat : m <= n => m * k <= n * k
    BY SMT
  <2>2. TimeSlice \in Nat /\ 1 * TimeSlice = TimeSlice
    BY TimesTyped
  <2> QED  BY <1>1, <1>2, <2>1, <2>2
<1>4. i * TimeSlice \in Nat /\ c * TimeSlice \in Nat
  BY <1>1, <1>2, TimesTyped
<1> DEFINE slices == i * TimeSlice
           all == c * TimeSlice
<1>5. TicksToTurn(i) = slices - (IF timeRunning[runningThread] < TimeSlice
                                   THEN timeRunning[runningThread] ELSE TimeSlice - 1)
  BY DEF TicksToTurn
<1> HIDE DEF slices, all
<1>6. slices \in Nat /\ all \in Nat /\ TimeSlice <= slices /\ slices <= all
  BY <1>3, <1>4 DEF slices, all
<1>7. TicksToTurn(i) \in 1..all
  BY <1>5, <1>6, TimesTyped
<1> QED  BY <1>7 DEF all

(* However many threads there are, whoever is ready has the processor      *)
(* within as many time slices as there are threads, if the timer ticks.    *)
THEOREM WaitIsBounded == IsFiniteSet(Thread) => (Spec => []WaitBounded)
<1> SUFFICES ASSUME IsFiniteSet(Thread) PROVE Spec => []WaitBounded
  OBVIOUS
<1>1. IInv /\ PlaceInv => WaitBounded
  BY ShortWait
<1> QED  BY <1>1, InvariantHolds, PlacementHolds, PTL

-----------------------------------------------------------------------------
(***************************************************************************)
(* The sleepers.                                                           *)
(***************************************************************************)

(* A thread has ticks left exactly while it is in the list, and the list   *)
(* is in the order in which the threads will wake.                         *)
SleepInv ==
  /\ \A t \in Thread : left[t] > 0 <=> t \in Members(asleep)
  /\ \A i, j \in DOMAIN asleep : i <= j => left[asleep[i]] <= left[asleep[j]]

(* Places without a gap below them are the first places.                   *)
LEMMA FirstPlaces ==
  ASSUME NEW n \in Nat, NEW C \in SUBSET (1..n), \A i \in C : 1..i \subseteq C
  PROVE  Cardinality(C) \in 0..n /\ C = 1..Cardinality(C)
<1> DEFINE c == Cardinality(C)
<1>1. \A k \in Nat : IsFiniteSet(1..k) /\ Cardinality(1..k) = k
  <2> TAKE k \in Nat
  <2>1. /\ IsFiniteSet(1..k)
        /\ Cardinality(1..k) = IF 1 > k THEN 0 ELSE k - 1 + 1
    BY FS_Interval
  <2> QED  BY <2>1
<1>2. IsFiniteSet(C) /\ c \in Nat /\ c <= n
  <2>1. IsFiniteSet(1..n) /\ Cardinality(1..n) = n
    BY <1>1
  <2>2. IsFiniteSet(C) /\ Cardinality(C) <= n
    BY <2>1, FS_Subset
  <2> QED  BY <2>2, FS_CardinalityType
<1> HIDE DEF c
<1>3. ASSUME NEW i \in C PROVE i \in 1..c
  <2>1. i \in Nat /\ i >= 1 /\ 1..i \subseteq C
    OBVIOUS
  <2>2. i <= c
    BY <1>1, <1>2, <2>1, FS_Subset DEF c
  <2> QED  BY <1>2, <2>1, <2>2
<1>4. C \subseteq 1..c
  BY <1>3
<1>5. C = 1..c
  <2>1. IsFiniteSet(1..c) /\ Cardinality(1..c) = c /\ C \in SUBSET (1..c)
    BY <1>1, <1>2, <1>4
  <2> QED  BY <2>1, FS_Subset DEF c
<1> QED  BY <1>2, <1>5 DEF c

(* The sleepers that have less than a given time left are the first.       *)
LEMMA EarlierFirst ==
  ASSUME IInv, SleepInv, NEW time \in Nat
  PROVE  LET C == {i \in DOMAIN asleep : left[asleep[i]] < time}
         IN  Cardinality(C) \in 0..Len(asleep) /\ C = 1..Cardinality(C)
<1> DEFINE n == Len(asleep)
           C == {i \in DOMAIN asleep : left[asleep[i]] < time}
<1>1. n \in Nat /\ DOMAIN asleep = 1..n /\ \A i \in 1..n : left[asleep[i]] \in Nat
  <2>1. asleep \in Seq(Thread) /\ left \in [Thread -> Nat]
    BY DEF IInv, TypeOK
  <2> QED  BY <2>1, LenProperties, ElementOfSeq
<1> HIDE DEF n
<1>2. C \in SUBSET (1..n)
  BY <1>1
<1>3. ASSUME NEW i \in C, NEW j \in 1..i PROVE j \in C
  <2>1. i \in 1..n /\ j \in 1..n /\ j <= i
    BY <1>1
  <2>2. left[asleep[j]] <= left[asleep[i]] /\ left[asleep[i]] < time
    BY <1>1, <2>1 DEF SleepInv
  <2> QED  BY <1>1, <2>1, <2>2
<1> HIDE DEF C
<1> QED  BY <1>1, <1>2, <1>3, FirstPlaces DEF C, n

LEMMA PutInOrder ==
  ASSUME IInv, SleepInv, NEW t \in Thread, t \notin Members(asleep),
         NEW time \in Nat \ {0}, PutToSleep(t, time)
  PROVE  SleepInv'
<1> DEFINE n == Len(asleep)
           p == Position(time)
           front == SubSeq(asleep, 1, p - 1)
           one == <<t>>
           back == SubSeq(asleep, p, n)
           most == front \o one
           r == most \o back
<1>1. /\ asleep \in Seq(Thread) /\ n \in Nat /\ DOMAIN asleep = 1..n
      /\ left \in [Thread -> Nat] /\ \A k \in 1..n : asleep[k] \in Thread
      /\ \A k \in 1..n : asleep[k] # t
  <2>1. asleep \in Seq(Thread) /\ left \in [Thread -> Nat]
    BY DEF IInv, TypeOK
  <2> QED  BY <2>1, LenProperties, ElementOfSeq DEF Members
<1>2. /\ p \in 1..(n + 1)
      /\ \A k \in 1..n : left[asleep[k]] < time <=> k < p
  <2> DEFINE C == {i \in DOMAIN asleep : left[asleep[i]] < time}
  <2>1. Cardinality(C) \in 0..n /\ C = 1..Cardinality(C) /\ p = 1 + Cardinality(C)
    BY EarlierFirst DEF Position
  <2>2. \A k \in 1..n : k \in C <=> left[asleep[k]] < time
    BY <1>1
  <2> HIDE DEF C, n, p
  <2> QED  BY <1>1, <2>1, <2>2
<1>3. asleep' = r /\ left' = [left EXCEPT ![t] = time]
  BY DEF PutToSleep
<1> HIDE DEF p
<1>4. /\ front \in Seq(Thread) /\ back \in Seq(Thread)
      /\ Len(front) = p - 1 /\ Len(back) = n - p + 1
      /\ \A k \in 1..(p - 1) : front[k] = asleep[k]
      /\ \A k \in 1..(n - p + 1) : back[k] = asleep[p + k - 1]
  <2>1. p - 1 \in 0..n /\ 1 \in 1..(n + 1) /\ n \in 0..n /\ p \in 1..(n + 1)
    BY <1>1, <1>2
  <2>2. /\ front \in Seq(Thread)
        /\ Len(front) = IF 1 <= p - 1 THEN (p - 1) - 1 + 1 ELSE 0
        /\ \A k \in 1..((p - 1) - 1 + 1) : front[k] = asleep[1 + k - 1]
    BY <1>1, <2>1, PartOfSeq
  <2>3. /\ back \in Seq(Thread)
        /\ Len(back) = IF p <= n THEN n - p + 1 ELSE 0
        /\ \A k \in 1..(n - p + 1) : back[k] = asleep[p + k - 1]
    BY <1>1, <2>1, PartOfSeq
  <2> HIDE DEF front, back, n
  <2> QED  BY <1>1, <2>1, <2>2, <2>3
<1>5. one \in Seq(Thread) /\ Len(one) = 1 /\ one[1] = t
  OBVIOUS
<1> HIDE DEF front, one, back
<1>6. /\ most \in Seq(Thread) /\ Len(most) = Len(front) + Len(one)
      /\ \A k \in 1..(Len(front) + Len(one)) :
           most[k] = IF k <= Len(front) THEN front[k] ELSE one[k - Len(front)]
  BY <1>4, <1>5, ConcatProperties
<1> HIDE DEF most
<1>7. /\ r \in Seq(Thread) /\ Len(r) = Len(most) + Len(back)
      /\ \A k \in 1..(Len(most) + Len(back)) :
           r[k] = IF k <= Len(most) THEN most[k] ELSE back[k - Len(most)]
  BY <1>4, <1>6, ConcatProperties
<1> HIDE DEF r, n
<1>8. /\ DOMAIN r = 1..(n + 1)
      /\ \A k \in 1..p : most[k] = IF k <= p - 1 THEN front[k] ELSE one[k - (p - 1)]
      /\ \A k \in 1..(n + 1) : r[k] = IF k <= p THEN most[k] ELSE back[k - p]
  <2>1. /\ Len(front) + Len(one) = p /\ Len(most) = p /\ Len(most) + Len(back) = n + 1
        /\ Len(front) = p - 1
    BY <1>1, <1>2, <1>4, <1>5, <1>6
  <2>2. DOMAIN r = 1..Len(r)
    BY <1>7, LenProperties
  <2> QED  BY <1>6, <1>7, <2>1, <2>2
<1>9. /\ \A k \in 1..(n + 1) : k < p => k \in 1..n /\ r[k] = asleep[k]
      /\ r[p] = t
      /\ \A k \in 1..(n + 1) : k > p => k - 1 \in 1..n /\ r[k] = asleep[k - 1]
  <2>1. ASSUME NEW k \in 1..(n + 1), k < p PROVE k \in 1..n /\ r[k] = asleep[k]
    <3>1. k \in 1..(p - 1) /\ k <= p /\ k <= p - 1 /\ k \in 1..p /\ k \in 1..n
      BY <1>1, <1>2, <2>1
    <3> QED  BY <1>4, <1>8, <3>1
  <2>2. r[p] = t
    <3>1. p <= p /\ p \in 1..(n + 1) /\ ~(p <= p - 1) /\ p \in 1..p /\ p - (p - 1) = 1
      BY <1>1, <1>2
    <3> QED  BY <1>5, <1>8, <3>1
  <2>3. ASSUME NEW k \in 1..(n + 1), k > p PROVE k - 1 \in 1..n /\ r[k] = asleep[k - 1]
    <3>1. /\ ~(k <= p) /\ k - p \in 1..(n - p + 1)
          /\ p + (k - p) - 1 = k - 1 /\ k - 1 \in 1..n
      BY <1>1, <1>2, <2>3
    <3> QED  BY <1>4, <1>8, <3>1
  <2> QED  BY <2>1, <2>2, <2>3
<1>10. /\ left'[t] = time /\ \A u \in Thread : u # t => left'[u] = left[u]
       /\ \A k \in 1..n : left'[asleep[k]] = left[asleep[k]] /\ left[asleep[k]] \in Nat
  BY <1>1, <1>3
<1>11. ASSUME NEW i \in 1..(n + 1), NEW j \in 1..(n + 1), i <= j
       PROVE  left'[r[i]] <= left'[r[j]]
  <2>1. \A k, l \in 1..n : k <= l => left[asleep[k]] <= left[asleep[l]]
    BY <1>1 DEF SleepInv
  <2>2. CASE j < p
    BY <1>2, <1>9, <1>10, <1>11, <2>1, <2>2
  <2>3. CASE i < p /\ j = p
    BY <1>2, <1>9, <1>10, <2>3
  <2>4. CASE i < p /\ j > p
    <3>1. i \in 1..n /\ j - 1 \in 1..n /\ i <= j - 1 /\ r[i] = asleep[i] /\ r[j] = asleep[j - 1]
      BY <1>1, <1>2, <1>9, <2>4
    <3> QED  BY <1>10, <2>1, <3>1
  <2>5. CASE i = p /\ j = p
    BY <1>9, <1>10, <2>5
  <2>6. CASE i = p /\ j > p
    <3>1. j - 1 \in 1..n /\ ~(j - 1 < p) /\ r[j] = asleep[j - 1]
      BY <1>1, <1>2, <1>9, <2>6
    <3>2. ~(left[asleep[j - 1]] < time) /\ left[asleep[j - 1]] \in Nat
      BY <1>2, <1>10, <3>1
    <3> QED  BY <1>9, <1>10, <2>6, <3>1, <3>2
  <2>7. CASE i > p
    <3>1. /\ i - 1 \in 1..n /\ j - 1 \in 1..n /\ i - 1 <= j - 1
          /\ r[i] = asleep[i - 1] /\ r[j] = asleep[j - 1]
      BY <1>1, <1>2, <1>9, <1>11, <2>7
    <3> QED  BY <1>10, <2>1, <3>1
  <2> QED  BY <1>1, <1>2, <1>11, <2>2, <2>3, <2>4, <2>5, <2>6, <2>7
<1>12. Members(r) = Members(asleep) \cup {t}
  <2>1. ASSUME NEW k \in 1..(n + 1) PROVE r[k] \in Members(asleep) \cup {t}
    <3>1. r[k] = t \/ \E l \in 1..n : r[k] = asleep[l]
      BY <1>2, <1>9
    <3> QED  BY <1>1, <3>1 DEF Members
  <2>2. ASSUME NEW k \in 1..n PROVE asleep[k] \in Members(r)
    <3>1. CASE k < p
      BY <1>1, <1>8, <1>9, <3>1 DEF Members
    <3>2. CASE ~(k < p)
      <4>1. k + 1 \in 1..(n + 1) /\ k + 1 > p /\ (k + 1) - 1 = k
        BY <1>1, <1>2, <3>2
      <4> QED  BY <1>8, <1>9, <4>1 DEF Members
    <3> QED  BY <3>1, <3>2
  <2>3. t \in Members(r)
    BY <1>2, <1>8, <1>9 DEF Members
  <2>4. \A e \in Members(r) : e \in Members(asleep) \cup {t}
    BY <1>8, <2>1 DEF Members
  <2>5. \A e \in Members(asleep) : e \in Members(r)
    BY <1>1, <2>2 DEF Members
  <2> QED  BY <2>3, <2>4, <2>5
<1>13. \A u \in Thread : left'[u] > 0 <=> u \in Members(r)
  BY <1>10, <1>12 DEF SleepInv
<1>14. \A i, j \in DOMAIN r : i <= j => left'[r[i]] <= left'[r[j]]
  BY <1>8, <1>11
<1>15. /\ \A u \in Thread : left'[u] > 0 <=> u \in Members(asleep')
       /\ \A i, j \in DOMAIN asleep' : i <= j => left'[asleep'[i]] <= left'[asleep'[j]]
  BY <1>3, <1>13, <1>14
<1> QED  BY <1>15 DEF SleepInv, Members

LEMMA TickInOrder ==
  ASSUME IInv, SleepInv, UpdateTime
  PROVE  SleepInv'
<1> DEFINE n == Len(asleep)
           d == Due
           r == SubSeq(asleep, d + 1, n)
<1>1. /\ asleep \in Seq(Thread) /\ n \in Nat /\ DOMAIN asleep = 1..n
      /\ left \in [Thread -> Nat] /\ \A k \in 1..n : asleep[k] \in Thread
  <2>1. asleep \in Seq(Thread) /\ left \in [Thread -> Nat]
    BY DEF IInv, TypeOK
  <2> QED  BY <2>1, LenProperties, ElementOfSeq
<1>2. \A k \in 1..n : left[asleep[k]] \in Nat /\ left[asleep[k]] >= 1
  <2> SUFFICES ASSUME NEW k \in 1..n PROVE left[asleep[k]] \in Nat /\ left[asleep[k]] >= 1
    OBVIOUS
  <2>1. asleep[k] \in Members(asleep) /\ asleep[k] \in Thread
    BY <1>1 DEF Members
  <2> QED  BY <1>1, <2>1 DEF SleepInv
<1>3. d \in 0..n /\ \A k \in 1..n : k <= d <=> left[asleep[k]] = 1
  <2> DEFINE C == {i \in DOMAIN asleep : left[asleep[i]] < 2}
  <2>1. C = {i \in DOMAIN asleep : left[asleep[i]] = 1}
    BY <1>1, <1>2
  <2>2. Cardinality(C) \in 0..n /\ C = 1..Cardinality(C)
    BY EarlierFirst
  <2>3. d = Cardinality(C)
    BY <2>1 DEF Due
  <2>4. \A k \in 1..n : k \in C <=> left[asleep[k]] = 1
    BY <1>1, <2>1
  <2> HIDE DEF C, n, d
  <2> QED  BY <1>1, <2>2, <2>3, <2>4
<1>4. /\ asleep' = r
      /\ \A t \in Thread : left'[t] = IF left[t] > 0 THEN left[t] - 1 ELSE 0
  BY DEF UpdateTime
<1> HIDE DEF d
<1>5. /\ r \in Seq(Thread) /\ DOMAIN r = 1..(n - d)
      /\ \A k \in 1..(n - d) : r[k] = asleep[d + k]
  <2>1. d + 1 \in 1..(n + 1) /\ n \in 0..n
    BY <1>1, <1>3
  <2>2. /\ r \in Seq(Thread)
        /\ Len(r) = IF d + 1 <= n THEN n - (d + 1) + 1 ELSE 0
        /\ \A k \in 1..(n - (d + 1) + 1) : r[k] = asleep[(d + 1) + k - 1]
    BY <1>1, <2>1, PartOfSeq
  <2>3. DOMAIN r = 1..Len(r)
    BY <2>2, LenProperties
  <2>4. n - (d + 1) + 1 = n - d /\ \A k \in Nat : (d + 1) + k - 1 = d + k
    BY <1>1, <1>3
  <2> HIDE DEF r, n
  <2>5. Len(r) = n - d
    BY <1>1, <1>3, <2>2
  <2> QED  BY <2>2, <2>3, <2>4, <2>5
<1> HIDE DEF r, n
<1>6. ASSUME NEW k \in 1..(n - d)
      PROVE  /\ d + k \in 1..n /\ left[asleep[d + k]] >= 2 /\ left[asleep[d + k]] \in Nat
             /\ r[k] \in Thread /\ left'[r[k]] = left[asleep[d + k]] - 1
  <2>1. d + k \in 1..n /\ ~(d + k <= d)
    BY <1>1, <1>3
  <2>2. left[asleep[d + k]] # 1 /\ left[asleep[d + k]] \in Nat /\ left[asleep[d + k]] >= 1
    BY <1>2, <1>3, <2>1
  <2>3. r[k] = asleep[d + k] /\ asleep[d + k] \in Thread
    BY <1>1, <1>5, <2>1
  <2> QED  BY <1>4, <2>1, <2>2, <2>3
<1>7. ASSUME NEW t \in Thread PROVE left'[t] > 0 <=> t \in Members(r)
  <2>1. ASSUME left'[t] > 0 PROVE t \in Members(r)
    <3>1. left[t] \in Nat /\ left[t] >= 2
      BY <1>1, <1>4, <2>1
    <3>2. PICK k \in 1..n : asleep[k] = t
      BY <1>1, <3>1 DEF SleepInv, Members
    <3>3. k - d \in 1..(n - d) /\ d + (k - d) = k
      BY <1>1, <1>3, <3>1, <3>2
    <3> QED  BY <1>5, <3>2, <3>3 DEF Members
  <2>2. ASSUME t \in Members(r) PROVE left'[t] > 0
    <3>1. PICK k \in 1..(n - d) : r[k] = t
      BY <1>5, <2>2 DEF Members
    <3> QED  BY <1>6, <3>1
  <2> QED  BY <2>1, <2>2
<1>8. ASSUME NEW i \in 1..(n - d), NEW j \in 1..(n - d), i <= j
      PROVE  left'[r[i]] <= left'[r[j]]
  <2>1. d + i \in 1..n /\ d + j \in 1..n /\ d + i <= d + j
    BY <1>1, <1>3, <1>8
  <2>2. left[asleep[d + i]] <= left[asleep[d + j]]
    BY <1>1, <2>1 DEF SleepInv
  <2> QED  BY <1>6, <2>2
<1>9. /\ \A t \in Thread : left'[t] > 0 <=> t \in Members(asleep')
      /\ \A i, j \in DOMAIN asleep' : i <= j => left'[asleep'[i]] <= left'[asleep'[j]]
  BY <1>4, <1>5, <1>7, <1>8
<1> QED  BY <1>9 DEF SleepInv, Members

LEMMA SameCount == \A S : Sleeping!Cardinality(S) = Cardinality(S)
BY DEF Sleeping!Cardinality, Cardinality

(* Who calls time_sleep is the running thread, which no list holds, and a  *)
(* time that is 0 after it was cut leads to no sleep.                      *)
LEMMA SleepCall ==
  ASSUME IInv, PlaceInv, SleepInv, NEW ticks \in SleepTime, TimeSleep(ticks)
  PROVE  SleepInv' /\ (Sleeping!SleepersNext \/ UNCHANGED <<asleep, left>>)
<1> DEFINE time == ticks % UIntLimit
           t == runningThread
<1>1. CASE time # 0
  <2>1. t \in Thread /\ UserTraps /\ PutToSleep(t, time)
    BY <1>1 DEF TimeSleep, Sleeps, UserTraps
  <2>2. t \notin Members(asleep)
    <3>1. t \notin Waiting
      BY <2>1, CallerIsLive
    <3> QED  BY <3>1, ListsTyped, Names DEF PlaceInv, Holds
  <2>3. time \in Nat \ {0}
    BY <1>1, KernelAssumption
  <2>4. left[t] = 0
    <3>1. left[t] \in Nat /\ ~(left[t] > 0)
      BY <2>1, <2>2 DEF IInv, TypeOK, SleepInv
    <3> QED  BY <3>1
  <2>5. time \in {x % UIntLimit : x \in SleepTime} \ {0}
    BY <1>1
  <2> HIDE DEF time, t
  <2>6. Sleeping!PutToSleep(t, time)
    BY <2>1, SameCount
    DEF PutToSleep, Position, Sleeping!PutToSleep, Sleeping!Position
  <2>7. Sleeping!SleepersNext
    BY <2>1, <2>4, <2>5, <2>6 DEF Sleeping!SleepersNext
  <2> QED  BY <2>1, <2>2, <2>3, <2>7, PutInOrder
<1>2. CASE time = 0
  <2>1. UNCHANGED <<asleep, left>>
    BY <1>2 DEF TimeSleep, Sleeps, sleepVars
  <2> QED  BY <2>1 DEF SleepInv, Members
<1> QED  BY <1>1, <1>2

LEMMA NextSleeps ==
  IInv /\ PlaceInv /\ SleepInv /\ [Next]_vars =>
    SleepInv' /\ [Sleeping!SleepersNext]_<<asleep, left>>
<1> SUFFICES ASSUME IInv, PlaceInv, SleepInv, [Next]_vars
             PROVE  SleepInv' /\ (Sleeping!SleepersNext \/ UNCHANGED <<asleep, left>>)
  OBVIOUS
<1>1. ASSUME UNCHANGED <<asleep, left>> PROVE SleepInv'
  BY <1>1 DEF SleepInv, Members
<1>2. CASE TimerInterrupt
  <2>1. UpdateTime
    BY <1>2 DEF TimerInterrupt
  <2>2. Sleeping!UpdateTime
    BY <2>1, SameCount DEF UpdateTime, Due, Sleeping!UpdateTime, Sleeping!Due
  <2>3. Sleeping!SleepersNext
    BY <2>2 DEF Sleeping!SleepersNext
  <2> QED  BY <2>1, <2>3, TickInOrder
<1>3. ASSUME NEW t \in SleepTime, TimeSleep(t)
      PROVE  SleepInv' /\ (Sleeping!SleepersNext \/ UNCHANGED <<asleep, left>>)
  BY <1>3, SleepCall
<1>4. ASSUME NEW n \in 0..MaxBurst, ConsoleInterrupt(n) PROVE UNCHANGED <<asleep, left>>
  BY <1>4 DEF ConsoleInterrupt, sleepVars
<1>5. CASE SystemCall /\ \A t \in SleepTime : ~TimeSleep(t)
  <2>1. UNCHANGED <<asleep, left>>
    BY <1>5
    DEF SystemCall, ThreadCreate, ThreadJoin, ThreadExit, ThreadDispatch, SemOpen,
        SemClose, SemSignal, SemWait, ConsoleCall, MemoryCall, RejectedCall, sleepVars
  <2> QED  BY <1>1, <2>1
<1>6. CASE Stopped \/ UNCHANGED vars
  <2>1. UNCHANGED <<asleep, left>>
    BY <1>6 DEF Stopped, vars
  <2> QED  BY <1>1, <2>1
<1> QED  BY <1>1, <1>2, <1>3, <1>4, <1>5, <1>6 DEF Next

LEMMA SleepersInOrder == Spec => []SleepInv
<1>1. Init => SleepInv
  BY EmptyParts DEF Init, SleepersInit, SleepInv
<1>2. IInv /\ PlaceInv /\ SleepInv /\ [Next]_vars => SleepInv'
  BY NextSleeps
<1> QED  BY <1>1, <1>2, InvariantHolds, PlacementHolds, PTL DEF Spec

(* The kernel uses the list of sleepers as the list takes for granted, so  *)
(* that what SleepingThreads was proved to promise holds in the kernel: a  *)
(* handler puts nobody there who already sleeps, nobody for a time that is *)
(* cut to 0, and every timer interrupt is a tick of every sleeper.         *)
THEOREM SleepersUsed == Spec => UsesSleepers
<1>1. Init => Sleeping!SleepersInit
  BY DEF Init, SleepersInit, Sleeping!SleepersInit
<1>2. IInv /\ PlaceInv /\ SleepInv /\ [Next]_vars
        => [Sleeping!SleepersNext]_<<asleep, left>>
  BY NextSleeps
<1> QED  BY <1>1, <1>2, InvariantHolds, PlacementHolds, SleepersInOrder, PTL
         DEF Spec, UsesSleepers, Sleeping!SleepersSpec

-----------------------------------------------------------------------------
(***************************************************************************)
(* Climbing: a set that holds the lowest number and with each the next     *)
(* holds them all, or there would be a least one outside.                  *)
(***************************************************************************)

LEMMA Climb ==
  ASSUME NEW n \in Nat, NEW P, 0 \in P,
         \A k \in 0..n : k # 0 /\ k - 1 \in P => k \in P
  PROVE  \A k \in 0..n : k \in P
<1> DEFINE T == {k \in 0..n : k \notin P}
           R == OpToRel(<, Nat)
<1> SUFFICES ASSUME T # {} PROVE FALSE
  OBVIOUS
<1>1. \A x, y \in Nat : x < y => <<x, y>> \in R
  BY DEF OpToRel
<1>2. IsWellFoundedOn(R, Nat)
  BY NatLessThanWellFounded
<1>3. T \in SUBSET Nat
  OBVIOUS
<1> HIDE DEF R, T
<1>4. PICK m \in T : \A y \in T : ~ (<<y, m>> \in R)
  BY <1>2, <1>3, WFMin
<1>5. m \in 0..n /\ m \notin P /\ m # 0 /\ m - 1 \in 0..n /\ m - 1 < m
  BY <1>4 DEF T
<1>6. m - 1 \notin T
  <2>1. m \in Nat /\ m - 1 \in Nat
    BY <1>5
  <2> QED  BY <1>1, <1>4, <1>5, <2>1
<1>7. m - 1 \in P
  BY <1>5, <1>6 DEF T
<1> QED  BY <1>5, <1>7

-----------------------------------------------------------------------------
(***************************************************************************)
(* One signal after another.                                               *)
(***************************************************************************)

(* Sem::signal, with deblock and putThread, as the code has it: on a       *)
(* semaphore's value and queue, the ready list and the statuses.           *)
OneSignal(x) ==
  LET t == Head(x.queue)
  IN  IF x.val < 0
        THEN [val    |-> x.val + 1,
              queue  |-> Tail(x.queue),
              ready  |-> Append(x.ready, t),
              status |-> [x.status EXCEPT ![t] = "READY"]]
        ELSE [val |-> x.val + 1, queue |-> x.queue,
              ready |-> x.ready, status |-> x.status]

(* What Signal(s, i) makes of the same four.                               *)
Signalled(s, i) ==
  LET k     == Releases(s, i)
      freed == SubSeq(blocked[s], 1, k)
  IN  [val    |-> val[s] + i,
       queue  |-> SubSeq(blocked[s], k + 1, Len(blocked[s])),
       ready  |-> linkedList \o freed,
       status |-> Woken(status, freed)]

(* Waking one thread more.                                                 *)
LEMMA WokenOneMore ==
  ASSUME NEW q \in Seq(Thread), NEW t \in Thread
  PROVE  Woken(status, Append(q, t)) = [Woken(status, q) EXCEPT ![t] = "READY"]
<1> DEFINE r == Append(q, t)
           st == Woken(status, q)
<1>1. /\ Len(q) \in Nat /\ DOMAIN q = 1..Len(q) /\ DOMAIN r = 1..(Len(q) + 1)
      /\ \A i \in 1..Len(q) : r[i] = q[i]
      /\ r[Len(q) + 1] = t
  <2>1. /\ r \in Seq(Thread) /\ Len(r) = Len(q) + 1
        /\ \A i \in 1..Len(q) : r[i] = q[i]
        /\ r[Len(q) + 1] = t
    BY AppendProperties
  <2>2. Len(q) \in Nat /\ DOMAIN q = 1..Len(q) /\ DOMAIN r = 1..Len(r)
    BY <2>1, LenProperties
  <2> QED  BY <2>1, <2>2
<1> HIDE DEF r
<1>2. \A p : (\E i \in DOMAIN r : r[i] = p) <=> (p = t \/ \E i \in DOMAIN q : q[i] = p)
  <2> TAKE p
  <2>1. ASSUME NEW i \in DOMAIN r, r[i] = p
        PROVE  p = t \/ \E j \in DOMAIN q : q[j] = p
    <3>1. CASE i = Len(q) + 1
      BY <1>1, <2>1, <3>1
    <3>2. CASE i # Len(q) + 1
      <4>1. i \in 1..Len(q)
        BY <1>1, <3>2
      <4> QED  BY <1>1, <2>1, <4>1
    <3> QED  BY <3>1, <3>2
  <2>2. p = t => \E i \in DOMAIN r : r[i] = p
    BY <1>1
  <2>3. ASSUME NEW j \in DOMAIN q, q[j] = p
        PROVE  \E i \in DOMAIN r : r[i] = p
    <3>1. j \in DOMAIN r /\ r[j] = q[j]
      BY <1>1
    <3> QED  BY <2>3, <3>1
  <2> QED  BY <2>1, <2>2, <2>3
<1>3. Woken(status, r)
        = [p \in Proc |-> IF p = t \/ \E i \in DOMAIN q : q[i] = p
                          THEN "READY" ELSE status[p]]
  BY <1>2 DEF Woken
<1>4. [st EXCEPT ![t] = "READY"]
        = [p \in Proc |-> IF p = t \/ \E i \in DOMAIN q : q[i] = p
                          THEN "READY" ELSE status[p]]
  BY DEF Woken
<1> QED  BY <1>3, <1>4 DEF r

(* One signal more: it never finds the value negative and the queue empty. *)
LEMMA SignalOneMore ==
  ASSUME IInv, NEW s \in Sem, NEW i \in Nat
  PROVE  /\ Signalled(s, i).val < 0 => Signalled(s, i).queue # << >>
         /\ Signalled(s, i + 1) = OneSignal(Signalled(s, i))
<1> DEFINE b == blocked[s]
           n == Len(b)
           v == val[s]
<1>1. /\ b \in Seq(Thread) /\ n \in Nat /\ v \in Int
      /\ n = IF v < 0 THEN -v ELSE 0
      /\ linkedList \in Seq(Thread)
  BY LenProperties DEF IInv, TypeOK, SemaphoreCount
<1>2. \A k : Releases(s, k) = IF v >= 0 THEN 0 ELSE IF -v < k THEN -v ELSE k
  BY DEF Releases
<1>3. \A k : Signalled(s, k)
               = [val    |-> v + k,
                  queue  |-> SubSeq(b, Releases(s, k) + 1, n),
                  ready  |-> linkedList \o SubSeq(b, 1, Releases(s, k)),
                  status |-> Woken(status, SubSeq(b, 1, Releases(s, k)))]
  BY DEF Signalled
<1> HIDE DEF b, n, v
<1>4. CASE v + i < 0
  <2>1. Releases(s, i) = i /\ Releases(s, i + 1) = i + 1 /\ i + 1 \in 1..n
    BY <1>1, <1>2, <1>4
  <2> DEFINE queue == SubSeq(b, i + 1, n)
             front == SubSeq(b, 1, i)
  <2>2. /\ Head(queue) = b[i + 1] /\ Tail(queue) = SubSeq(b, (i + 1) + 1, n)
        /\ b[i + 1] \in Thread
    <3>1. n \in (i + 1)..Len(b)
      BY <1>1, <2>1 DEF n
    <3> QED  BY <1>1, <2>1, <3>1, HeadTailOfSubSeq, ElementOfSeq DEF n
  <2>3. queue # << >>
    <3>1. i + 1 \in 1..(Len(b) + 1) /\ n \in 0..Len(b)
      BY <1>1, <2>1 DEF n
    <3>2. Len(queue) = n - (i + 1) + 1
      BY <1>1, <2>1, <3>1, PartOfSeq
    <3>3. Len(queue) > 0
      BY <1>1, <2>1, <3>2
    <3>4. Len(<< >>) = 0
      BY EmptySeq
    <3> HIDE DEF queue
    <3> QED  BY <3>3, <3>4
  <2>4. front \in Seq(Thread) /\ SubSeq(b, 1, i + 1) = Append(front, b[i + 1])
    <3>1. i + 1 \in 1..Len(b) /\ 1 \in 1..Len(b) /\ i \in 0..Len(b) /\ (i + 1) - 1 = i
      BY <1>1, <2>1 DEF n
    <3>2. front \in Seq(Thread)
      <4>1. 1 \in 1..(Len(b) + 1)
        BY <3>1
      <4> QED  BY <1>1, <3>1, <4>1, PartOfSeq
    <3>3. SubSeq(b, 1, i + 1) = front \o <<b[i + 1]>>
      BY <1>1, <3>1, SubSeqRecursiveSecond
    <3> QED  BY <2>2, <3>2, <3>3, AppendIsConcat
  <2> HIDE DEF queue, front
  <2>5. linkedList \o Append(front, b[i + 1]) = Append(linkedList \o front, b[i + 1])
    <3>1. <<b[i + 1]>> \in Seq(Thread) /\ linkedList \o front \in Seq(Thread)
      BY <1>1, <2>2, <2>4, Singleton, ConcatProperties
    <3>2. /\ Append(front, b[i + 1]) = front \o <<b[i + 1]>>
          /\ Append(linkedList \o front, b[i + 1]) = (linkedList \o front) \o <<b[i + 1]>>
      BY <2>2, <2>4, <3>1, AppendIsConcat
    <3> QED  BY <1>1, <2>4, <3>1, <3>2, ConcatAssociative
  <2>6. Woken(status, Append(front, b[i + 1]))
          = [Woken(status, front) EXCEPT ![b[i + 1]] = "READY"]
    BY <2>2, <2>4, WokenOneMore
  <2>7. Signalled(s, i) = [val |-> v + i, queue |-> queue, ready |-> linkedList \o front,
                           status |-> Woken(status, front)]
    BY <1>3, <2>1 DEF queue, front
  <2>8. Signalled(s, i + 1)
          = [val |-> v + i + 1, queue |-> Tail(queue),
             ready |-> Append(linkedList \o front, b[i + 1]),
             status |-> [Woken(status, front) EXCEPT ![b[i + 1]] = "READY"]]
    <3>1. v + (i + 1) = v + i + 1
      BY <1>1
    <3> DEFINE freed == SubSeq(b, 1, i + 1)
               rest == SubSeq(b, (i + 1) + 1, n)
    <3>2. Signalled(s, i + 1)
            = [val |-> v + (i + 1), queue |-> rest, ready |-> linkedList \o freed,
               status |-> Woken(status, freed)]
      BY <1>3, <2>1
    <3>3. freed = Append(front, b[i + 1]) /\ rest = Tail(queue)
      BY <2>2, <2>4 DEF queue
    <3> HIDE DEF freed, rest
    <3> QED  BY <2>5, <2>6, <3>1, <3>2, <3>3
  <2>9. Signalled(s, i).val = v + i /\ Signalled(s, i).queue = queue
    BY <2>7
  <2>10. OneSignal(Signalled(s, i))
           = [val |-> v + i + 1, queue |-> Tail(queue),
              ready |-> Append(linkedList \o front, Head(queue)),
              status |-> [Woken(status, front) EXCEPT ![Head(queue)] = "READY"]]
    BY <1>4, <2>7 DEF OneSignal
  <2> QED  BY <2>2, <2>3, <2>8, <2>9, <2>10
<1>5. CASE ~(v + i < 0)
  <2>1. Releases(s, i) = n /\ Releases(s, i + 1) = n
    BY <1>1, <1>2, <1>5
  <2> DEFINE queue == SubSeq(b, n + 1, n)
             front == SubSeq(b, 1, n)
  <2>2. Signalled(s, i) = [val |-> v + i, queue |-> queue, ready |-> linkedList \o front,
                           status |-> Woken(status, front)]
    BY <1>3, <2>1
  <2>3. Signalled(s, i + 1) = [val |-> v + i + 1, queue |-> queue,
                               ready |-> linkedList \o front,
                               status |-> Woken(status, front)]
    <3>1. v + (i + 1) = v + i + 1
      BY <1>1
    <3> QED  BY <1>3, <2>1, <3>1
  <2> HIDE DEF queue, front
  <2>4. Signalled(s, i).val = v + i
    BY <2>2
  <2>5. OneSignal(Signalled(s, i)) = [val |-> v + i + 1, queue |-> queue,
                                      ready |-> linkedList \o front,
                                      status |-> Woken(status, front)]
    BY <1>5, <2>2 DEF OneSignal
  <2> QED  BY <1>5, <2>3, <2>4, <2>5
<1> QED  BY <1>4, <1>5

(* Before the first.                                                       *)
LEMMA NotYetSignalled ==
  ASSUME IInv, NEW s \in Sem
  PROVE  Signalled(s, 0) = [val |-> val[s], queue |-> blocked[s],
                            ready |-> linkedList, status |-> status]
<1> DEFINE b == blocked[s]
<1>1. /\ b \in Seq(Thread) /\ Len(b) \in Nat /\ val[s] \in Int
      /\ linkedList \in Seq(Thread) /\ status \in [Proc -> State]
  BY LenProperties DEF IInv, TypeOK
<1>2. Releases(s, 0) = 0 /\ val[s] + 0 = val[s]
  BY <1>1 DEF Releases
<1>3. SubSeq(b, 1, 0) = << >> /\ SubSeq(b, 0 + 1, Len(b)) = b
  BY <1>1, SubSeqEmpty, SubSeqFull
<1>4. linkedList \o << >> = linkedList
  BY <1>1, ConcatEmptySeq
<1>5. Woken(status, << >>) = status
  BY <1>1 DEF Woken
<1> QED  BY <1>2, <1>3, <1>4, <1>5 DEF Signalled

(* An interrupt of the console signals once for each character it reads;   *)
(* the model does so in one step.  The step is the loop: it leaves what n  *)
(* calls of Sem::signal in a row leave, and none of these takes a thread   *)
(* from an empty queue.                                                    *)
THEOREM SignalsInARow ==
  ASSUME IInv, NEW s \in Sem, NEW n \in Nat, Signal(s, n),
         NEW x, x[0] = [val |-> val[s], queue |-> blocked[s],
                        ready |-> linkedList, status |-> status],
         \A i \in 0..n : i # 0 => x[i] = OneSignal(x[i - 1])
  PROVE  /\ x[n] = [val |-> val'[s], queue |-> blocked'[s],
                    ready |-> linkedList', status |-> status']
         /\ \A i \in 0..(n - 1) : x[i].val < 0 => x[i].queue # << >>
<1> DEFINE P == {i \in 0..n : x[i] = Signalled(s, i)}
<1>1. 0 \in P
  BY NotYetSignalled
<1>2. ASSUME NEW i \in 0..n, i # 0, i - 1 \in P
      PROVE  i \in P
  <2>1. i - 1 \in Nat /\ (i - 1) + 1 = i
    BY <1>2
  <2>2. Signalled(s, i) = OneSignal(Signalled(s, i - 1))
    BY <2>1, SignalOneMore
  <2>3. x[i - 1] = Signalled(s, i - 1) /\ x[i] = OneSignal(x[i - 1])
    BY <1>2
  <2> QED  BY <2>2, <2>3
<1> HIDE DEF P
<1>3. \A i \in 0..n : i \in P
  BY <1>1, <1>2, Climb
<1>4. \A i \in 0..n : x[i] = Signalled(s, i)
  BY <1>3 DEF P
<1>5. x[n] = Signalled(s, n)
  BY <1>4
<1>6. Signalled(s, n) = [val |-> val'[s], queue |-> blocked'[s],
                         ready |-> linkedList', status |-> status']
  BY DEF Signalled, Signal, IInv, TypeOK
<1>7. \A i \in 0..(n - 1) : i \in 0..n /\ i \in Nat
  OBVIOUS
<1> QED  BY <1>4, <1>5, <1>6, <1>7, SignalOneMore

=============================================================================
