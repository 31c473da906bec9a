-------------------------- MODULE MemoryAllocator --------------------------
(***************************************************************************)
(* The heap of src/src/memoryAllocator.cpp: a list of free fragments, by   *)
(* address, from which the first that is large enough is cut, and into     *)
(* which a region is put back and joined with its neighbours.  Addresses   *)
(* are counted in blocks from the start of the heap.                       *)
(***************************************************************************)
EXTENDS Integers, Sequences, FiniteSets

CONSTANTS
  HeapBlocks,   \* blocks of the heap
  BlockSize,    \* MEM_BLOCK_SIZE
  Size,         \* numbers of bytes programs ask for
  SizeLimit     \* number of values of a size_t

ASSUME AllocatorAssumption ==
  /\ HeapBlocks \in Nat \ {0}
  /\ BlockSize \in Nat \ {0}
  /\ SizeLimit \in Nat \ {0}
  /\ Size \subseteq 0..(SizeLimit - 1)

NotRefused == -1

VARIABLES
  fmem,     \* the free fragments from fmem_head, [addr |-> a, num |-> n]
  desc,     \* the descriptor of every region in use, by its address
  asked,    \* the bytes that were asked for it
  refused   \* the bytes of the last request, if the answer was nullptr

vars == <<fmem, desc, asked, refused>>

-----------------------------------------------------------------------------

(* Blocks for a number of bytes, in the arithmetic of size_t.              *)
numOfBlcks(bytes) == ((bytes + BlockSize - 1) % SizeLimit) \div BlockSize

(* One more, for the descriptor.                                           *)
NoDescriptor(bytes) == numOfBlcks(bytes)  \* wrong: no s += 1
Needed(bytes) == numOfBlcks(bytes) + 1

(* The first fragment that is large enough.                                *)
FirstFit(s) ==
  CHOOSE i \in DOMAIN fmem :
    fmem[i].num >= s /\ \A j \in 1..(i - 1) : fmem[j].num < s

Without(q, i) == SubSeq(q, 1, i - 1) \o SubSeq(q, i + 1, Len(q))

(* What a fragment of n blocks gives to a request for s: a rest of one     *)
(* block is of no use and goes with the region.                            *)
DropRest(n, s) == s  \* wrong: no s = cur->numOfBlcks
Granted(n, s) == IF n - s <= 1 THEN n ELSE s

(* The free list after s blocks of fragment i are granted.                 *)
CutAlways(i, s) ==  \* wrong: no test of the rest
  [fmem EXCEPT ![i] = [addr |-> @.addr + s, num |-> @.num - s]]
Cut(i, s) ==
  IF fmem[i].num - s <= 1 THEN Without(fmem, i)
  ELSE [fmem EXCEPT ![i] = [addr |-> @.addr + s, num |-> @.num - s]]

mem_alloc(bytes) ==
  LET s == Needed(bytes)
      i == FirstFit(s)
      got == Granted(fmem[i].num, s)
  IN  IF \E j \in DOMAIN fmem : fmem[j].num >= s
      THEN /\ fmem' = Cut(i, s)
           /\ desc' = [a \in DOMAIN desc \cup {fmem[i].addr} |->
                         IF a = fmem[i].addr THEN got ELSE desc[a]]
           /\ asked' = [a \in DOMAIN desc' |->
                          IF a = fmem[i].addr THEN bytes ELSE asked[a]]
           /\ refused' = NotRefused
      ELSE refused' = bytes /\ UNCHANGED <<fmem, desc, asked>>

(* Joins fragment i with the next one if there is nothing between them.    *)
tryToJoin(q, i) ==
  IF i = Len(q) THEN q
  ELSE IF q[i].addr + q[i].num # q[i + 1].addr THEN q
  ELSE Without([q EXCEPT ![i].num = @ + q[i + 1].num], i + 1)

(* The list with the region at a put in its place and joined with the next *)
(* fragment and then with the one in front.                                *)
JoinNextOnly(a) ==  \* wrong: no tryToJoin(prev)
  LET i == Cardinality({j \in DOMAIN fmem : fmem[j].addr < a}) + 1
  IN  tryToJoin(SubSeq(fmem, 1, i - 1) \o <<[addr |-> a, num |-> desc[a]]>>
                  \o SubSeq(fmem, i, Len(fmem)), i)
PutBack(a) ==
  LET i == CHOOSE i \in 1..(Len(fmem) + 1) :
             /\ i <= Len(fmem) => a < fmem[i].addr
             /\ \A j \in 1..(i - 1) : fmem[j].addr <= a
      joined == tryToJoin(SubSeq(fmem, 1, i - 1) \o <<[addr |-> a, num |-> desc[a]]>>
                            \o SubSeq(fmem, i, Len(fmem)), i)
  IN  IF i = 1 THEN joined ELSE tryToJoin(joined, i - 1)

mem_free(a) ==
  /\ fmem' = PutBack(a)
  /\ desc' = [b \in DOMAIN desc \ {a} |-> desc[b]]
  /\ asked' = [b \in DOMAIN desc \ {a} |-> asked[b]]
  /\ refused' = NotRefused

-----------------------------------------------------------------------------

(* initialize: one fragment, the whole heap.                               *)
Init ==
  /\ fmem = <<[addr |-> 0, num |-> HeapBlocks]>>
  /\ desc = << >> /\ asked = << >>
  /\ refused = NotRefused

(* Programs free only what they were given, once.                          *)
Next ==
  \/ \E bytes \in Size : mem_alloc(bytes)
  \/ \E a \in DOMAIN desc : mem_free(a)

Spec == Init /\ [][Next]_vars

-----------------------------------------------------------------------------

(* Fragments, descriptors and requests are within the heap and their types. *)
TypeOK ==
  /\ fmem \in Seq([addr : 0..(HeapBlocks - 1), num : 1..HeapBlocks])
  /\ desc \in [DOMAIN desc -> 1..HeapBlocks]
  /\ DOMAIN desc \subseteq 0..(HeapBlocks - 1)
  /\ asked \in [DOMAIN desc -> Size]
  /\ refused \in Size \cup {NotRefused}

(* The free list is ordered by address and no two fragments touch: however *)
(* regions are freed, neighbours are joined at once, on both sides.        *)
FreeListJoined ==
  \A i \in 1..(Len(fmem) - 1) : fmem[i].addr + fmem[i].num < fmem[i + 1].addr

(* Every block of the heap is in exactly one free fragment or one region:  *)
(* none is lost, and no two owners share one.                              *)
Owners(b) ==
  Cardinality({i \in DOMAIN fmem : b \in fmem[i].addr..(fmem[i].addr + fmem[i].num - 1)})
    + Cardinality({a \in DOMAIN desc : b \in a..(a + desc[a] - 1)})
BlocksConserved == \A b \in 0..(HeapBlocks - 1) : Owners(b) = 1

(* A region has room for the bytes that were asked for.                    *)
HoldsRequest == \A a \in DOMAIN desc : asked[a] <= (desc[a] - 1) * BlockSize

(* The allocator implements Heap: in particular it answers nullptr only    *)
(* when no run of free blocks could hold the request, so that the order in *)
(* which regions were freed never costs a program its memory.              *)
Abstract == INSTANCE Heap WITH
  Blocks <- {numOfBlcks(bytes) : bytes \in Size},
  owned <- {[addr |-> a, size |-> desc[a]] : a \in DOMAIN desc},
  refused <- IF refused = NotRefused THEN -1 ELSE numOfBlcks(refused)
AllocatesWhenPossible == Abstract!HeapSpec

=============================================================================
