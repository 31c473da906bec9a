-------------------------------- MODULE Heap --------------------------------
(***************************************************************************)
(* What an allocator of whole blocks promises: every region it hands out   *)
(* is apart from all the others, is large enough, and a request is refused *)
(* only when no run of free blocks could hold it.                          *)
(***************************************************************************)
EXTENDS Integers

CONSTANTS
  HeapBlocks,  \* blocks of the heap, 0..HeapBlocks-1
  Blocks       \* numbers of blocks that may be asked for

VARIABLES
  owned,       \* the regions in use, [addr |-> a, size |-> n]
  refused      \* blocks of the last request, if it was refused, or NotRefused

NotRefused == -1

Region(r) == r.addr..(r.addr + r.size - 1)
Available == (0..(HeapBlocks - 1)) \ UNION {Region(r) : r \in owned}

(* A region holds one block more than was asked for, for its descriptor,   *)
(* and may hold another, which would be of no use alone.                   *)
Fits(s) == {r \in [addr : 0..(HeapBlocks - 1), size : {s + 1, s + 2}] :
              Region(r) \subseteq Available}

Alloc(s) ==
  /\ \E r \in Fits(s) : owned' = owned \cup {r}
  /\ refused' = NotRefused
Refuse(s) ==
  /\ Fits(s) = {}
  /\ refused' = s
  /\ UNCHANGED owned
Free ==
  /\ \E r \in owned : owned' = owned \ {r}
  /\ refused' = NotRefused

HeapInit == owned = {} /\ refused = NotRefused
HeapNext == Free \/ \E s \in Blocks : Alloc(s) \/ Refuse(s)
HeapSpec == HeapInit /\ [][HeapNext]_<<owned, refused>>

=============================================================================
