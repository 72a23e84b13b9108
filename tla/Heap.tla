-------------------------------- MODULE Heap --------------------------------
(***************************************************************************)
(* The kernel heap (heap.c): one region cut into blocks, each with a       *)
(* header in front.  kmalloc takes the first free block that is large      *)
(* enough and splits it if the rest is worth a block; kfree passes over    *)
(* the list and merges neighbours that are both free.  A step is one round *)
(* of the pass's loop; nothing else happens until it has ended.            *)
(*                                                                         *)
(* The list of blocks is a sequence: `next' of a block is the element      *)
(* behind it.  Where a block lies is stored with it, as in the code, and   *)
(* is not derived from the sizes of the blocks before it.  Addresses are   *)
(* offsets from the start of the region.                                   *)
(***************************************************************************)
EXTENDS Integers, Sequences, SequencesExt

CONSTANTS
  HeapSize,  \* bytes given to Heap_Init: 4096
  Header,    \* sizeof(HeapNode): 24
  Slack,     \* a rest of at most this size stays with the block: 16
  Request,   \* sizes that are asked for
  NULL       \* "no block"

ASSUME HeaderAssumption == Header \in Nat \ {0}
ASSUME SizeAssumption == HeapSize \in Nat /\ HeapSize >= Header
ASSUME SlackAssumption == Slack \in Nat
ASSUME RequestAssumption == Request \subseteq Nat
ASSUME NoBlockAssumption == NULL \notin Nat

VARIABLES
  blocks,  \* the list from head on
  held,    \* the callers' view: address given out |-> size asked for
  current  \* the block kfree's pass is at, 0 when no kfree runs

heap == <<blocks, held, current>>

Block == [at : 0 .. HeapSize, size : 0 .. HeapSize, free : BOOLEAN]

HeapTypeOK ==
  /\ blocks \in Seq(Block)
  /\ DOMAIN held \subseteq 0 .. HeapSize
  /\ \A a \in DOMAIN held : held[a] \in Request
  /\ current \in 0 .. Len(blocks)

-----------------------------------------------------------------------------

Heap_Init ==
  /\ blocks = <<[at |-> 0, size |-> HeapSize - Header, free |-> TRUE]>>
  /\ held = << >> /\ current = 0

(* The function f with v at x. *)
Bind(f, x, v) == [y \in DOMAIN f \union {x} |-> IF y = x THEN v ELSE f[y]]

(* The address kmalloc returns for block b. *)
Data(b) == b.at + Header

(* Faulty variant: the size is not looked at. *)
FirstFree(list, size) == SelectInSeq(list, LAMBDA b : b.free)

(* The first free block that is large enough, or 0. *)
FirstFit(list, size) ==
  SelectInSeq(list, LAMBDA b : b.free /\ b.size >= size)

(* Faulty variant: the header of the block itself is counted once more. *)
SplitTooLate(b, size) ==
  IF b.size > size + 2 * Header + Slack
  THEN <<[b EXCEPT !.size = size, !.free = FALSE],
         [at |-> b.at + Header + size, size |-> b.size - size - Header, free |-> TRUE]>>
  ELSE <<[b EXCEPT !.free = FALSE]>>

(* Block b taken for a request, and the rest of it if that is large enough. *)
Split(b, size) ==
  IF b.size > size + Header + Slack
  THEN <<[b EXCEPT !.size = size, !.free = FALSE],
         [at |-> b.at + Header + size, size |-> b.size - size - Header, free |-> TRUE]>>
  ELSE <<[b EXCEPT !.free = FALSE]>>

(* The list after kmalloc has taken its block i. *)
Taken(list, i, size) ==
  SubSeq(list, 1, i - 1) \o Split(list[i], size) \o SubSeq(list, i + 1, Len(list))

(* What kmalloc returns and the list it leaves. *)
Kmalloc(list, size) ==
  LET i == FirstFit(list, size)
  IN  IF i = 0 THEN [ptr |-> NULL, list |-> list]
      ELSE [ptr |-> Data(list[i]), list |-> Taken(list, i, size)]

(* The pass of kfree is at two neighbours that are free.                   *)
Mergeable ==
  /\ current # 0 /\ current < Len(blocks)
  /\ blocks[current].free /\ blocks[current + 1].free

(* The list in which the block at current has swallowed the next one.      *)
Merged ==
  RemoveAt([blocks EXCEPT ![current].size = @ + blocks[current + 1].size + Header],
           current + 1)

-----------------------------------------------------------------------------

kmalloc(size) ==
  /\ current = 0
  /\ LET r == Kmalloc(blocks, size)
     IN  /\ blocks' = r.list
         /\ held' = IF r.ptr = NULL THEN held ELSE Bind(held, r.ptr, size)
  /\ UNCHANGED current

(* A caller gives back a block it holds, once; the pass begins at head.    *)
kfree(a) ==
  /\ current = 0 /\ a \in DOMAIN held
  /\ blocks' = [i \in DOMAIN blocks |->
                  IF Data(blocks[i]) = a THEN [blocks[i] EXCEPT !.free = TRUE] ELSE blocks[i]]
  /\ held' = [b \in DOMAIN held \ {a} |-> held[b]]
  /\ current' = 1

(* Faulty variant: after a merge the pass moves on to the next block.      *)
SwallowOnce ==
  /\ Mergeable
  /\ blocks' = Merged
  /\ current' = IF current < Len(blocks') THEN current + 1 ELSE 0
  /\ UNCHANGED held

(* The pass stays where it is as long as it merges ...                     *)
Swallow ==
  /\ Mergeable
  /\ blocks' = Merged
  /\ UNCHANGED <<held, current>>

(* ... and goes on otherwise.  Behind the last block kfree returns.        *)
MoveOn ==
  /\ current # 0 /\ ~Mergeable
  /\ current' = IF current < Len(blocks) THEN current + 1 ELSE 0
  /\ UNCHANGED <<blocks, held>>

HeapNext ==
  \/ \E size \in Request : kmalloc(size)
  \/ \E a \in DOMAIN held : kfree(a)
  \/ Swallow \/ MoveOn

HeapSpec == Heap_Init /\ [][HeapNext]_heap

-----------------------------------------------------------------------------
(***************************************************************************)
(* The blocks lie end to end and fill the region: the header that kmalloc  *)
(* writes for a rest and the sizes kfree adds up always agree.             *)
(***************************************************************************)
End(b) == b.at + Header + b.size
Tiles ==
  /\ blocks # << >> /\ blocks[1].at = 0
  /\ \A i \in 2 .. Len(blocks) : blocks[i].at = End(blocks[i - 1])
  /\ End(Last(blocks)) = HeapSize

(***************************************************************************)
(* Merging is complete: where the pass has been, and everywhere when there *)
(* is none, no two neighbours are free, so a request fails only if no      *)
(* stretch of unused memory could serve it.                                *)
(***************************************************************************)
NoFreeNeighbours ==
  \A i \in 2 .. Len(blocks) :
    current = 0 \/ i <= current => ~(blocks[i - 1].free /\ blocks[i].free)

(***************************************************************************)
(* The list is what kmalloc and kfree can start from: blocks tile the      *)
(* region and free neighbours are merged.                                  *)
(***************************************************************************)
HeapInv == HeapTypeOK /\ Tiles /\ NoFreeNeighbours

(***************************************************************************)
(* What the callers hold are exactly the blocks in use, each large enough; *)
(* however the list was split and merged around them, they have not moved. *)
(***************************************************************************)
InUse == {i \in DOMAIN blocks : ~blocks[i].free}
HeldAreBlocks ==
  /\ DOMAIN held = {Data(blocks[i]) : i \in InUse}
  /\ \A i \in InUse : blocks[i].size >= held[Data(blocks[i])]

(***************************************************************************)
(* What is lost in a block that was not split is bounded by a header and   *)
(* the least rest that is worth a block (heap.c:24).  That the rest of one *)
(* that was split is a block, of the size that is left, is in Tiles.       *)
(***************************************************************************)
WasteBounded ==
  \A i \in InUse : blocks[i].size <= held[Data(blocks[i])] + Header + Slack
=============================================================================
