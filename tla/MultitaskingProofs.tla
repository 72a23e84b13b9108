------------------------- MODULE MultitaskingProofs -------------------------
(***************************************************************************)
(* The heap on every region, header and request, and the tasks on top of   *)
(* it: whatever kernel_main allocates and however often the timer ticks.   *)
(***************************************************************************)
EXTENDS Multitasking, SequenceTheorems, WellFoundedInduction, TLAPS

-----------------------------------------------------------------------------
(* Lists of blocks.                                                        *)

(* Numbers above 0 have a least one. *)
LEMMA Least ==
  ASSUME NEW S \in SUBSET Nat, S # {}
  PROVE  /\ Min(S) \in S
         /\ \A y \in S : Min(S) <= y
<1>1. PICK x \in S : \A y \in S : ~ (<<y, x>> \in OpToRel(<, Nat))
  BY WFMin, NatLessThanWellFounded, Zenon
<1>2. \A y \in S : ~(y < x)
  BY <1>1, Zenon DEF OpToRel
<1>3. \A y \in S : x <= y
  BY <1>2
<1>4. QED BY <1>3 DEF Min

LEMMA FirstFits ==
  ASSUME NEW list \in Seq(Block), NEW size \in Nat, NEW i, i = FirstFit(list, size)
  PROVE  /\ i = 0 \/ (i \in DOMAIN list /\ list[i].free /\ list[i].size >= size)
         /\ i = 0 => \A j \in 1 .. Len(list) : ~(list[j].free /\ list[j].size >= size)
<1> DEFINE I == {j \in 1 .. Len(list) : list[j].free /\ list[j].size >= size}
<1>1. i = IF I # {} THEN Min(I) ELSE 0
  BY Zenon DEF FirstFit, SelectInSeq
<1>2. I # {} => Min(I) \in I
  <2>1. I \in SUBSET Nat
    OBVIOUS
  <2> HIDE DEF I
  <2>2. QED BY <2>1, Least
<1>3. DOMAIN list = 1 .. Len(list)
  OBVIOUS
<1>4. 0 \notin I
  OBVIOUS
<1>5. QED BY <1>1, <1>2, <1>3, <1>4

(* Three lists, one behind the other. *)
IsJoin(n, front, mid, rest, f, m, r) ==
  /\ f = Len(front) /\ m = Len(mid) /\ r = Len(rest) /\ f \in Nat /\ m \in Nat /\ r \in Nat
  /\ Len(n) = f + m + r
  /\ \A j \in 1 .. (f + m + r) :
       n[j] = IF j <= f THEN front[j]
              ELSE IF j <= f + m THEN mid[j - f]
              ELSE rest[j - (f + m)]

LEMMA Joined ==
  ASSUME NEW S, NEW front \in Seq(S), NEW mid \in Seq(S), NEW rest \in Seq(S)
  PROVE  /\ front \o mid \o rest \in Seq(S)
         /\ IsJoin(front \o mid \o rest, front, mid, rest, Len(front), Len(mid), Len(rest))
<1>0. PICK f, m, r, n :
        f = Len(front) /\ m = Len(mid) /\ r = Len(rest) /\ n = front \o mid \o rest
  OBVIOUS
<1>1. f \in Nat /\ m \in Nat /\ r \in Nat
  BY <1>0, LenProperties
<1>2. PICK a : a = front \o mid
  OBVIOUS
<1>3. /\ a \in Seq(S) /\ Len(a) = f + m
      /\ \A j \in 1 .. f + m : a[j] = IF j <= f THEN front[j] ELSE mid[j - f]
  BY <1>0, <1>2, ConcatProperties
<1>4. n = a \o rest
  BY <1>0, <1>2
<1>5. /\ n \in Seq(S) /\ Len(n) = Len(a) + Len(rest)
      /\ \A j \in 1 .. Len(a) + Len(rest) :
           n[j] = IF j <= Len(a) THEN a[j] ELSE rest[j - Len(a)]
  <2>1. /\ a \o rest \in Seq(S) /\ Len(a \o rest) = Len(a) + Len(rest)
        /\ \A j \in 1 .. Len(a) + Len(rest) :
             (a \o rest)[j] = IF j <= Len(a) THEN a[j] ELSE rest[j - Len(a)]
    <3>1. a \in Seq(S)
      BY <1>3
    <3>2. QED BY <3>1, ConcatProperties
  <2>2. QED BY <1>4, <2>1, Zenon
<1>6. Len(n) = f + m + r
  BY <1>0, <1>1, <1>3, <1>5
<1>7. ASSUME NEW j \in 1 .. (f + m + r)
      PROVE  n[j] = IF j <= f THEN front[j]
                    ELSE IF j <= f + m THEN mid[j - f]
                    ELSE rest[j - (f + m)]
  <2>1. j \in 1 .. Len(a) + Len(rest)
    BY <1>0, <1>1, <1>3
  <2>2. n[j] = IF j <= Len(a) THEN a[j] ELSE rest[j - Len(a)]
    BY <1>5, <2>1
  <2>3. j <= f + m => j \in 1 .. f + m
    BY <1>1
  <2>4. j <= f => j <= f + m
    BY <1>1
  <2>5. QED BY <1>3, <2>2, <2>3, <2>4
<1>8. IsJoin(n, front, mid, rest, f, m, r) /\ n \in Seq(S)
  BY <1>0, <1>1, <1>5, <1>6, <1>7 DEF IsJoin
<1>9. QED BY <1>0, <1>8, Zenon

(* A part of a list. *)
LEMMA Part ==
  ASSUME NEW S, NEW list \in Seq(S), NEW a \in Nat \ {0}, NEW b \in Nat, a <= b + 1, b <= Len(list)
  PROVE  /\ SubSeq(list, a, b) \in Seq(S) /\ Len(SubSeq(list, a, b)) = b - a + 1
         /\ \A j \in 1 .. (b - a + 1) : SubSeq(list, a, b)[j] = list[j + (a - 1)]
<1>1. \A j \in a .. b : list[j] \in S
  <2>1. \A j \in a .. b : j \in 1 .. Len(list)
    BY LenProperties
  <2>2. QED BY <2>1, ElementOfSeq
<1>2. /\ SubSeq(list, a, b) \in Seq(S)
      /\ Len(SubSeq(list, a, b)) = IF a <= b THEN b - a + 1 ELSE 0
      /\ \A j \in 1 .. b - a + 1 : SubSeq(list, a, b)[j] = list[a + j - 1]
  BY <1>1, SubSeqProperties
<1>3. \A j \in 1 .. (b - a + 1) : a + j - 1 = j + (a - 1)
  OBVIOUS
<1>4. QED BY <1>2, <1>3

(* Element i of a list, replaced by the elements of another. *)
Splice(list, i, mid) == SubSeq(list, 1, i - 1) \o mid \o SubSeq(list, i + 1, Len(list))

IsSplice(n, list, i, mid, m) ==
  /\ m \in Nat /\ Len(n) = Len(list) - 1 + m
  /\ \A j \in 1 .. Len(n) :
       n[j] = IF j < i THEN list[j]
              ELSE IF j < i + m THEN mid[j - i + 1]
              ELSE list[j - m + 1]

LEMMA Spliced ==
  ASSUME NEW S, NEW list \in Seq(S), NEW i \in 1 .. Len(list), NEW mid \in Seq(S)
  PROVE  Splice(list, i, mid) \in Seq(S) /\ IsSplice(Splice(list, i, mid), list, i, mid, Len(mid))
<1>0. PICK len \in Nat : len = Len(list)
  BY LenProperties
<1>1. PICK front : front = SubSeq(list, 1, i - 1)
  OBVIOUS
<1>2. PICK rest : rest = SubSeq(list, i + 1, Len(list))
  OBVIOUS
<1>3. front \in Seq(S) /\ Len(front) = i - 1 /\ \A j \in 1 .. (i - 1) : front[j] = list[j]
  <2>1. 1 \in Nat \ {0} /\ i - 1 \in Nat /\ 1 <= (i - 1) + 1 /\ i - 1 <= Len(list)
    BY <1>0
  <2>2. /\ front \in Seq(S) /\ Len(front) = (i - 1) - 1 + 1
        /\ \A j \in 1 .. ((i - 1) - 1 + 1) : front[j] = list[j + (1 - 1)]
    BY <1>1, <2>1, Part
  <2>3. QED BY <2>2
<1>4. /\ rest \in Seq(S) /\ Len(rest) = len - i
      /\ \A j \in 1 .. (len - i) : rest[j] = list[j + i]
  <2>1. /\ i + 1 \in Nat \ {0} /\ Len(list) \in Nat /\ i + 1 <= Len(list) + 1
        /\ Len(list) <= Len(list)
    BY <1>0
  <2>2. /\ rest \in Seq(S) /\ Len(rest) = Len(list) - (i + 1) + 1
        /\ \A j \in 1 .. (Len(list) - (i + 1) + 1) : rest[j] = list[j + ((i + 1) - 1)]
    BY <1>2, <2>1, Part
  <2>3. QED BY <1>0, <2>2
<1>5. PICK n, f, m, r :
        n = front \o mid \o rest /\ f = Len(front) /\ m = Len(mid) /\ r = Len(rest)
  OBVIOUS
<1>6. n \in Seq(S) /\ IsJoin(n, front, mid, rest, f, m, r)
  <2>1. front \in Seq(S) /\ rest \in Seq(S)
    BY <1>3, <1>4
  <2>2. QED BY <1>5, <2>1, Joined, Zenon
<1>7. /\ f \in Nat /\ m \in Nat /\ r \in Nat /\ Len(n) = f + m + r
      /\ \A j \in 1 .. (f + m + r) :
           n[j] = IF j <= f THEN front[j]
                  ELSE IF j <= f + m THEN mid[j - f]
                  ELSE rest[j - (f + m)]
  BY <1>6 DEF IsJoin
<1>8. f = i - 1 /\ r = len - i
  BY <1>3, <1>4, <1>5
<1>9. ASSUME NEW j \in 1 .. (f + m + r)
      PROVE  n[j] = IF j < i THEN list[j]
                    ELSE IF j < i + m THEN mid[j - i + 1]
                    ELSE list[j - m + 1]
  <2>1. /\ j <= f <=> j < i
        /\ j <= f + m <=> j < i + m
        /\ j - f = j - i + 1
        /\ j < i => j \in 1 .. (i - 1)
        /\ ~(j < i + m) => j - (f + m) \in 1 .. (len - i) /\ (j - (f + m)) + i = j - m + 1
    BY <1>7, <1>8
  <2>2. QED BY <1>3, <1>4, <1>7, <2>1
<1>10. Len(n) = Len(list) - 1 + m /\ f + m + r = Len(n)
  <2>1. i \in Nat /\ len \in Nat /\ m \in Nat
    BY <1>0, <1>7
  <2>2. (i - 1) + m + (len - i) = len - 1 + m
    BY <2>1
  <2>3. f + m + r = len - 1 + m
    BY <1>8, <2>2
  <2>4. QED BY <1>0, <1>7, <2>3
<1>11. IsSplice(n, list, i, mid, m)
  <2>1. \A j \in 1 .. Len(n) : j \in 1 .. (f + m + r)
    BY <1>10
  <2>2. QED BY <1>7, <1>9, <1>10, <2>1 DEF IsSplice
<1>12. n = Splice(list, i, mid)
  BY <1>1, <1>2, <1>5 DEF Splice
<1>13. QED BY <1>5, <1>6, <1>11, <1>12, Zenon

(* A list without its element i. *)
LEMMA Removed ==
  ASSUME NEW S, NEW list \in Seq(S), NEW i \in 1 .. Len(list), NEW n, n = RemoveAt(list, i)
  PROVE  /\ n \in Seq(S) /\ Len(n) = Len(list) - 1
         /\ \A j \in 1 .. Len(n) : n[j] = IF j < i THEN list[j] ELSE list[j + 1]
<1>1. << >> \in Seq(S) /\ Len(<< >>) = 0
  BY EmptySeq
<1>2. SubSeq(list, 1, i - 1) \o << >> = SubSeq(list, 1, i - 1)
  <2>1. 1 \in Nat \ {0} /\ i - 1 \in Nat /\ 1 <= (i - 1) + 1 /\ i - 1 <= Len(list)
    BY LenProperties
  <2>2. SubSeq(list, 1, i - 1) \in Seq(S)
    BY <2>1, Part
  <2>3. QED BY <2>2, ConcatEmptySeq
<1>3. n = Splice(list, i, << >>)
  BY <1>2 DEF RemoveAt, Splice
<1>4. n \in Seq(S) /\ IsSplice(n, list, i, << >>, Len(<< >>))
  BY <1>1, <1>3, Spliced, Zenon
<1>5. n \in Seq(S) /\ IsSplice(n, list, i, << >>, 0)
  BY <1>1, <1>4, Zenon
<1>6. Len(list) \in Nat
  BY LenProperties
<1>7. Len(n) = Len(list) - 1
  BY <1>5, <1>6 DEF IsSplice
<1>8. \A j \in 1 .. Len(n) : j - 0 + 1 = j + 1 /\ (j < i + 0 <=> j < i)
  BY <1>6, <1>7
<1>9. QED BY <1>5, <1>7, <1>8 DEF IsSplice

-----------------------------------------------------------------------------
(* The heap.                                                               *)

(* The blocks tile the region; that they do not overlap is said of all     *)
(* pairs, so that nothing has to be counted up.                            *)
Laid(list) ==
  /\ list \in Seq(Block) /\ list # << >> /\ list[1].at = 0
  /\ \A i \in 1 .. Len(list) : End(list[i]) <= HeapSize
  /\ \A i, j \in 1 .. Len(list) : i < j => End(list[i]) <= list[j].at
  /\ \A i \in 1 .. (Len(list) - 1) : list[i + 1].at = End(list[i])
  /\ End(list[Len(list)]) = HeapSize

LEMMA BlockFacts ==
  ASSUME NEW list, Laid(list)
  PROVE  /\ list \in Seq(Block) /\ Len(list) \in Nat \ {0} /\ DOMAIN list = 1 .. Len(list)
         /\ \A i \in 1 .. Len(list) :
              /\ list[i].at \in Nat /\ list[i].size \in Nat /\ list[i].free \in BOOLEAN
              /\ list[i] \in [at : Nat, size : Nat, free : BOOLEAN]
              /\ End(list[i]) \in Nat /\ Data(list[i]) \in Nat
              /\ list[i].at < Data(list[i]) /\ Data(list[i]) <= End(list[i])
              /\ End(list[i]) <= HeapSize
         /\ HeapSize \in Nat /\ Header \in Nat \ {0} /\ Slack \in Nat
<1>1. list \in Seq(Block) /\ list # << >> /\ HeapSize \in Nat /\ Header \in Nat \ {0} /\ Slack \in Nat
  BY HeaderAssumption, SizeAssumption, SlackAssumption DEF Laid
<1>2. Len(list) \in Nat \ {0} /\ DOMAIN list = 1 .. Len(list)
  BY <1>1, LenProperties, EmptySeq
<1>3. ASSUME NEW i \in 1 .. Len(list)
      PROVE  /\ list[i].at \in Nat /\ list[i].size \in Nat /\ list[i].free \in BOOLEAN
             /\ list[i] \in [at : Nat, size : Nat, free : BOOLEAN]
  <2>1. list[i] \in Block
    BY <1>1, ElementOfSeq
  <2>2. QED BY <1>1, <2>1 DEF Block
<1>4. \A i \in 1 .. Len(list) : End(list[i]) <= HeapSize
  BY DEF Laid
<1>5. QED BY <1>1, <1>2, <1>3, <1>4 DEF End, Data

(* A block is known by its place. *)
LEMMA Apart ==
  ASSUME NEW list, Laid(list), NEW i \in 1 .. Len(list), NEW j \in 1 .. Len(list),
         list[i].at = list[j].at
  PROVE  i = j
<1>1. /\ i \in Int /\ j \in Int
      /\ i < j => End(list[i]) <= list[j].at
      /\ j < i => End(list[j]) <= list[i].at
  BY BlockFacts DEF Laid
<1>2. /\ list[i].at \in Nat /\ list[i].at < Data(list[i]) /\ Data(list[i]) <= End(list[i])
      /\ list[j].at \in Nat /\ list[j].at < Data(list[j]) /\ Data(list[j]) <= End(list[j])
      /\ Data(list[i]) \in Nat /\ Data(list[j]) \in Nat
      /\ End(list[i]) \in Nat /\ End(list[j]) \in Nat
  BY BlockFacts
<1>3. QED BY <1>1, <1>2

(* A block is made from numbers that fit. *)
LEMMA Fits ==
  ASSUME NEW a \in Nat, NEW s \in Nat, NEW b \in BOOLEAN, a + Header + s <= HeapSize
  PROVE  [at |-> a, size |-> s, free |-> b] \in Block
<1>1. a \in 0 .. HeapSize /\ s \in 0 .. HeapSize
  BY HeaderAssumption, SizeAssumption
<1>2. QED BY <1>1 DEF Block

LEMMA BlocksThatFit ==
  ASSUME NEW c \in [at : Nat, size : Nat, free : BOOLEAN], c.at + Header + c.size <= HeapSize
  PROVE  c \in Block
<1>1. c.at \in 0 .. HeapSize /\ c.size \in 0 .. HeapSize
  BY HeaderAssumption, SizeAssumption
<1>2. QED BY <1>1 DEF Block

LEMMA ChangedBlocks ==
  ASSUME NEW c \in [at : Nat, size : Nat, free : BOOLEAN], NEW s \in Nat
  PROVE  /\ [c EXCEPT !.free = FALSE] \in [at : Nat, size : Nat, free : BOOLEAN]
         /\ [c EXCEPT !.free = FALSE].at = c.at /\ [c EXCEPT !.free = FALSE].size = c.size
         /\ ~[c EXCEPT !.free = FALSE].free
         /\ [c EXCEPT !.size = s, !.free = FALSE] \in [at : Nat, size : Nat, free : BOOLEAN]
         /\ [c EXCEPT !.size = s, !.free = FALSE].at = c.at
         /\ [c EXCEPT !.size = s, !.free = FALSE].size = s
         /\ ~[c EXCEPT !.size = s, !.free = FALSE].free
OBVIOUS

LEMMA HeapBegins == Heap_Init => Laid(blocks) /\ Len(blocks) = 1 /\ blocks[1].free
<1>. SUFFICES ASSUME Heap_Init PROVE Laid(blocks) /\ Len(blocks) = 1 /\ blocks[1].free
  OBVIOUS
<1>1. HeapSize - Header \in Nat /\ Header \in Nat /\ HeapSize \in Nat
  BY HeaderAssumption, SizeAssumption
<1>2. [at |-> 0, size |-> HeapSize - Header, free |-> TRUE] \in Block
  <2>1. 0 \in Nat /\ TRUE \in BOOLEAN /\ 0 + Header + (HeapSize - Header) <= HeapSize
    BY <1>1
  <2>2. QED BY <1>1, <2>1, Fits
<1>3. PICK b \in Block : b = [at |-> 0, size |-> HeapSize - Header, free |-> TRUE]
  BY <1>2
<1>4. blocks = <<b>> /\ b.at = 0 /\ b.free /\ End(b) = HeapSize
  BY <1>1, <1>3 DEF Heap_Init, End
<1>5. blocks \in Seq(Block) /\ blocks # << >> /\ Len(blocks) = 1 /\ blocks[1] = b
  BY <1>4
<1>6. QED BY <1>1, <1>4, <1>5 DEF Laid

(* What kmalloc leaves: the block taken, and the others as they were.      *)
TakenFrom(list, n, i, size) ==
  /\ \A j \in 1 .. Len(n) : ~n[j].free =>
       \/ n[j].at = list[i].at /\ size <= n[j].size /\ n[j].size <= size + Header + Slack
       \/ \E k \in 1 .. Len(list) : n[j] = list[k]
  /\ \A k \in 1 .. Len(list) : ~list[k].free => \E j \in 1 .. Len(n) : n[j] = list[k]
  /\ \E j \in 1 .. Len(n) : ~n[j].free /\ n[j].at = list[i].at

Unmerged(list, i) == list[i - 1].free /\ list[i].free
AllMerged(list) == \A j \in 2 .. Len(list) : ~Unmerged(list, j)

(* A block that can serve a request, and one whose rest makes a block.     *)
Suits(e, size) == e.free /\ size <= e.size
Worth(e, size) == e.size > size + Header + Slack

LEMMA WholeTaken ==
  ASSUME NEW list, Laid(list), NEW i \in 1 .. Len(list),
         NEW size \in Nat, Suits(list[i], size), ~Worth(list[i], size), AllMerged(list),
         NEW n, n = Taken(list, i, size)
  PROVE  Laid(n) /\ TakenFrom(list, n, i, size) /\ AllMerged(n)
<1>0. /\ list \in Seq(Block) /\ Len(list) \in Nat \ {0}
      /\ list[i].at \in Nat /\ list[i].size \in Nat /\ End(list[i]) \in Nat
      /\ Header \in Nat \ {0} /\ Slack \in Nat /\ HeapSize \in Nat
      /\ list[i] \in [at : Nat, size : Nat, free : BOOLEAN]
      /\ End(list[i]) <= HeapSize
  BY BlockFacts
<1>1. PICK b \in [at : Nat, size : Nat, free : BOOLEAN] :
        /\ b = [list[i] EXCEPT !.free = FALSE]
        /\ b.at = list[i].at /\ b.size = list[i].size /\ ~b.free
  <2>1. list[i] \in [at : Nat, size : Nat, free : BOOLEAN]
    BY <1>0
  <2>2. QED BY <2>1, ChangedBlocks
<1>2. Split(list[i], size) = <<b>> /\ End(b) = End(list[i])
  <2>1. End(b) = End(list[i])
    BY <1>1 DEF End
  <2>2. Split(list[i], size) = <<[list[i] EXCEPT !.free = FALSE]>>
    BY DEF Split, Worth
  <2>3. QED BY <1>1, <2>1, <2>2
<1>3. b \in Block
  <2>1. b.at + Header + b.size <= HeapSize
    BY <1>0, <1>2 DEF End
  <2>2. QED BY <2>1, BlocksThatFit
<1>4. n \in Seq(Block) /\ IsSplice(n, list, i, <<b>>, Len(<<b>>))
  <2>1. n = Splice(list, i, <<b>>)
    BY <1>2 DEF Taken, Splice
  <2>2. PICK mid : mid = <<b>>
    OBVIOUS
  <2>3. mid \in Seq(Block)
    BY <1>3, <2>2
  <2>4. list \in Seq(Block)
    BY <1>0
  <2>5. Splice(list, i, mid) \in Seq(Block) /\ IsSplice(Splice(list, i, mid), list, i, mid, Len(mid))
    BY <2>3, <2>4, Spliced, Zenon
  <2>6. QED BY <2>1, <2>2, <2>5
<1>5. /\ n \in Seq(Block) /\ Len(n) = Len(list)
      /\ \A j \in 1 .. Len(n) : n[j] = IF j = i THEN b ELSE list[j]
  <2>0. PICK mid : mid = <<b>>
    OBVIOUS
  <2>1. Len(mid) = 1 /\ mid[1] = b
    BY <2>0
  <2>2. IsSplice(n, list, i, mid, 1)
    BY <1>4, <2>0, <2>1, Zenon
  <2>3. PICK len \in Nat : len = Len(list)
    BY <1>0
  <2>4. Len(n) = len /\ i \in Nat
    BY <2>2, <2>3 DEF IsSplice
  <2>5. ASSUME NEW j \in 1 .. Len(n) PROVE n[j] = IF j = i THEN b ELSE list[j]
    <3>1. n[j] = IF j < i THEN list[j]
                 ELSE IF j < i + 1 THEN mid[j - i + 1] ELSE list[j - 1 + 1]
      BY <2>2 DEF IsSplice
    <3>2. j \in Nat /\ j - 1 + 1 = j /\ (j = i => j - i + 1 = 1)
          /\ (j = i => ~(j < i) /\ j < i + 1) /\ (j < i \/ j = i \/ ~(j < i + 1))
      BY <2>4
    <3>3. QED BY <2>1, <3>1, <3>2
  <2>6. QED BY <1>4, <2>3, <2>4, <2>5
<1>6. \A j \in 1 .. Len(n) : n[j].at = list[j].at /\ End(n[j]) = End(list[j])
                             /\ (n[j].free => list[j].free)
  <2>1. b.at = list[i].at /\ ~b.free
    BY <1>1
  <2>2. ASSUME NEW j \in 1 .. Len(n)
        PROVE  n[j].at = list[j].at /\ End(n[j]) = End(list[j]) /\ (n[j].free => list[j].free)
    <3>1. CASE j = i
      BY <1>2, <1>5, <2>1, <3>1
    <3>2. CASE j # i
      BY <1>5, <3>2
    <3>3. QED BY <3>1, <3>2
  <2>3. QED BY <2>2
<1>7. Laid(n)
  <2>1. 1 \in 1 .. Len(n) /\ Len(n) \in 1 .. Len(n) /\ n # << >>
        /\ \A j \in 1 .. (Len(n) - 1) : j \in 1 .. Len(n) /\ j + 1 \in 1 .. Len(n)
    BY <1>0, <1>5
  <2>2. /\ list[1].at = 0
        /\ \A j \in 1 .. Len(list) : End(list[j]) <= HeapSize
        /\ \A j, k \in 1 .. Len(list) : j < k => End(list[j]) <= list[k].at
        /\ \A j \in 1 .. (Len(list) - 1) : list[j + 1].at = End(list[j])
        /\ End(list[Len(list)]) = HeapSize
    BY DEF Laid
  <2>3. QED BY <1>5, <1>6, <2>1, <2>2 DEF Laid
<1>8. TakenFrom(list, n, i, size)
  <2>1. n[i].at = list[i].at /\ ~n[i].free /\ n[i].size = list[i].size /\ i \in 1 .. Len(n)
    BY <1>1, <1>5
  <2>2. \A j \in 1 .. Len(n) : ~n[j].free =>
          \/ n[j].at = list[i].at /\ size <= n[j].size /\ n[j].size <= size + Header + Slack
          \/ \E k \in 1 .. Len(list) : n[j] = list[k]
    <3>1. size <= list[i].size /\ list[i].size <= size + Header + Slack
      BY <1>0 DEF Suits, Worth
    <3>2. \A j \in 1 .. Len(n) : j = i \/ \E k \in 1 .. Len(list) : n[j] = list[k]
      BY <1>5
    <3>3. QED BY <2>1, <3>1, <3>2, Zenon
  <2>3. ASSUME NEW k \in 1 .. Len(list), ~list[k].free PROVE \E j \in 1 .. Len(n) : n[j] = list[k]
    <3>1. k # i /\ k \in 1 .. Len(n)
      BY <1>5, <2>3 DEF Suits
    <3>2. n[k] = list[k]
      BY <1>5, <3>1
    <3>3. QED BY <3>1, <3>2
  <2>4. QED BY <2>1, <2>2, <2>3 DEF TakenFrom
<1>9. AllMerged(n)
  <2>1. \A j \in 2 .. Len(n) : j \in 1 .. Len(n) /\ j - 1 \in 1 .. Len(n) /\ j \in 2 .. Len(list)
    BY <1>0, <1>5
  <2>2. QED BY <1>6, <2>1 DEF AllMerged, Unmerged
<1>10. QED BY <1>7, <1>8, <1>9

(* A block cut in two: the one in use, and its rest. *)
Halves(e, b, c, size) ==
  /\ b \in Block /\ c \in Block /\ ~b.free /\ c.free
  /\ b.at = e.at /\ b.size = size /\ c.size = e.size - size - Header
  /\ c.at = End(b) /\ End(c) = End(e)
  /\ e.at \in Nat /\ End(b) \in Nat /\ End(e) \in Nat /\ e.at < End(b) /\ End(b) < End(e)

LEMMA Halved ==
  ASSUME NEW e \in [at : Nat, size : Nat, free : BOOLEAN], NEW size \in Nat,
         Worth(e, size), End(e) <= HeapSize
  PROVE  \E b, c : Split(e, size) = <<b, c>> /\ Halves(e, b, c, size)
<1>1. PICK a, s, h \in Nat : a = e.at /\ s = e.size /\ h = Header /\ a \in Nat /\ s \in Nat
  BY HeaderAssumption
<1>2. s > size + h /\ Slack \in Nat /\ HeapSize \in Nat /\ h # 0
  BY <1>1, SlackAssumption, SizeAssumption, HeaderAssumption DEF Worth
<1>3. PICK x, y \in Nat : x = a + h + size /\ y = s - size - h /\ x \in Nat
  BY <1>1, <1>2
<1>4. a < x /\ x < a + h + s /\ x + h + y = a + h + s
  BY <1>1, <1>2, <1>3
<1>5. PICK b \in [at : Nat, size : Nat, free : BOOLEAN] :
        /\ b = [e EXCEPT !.size = size, !.free = FALSE]
        /\ b.at = e.at /\ b.size = size /\ ~b.free
  BY ChangedBlocks
<1>6. PICK c : c = [at |-> x, size |-> y, free |-> TRUE]
  OBVIOUS
<1>7. c \in [at : Nat, size : Nat, free : BOOLEAN] /\ c.at = x /\ c.size = y /\ c.free = TRUE
  BY <1>3, <1>6
<1>8. End(b) = x /\ End(c) = x + h + y /\ End(e) = a + h + s
  BY <1>1, <1>3, <1>5, <1>7 DEF End
<1>9. Split(e, size) = <<b, c>>
  BY <1>1, <1>3, <1>5, <1>6 DEF Split, Worth
<1>10. b \in Block /\ c \in Block
  <2>1. a + h + s <= HeapSize /\ x <= HeapSize
    BY <1>1, <1>2, <1>3, <1>4, <1>8
  <2>2. b.at + Header + b.size <= HeapSize
    BY <1>8, <2>1 DEF End
  <2>3. c.at + Header + c.size <= HeapSize
    BY <1>4, <1>8, <2>1 DEF End
  <2>4. QED BY <1>7, <2>2, <2>3, BlocksThatFit
<1>11. a + h + s \in Nat
  BY <1>1
<1>12. Halves(e, b, c, size)
  BY <1>1, <1>3, <1>4, <1>5, <1>7, <1>8, <1>10, <1>11 DEF Halves
<1>13. QED BY <1>9, <1>12

(* Two blocks in the place of one. *)
IsPart(n, list, i, b, c) ==
  /\ n \in Seq(Block) /\ Len(n) = Len(list) + 1
  /\ \A j \in 1 .. Len(n) :
       n[j] = IF j < i THEN list[j] ELSE IF j = i THEN b ELSE IF j = i + 1 THEN c ELSE list[j - 1]

LEMMA PartInserted ==
  ASSUME NEW list \in Seq(Block), NEW i \in 1 .. Len(list), NEW b \in Block, NEW c \in Block,
         NEW n, n = Splice(list, i, <<b, c>>)
  PROVE  IsPart(n, list, i, b, c)
<1>1. PICK mid : mid = <<b, c>>
  OBVIOUS
<1>2. mid \in Seq(Block) /\ Len(mid) = 2 /\ mid[1] = b /\ mid[2] = c
  BY <1>1
<1>3. n \in Seq(Block) /\ IsSplice(n, list, i, mid, Len(mid))
  <2>1. Splice(list, i, mid) \in Seq(Block)
        /\ IsSplice(Splice(list, i, mid), list, i, mid, Len(mid))
    BY <1>2, Spliced, Zenon
  <2>2. QED BY <1>1, <2>1
<1>4. IsSplice(n, list, i, mid, 2)
  BY <1>2, <1>3, Zenon
<1>5. PICK len \in Nat : len = Len(list)
  BY LenProperties
<1>6. Len(n) = len + 1 /\ i \in Nat
  BY <1>4, <1>5 DEF IsSplice
<1>7. ASSUME NEW j \in 1 .. Len(n)
      PROVE  n[j] = IF j < i THEN list[j] ELSE IF j = i THEN b ELSE IF j = i + 1 THEN c ELSE list[j - 1]
  <2>1. n[j] = IF j < i THEN list[j]
               ELSE IF j < i + 2 THEN mid[j - i + 1] ELSE list[j - 2 + 1]
    BY <1>4 DEF IsSplice
  <2>2. /\ j \in Nat /\ j - 2 + 1 = j - 1 /\ (j = i => j - i + 1 = 1)
        /\ (j = i + 1 => j - i + 1 = 2)
        /\ (~(j < i) /\ j < i + 2 => j = i \/ j = i + 1)
        /\ (j = i \/ j = i + 1 => ~(j < i) /\ j < i + 2)
    BY <1>6
  <2>3. QED BY <1>2, <2>1, <2>2
<1>8. QED BY <1>3, <1>5, <1>6, <1>7 DEF IsPart

LEMMA PartPlaces ==
  ASSUME NEW list \in Seq(Block), NEW i \in 1 .. Len(list), NEW n, NEW b, NEW c,
         IsPart(n, list, i, b, c)
  PROVE  /\ Len(list) \in Nat \ {0} /\ Len(n) = Len(list) + 1 /\ i \in Nat /\ n # << >>
         /\ i \in 1 .. Len(n) /\ i + 1 \in 1 .. Len(n) /\ n[i] = b /\ n[i + 1] = c
         /\ \A j \in 1 .. Len(n) : j \in Nat /\ (j < i \/ j = i \/ j = i + 1 \/ i + 1 < j)
         /\ \A j \in 1 .. Len(n) : j < i => n[j] = list[j] /\ j \in 1 .. Len(list)
         /\ \A j \in 1 .. Len(n) : i + 1 < j =>
              n[j] = list[j - 1] /\ j - 1 \in 1 .. Len(list) /\ i < j - 1
<1>1. PICK len \in Nat : len = Len(list)
  BY LenProperties
<1>2. i \in Nat /\ 1 <= i /\ i <= len /\ len \in Nat \ {0}
  BY <1>1
<1>3. Len(n) = len + 1 /\ n \in Seq(Block)
  BY <1>1 DEF IsPart
<1>4. i \in 1 .. Len(n) /\ i + 1 \in 1 .. Len(n) /\ n # << >>
  BY <1>2, <1>3
<1>5. n[i] = b /\ n[i + 1] = c
  <2>1. ~(i < i) /\ ~(i + 1 < i) /\ i + 1 # i
    BY <1>2
  <2>2. QED BY <1>4, <2>1 DEF IsPart
<1>6. ASSUME NEW j \in 1 .. Len(n)
      PROVE  j \in Nat /\ 1 <= j /\ j <= len + 1 /\ (j < i \/ j = i \/ j = i + 1 \/ i + 1 < j)
  BY <1>2, <1>3
<1>7. ASSUME NEW j \in 1 .. Len(n), j < i PROVE n[j] = list[j] /\ j \in 1 .. Len(list)
  <2>1. n[j] = list[j]
    BY <1>7 DEF IsPart
  <2>2. j \in 1 .. len
    BY <1>2, <1>6, <1>7
  <2>3. QED BY <1>1, <2>1, <2>2
<1>8. ASSUME NEW j \in 1 .. Len(n), i + 1 < j
      PROVE  n[j] = list[j - 1] /\ j - 1 \in 1 .. Len(list) /\ i < j - 1
  <2>1. ~(j < i) /\ j # i /\ j # i + 1 /\ j - 1 \in 1 .. len /\ i < j - 1
    BY <1>2, <1>6, <1>8
  <2>2. n[j] = list[j - 1]
    BY <2>1 DEF IsPart
  <2>3. QED BY <1>1, <2>1, <2>2
<1>9. QED BY <1>1, <1>2, <1>3, <1>4, <1>5, <1>6, <1>7, <1>8

LEMMA PartLaid ==
  ASSUME NEW list, Laid(list), NEW i \in 1 .. Len(list), NEW size,
         NEW n, NEW b, NEW c, IsPart(n, list, i, b, c), Halves(list[i], b, c, size)
  PROVE  Laid(n)
<1>1. PICK len \in Nat \ {0} : len = Len(list)
  BY BlockFacts
<1>2. /\ Len(n) = len + 1 /\ i \in Nat /\ n # << >> /\ i \in 1 .. len
      /\ i \in 1 .. Len(n) /\ i + 1 \in 1 .. Len(n) /\ n[i] = b /\ n[i + 1] = c
      /\ \A j \in 1 .. Len(n) : j \in Nat /\ (j < i \/ j = i \/ j = i + 1 \/ i + 1 < j)
      /\ \A j \in 1 .. Len(n) : j < i => n[j] = list[j] /\ j \in 1 .. len
      /\ \A j \in 1 .. Len(n) : i + 1 < j => n[j] = list[j - 1] /\ j - 1 \in 1 .. len /\ i < j - 1
  <2>1. list \in Seq(Block)
    BY BlockFacts
  <2>2. QED BY <1>1, <2>1, PartPlaces
<1>3. /\ list[1].at = 0 /\ End(list[len]) = HeapSize /\ HeapSize \in Nat
      /\ \A j \in 1 .. len : End(list[j]) <= HeapSize /\ End(list[j]) \in Nat /\ list[j].at \in Nat
      /\ \A j, k \in 1 .. len : j < k => End(list[j]) <= list[k].at
      /\ \A j \in 1 .. (len - 1) : list[j + 1].at = End(list[j])
  BY <1>1, BlockFacts DEF Laid
<1>4. /\ b.at = list[i].at /\ c.at = End(b) /\ End(c) = End(list[i])
      /\ End(b) \in Nat /\ End(b) < End(list[i]) /\ list[i].at < End(b)
  BY DEF Halves
<1>5. ASSUME NEW j \in 1 .. Len(n) PROVE End(n[j]) <= HeapSize
  <2>1. CASE j < i \/ i + 1 < j
    BY <1>2, <1>3, <2>1
  <2>2. CASE j = i \/ j = i + 1
    <3>1. End(list[i]) \in Nat /\ End(list[i]) <= HeapSize
      BY <1>2, <1>3
    <3>2. End(b) <= HeapSize /\ End(c) <= HeapSize
      BY <1>3, <1>4, <3>1
    <3>3. QED BY <1>2, <2>2, <3>2
  <2>3. QED BY <1>2, <2>1, <2>2
<1>6. ASSUME NEW j \in 1 .. Len(n), NEW k \in 1 .. Len(n), j < k
      PROVE  End(n[j]) <= n[k].at
  <2>0. j \in Nat /\ k \in Nat
    BY <1>2
  <2>1. CASE k < i
    <3>1. j < i
      BY <1>2, <1>6, <2>0, <2>1
    <3>2. QED BY <1>2, <1>3, <1>6, <2>1, <3>1
  <2>2. CASE k = i
    <3>1. j < i
      BY <1>6, <2>2
    <3>2. End(list[j]) <= list[i].at /\ n[j] = list[j]
      BY <1>2, <1>3, <3>1
    <3>3. QED BY <1>2, <1>4, <2>2, <3>2
  <2>3. CASE k = i + 1
    <3>1. CASE j < i
      <4>1. End(list[j]) <= list[i].at /\ n[j] = list[j] /\ End(list[j]) \in Nat /\ list[i].at \in Nat
        BY <1>2, <1>3, <3>1
      <4>2. End(list[j]) <= End(b)
        BY <1>4, <4>1
      <4>3. QED BY <1>2, <1>4, <2>3, <4>1, <4>2
    <3>2. CASE j = i
      <4>1. End(b) <= c.at
        BY <1>4
      <4>2. QED BY <1>2, <2>3, <3>2, <4>1
    <3>3. j < i \/ j = i
      BY <1>2, <1>6, <2>0, <2>3
    <3>4. QED BY <3>1, <3>2, <3>3
  <2>4. CASE i + 1 < k
    <3>1. n[k] = list[k - 1] /\ k - 1 \in 1 .. len /\ i < k - 1
      BY <1>2, <2>4
    <3>2. End(list[i]) <= list[k - 1].at /\ list[k - 1].at \in Nat /\ End(list[i]) \in Nat
      BY <1>2, <1>3, <3>1
    <3>3. CASE j < i
      <4>1. n[j] = list[j] /\ j \in 1 .. len /\ j < k - 1
        BY <1>2, <2>0, <3>1, <3>3
      <4>2. QED BY <1>3, <3>1, <4>1
    <3>4. CASE j = i
      <4>1. End(b) <= list[k - 1].at
        BY <1>4, <3>2
      <4>2. QED BY <1>2, <3>1, <3>4, <4>1
    <3>5. CASE j = i + 1
      BY <1>2, <1>4, <3>1, <3>2, <3>5
    <3>6. CASE i + 1 < j
      <4>1. n[j] = list[j - 1] /\ j - 1 \in 1 .. len /\ j - 1 < k - 1
        BY <1>2, <1>6, <2>0, <3>6
      <4>2. QED BY <1>3, <3>1, <4>1
    <3>7. QED BY <1>2, <3>3, <3>4, <3>5, <3>6
  <2>5. QED BY <1>2, <2>1, <2>2, <2>3, <2>4
<1>7. ASSUME NEW j \in 1 .. (Len(n) - 1) PROVE n[j + 1].at = End(n[j])
  <2>1. j \in 1 .. Len(n) /\ j + 1 \in 1 .. Len(n) /\ j \in Nat /\ j <= len
    BY <1>2
  <2>2. CASE j + 1 < i
    <3>1. j < i /\ j \in 1 .. (len - 1)
      BY <1>2, <2>1, <2>2
    <3>2. QED BY <1>2, <1>3, <2>1, <2>2, <3>1
  <2>3. CASE j + 1 = i
    <3>1. j < i /\ j \in 1 .. (len - 1)
      BY <1>2, <2>1, <2>3
    <3>2. n[j] = list[j] /\ list[j + 1].at = End(list[j])
      BY <1>2, <1>3, <2>1, <3>1
    <3>3. QED BY <1>2, <1>4, <2>3, <3>2
  <2>4. CASE j = i
    BY <1>2, <1>4, <2>4
  <2>5. CASE j = i + 1
    <3>1. i + 1 < j + 1 /\ i \in 1 .. (len - 1) /\ (j + 1) - 1 = i + 1
      BY <1>2, <2>1, <2>5
    <3>2. n[j + 1] = list[i + 1] /\ list[i + 1].at = End(list[i]) /\ n[j] = c
      BY <1>2, <1>3, <2>1, <2>5, <3>1
    <3>3. QED BY <1>4, <3>2
  <2>6. CASE i + 1 < j
    <3>1. (j - 1) \in 1 .. (len - 1) /\ (j - 1) + 1 = j /\ (j + 1) - 1 = j /\ i + 1 < j + 1
      BY <1>2, <2>1, <2>6
    <3>2. n[j + 1] = list[j] /\ n[j] = list[j - 1]
      BY <1>2, <2>1, <2>6, <3>1
    <3>3. QED BY <1>3, <3>1, <3>2
  <2>7. j + 1 < i \/ j + 1 = i \/ j = i \/ j = i + 1 \/ i + 1 < j
    BY <1>2, <2>1
  <2>8. QED BY <2>2, <2>3, <2>4, <2>5, <2>6, <2>7
<1>8. n[1].at = 0
  <2>1. 1 \in 1 .. Len(n) /\ (i = 1 \/ 1 < i)
    BY <1>2
  <2>2. CASE i = 1
    BY <1>2, <1>3, <1>4, <2>2
  <2>3. CASE 1 < i
    BY <1>2, <1>3, <2>1, <2>3
  <2>4. QED BY <2>1, <2>2, <2>3
<1>9. End(n[Len(n)]) = HeapSize
  <2>1. Len(n) \in 1 .. Len(n) /\ Len(n) - 1 = len
    BY <1>2
  <2>2. CASE i = len
    BY <1>2, <1>3, <1>4, <2>2
  <2>3. CASE i # len
    <3>1. i + 1 < Len(n)
      BY <1>2, <2>3
    <3>2. n[Len(n)] = list[Len(n) - 1]
      BY <1>2, <2>1, <3>1
    <3>3. QED BY <1>3, <2>1, <3>2
  <2>4. QED BY <2>2, <2>3
<1>10. n \in Seq(Block)
  BY DEF IsPart
<1>11. QED BY <1>2, <1>5, <1>6, <1>7, <1>8, <1>9, <1>10 DEF Laid

LEMMA PartServes ==
  ASSUME NEW list \in Seq(Block), NEW i \in 1 .. Len(list), NEW size \in Nat, Suits(list[i], size),
         NEW n, NEW b, NEW c, IsPart(n, list, i, b, c), Halves(list[i], b, c, size)
  PROVE  TakenFrom(list, n, i, size)
<1>1. PICK len \in Nat \ {0} : len = Len(list)
  BY PartPlaces
<1>2. /\ Len(n) = len + 1 /\ i \in 1 .. len /\ i \in Nat
      /\ i \in 1 .. Len(n) /\ i + 1 \in 1 .. Len(n) /\ n[i] = b /\ n[i + 1] = c
      /\ \A j \in 1 .. Len(n) : j \in Nat /\ (j < i \/ j = i \/ j = i + 1 \/ i + 1 < j)
      /\ \A j \in 1 .. Len(n) : j < i => n[j] = list[j] /\ j \in 1 .. len
      /\ \A j \in 1 .. Len(n) : i + 1 < j => n[j] = list[j - 1] /\ j - 1 \in 1 .. len /\ i < j - 1
  BY <1>1, PartPlaces
<1>3. b.at = list[i].at /\ b.size = size /\ ~b.free /\ c.free
  BY DEF Halves
<1>4. ASSUME NEW j \in 1 .. Len(n), ~n[j].free
      PROVE  \/ n[j].at = list[i].at /\ size <= n[j].size /\ n[j].size <= size + Header + Slack
             \/ \E k \in 1 .. Len(list) : n[j] = list[k]
  <2>1. size <= size /\ size <= size + Header + Slack
    BY HeaderAssumption, SlackAssumption
  <2>2. CASE j = i
    BY <1>2, <1>3, <2>1, <2>2
  <2>3. j # i + 1
    BY <1>2, <1>3, <1>4
  <2>4. CASE j < i \/ i + 1 < j
    <3>1. \E k \in 1 .. len : n[j] = list[k]
      BY <1>2, <2>4
    <3>2. QED BY <1>1, <3>1
  <2>5. QED BY <1>2, <2>2, <2>3, <2>4
<1>5. ASSUME NEW k \in 1 .. Len(list), ~list[k].free PROVE \E j \in 1 .. Len(n) : n[j] = list[k]
  <2>1. k # i
    BY <1>5 DEF Suits
  <2>2. k \in Nat /\ k \in 1 .. Len(n) /\ k + 1 \in 1 .. Len(n) /\ (k + 1) - 1 = k /\ (k < i \/ i < k)
    BY <1>1, <1>2, <2>1
  <2>3. CASE k < i
    BY <1>2, <2>2, <2>3
  <2>4. CASE i < k
    <3>1. i + 1 < k + 1
      BY <1>2, <2>2, <2>4
    <3>2. n[k + 1] = list[(k + 1) - 1]
      BY <1>2, <2>2, <3>1
    <3>3. QED BY <2>2, <3>2
  <2>5. QED BY <2>2, <2>3, <2>4
<1>6. \E j \in 1 .. Len(n) : ~n[j].free /\ n[j].at = list[i].at
  BY <1>2, <1>3
<1>7. QED BY <1>4, <1>5, <1>6 DEF TakenFrom

LEMMA PartMerged ==
  ASSUME NEW list \in Seq(Block), NEW i \in 1 .. Len(list), NEW size, Suits(list[i], size),
         AllMerged(list),
         NEW n, NEW b, NEW c, IsPart(n, list, i, b, c), Halves(list[i], b, c, size)
  PROVE  AllMerged(n)
<1>1. PICK len \in Nat \ {0} : len = Len(list)
  BY PartPlaces
<1>2. /\ Len(n) = len + 1 /\ i \in Nat /\ n[i] = b /\ n[i + 1] = c
      /\ \A j \in 1 .. Len(n) : j \in Nat /\ (j < i \/ j = i \/ j = i + 1 \/ i + 1 < j)
      /\ \A j \in 1 .. Len(n) : j < i => n[j] = list[j] /\ j \in 1 .. len
      /\ \A j \in 1 .. Len(n) : i + 1 < j => n[j] = list[j - 1] /\ j - 1 \in 1 .. len /\ i < j - 1
  BY <1>1, PartPlaces
<1>3. \A j \in 2 .. len : ~(list[j - 1].free /\ list[j].free)
  BY <1>1 DEF AllMerged, Unmerged
<1>4. list[i].free /\ ~b.free
  BY DEF Suits, Halves
<1>5. ASSUME NEW j \in 2 .. Len(n) PROVE ~(n[j - 1].free /\ n[j].free)
  <2>1. j \in 1 .. Len(n) /\ j - 1 \in 1 .. Len(n) /\ j \in Nat
    BY <1>2
  <2>2. CASE j < i
    <3>1. j - 1 < i /\ j \in 2 .. len
      BY <1>2, <2>1, <2>2
    <3>2. n[j] = list[j] /\ n[j - 1] = list[j - 1]
      BY <1>2, <2>1, <2>2, <3>1
    <3>3. QED BY <1>3, <3>1, <3>2
  <2>3. CASE j = i
    BY <1>2, <1>4, <2>3
  <2>4. CASE j = i + 1
    <3>1. j - 1 = i
      BY <1>2, <2>4
    <3>2. QED BY <1>2, <1>4, <3>1
  <2>5. CASE j = i + 2
    <3>1. i + 1 < j /\ j - 1 = i + 1 /\ i + 1 \in 2 .. len /\ (i + 1) - 1 = i
      BY <1>2, <2>1, <2>5
    <3>2. n[j] = list[i + 1]
      BY <1>2, <2>1, <3>1
    <3>3. QED BY <1>3, <1>4, <3>1, <3>2
  <2>6. CASE i + 2 < j
    <3>1. i + 1 < j /\ i + 1 < j - 1 /\ j - 1 \in 2 .. len
      BY <1>2, <2>1, <2>6
    <3>2. n[j] = list[j - 1] /\ n[j - 1] = list[(j - 1) - 1]
      BY <1>2, <2>1, <3>1
    <3>3. QED BY <1>3, <3>1, <3>2
  <2>7. j < i \/ j = i \/ j = i + 1 \/ j = i + 2 \/ i + 2 < j
    BY <1>2, <2>1
  <2>8. QED BY <2>2, <2>3, <2>4, <2>5, <2>6, <2>7
<1>6. QED BY <1>5 DEF AllMerged, Unmerged

(* A request served by a part of block i, whose rest comes behind it.      *)
LEMMA PartTaken ==
  ASSUME NEW list, Laid(list), NEW i \in 1 .. Len(list), NEW size \in Nat,
         Suits(list[i], size), Worth(list[i], size), AllMerged(list),
         NEW n, n = Taken(list, i, size)
  PROVE  /\ Laid(n) /\ TakenFrom(list, n, i, size) /\ AllMerged(n)
         /\ Len(n) = Len(list) + 1 /\ \A j \in 1 .. (i - 1) : n[j] = list[j]
         /\ ~n[i].free /\ n[i + 1].free /\ n[i + 1].size = list[i].size - size - Header
<1>1. /\ list \in Seq(Block) /\ list[i] \in [at : Nat, size : Nat, free : BOOLEAN]
      /\ End(list[i]) <= HeapSize
  BY BlockFacts
<1>2. PICK b, c : Split(list[i], size) = <<b, c>> /\ Halves(list[i], b, c, size)
  BY <1>1, Halved
<1>3. n = Splice(list, i, <<b, c>>)
  BY <1>2 DEF Taken, Splice
<1>4. IsPart(n, list, i, b, c)
  <2>1. b \in Block /\ c \in Block
    BY <1>2 DEF Halves
  <2>2. QED BY <1>1, <1>3, <2>1, PartInserted
<1>5. Laid(n)
  BY <1>2, <1>4, PartLaid
<1>6. TakenFrom(list, n, i, size)
  BY <1>1, <1>2, <1>4, PartServes
<1>7. AllMerged(n)
  BY <1>1, <1>2, <1>4, PartMerged
<1>8. /\ Len(n) = Len(list) + 1 /\ n[i] = b /\ n[i + 1] = c
      /\ \A j \in 1 .. (i - 1) : n[j] = list[j]
  <2>1. /\ Len(list) \in Nat /\ Len(n) = Len(list) + 1 /\ i \in Nat /\ i \in 1 .. Len(n)
        /\ n[i] = b /\ n[i + 1] = c
        /\ \A j \in 1 .. Len(n) : j < i => n[j] = list[j]
    <3>1. list \in Seq(Block)
      BY <1>1
    <3>2. QED BY <1>4, <3>1, PartPlaces
  <2>2. \A j \in 1 .. (i - 1) : j \in 1 .. Len(n) /\ j < i
    BY <2>1
  <2>3. QED BY <2>1, <2>2
<1>9. ~b.free /\ c.free /\ c.size = list[i].size - size - Header
  BY <1>2 DEF Halves
<1>10. QED BY <1>5, <1>6, <1>7, <1>8, <1>9

LEMMA GrownBlocks ==
  ASSUME NEW c \in [at : Nat, size : Nat, free : BOOLEAN], NEW s \in Nat, c.free
  PROVE  /\ [c EXCEPT !.size = s] \in [at : Nat, size : Nat, free : BOOLEAN]
         /\ [c EXCEPT !.size = s].at = c.at /\ [c EXCEPT !.size = s].size = s
         /\ [c EXCEPT !.size = s].free
OBVIOUS

(* What the pass of kfree leaves: two neighbours have become one.          *)
LEMMA PairMerged ==
  ASSUME Laid(blocks), Mergeable, current \in 0 .. Len(blocks), NEW n, n = Merged
  PROVE  /\ Laid(n) /\ Len(n) = Len(blocks) - 1
         /\ \A j \in 1 .. Len(n) : j # current =>
              n[j] = blocks[IF j < current THEN j ELSE j + 1]
         /\ n[current].free /\ current \in 1 .. Len(n)
<1>0. /\ blocks \in Seq(Block) /\ Len(blocks) \in Nat \ {0} /\ HeapSize \in Nat /\ Header \in Nat \ {0}
      /\ current \in 1 .. Len(blocks) /\ current + 1 \in 1 .. Len(blocks) /\ current \in Nat
      /\ blocks[current].free /\ blocks[current + 1].free
  <2>1. Len(blocks) \in Nat \ {0} /\ blocks \in Seq(Block) /\ HeapSize \in Nat /\ Header \in Nat \ {0}
    BY BlockFacts
  <2>2. current # 0 /\ current < Len(blocks) /\ blocks[current].free /\ blocks[current + 1].free
    BY DEF Mergeable
  <2>3. QED BY <2>1, <2>2
<1>1. PICK p, q, len : len \in Nat \ {0} /\ p = blocks[current] /\ q = blocks[current + 1] /\ len = Len(blocks)
  BY <1>0
<1>2. /\ p \in [at : Nat, size : Nat, free : BOOLEAN] /\ q \in [at : Nat, size : Nat, free : BOOLEAN]
      /\ p.free /\ q.free /\ q.at = p.at + Header + p.size /\ q.at + Header + q.size <= HeapSize
  <2>1. p \in [at : Nat, size : Nat, free : BOOLEAN] /\ q \in [at : Nat, size : Nat, free : BOOLEAN]
    BY <1>0, <1>1, BlockFacts
  <2>2. blocks[current + 1].at = End(blocks[current]) /\ End(blocks[current + 1]) <= HeapSize
    <3>1. current \in 1 .. (Len(blocks) - 1)
      BY <1>0
    <3>2. QED BY <1>0, <3>1 DEF Laid
  <2>3. QED BY <1>0, <1>1, <2>1, <2>2 DEF End
<1>3. PICK size \in Nat : size = p.size + q.size + Header
  BY <1>0, <1>2
<1>4. PICK m \in [at : Nat, size : Nat, free : BOOLEAN] :
        m = [p EXCEPT !.size = size] /\ m.at = p.at /\ m.size = size /\ m.free
  BY <1>2, <1>3, GrownBlocks
<1>5. m \in Block /\ End(m) = End(q) /\ m.free
  <2>1. m.at + Header + m.size = q.at + Header + q.size
    <3>1. PICK h \in Nat, x \in Nat, y \in Nat, z \in Nat :
            h = Header /\ x = p.at /\ y = p.size /\ z = q.size
      BY <1>0, <1>2
    <3>2. m.at = x /\ m.size = y + z + h /\ q.at = x + h + y /\ q.size = z
      BY <1>2, <1>3, <1>4, <3>1
    <3>3. x + h + (y + z + h) = (x + h + y) + h + z
      OBVIOUS
    <3>4. QED BY <3>1, <3>2, <3>3
  <2>2. m \in Block
    BY <1>2, <2>1, BlocksThatFit
  <2>3. QED BY <1>2, <1>4, <2>1, <2>2 DEF End
<1>6. PICK list : list = [blocks EXCEPT ![current] = m]
  OBVIOUS
<1>7. list \in Seq(Block) /\ Len(list) = len /\ \A j \in 1 .. len : list[j] = IF j = current THEN m ELSE blocks[j]
  <2>1. blocks \in Seq(Block) /\ m \in Block /\ current \in 1 .. Len(blocks)
    BY <1>0, <1>5
  <2>2. QED BY <1>1, <1>6, <2>1, ExceptSeq
<1>8. n = RemoveAt(list, current + 1)
  <2>1. [blocks EXCEPT ![current].size = @ + blocks[current + 1].size + Header] = list
    BY <1>1, <1>3, <1>4, <1>6
  <2>2. QED BY <2>1 DEF Merged
<1>9. /\ n \in Seq(Block) /\ Len(n) = len - 1
      /\ \A j \in 1 .. Len(n) : n[j] = IF j < current + 1 THEN list[j] ELSE list[j + 1]
  <2>1. list \in Seq(Block) /\ current + 1 \in 1 .. Len(list)
    BY <1>0, <1>1, <1>7
  <2>2. QED BY <1>7, <1>8, <2>1, Removed
<1>10. /\ current \in 1 .. Len(n) /\ n[current] = m
       /\ \A j \in 1 .. Len(n) : j < current => n[j] = blocks[j] /\ j \in 1 .. len
       /\ \A j \in 1 .. Len(n) : current < j => n[j] = blocks[j + 1] /\ j + 1 \in 1 .. len
       /\ \A j \in 1 .. Len(n) : j \in Int /\ (j < current \/ j = current \/ current < j)
  <2>1. current \in 1 .. Len(n) /\ n[current] = m
    BY <1>0, <1>1, <1>7, <1>9
  <2>2. ASSUME NEW j \in 1 .. Len(n), j < current PROVE n[j] = blocks[j] /\ j \in 1 .. len
    <3>1. j \in 1 .. len /\ j < current + 1 /\ j # current
      <4>1. j \in 1 .. (len - 1) /\ len \in Nat /\ current \in Nat
        BY <1>0, <1>1, <1>9
      <4>2. QED BY <2>2, <4>1
    <3>2. QED BY <1>7, <1>9, <3>1
  <2>3. ASSUME NEW j \in 1 .. Len(n), current < j PROVE n[j] = blocks[j + 1] /\ j + 1 \in 1 .. len
    <3>1. j + 1 \in 1 .. len /\ ~(j < current + 1) /\ j + 1 # current
      <4>1. j \in 1 .. (len - 1) /\ len \in Nat /\ current \in Nat
        BY <1>0, <1>1, <1>9
      <4>2. QED BY <2>3, <4>1
    <3>2. QED BY <1>7, <1>9, <3>1
  <2>4. \A j \in 1 .. Len(n) : j \in Int /\ (j < current \/ j = current \/ current < j)
    BY <1>0, <1>9
  <2>5. QED BY <2>1, <2>2, <2>3, <2>4
<1>11. /\ blocks[1].at = 0 /\ End(blocks[len]) = HeapSize
       /\ \A j \in 1 .. len : End(blocks[j]) <= HeapSize /\ End(blocks[j]) \in Nat /\ blocks[j].at \in Nat
       /\ \A j, k \in 1 .. len : j < k => End(blocks[j]) <= blocks[k].at
       /\ \A j \in 1 .. (len - 1) : blocks[j + 1].at = End(blocks[j])
       /\ current \in 1 .. len /\ current + 1 \in 1 .. len
  BY <1>0, <1>1, BlockFacts DEF Laid
<1>12. m.at = blocks[current].at /\ End(m) = End(blocks[current + 1])
  BY <1>1, <1>4, <1>5
<1>13. Laid(n)
  <2>1. ASSUME NEW j \in 1 .. Len(n) PROVE End(n[j]) <= HeapSize
    BY <1>10, <1>11, <1>12
  <2>2. ASSUME NEW j \in 1 .. Len(n), NEW k \in 1 .. Len(n), j < k PROVE End(n[j]) <= n[k].at
    <3>1. CASE k < current
      <4>1. j < current
        BY <1>0, <1>10, <2>2, <3>1
      <4>2. QED BY <1>10, <1>11, <2>2, <3>1, <4>1
    <3>2. CASE k = current
      BY <1>10, <1>11, <1>12, <2>2, <3>2
    <3>3. CASE current < k
      <4>1. n[k] = blocks[k + 1] /\ k + 1 \in 1 .. len
        BY <1>10, <3>3
      <4>2. CASE j < current
        <5>1. n[j] = blocks[j] /\ j \in 1 .. len /\ j < k + 1
          BY <1>0, <1>10, <2>2, <4>2
        <5>2. QED BY <1>11, <4>1, <5>1
      <4>3. CASE j = current
        <5>1. End(n[j]) = End(blocks[current + 1]) /\ current + 1 < k + 1
          BY <1>0, <1>10, <1>12, <2>2, <4>3
        <5>2. QED BY <1>11, <4>1, <5>1
      <4>4. CASE current < j
        <5>1. n[j] = blocks[j + 1] /\ j + 1 \in 1 .. len /\ j + 1 < k + 1
          BY <1>0, <1>10, <2>2, <4>4
        <5>2. QED BY <1>11, <4>1, <5>1
      <4>5. QED BY <1>10, <4>2, <4>3, <4>4
    <3>4. QED BY <1>10, <3>1, <3>2, <3>3
  <2>3. ASSUME NEW j \in 1 .. (Len(n) - 1) PROVE n[j + 1].at = End(n[j])
    <3>1. j \in 1 .. Len(n) /\ j + 1 \in 1 .. Len(n) /\ j \in Int /\ Len(n) = len - 1 /\ len \in Nat
          /\ current \in Nat
      BY <1>0, <1>1, <1>9
    <3>2. CASE j < current
      <4>1. n[j] = blocks[j] /\ j \in 1 .. (len - 1)
        BY <1>10, <3>1, <3>2
      <4>2. n[j + 1].at = blocks[j + 1].at
        <5>1. j + 1 < current \/ j + 1 = current
          BY <3>1, <3>2
        <5>2. QED BY <1>10, <1>12, <3>1, <5>1
      <4>3. QED BY <1>11, <4>1, <4>2
    <3>3. CASE j = current
      <4>1. current < j + 1 /\ current + 1 \in 1 .. (len - 1) /\ j + 1 = current + 1
        BY <3>1, <3>3
      <4>2. n[j + 1] = blocks[(current + 1) + 1] /\ n[j] = m
        BY <1>10, <3>1, <3>3, <4>1
      <4>3. QED BY <1>11, <1>12, <4>1, <4>2
    <3>4. CASE current < j
      <4>1. current < j + 1 /\ j + 1 \in 1 .. (len - 1)
        BY <3>1, <3>4
      <4>2. n[j + 1] = blocks[(j + 1) + 1] /\ n[j] = blocks[j + 1]
        BY <1>10, <3>1, <3>4, <4>1
      <4>3. QED BY <1>11, <4>1, <4>2
    <3>5. QED BY <1>10, <3>1, <3>2, <3>3, <3>4
  <2>4. n[1].at = 0 /\ n # << >>
    <3>1. 1 \in 1 .. Len(n) /\ n # << >>
      BY <1>9, <1>10
    <3>2. CASE current = 1
      BY <1>10, <1>11, <1>12, <3>2
    <3>3. CASE current # 1
      <4>1. 1 < current
        BY <1>0, <3>3
      <4>2. QED BY <1>10, <1>11, <3>1, <4>1
    <3>4. QED BY <3>1, <3>2, <3>3
  <2>5. End(n[Len(n)]) = HeapSize
    <3>1. Len(n) \in 1 .. Len(n) /\ Len(n) + 1 = len
      <4>1. len \in Nat /\ Len(n) = len - 1 /\ current \in 1 .. Len(n) /\ current \in Nat
        BY <1>0, <1>1, <1>9, <1>10
      <4>2. QED BY <4>1
    <3>2. CASE Len(n) = current
      BY <1>10, <1>11, <1>12, <3>1, <3>2
    <3>3. CASE current < Len(n)
      BY <1>10, <1>11, <3>1, <3>3
    <3>4. QED BY <1>10, <3>1, <3>2, <3>3
  <2>6. QED BY <1>9, <2>1, <2>2, <2>3, <2>4, <2>5 DEF Laid
<1>14. \A j \in 1 .. Len(n) : j # current => n[j] = blocks[IF j < current THEN j ELSE j + 1]
  BY <1>10
<1>15. QED BY <1>1, <1>5, <1>9, <1>10, <1>13, <1>14

Freed(list, a) ==
  [i \in DOMAIN list |->
     IF Data(list[i]) = a THEN [list[i] EXCEPT !.free = TRUE] ELSE list[i]]

(* Giving a block back moves nothing. *)
LEMMA GivenBack ==
  ASSUME NEW list, Laid(list), NEW a,
         NEW n, n = Freed(list, a)
  PROVE  /\ Laid(n) /\ Len(n) = Len(list)
         /\ \A i \in 1 .. Len(n) :
              /\ Data(list[i]) # a => n[i] = list[i]
              /\ Data(list[i]) = a => n[i].free
<1>0. /\ list \in Seq(Block) /\ Len(list) \in Nat \ {0} /\ DOMAIN list = 1 .. Len(list)
      /\ \A i \in 1 .. Len(list) : list[i] \in [at : Nat, size : Nat, free : BOOLEAN]
  BY BlockFacts
<1>1. ASSUME NEW i \in 1 .. Len(list)
      PROVE  /\ n[i] \in Block /\ n[i].at = list[i].at /\ End(n[i]) = End(list[i])
             /\ Data(list[i]) # a => n[i] = list[i]
             /\ Data(list[i]) = a => n[i].free
  <2>1. CASE Data(list[i]) = a
    <3>1. PICK b : b = list[i]
      OBVIOUS
    <3>2. n[i] = [b EXCEPT !.free = TRUE] /\ b \in Block
      BY <1>0, <2>1, <3>1, ElementOfSeq DEF Freed
    <3>3. /\ [b EXCEPT !.free = TRUE] \in Block /\ [b EXCEPT !.free = TRUE].at = b.at
          /\ [b EXCEPT !.free = TRUE].size = b.size /\ [b EXCEPT !.free = TRUE].free
      BY <3>2 DEF Block
    <3>4. QED BY <2>1, <3>1, <3>2, <3>3 DEF End
  <2>2. CASE Data(list[i]) # a
    BY <1>0, <2>2, ElementOfSeq DEF Freed
  <2>3. QED BY <2>1, <2>2
<1>2. n \in Seq(Block) /\ Len(n) = Len(list)
  <2>1. n = [i \in 1 .. Len(list) |-> n[i]]
    BY <1>0 DEF Freed
  <2>2. n \in [1 .. Len(list) -> Block]
    BY <1>1, <2>1
  <2>3. QED BY <1>0, <2>2, LenProperties
<1>3. Laid(n)
  <2>1. /\ list[1].at = 0 /\ list # << >>
        /\ \A j \in 1 .. Len(list) : End(list[j]) <= HeapSize
        /\ \A j, k \in 1 .. Len(list) : j < k => End(list[j]) <= list[k].at
        /\ \A j \in 1 .. (Len(list) - 1) : list[j + 1].at = End(list[j])
        /\ End(list[Len(list)]) = HeapSize
    BY DEF Laid
  <2>2. 1 \in 1 .. Len(n) /\ Len(n) \in 1 .. Len(n) /\ n # << >>
        /\ \A j \in 1 .. (Len(n) - 1) : j \in 1 .. Len(n) /\ j + 1 \in 1 .. Len(n)
    BY <1>0, <1>2
  <2>3. \A j \in 1 .. Len(n) : End(n[j]) = End(list[j]) /\ n[j].at = list[j].at
    BY <1>1, <1>2
  <2>4. /\ n[1].at = 0
        /\ \A j \in 1 .. Len(n) : End(n[j]) <= HeapSize
        /\ \A j, k \in 1 .. Len(n) : j < k => End(n[j]) <= n[k].at
        /\ End(n[Len(n)]) = HeapSize
    BY <1>2, <2>1, <2>2, <2>3
  <2>5. \A j \in 1 .. (Len(n) - 1) : n[j + 1].at = End(n[j])
    BY <1>2, <2>1, <2>2, <2>3
  <2>6. QED BY <1>2, <2>2, <2>4, <2>5 DEF Laid
<1>4. QED BY <1>1, <1>2, <1>3


(* What the callers hold, of a list of blocks. *)
Serves(b, h) ==
  /\ Data(b) \in DOMAIN h
  /\ h[Data(b)] <= b.size /\ b.size <= h[Data(b)] + Header + Slack

HeldFrom(list, h) ==
  /\ \A j \in 1 .. Len(list) : ~list[j].free => Serves(list[j], h)
  /\ \A a \in DOMAIN h :
       /\ h[a] \in Request
       /\ \E j \in 1 .. Len(list) : ~list[j].free /\ Data(list[j]) = a

Without(h, a) == [b \in DOMAIN h \ {a} |-> h[b]]

(* Two blocks with one address are one. *)
LEMMA OneAddress ==
  ASSUME NEW list, Laid(list), NEW i \in 1 .. Len(list), NEW j \in 1 .. Len(list),
         Data(list[i]) = Data(list[j])
  PROVE  i = j
<1>1. list[i].at \in Nat /\ list[j].at \in Nat /\ Header \in Nat
  BY BlockFacts
<1>2. list[i].at = list[j].at
  BY <1>1 DEF Data
<1>3. QED BY <1>2, Apart

(* The address given out was not held, and is now.                         *)
LEMMA HeldAfterTaking ==
  ASSUME NEW list, Laid(list), NEW i \in 1 .. Len(list), list[i].free,
         NEW size \in Request, NEW n, Laid(n), TakenFrom(list, n, i, size),
         NEW h, HeldFrom(list, h), NEW ptr, ptr = Data(list[i]),
         NEW g, g = Bind(h, ptr, size)
  PROVE  ptr \notin DOMAIN h /\ HeldFrom(n, g)
<1>1. ptr \notin DOMAIN h
  <2>1. ASSUME ptr \in DOMAIN h PROVE FALSE
    <3>1. PICK j \in 1 .. Len(list) : ~list[j].free /\ Data(list[j]) = ptr
      BY <2>1 DEF HeldFrom
    <3>2. i = j
      BY <3>1, OneAddress
    <3>3. QED BY <3>1, <3>2
  <2>2. QED BY <2>1
<1>2. /\ DOMAIN g = DOMAIN h \union {ptr} /\ g[ptr] = size
      /\ \A a \in DOMAIN h : g[a] = h[a]
  BY <1>1 DEF Bind
<1>3. ASSUME NEW j \in 1 .. Len(n), ~n[j].free PROVE Serves(n[j], g)
  <2>1. CASE n[j].at = list[i].at /\ size <= n[j].size /\ n[j].size <= size + Header + Slack
    <3>1. Data(n[j]) = ptr
      BY <2>1 DEF Data
    <3>2. QED BY <1>2, <2>1, <3>1 DEF Serves
  <2>2. CASE \E k \in 1 .. Len(list) : n[j] = list[k]
    <3>1. PICK k \in 1 .. Len(list) : n[j] = list[k]
      BY <2>2
    <3>2. Serves(n[j], h)
      BY <1>3, <3>1 DEF HeldFrom
    <3>3. QED BY <1>2, <3>2 DEF Serves
  <2>3. QED BY <1>3, <2>1, <2>2 DEF TakenFrom
<1>4. ASSUME NEW a \in DOMAIN g
      PROVE  g[a] \in Request /\ \E j \in 1 .. Len(n) : ~n[j].free /\ Data(n[j]) = a
  <2>1. CASE a = ptr
    <3>1. PICK j \in 1 .. Len(n) : ~n[j].free /\ n[j].at = list[i].at
      BY DEF TakenFrom
    <3>2. Data(n[j]) = ptr
      BY <3>1 DEF Data
    <3>3. QED BY <1>2, <2>1, <3>1, <3>2
  <2>2. CASE a # ptr
    <3>1. a \in DOMAIN h
      BY <1>2, <2>2
    <3>2. PICK k \in 1 .. Len(list) : ~list[k].free /\ Data(list[k]) = a
      BY <3>1 DEF HeldFrom
    <3>3. PICK j \in 1 .. Len(n) : n[j] = list[k]
      BY <3>2 DEF TakenFrom
    <3>4. h[a] \in Request
      BY <3>1 DEF HeldFrom
    <3>5. QED BY <1>2, <3>1, <3>2, <3>3, <3>4
  <2>3. QED BY <2>1, <2>2
<1>5. QED BY <1>1, <1>3, <1>4 DEF HeldFrom

(* A block given back is held no longer, the others are. *)
LEMMA HeldAfterGivingBack ==
  ASSUME NEW list, Laid(list), NEW h, HeldFrom(list, h), NEW a \in DOMAIN h,
         NEW n, Len(n) = Len(list),
         \A i \in 1 .. Len(n) :
              /\ Data(list[i]) # a => n[i] = list[i]
              /\ Data(list[i]) = a => n[i].free,
         NEW g, g = Without(h, a)
  PROVE  HeldFrom(n, g)
<1>1. DOMAIN g = DOMAIN h \ {a} /\ \A b \in DOMAIN g : g[b] = h[b]
  BY DEF Without
<1>2. ASSUME NEW j \in 1 .. Len(n), ~n[j].free PROVE Serves(n[j], g)
  <2>1. Data(list[j]) # a /\ n[j] = list[j] /\ j \in 1 .. Len(list)
    BY <1>2
  <2>2. Serves(n[j], h)
    BY <1>2, <2>1 DEF HeldFrom
  <2>3. QED BY <1>1, <2>1, <2>2 DEF Serves
<1>3. ASSUME NEW b \in DOMAIN g
      PROVE  g[b] \in Request /\ \E j \in 1 .. Len(n) : ~n[j].free /\ Data(n[j]) = b
  <2>1. b \in DOMAIN h /\ b # a
    BY <1>1
  <2>2. h[b] \in Request
    BY <2>1 DEF HeldFrom
  <2>3. PICK j \in 1 .. Len(list) : ~list[j].free /\ Data(list[j]) = b
    BY <2>1 DEF HeldFrom
  <2>4. n[j] = list[j] /\ j \in 1 .. Len(n)
    BY <2>1, <2>3
  <2>5. QED BY <1>1, <2>2, <2>3, <2>4
<1>4. QED BY <1>2, <1>3 DEF HeldFrom

(* Merging free blocks takes nothing from a caller. *)
LEMMA HeldAfterMerging ==
  ASSUME NEW list, Laid(list), NEW h, HeldFrom(list, h),
         NEW c \in 1 .. (Len(list) - 1), list[c].free, list[c + 1].free,
         NEW n, Len(n) = Len(list) - 1,
         \A j \in 1 .. Len(n) : j # c => n[j] = list[IF j < c THEN j ELSE j + 1],
         n[c].free
  PROVE  HeldFrom(n, h)
<1>0. PICK len \in Nat \ {0} : len = Len(list)
  BY BlockFacts
<1>1. ASSUME NEW j \in 1 .. Len(n), ~n[j].free PROVE Serves(n[j], h)
  <2>1. j # c
    BY <1>1
  <2>2. PICK k : k = IF j < c THEN j ELSE j + 1
    OBVIOUS
  <2>3. n[j] = list[k]
    BY <2>1, <2>2
  <2>4. k \in 1 .. Len(list)
    BY <1>0, <2>2
  <2>5. QED BY <1>1, <2>3, <2>4 DEF HeldFrom
<1>2. ASSUME NEW a \in DOMAIN h PROVE \E j \in 1 .. Len(n) : ~n[j].free /\ Data(n[j]) = a
  <2>1. PICK k \in 1 .. Len(list) : ~list[k].free /\ Data(list[k]) = a
    BY DEF HeldFrom
  <2>2. k # c /\ k # c + 1
    BY <2>1
  <2>3. PICK j : j = IF k < c THEN k ELSE k - 1
    OBVIOUS
  <2>4. /\ j \in 1 .. Len(n) /\ j # c
        /\ j < c => j = k
        /\ ~(j < c) => j + 1 = k
    BY <1>0, <2>2, <2>3
  <2>5. n[j] = list[k]
    BY <2>4
  <2>6. QED BY <2>1, <2>4, <2>5
<1>3. \A a \in DOMAIN h : h[a] \in Request
  BY DEF HeldFrom
<1>4. QED BY <1>1, <1>2, <1>3 DEF HeldFrom

(* The inductive invariant of the heap.                                    *)
Passed == \A i \in 2 .. Len(blocks) : current = 0 \/ i <= current => ~Unmerged(blocks, i)

HeapIInv ==
  /\ Laid(blocks)
  /\ HeldFrom(blocks, held)
  /\ current \in 0 .. Len(blocks)
  /\ Passed

LEMMA HeapStarts == Heap_Init => HeapIInv
<1>. SUFFICES ASSUME Heap_Init PROVE HeapIInv
  OBVIOUS
<1>1. Laid(blocks) /\ Len(blocks) = 1 /\ blocks[1].free
  BY HeapBegins
<1>2. held = << >> /\ current = 0
  BY DEF Heap_Init
<1>3. HeldFrom(blocks, held)
  <2>1. \A j \in 1 .. Len(blocks) : blocks[j].free
    BY <1>1
  <2>2. DOMAIN held = {}
    BY <1>2
  <2>3. QED BY <2>1, <2>2 DEF HeldFrom
<1>4. current \in 0 .. Len(blocks) /\ Passed
  BY <1>1, <1>2 DEF Passed
<1>5. QED BY <1>1, <1>3, <1>4 DEF HeapIInv

(* kmalloc gives out an address nobody holds, or nothing. *)
LEMMA KmallocStep ==
  ASSUME HeapIInv, NEW size \in Request, kmalloc(size)
  PROVE  /\ HeapIInv'
         /\ \/ Kmalloc(blocks, size).ptr = NULL /\ held' = held
            \/ /\ Kmalloc(blocks, size).ptr \in Nat \ DOMAIN held
               /\ DOMAIN held' = DOMAIN held \union {Kmalloc(blocks, size).ptr}
<1>0. /\ Laid(blocks) /\ HeldFrom(blocks, held) /\ blocks \in Seq(Block) /\ current = 0 /\ current' = 0
      /\ \A j \in 2 .. Len(blocks) : ~Unmerged(blocks, j)
      /\ size \in Nat /\ NULL \notin Nat
  <2>1. Laid(blocks) /\ HeldFrom(blocks, held) /\ Passed
    BY DEF HeapIInv
  <2>2. current = 0 /\ current' = 0
    BY DEF kmalloc
  <2>3. QED BY <2>1, <2>2, RequestAssumption, NoBlockAssumption DEF Passed, Laid
<1>1. PICK i : i = FirstFit(blocks, size)
  OBVIOUS
<1>2. PICK r : r = Kmalloc(blocks, size)
  OBVIOUS
<1>3. /\ blocks' = r.list
      /\ held' = IF r.ptr = NULL THEN held
                 ELSE Bind(held, r.ptr, size)
  BY <1>2 DEF kmalloc
<1>4. CASE i = 0
  <2>1. r = [ptr |-> NULL, list |-> blocks]
    BY <1>1, <1>2, <1>4 DEF Kmalloc
  <2>2. r.ptr = NULL /\ blocks' = blocks /\ held' = held
    BY <1>3, <2>1
  <2>3. HeapIInv'
    BY <1>0, <2>2 DEF HeapIInv, Laid, HeldFrom, Serves, Passed, Unmerged, Data, End
  <2>4. QED BY <1>2, <2>2, <2>3
<1>5. CASE i # 0
  <2>1. i \in 1 .. Len(blocks) /\ blocks[i].free /\ size <= blocks[i].size
    <3>1. i \in DOMAIN blocks /\ blocks[i].free /\ blocks[i].size >= size
      BY <1>0, <1>1, <1>5, FirstFits
    <3>2. QED BY <1>0, <3>1, BlockFacts
  <2>2. PICK n : n = Taken(blocks, i, size)
    OBVIOUS
  <2>3. PICK ptr : ptr = Data(blocks[i])
    OBVIOUS
  <2>4. r = [ptr |-> ptr, list |-> n]
    BY <1>1, <1>2, <1>5, <2>2, <2>3 DEF Kmalloc
  <2>5. ptr \in Nat /\ ptr # NULL
    <3>1. Data(blocks[i]) \in Nat
      BY <1>0, <2>1, BlockFacts
    <3>2. QED BY <1>0, <2>3, <3>1
  <2>6. /\ blocks' = n
        /\ held' = Bind(held, ptr, size)
    <3>1. r.ptr = ptr /\ r.list = n
      BY <2>4
    <3>2. QED BY <1>3, <2>5, <3>1
  <2>7. Laid(n) /\ TakenFrom(blocks, n, i, size) /\ AllMerged(n)
    <3>1. Suits(blocks[i], size) /\ AllMerged(blocks)
      BY <1>0, <2>1 DEF Suits, AllMerged
    <3>2. CASE Worth(blocks[i], size)
      BY <1>0, <2>1, <2>2, <3>1, <3>2, PartTaken
    <3>3. CASE ~Worth(blocks[i], size)
      BY <1>0, <2>1, <2>2, <3>1, <3>3, WholeTaken
    <3>4. QED BY <3>2, <3>3
  <2>8. ptr \notin DOMAIN held /\ HeldFrom(n, held')
    <3>1. PICK h, g : h = held /\ g = held'
      OBVIOUS
    <3>2. g = Bind(h, ptr, size) /\ HeldFrom(blocks, h)
      BY <1>0, <2>6, <3>1
    <3>3. ptr \notin DOMAIN h /\ HeldFrom(n, g)
      BY <1>0, <2>1, <2>3, <2>7, <3>2, HeldAfterTaking, Zenon
    <3>4. QED BY <3>1, <3>3
  <2>9. Laid(blocks') /\ HeldFrom(blocks', held') /\ Passed' /\ 0 \in 0 .. Len(blocks')
    <3>1. Len(n) \in Nat
      BY <2>7, BlockFacts
    <3>2. Laid(blocks') /\ HeldFrom(blocks', held') /\ 0 \in 0 .. Len(blocks')
      BY <2>6, <2>7, <2>8, <3>1
    <3>3. \A j \in 2 .. Len(blocks') : ~Unmerged(blocks', j)
      BY <2>6, <2>7 DEF AllMerged
    <3>4. QED BY <3>2, <3>3 DEF Passed, Unmerged
  <2>10. HeapIInv'
    BY <1>0, <2>9 DEF HeapIInv, Laid, HeldFrom, Serves, Data, End
  <2>11. Kmalloc(blocks, size).ptr = ptr /\ DOMAIN held' = DOMAIN held \union {ptr}
    BY <1>2, <2>4, <2>6 DEF Bind
  <2>12. QED BY <2>5, <2>8, <2>10, <2>11
<1>6. QED BY <1>4, <1>5

LEMMA KfreeStep == ASSUME HeapIInv, NEW a \in DOMAIN held, kfree(a) PROVE HeapIInv'
<1>1. Laid(blocks) /\ HeldFrom(blocks, held) /\ Len(blocks) \in Nat \ {0}
  BY BlockFacts DEF HeapIInv
<1>2. PICK n : n = blocks'
  OBVIOUS
<1>3. PICK g : g = held'
  OBVIOUS
<1>4. n = Freed(blocks, a) /\ g = Without(held, a) /\ current' = 1
  BY <1>2, <1>3 DEF kfree, Freed, Without
<1>5. /\ Laid(n) /\ Len(n) = Len(blocks)
      /\ \A i \in 1 .. Len(n) :
              /\ Data(blocks[i]) # a => n[i] = blocks[i]
              /\ Data(blocks[i]) = a => n[i].free
  <2>1. Laid(blocks) /\ n = Freed(blocks, a)
    BY <1>1, <1>4
  <2>2. QED BY <2>1, GivenBack
<1>6. HeldFrom(n, g)
  <2>1. PICK h : h = held
    OBVIOUS
  <2>2. HeldFrom(blocks, h) /\ a \in DOMAIN h /\ g = Without(h, a)
    BY <1>1, <1>4, <2>1
  <2>3. QED BY <1>1, <1>5, <2>2, HeldAfterGivingBack
<1>7. Laid(blocks') /\ HeldFrom(blocks', held') /\ current' \in 0 .. Len(blocks')
  BY <1>1, <1>2, <1>3, <1>4, <1>5, <1>6
<1>8. Passed'
  <2>1. \A i \in 2 .. Len(blocks') : ~(current' = 0 \/ i <= current')
    BY <1>4
  <2>2. QED BY <2>1 DEF Passed
<1>9. QED BY <1>7, <1>8 DEF HeapIInv, Laid, HeldFrom, Serves, Data, End

LEMMA SwallowStep == ASSUME HeapIInv, Swallow PROVE HeapIInv'
<1>1. /\ Laid(blocks) /\ HeldFrom(blocks, held) /\ Passed /\ Len(blocks) \in Nat \ {0}
      /\ current \in 0 .. Len(blocks) /\ Mergeable
  BY BlockFacts DEF HeapIInv, Swallow
<1>2. PICK n : n = blocks' /\ n = Merged
  BY DEF Swallow
<1>3. PICK c : c = current
  OBVIOUS
<1>4. c \in 1 .. (Len(blocks) - 1) /\ blocks[c].free /\ blocks[c + 1].free /\ c \in Nat \ {0}
  BY <1>1, <1>3 DEF Mergeable
<1>5. /\ Laid(n) /\ Len(n) = Len(blocks) - 1
      /\ \A j \in 1 .. Len(n) : j # c => n[j] = blocks[IF j < c THEN j ELSE j + 1]
      /\ n[c].free /\ c \in 1 .. Len(n)
  BY <1>1, <1>2, <1>3, PairMerged
<1>6. HeldFrom(n, held)
  <2>1. PICK h : h = held
    OBVIOUS
  <2>2. HeldFrom(blocks, h)
    BY <1>1, <2>1
  <2>3. HeldFrom(n, h)
    BY <1>1, <1>4, <1>5, <2>2, HeldAfterMerging
  <2>4. QED BY <2>1, <2>3
<1>7. ASSUME NEW i \in 2 .. Len(n), i <= c PROVE ~Unmerged(n, i)
  <2>1. i - 1 \in 1 .. Len(n) /\ i - 1 # c /\ i - 1 < c /\ i \in 2 .. Len(blocks) /\ i \in 1 .. Len(n)
    BY <1>1, <1>4, <1>5, <1>7
  <2>2. n[i - 1] = blocks[i - 1]
    BY <1>5, <2>1
  <2>3. n[i] = blocks[i] \/ i = c
    <3>1. i # c => i < c
      BY <1>4, <1>7
    <3>2. QED BY <1>5, <2>1, <3>1
  <2>4. ~Unmerged(blocks, i)
    BY <1>1, <1>3, <1>7, <2>1 DEF Passed
  <2>5. QED BY <1>4, <2>2, <2>3, <2>4 DEF Unmerged
<1>8. /\ Laid(blocks') /\ HeldFrom(blocks', held') /\ current' \in 0 .. Len(blocks')
      /\ current' = c /\ blocks' = n
  <2>1. blocks' = n /\ held' = held /\ current' = c
    BY <1>2, <1>3 DEF Swallow
  <2>2. QED BY <1>4, <1>5, <1>6, <2>1
<1>9. Passed'
  <2>1. \A i \in 2 .. Len(blocks') : current' = 0 \/ i <= current' => ~Unmerged(blocks', i)
    BY <1>4, <1>7, <1>8
  <2>2. QED BY <2>1 DEF Passed, Unmerged
<1>10. QED BY <1>8, <1>9 DEF HeapIInv, Laid, HeldFrom, Serves, Data, End

LEMMA MoveOnStep == ASSUME HeapIInv, MoveOn PROVE HeapIInv'
<1>1. /\ Laid(blocks) /\ HeldFrom(blocks, held) /\ Passed /\ Len(blocks) \in Nat \ {0}
      /\ current \in 0 .. Len(blocks) /\ current # 0 /\ ~Mergeable
      /\ current' = (IF current < Len(blocks) THEN current + 1 ELSE 0)
      /\ blocks' = blocks /\ held' = held
  BY BlockFacts DEF HeapIInv, MoveOn
<1>2. current' \in 0 .. Len(blocks')
  BY <1>1
<1>3. ASSUME NEW i \in 2 .. Len(blocks), current' = 0 \/ i <= current' PROVE ~Unmerged(blocks, i)
  <2>1. CASE i <= current
    BY <1>1, <2>1 DEF Passed
  <2>2. CASE current < i
    <3>1. i = current + 1 /\ current < Len(blocks) /\ i - 1 = current
      BY <1>1, <1>3, <2>2
    <3>2. QED BY <1>1, <3>1 DEF Mergeable, Unmerged
  <2>3. QED BY <1>1, <2>1, <2>2
<1>4. Passed'
  BY <1>1, <1>3 DEF Passed, Unmerged
<1>5. Laid(blocks') /\ HeldFrom(blocks', held')
  BY <1>1
<1>6. QED BY <1>2, <1>4, <1>5 DEF HeapIInv, Laid, HeldFrom, Serves, Data, End

LEMMA HeapStep == HeapIInv /\ [HeapNext]_heap => HeapIInv'
<1>. SUFFICES ASSUME HeapIInv, [HeapNext]_heap PROVE HeapIInv'
  OBVIOUS
<1>1. CASE \E size \in Request : kmalloc(size)
  BY <1>1, KmallocStep
<1>2. CASE \E a \in DOMAIN held : kfree(a)
  BY <1>2, KfreeStep
<1>3. CASE Swallow
  BY <1>3, SwallowStep
<1>4. CASE MoveOn
  BY <1>4, MoveOnStep
<1>5. CASE UNCHANGED heap
  BY <1>5 DEF heap, HeapIInv, Laid, HeldFrom, Serves, Passed, Unmerged, Data, End
<1>6. QED BY <1>1, <1>2, <1>3, <1>4, <1>5 DEF HeapNext

LEMMA HeapStays == HeapSpec => []HeapIInv
BY HeapStarts, HeapStep, PTL DEF HeapSpec

-----------------------------------------------------------------------------
(* Whatever is asked for and given back, and wherever the pass of kfree    *)
(* is: the blocks tile the region, and no two neighbours it has passed are *)
(* free.                                                                   *)
THEOREM HeapCorrect == HeapSpec => []HeapInv
<1>1. HeapIInv => HeapInv
  <2>. SUFFICES ASSUME HeapIInv PROVE HeapInv
    OBVIOUS
  <2>1. Laid(blocks) /\ HeldFrom(blocks, held) /\ Passed /\ current \in 0 .. Len(blocks)
    BY DEF HeapIInv
  <2>2. HeapTypeOK
    <3>1. blocks \in Seq(Block) /\ \A a \in DOMAIN held : held[a] \in Request
      BY <2>1 DEF Laid, HeldFrom
    <3>2. ASSUME NEW a \in DOMAIN held PROVE a \in 0 .. HeapSize
      <4>1. PICK j \in 1 .. Len(blocks) : Data(blocks[j]) = a
        BY <2>1 DEF HeldFrom
      <4>2. /\ Data(blocks[j]) \in Nat /\ Data(blocks[j]) <= End(blocks[j])
            /\ End(blocks[j]) <= HeapSize /\ End(blocks[j]) \in Nat /\ HeapSize \in Nat
        BY <2>1, BlockFacts
      <4>3. QED BY <4>1, <4>2
    <3>3. QED BY <2>1, <3>1, <3>2 DEF HeapTypeOK
  <2>3. Tiles
    <3>1. /\ blocks # << >> /\ blocks[1].at = 0 /\ End(blocks[Len(blocks)]) = HeapSize
          /\ \A i \in 1 .. (Len(blocks) - 1) : blocks[i + 1].at = End(blocks[i])
      BY <2>1 DEF Laid
    <3>2. Len(blocks) \in Nat
      BY <2>1, BlockFacts
    <3>3. ASSUME NEW i \in 2 .. Len(blocks) PROVE blocks[i].at = End(blocks[i - 1])
      <4>1. i - 1 \in 1 .. (Len(blocks) - 1) /\ (i - 1) + 1 = i
        BY <3>2
      <4>2. QED BY <3>1, <4>1
    <3>4. QED BY <3>1, <3>3 DEF Tiles, Last
  <2>4. NoFreeNeighbours
    BY <2>1 DEF Passed, Unmerged, NoFreeNeighbours
  <2>5. QED BY <2>2, <2>3, <2>4 DEF HeapInv
<1>2. QED BY <1>1, HeapStays, PTL

(* The addresses the callers hold are those of the blocks in use, and each *)
(* block is as large as was asked for.                                     *)
THEOREM HeldCorrect == HeapSpec => []HeldAreBlocks
<1>1. HeapIInv => HeldAreBlocks
  <2>. SUFFICES ASSUME HeapIInv PROVE HeldAreBlocks
    OBVIOUS
  <2>1. HeldFrom(blocks, held) /\ DOMAIN blocks = 1 .. Len(blocks)
    BY BlockFacts DEF HeapIInv
  <2>2. \A i \in InUse : Serves(blocks[i], held)
    BY <2>1 DEF InUse, HeldFrom
  <2>3. \A a \in DOMAIN held : \E i \in InUse : Data(blocks[i]) = a
    BY <2>1 DEF InUse, HeldFrom
  <2>4. DOMAIN held = {Data(blocks[i]) : i \in InUse}
    BY <2>2, <2>3 DEF Serves
  <2>5. \A i \in InUse : blocks[i].size >= held[Data(blocks[i])]
    <3>1. ASSUME NEW i \in InUse PROVE blocks[i].size >= held[Data(blocks[i])]
      <4>1. Serves(blocks[i], held)
        BY <2>2
      <4>2. held[Data(blocks[i])] <= blocks[i].size
        BY <4>1 DEF Serves
      <4>3. QED BY <4>2
    <3>2. QED BY <3>1
  <2>6. QED BY <2>4, <2>5 DEF HeldAreBlocks
<1>2. QED BY <1>1, HeapStays, PTL

(* What a block in use has beyond the request would not have made another  *)
(* block.                                                                  *)
THEOREM WasteCorrect == HeapSpec => []WasteBounded
<1>1. HeapIInv => WasteBounded
  <2>1. HeapIInv => \A i \in InUse : Serves(blocks[i], held)
    <3>1. HeapIInv => HeldFrom(blocks, held) /\ DOMAIN blocks = 1 .. Len(blocks)
      BY BlockFacts DEF HeapIInv
    <3>2. QED BY <3>1 DEF InUse, HeldFrom
  <2>2. QED BY <2>1 DEF Serves, WasteBounded
<1>2. QED BY <1>1, HeapStays, PTL

-----------------------------------------------------------------------------
(* Tasks: what every heap gives, exhausted or not.                         *)

Place(d) == [top : {0} \union Range(tops), depth : 0 .. d]

(* What may be written to a cell: a handler is never interrupted itself.   *)
Frame == [code : Code \ {"irq0", "stub"}, sp : Place(MaxDepth)]

TypeIInv ==
  /\ tops \in Seq(Nat) /\ Len(tops) <= Len(Entries) /\ created \in 0 .. Len(tops)
  /\ rsp \in Seq(Place(MaxDepth + 1)) /\ Len(rsp) \in 1 .. MaxTasks
  /\ current_task \in 0 .. (Len(rsp) - 1)
  /\ cpu \in [code : Code, sp : Place(MaxDepth + 1)]
  /\ ~Interrupted => cpu \in Frame
  /\ Interrupted => cpu.sp \in DOMAIN mem
  /\ enabled \in BOOLEAN /\ in_service \in BOOLEAN
  /\ \A c \in DOMAIN mem : c \in Place(MaxDepth + 2) /\ mem[c] \in Frame
  /\ \A t \in 0 .. (Len(rsp) - 1) : t # current_task => rsp[t + 1] \in DOMAIN mem
  /\ DOMAIN stopped \subseteq 0 .. (Len(rsp) - 1)
  /\ enabled => created = Len(Entries)

LEMMA Numbers ==
  /\ MaxDepth \in Nat \ {0} /\ MaxTasks \in Nat \ {0} /\ StackSize \in Nat \ {0}
  /\ StackSize \in Request /\ Len(Entries) \in Nat
  /\ Header \in Nat \ {0} /\ HeapSize \in Nat
<1>1. Len(Entries) \in Nat
  BY EntriesAssumption, LenProperties
<1>2. QED
  BY <1>1, DepthAssumption, TasksAssumption, StackAssumption, HeaderAssumption, SizeAssumption

(* What may run. *)
LEMMA Codes ==
  /\ {"kernel_main", "irq0", "stub", "data"} \subseteq Code
  /\ \A i \in 1 .. Len(Entries) : Entries[i] \in Code \ {"kernel_main", "irq0", "stub", "data"}
<1>1. ASSUME NEW i \in 1 .. Len(Entries)
      PROVE  Entries[i] \in Code \ {"kernel_main", "irq0", "stub", "data"}
  <2>1. Entries[i] \in STRING \ {"kernel_main", "irq0", "stub", "data"}
    BY EntriesAssumption, ElementOfSeq
  <2>2. DOMAIN Entries = 1 .. Len(Entries)
    BY EntriesAssumption, LenProperties
  <2>3. Entries[i] \in Range(Entries)
    BY <2>2 DEF Range
  <2>4. QED BY <2>1, <2>3 DEF Code
<1>2. QED BY <1>1 DEF Code

(* Places, and the place below one. *)
LEMMA PlaceMade ==
  ASSUME NEW top \in {0} \union Range(tops), NEW d \in Nat, NEW depth \in 0 .. d
  PROVE  /\ Cell(top, depth) \in Place(d)
         /\ Cell(top, depth).top = top /\ Cell(top, depth).depth = depth
BY DEF Cell, Place

LEMMA PlaceWithin ==
  ASSUME NEW d \in Nat, NEW e \in Nat, d <= e, NEW c \in Place(d)
  PROVE  c \in Place(e)
BY DEF Place

LEMMA PlaceFacts ==
  ASSUME NEW d \in Nat, NEW c \in Place(d)
  PROVE  c.top \in {0} \union Range(tops) /\ c.depth \in 0 .. d
BY DEF Place

LEMMA PlaceBelow ==
  ASSUME NEW d \in Nat, NEW c \in Place(d)
  PROVE  /\ Below(c) \in Place(d + 1)
         /\ Below(c).top = c.top /\ Below(c).depth = c.depth + 1
BY DEF Below, Place

LEMMA FrameMade ==
  ASSUME NEW code \in Code \ {"irq0", "stub"}, NEW sp \in Place(MaxDepth)
  PROVE  /\ Context(code, sp) \in Frame
         /\ Context(code, sp).code = code /\ Context(code, sp).sp = sp
BY DEF Context, Frame

LEMMA LocalFrame == Local \in Frame
<1>1. "data" \in Code \ {"irq0", "stub"}
  BY Codes
<1>2. BootStack \in Place(MaxDepth)
  BY PlaceMade, Numbers DEF BootStack
<1>3. QED BY <1>1, <1>2, FrameMade DEF Local

LEMMA FrameFacts ==
  ASSUME NEW c \in Frame
  PROVE  /\ c.code \in Code /\ c.code # "irq0" /\ c.code # "stub" /\ c.sp \in Place(MaxDepth)
         /\ c \in [code : Code, sp : Place(MaxDepth + 1)]
<1>1. c.code \in Code /\ c.code # "irq0" /\ c.code # "stub" /\ c.sp \in Place(MaxDepth)
  BY DEF Frame
<1>2. c.sp \in Place(MaxDepth + 1)
  <2>1. MaxDepth \in Nat /\ MaxDepth + 1 \in Nat /\ MaxDepth <= MaxDepth + 1
    BY Numbers
  <2>2. QED BY <1>1, <2>1, PlaceWithin
<1>3. QED BY <1>1, <1>2 DEF Frame

(* A cell written: it holds the value, the others what they held. *)
LEMMA Bound ==
  ASSUME NEW f, NEW x, NEW v
  PROVE  /\ DOMAIN Bind(f, x, v) = DOMAIN f \union {x}
         /\ Bind(f, x, v)[x] = v
         /\ \A y \in DOMAIN f : y # x => Bind(f, x, v)[y] = f[y]
BY DEF Bind

(* The invariant of the next state, where no stack is added: what there is *)
(* to show of the variables that a step of a task or of a handler changes. *)
Handled(c) == c.code \in {"irq0", "stub"}

LEMMA TypeKept ==
  ASSUME TypeIInv, tops' = tops, created' \in 0 .. Len(tops),
         enabled' \in BOOLEAN, in_service' \in BOOLEAN,
         enabled' => created' = Len(Entries),
         rsp' \in Seq(Place(MaxDepth + 1)), Len(rsp') \in 1 .. MaxTasks,
         current_task' \in 0 .. (Len(rsp') - 1),
         DOMAIN stopped' \subseteq 0 .. (Len(rsp') - 1),
         cpu' \in [code : Code, sp : Place(MaxDepth + 1)],
         ~Handled(cpu') => cpu' \in Frame,
         Handled(cpu') => cpu'.sp \in DOMAIN mem',
         \A c \in DOMAIN mem' : c \in Place(MaxDepth + 2) /\ mem'[c] \in Frame,
         \A t \in 0 .. (Len(rsp') - 1) : t # current_task' => rsp'[t + 1] \in DOMAIN mem'
  PROVE  TypeIInv'
<1>1. \A d : Place(d)' = Place(d)
  BY DEF Place
<1>2. Frame' = Frame
  BY <1>1 DEF Frame, Code
<1>3. Interrupted' <=> Handled(cpu')
  BY DEF Interrupted, Handled
<1>4. tops' \in Seq(Nat) /\ Len(tops') <= Len(Entries) /\ Len(tops') = Len(tops)
  BY DEF TypeIInv
<1>5. QED BY <1>1, <1>2, <1>3, <1>4 DEF TypeIInv, Code

LEMMA TypeStarts == Init => TypeIInv
<1>. SUFFICES ASSUME Init PROVE TypeIInv
  OBVIOUS
<1>1. /\ created = 0 /\ tops = << >> /\ enabled = FALSE /\ rsp = <<BootStack>> /\ current_task = 0
      /\ cpu = Context("kernel_main", BootStack) /\ in_service = FALSE
      /\ mem = << >> /\ stopped = << >>
  BY DEF Init
<1>2. BootStack \in Place(MaxDepth) /\ BootStack \in Place(MaxDepth + 1)
  <2>1. MaxDepth \in Nat /\ MaxDepth + 1 \in Nat /\ 0 \in 0 .. MaxDepth /\ 0 \in 0 .. (MaxDepth + 1)
    BY Numbers
  <2>2. QED BY <2>1, PlaceMade DEF BootStack
<1>3. cpu \in Frame /\ cpu.code = "kernel_main" /\ cpu \in [code : Code, sp : Place(MaxDepth + 1)]
  <2>1. "kernel_main" \in Code \ {"irq0", "stub"}
    BY Codes
  <2>2. cpu \in Frame /\ cpu.code = "kernel_main"
    BY <1>1, <1>2, <2>1, FrameMade
  <2>3. QED BY <2>2, FrameFacts
<1>4. /\ tops \in Seq(Nat) /\ Len(tops) = 0 /\ DOMAIN mem = {} /\ DOMAIN stopped = {}
  BY <1>1
<1>5. rsp \in Seq(Place(MaxDepth + 1)) /\ Len(rsp) = 1
  BY <1>1, <1>2
<1>6. Len(rsp) \in 1 .. MaxTasks /\ current_task \in 0 .. (Len(rsp) - 1) /\ 0 \in 0 .. Len(tops)
      /\ Len(tops) <= Len(Entries)
  BY <1>1, <1>4, <1>5, Numbers
<1>7. ~Interrupted
  BY <1>3 DEF Interrupted
<1>8. \A t \in 0 .. (Len(rsp) - 1) : t = current_task
  BY <1>1, <1>5
<1>9. QED BY <1>1, <1>3, <1>4, <1>5, <1>6, <1>7, <1>8 DEF TypeIInv

(* A stack more: what was a place is one still. *)
LEMMA AllocateStackTypes == ASSUME TypeIInv, HeapIInv, AllocateStack PROVE TypeIInv'
<1>1. PICK ptr : ptr = Kmalloc(blocks, StackSize).ptr
  OBVIOUS
<1>2. ptr = NULL \/ ptr \in Nat
  <2>1. kmalloc(StackSize) /\ StackSize \in Request
    BY Numbers DEF AllocateStack
  <2>2. QED BY <1>1, <2>1, KmallocStep
<1>3. PICK top \in Nat : top = (IF ptr = NULL THEN 0 ELSE ptr) + StackSize
  BY <1>2, Numbers
<1>4. tops' = Append(tops, top) /\ Len(tops) < Len(Entries)
  BY <1>1, <1>3 DEF AllocateStack
<1>5. /\ tops \in Seq(Nat) /\ tops' \in Seq(Nat) /\ Len(tops') = Len(tops) + 1 /\ Len(tops) \in Nat
      /\ \A i \in 1 .. Len(tops) : tops'[i] = tops[i]
  BY <1>4, LenProperties, AppendProperties DEF TypeIInv
<1>6. Range(tops) \subseteq Range(tops')
  <2>1. DOMAIN tops = 1 .. Len(tops) /\ DOMAIN tops' = 1 .. Len(tops')
    BY <1>5, LenProperties
  <2>2. \A i \in 1 .. Len(tops) : i \in 1 .. Len(tops') /\ tops'[i] = tops[i]
    BY <1>5
  <2>3. QED BY <2>1, <2>2 DEF Range
<1>7. ASSUME NEW d PROVE Place(d) \subseteq Place(d)'
  BY <1>6 DEF Place
<1>8. Frame \subseteq Frame'
  BY <1>7 DEF Frame, Code
<1>9. /\ created' = created /\ enabled' = enabled /\ rsp' = rsp /\ current_task' = current_task
      /\ cpu' = cpu /\ in_service' = in_service /\ mem' = mem /\ stopped' = stopped
  BY DEF AllocateStack
<1>10. Len(tops') <= Len(Entries) /\ created \in 0 .. Len(tops')
  <2>1. created \in 0 .. Len(tops)
    BY DEF TypeIInv
  <2>2. QED BY <1>4, <1>5, <2>1, Numbers
<1>11. rsp \in Seq(Place(MaxDepth + 1)')
  <2>1. PICK S, T : S = Place(MaxDepth + 1) /\ T = Place(MaxDepth + 1)'
    OBVIOUS
  <2>2. rsp \in Seq(S) /\ S \subseteq T
    BY <1>7, <2>1 DEF TypeIInv
  <2>3. rsp \in Seq(T)
    BY <2>2
  <2>4. QED BY <2>1, <2>3
<1>12. cpu \in [code : Code, sp : Place(MaxDepth + 1)']
  BY <1>7 DEF TypeIInv
<1>13. \A c \in DOMAIN mem : c \in Place(MaxDepth + 2)' /\ mem[c] \in Frame'
  BY <1>7, <1>8 DEF TypeIInv
<1>14. (~Interrupted => cpu \in Frame') /\ (Interrupted <=> Interrupted')
  BY <1>8, <1>9 DEF TypeIInv, Interrupted
<1>15. enabled => created = Len(Entries)
  BY DEF TypeIInv
<1>16. QED BY <1>5, <1>9, <1>10, <1>11, <1>12, <1>13, <1>14, <1>15 DEF TypeIInv, Code

LEMMA CreateTaskTypes == ASSUME TypeIInv, CreateTask PROVE TypeIInv'
<1>0. /\ tops \in Seq(Nat) /\ rsp \in Seq(Place(MaxDepth + 1)) /\ Len(rsp) \in 1 .. MaxTasks
      /\ created \in 0 .. Len(tops) /\ current_task \in 0 .. (Len(rsp) - 1)
      /\ cpu \in [code : Code, sp : Place(MaxDepth + 1)] /\ ~Handled(cpu) /\ cpu \in Frame
      /\ DOMAIN stopped \subseteq 0 .. (Len(rsp) - 1)
      /\ \A c \in DOMAIN mem : c \in Place(MaxDepth + 2) /\ mem[c] \in Frame
      /\ \A t \in 0 .. (Len(rsp) - 1) : t # current_task => rsp[t + 1] \in DOMAIN mem
      /\ enabled \in BOOLEAN /\ in_service \in BOOLEAN /\ (enabled => created = Len(Entries))
  <2>1. ~Handled(cpu) /\ ~Interrupted
    BY DEF CreateTask, Running, Handled, Interrupted
  <2>2. QED BY <2>1 DEF TypeIInv
<1>1. /\ tops' = tops /\ enabled' = enabled /\ current_task' = current_task /\ cpu' = cpu
      /\ in_service' = in_service /\ created' = created + 1
      /\ created < Len(Entries) /\ Len(tops) = Len(Entries)
  BY DEF CreateTask
<1>2. created' \in 0 .. Len(tops) /\ ~enabled /\ created + 1 \in 1 .. Len(tops)
  BY <1>0, <1>1, Numbers
<1>3. CASE NumTasks >= MaxTasks
  <2>1. mem' = mem /\ rsp' = rsp /\ stopped' = stopped
    BY <1>3 DEF CreateTask, Task_Create
  <2>2. QED BY <1>0, <1>1, <1>2, <2>1, TypeKept
<1>4. CASE ~(NumTasks >= MaxTasks)
  <2>1. PICK entry, top, c, f : /\ entry = Entries[created + 1] /\ top = tops[created + 1]
                                /\ c = Cell(top, 1) /\ f = Context(entry, Cell(top, 0))
    OBVIOUS
  <2>2. mem' = Bind(mem, c, f) /\ rsp' = Append(rsp, c) /\ stopped' = Bind(stopped, NumTasks, f)
    BY <1>4, <2>1 DEF CreateTask, Task_Create
  <2>3. c \in Place(MaxDepth + 1) /\ c \in Place(MaxDepth + 2) /\ Cell(top, 0) \in Place(MaxDepth)
    <3>1. top \in {0} \union Range(tops)
      <4>1. DOMAIN tops = 1 .. Len(tops)
        BY <1>0, LenProperties
      <4>2. QED BY <1>2, <2>1, <4>1 DEF Range
    <3>2. /\ 1 \in 0 .. (MaxDepth + 1) /\ 1 \in 0 .. (MaxDepth + 2) /\ 0 \in 0 .. MaxDepth
          /\ MaxDepth \in Nat /\ MaxDepth + 1 \in Nat /\ MaxDepth + 2 \in Nat
      BY Numbers
    <3>3. QED BY <2>1, <3>1, <3>2, PlaceMade
  <2>4. f \in Frame
    <3>1. entry \in Code \ {"irq0", "stub"}
      BY <1>1, <1>2, <2>1, Codes
    <3>2. QED BY <2>1, <2>3, <3>1, FrameMade
  <2>5. /\ rsp' \in Seq(Place(MaxDepth + 1)) /\ Len(rsp') = Len(rsp) + 1
        /\ \A j \in 1 .. Len(rsp) : rsp'[j] = rsp[j]
        /\ rsp'[Len(rsp) + 1] = c /\ Len(rsp) \in Nat
    <3>1. PICK S : S = Place(MaxDepth + 1)
      OBVIOUS
    <3>2. rsp \in Seq(S) /\ c \in S
      BY <1>0, <2>3, <3>1
    <3>3. rsp' \in Seq(S) /\ Len(rsp') = Len(rsp) + 1
          /\ (\A j \in 1 .. Len(rsp) : rsp'[j] = rsp[j]) /\ rsp'[Len(rsp) + 1] = c
      BY <2>2, <3>2, AppendProperties
    <3>4. QED BY <1>0, <3>1, <3>3
  <2>6. Len(rsp') \in 1 .. MaxTasks /\ current_task \in 0 .. (Len(rsp') - 1)
    BY <1>0, <1>4, <2>5, Numbers DEF NumTasks
  <2>7. DOMAIN mem' = DOMAIN mem \union {c} /\ mem'[c] = f
        /\ \A y \in DOMAIN mem : y # c => mem'[y] = mem[y]
    BY <2>2 DEF Bind
  <2>8. \A y \in DOMAIN mem' : y \in Place(MaxDepth + 2) /\ mem'[y] \in Frame
    BY <1>0, <2>3, <2>4, <2>7
  <2>9. DOMAIN stopped' \subseteq 0 .. (Len(rsp') - 1)
    <3>1. DOMAIN stopped' = DOMAIN stopped \union {Len(rsp)}
      BY <2>2, Bound DEF NumTasks
    <3>2. Len(rsp) \in 0 .. (Len(rsp') - 1) /\ \A t \in 0 .. (Len(rsp) - 1) : t \in 0 .. (Len(rsp') - 1)
      BY <2>5
    <3>3. QED BY <1>0, <3>1, <3>2
  <2>10. \A t \in 0 .. (Len(rsp') - 1) : t # current_task => rsp'[t + 1] \in DOMAIN mem'
    <3>1. ASSUME NEW t \in 0 .. (Len(rsp') - 1), t # current_task
          PROVE  rsp'[t + 1] \in DOMAIN mem'
      <4>1. CASE t = Len(rsp)
        BY <2>5, <2>7, <4>1
      <4>2. CASE t # Len(rsp)
        <5>1. t \in 0 .. (Len(rsp) - 1) /\ t + 1 \in 1 .. Len(rsp)
          BY <2>5, <4>2
        <5>2. QED BY <1>0, <2>5, <2>7, <3>1, <5>1
      <4>3. QED BY <4>1, <4>2
    <3>2. QED BY <3>1
  <2>11. QED BY <1>0, <1>1, <1>2, <2>5, <2>6, <2>8, <2>9, <2>10, TypeKept
<1>5. QED BY <1>3, <1>4

LEMMA StiTypes == ASSUME TypeIInv, Sti PROVE TypeIInv'
<1>1. /\ tops' = tops /\ current_task' = current_task /\ cpu' = cpu /\ enabled' = TRUE
      /\ in_service' = in_service /\ created' = created /\ rsp' = rsp /\ mem' = mem
      /\ stopped' = stopped /\ created = Len(Entries)
  BY DEF Sti
<1>2. /\ rsp \in Seq(Place(MaxDepth + 1)) /\ Len(rsp) \in 1 .. MaxTasks
      /\ created \in 0 .. Len(tops) /\ current_task \in 0 .. (Len(rsp) - 1)
      /\ cpu \in [code : Code, sp : Place(MaxDepth + 1)] /\ (~Handled(cpu) => cpu \in Frame)
      /\ (Handled(cpu) => cpu.sp \in DOMAIN mem)
      /\ DOMAIN stopped \subseteq 0 .. (Len(rsp) - 1)
      /\ \A c \in DOMAIN mem : c \in Place(MaxDepth + 2) /\ mem[c] \in Frame
      /\ \A t \in 0 .. (Len(rsp) - 1) : t # current_task => rsp[t + 1] \in DOMAIN mem
      /\ in_service \in BOOLEAN
  BY DEF TypeIInv, Handled, Interrupted
<1>3. QED BY <1>1, <1>2, TypeKept

(* What every step of a running task begins with. *)
LEMMA TaskRuns ==
  ASSUME TypeIInv, ~Interrupted
  PROVE  /\ cpu \in Frame /\ cpu.sp \in Place(MaxDepth) /\ ~Handled(cpu)
         /\ cpu.code \in Code \ {"irq0", "stub"}
         /\ cpu.sp.top \in {0} \union Range(tops) /\ cpu.sp.depth \in 0 .. MaxDepth
         /\ Below(cpu.sp) \in Place(MaxDepth + 1) /\ Below(cpu.sp) \in Place(MaxDepth + 2)
         /\ Below(cpu.sp).top = cpu.sp.top /\ Below(cpu.sp).depth = cpu.sp.depth + 1
         /\ Below(Below(cpu.sp)) \in Place(MaxDepth + 2)
         /\ Below(Below(cpu.sp)).top = cpu.sp.top
         /\ Below(Below(cpu.sp)).depth = cpu.sp.depth + 2
<1>0. MaxDepth \in Nat /\ MaxDepth + 1 \in Nat /\ MaxDepth + 2 \in Nat /\ MaxDepth + 1 <= MaxDepth + 2
      /\ (MaxDepth + 1) + 1 = MaxDepth + 2
  BY Numbers
<1>1. cpu \in Frame /\ ~Handled(cpu)
  BY DEF TypeIInv, Interrupted, Handled
<1>2. cpu.sp \in Place(MaxDepth) /\ cpu.code \in Code \ {"irq0", "stub"}
  BY <1>1, FrameFacts
<1>3. cpu.sp.top \in {0} \union Range(tops) /\ cpu.sp.depth \in 0 .. MaxDepth
  BY <1>0, <1>2, PlaceFacts
<1>4. /\ Below(cpu.sp) \in Place(MaxDepth + 1) /\ Below(cpu.sp).top = cpu.sp.top
      /\ Below(cpu.sp).depth = cpu.sp.depth + 1
  BY <1>0, <1>2, PlaceBelow
<1>5. Below(cpu.sp) \in Place(MaxDepth + 2)
  BY <1>0, <1>4, PlaceWithin
<1>6. /\ Below(Below(cpu.sp)) \in Place(MaxDepth + 2)
      /\ Below(Below(cpu.sp)).top = Below(cpu.sp).top
      /\ Below(Below(cpu.sp)).depth = Below(cpu.sp).depth + 1
  <2>1. PICK c : c = Below(cpu.sp)
    OBVIOUS
  <2>2. c \in Place(MaxDepth + 1)
    BY <1>4, <2>1
  <2>3. Below(c) \in Place((MaxDepth + 1) + 1) /\ Below(c).top = c.top /\ Below(c).depth = c.depth + 1
    BY <1>0, <2>2, PlaceBelow
  <2>4. QED BY <1>0, <2>1, <2>3
<1>7. (cpu.sp.depth + 1) + 1 = cpu.sp.depth + 2
  BY <1>3
<1>8. QED BY <1>1, <1>2, <1>3, <1>4, <1>5, <1>6, <1>7

LEMMA CallTypes == ASSUME TypeIInv, Call PROVE TypeIInv'
<1>0. /\ cpu \in Frame /\ cpu.sp \in Place(MaxDepth)
      /\ cpu.code \in Code \ {"irq0", "stub"}
      /\ cpu.sp.depth \in 0 .. MaxDepth /\ cpu.sp.depth < MaxDepth
      /\ cpu.sp.top \in {0} \union Range(tops)
      /\ Below(cpu.sp) \in Place(MaxDepth + 2)
      /\ Below(cpu.sp).top = cpu.sp.top /\ Below(cpu.sp).depth = cpu.sp.depth + 1
  BY TaskRuns DEF Call
<1>1. /\ tops' = tops /\ current_task' = current_task /\ enabled' = enabled
      /\ in_service' = in_service /\ created' = created /\ rsp' = rsp
      /\ stopped' = stopped /\ mem' = Bind(mem, Below(cpu.sp), Local)
      /\ cpu' = [cpu EXCEPT !.sp = Below(@)]
  BY DEF Call, boot
<1>2. /\ rsp \in Seq(Place(MaxDepth + 1)) /\ Len(rsp) \in 1 .. MaxTasks
      /\ created \in 0 .. Len(tops) /\ current_task \in 0 .. (Len(rsp) - 1)
      /\ DOMAIN stopped \subseteq 0 .. (Len(rsp) - 1)
      /\ \A c \in DOMAIN mem : c \in Place(MaxDepth + 2) /\ mem[c] \in Frame
      /\ \A t \in 0 .. (Len(rsp) - 1) : t # current_task => rsp[t + 1] \in DOMAIN mem
      /\ enabled \in BOOLEAN /\ in_service \in BOOLEAN /\ (enabled => created = Len(Entries))
  BY DEF TypeIInv
<1>3. Below(cpu.sp) \in Place(MaxDepth)
  <2>1. Below(cpu.sp).depth \in 0 .. MaxDepth
    BY <1>0, Numbers
  <2>2. Below(cpu.sp) \in [top : {0} \union Range(tops), depth : 0 .. (MaxDepth + 2)]
    BY <1>0 DEF Place
  <2>3. QED BY <2>1, <2>2 DEF Place
<1>4. cpu' \in Frame
  BY <1>0, <1>1, <1>3 DEF Frame
<1>5. cpu' \in [code : Code, sp : Place(MaxDepth + 1)] /\ ~Handled(cpu')
  <2>1. PICK c : c = cpu'
    OBVIOUS
  <2>2. c \in Frame
    BY <1>4, <2>1
  <2>3. c.code # "irq0" /\ c.code # "stub" /\ c \in [code : Code, sp : Place(MaxDepth + 1)]
    BY <2>2, FrameFacts
  <2>4. QED BY <2>1, <2>3 DEF Handled
<1>6. DOMAIN mem' = DOMAIN mem \union {Below(cpu.sp)} /\ mem'[Below(cpu.sp)] = Local
      /\ \A y \in DOMAIN mem : y # Below(cpu.sp) => mem'[y] = mem[y]
  BY <1>1 DEF Bind
<1>7. \A y \in DOMAIN mem' : y \in Place(MaxDepth + 2) /\ mem'[y] \in Frame
  BY <1>0, <1>2, <1>6, LocalFrame
<1>8. QED BY <1>1, <1>2, <1>4, <1>5, <1>6, <1>7, TypeKept

LEMMA ReturnTypes == ASSUME TypeIInv, Return PROVE TypeIInv'
<1>0. /\ cpu \in Frame /\ cpu.sp \in Place(MaxDepth)
      /\ cpu.code \in Code \ {"irq0", "stub"}
      /\ cpu.sp.depth \in 0 .. MaxDepth /\ cpu.sp.depth > 0
  BY TaskRuns DEF Return
<1>1. /\ tops' = tops /\ current_task' = current_task /\ enabled' = enabled
      /\ in_service' = in_service /\ created' = created /\ rsp' = rsp
      /\ stopped' = stopped /\ mem' = mem
      /\ cpu' = [cpu EXCEPT !.sp.depth = @ - 1]
  BY DEF Return, boot
<1>2. /\ rsp \in Seq(Place(MaxDepth + 1)) /\ Len(rsp) \in 1 .. MaxTasks
      /\ created \in 0 .. Len(tops) /\ current_task \in 0 .. (Len(rsp) - 1)
      /\ DOMAIN stopped \subseteq 0 .. (Len(rsp) - 1)
      /\ \A c \in DOMAIN mem : c \in Place(MaxDepth + 2) /\ mem[c] \in Frame
      /\ \A t \in 0 .. (Len(rsp) - 1) : t # current_task => rsp[t + 1] \in DOMAIN mem
      /\ enabled \in BOOLEAN /\ in_service \in BOOLEAN /\ (enabled => created = Len(Entries))
  BY DEF TypeIInv
<1>3. cpu.sp.depth - 1 \in 0 .. MaxDepth
  BY <1>0, Numbers
<1>4. cpu' \in Frame
  <2>1. [cpu.sp EXCEPT !.depth = @ - 1] \in Place(MaxDepth)
    BY <1>0, <1>3 DEF Place
  <2>2. cpu' = [cpu EXCEPT !.sp = [cpu.sp EXCEPT !.depth = @ - 1]]
    BY <1>0, <1>1 DEF Frame
  <2>3. QED BY <1>0, <2>1, <2>2 DEF Frame
<1>5. cpu' \in [code : Code, sp : Place(MaxDepth + 1)] /\ ~Handled(cpu')
  <2>1. PICK c : c = cpu'
    OBVIOUS
  <2>2. c \in Frame
    BY <1>4, <2>1
  <2>3. c.code # "irq0" /\ c.code # "stub" /\ c \in [code : Code, sp : Place(MaxDepth + 1)]
    BY <2>2, FrameFacts
  <2>4. QED BY <2>1, <2>3 DEF Handled
<1>6. QED BY <1>1, <1>2, <1>4, <1>5, TypeKept

LEMMA TimerInterruptTypes == ASSUME TypeIInv, TimerInterrupt PROVE TypeIInv'
<1>0. /\ cpu \in Frame
      /\ Below(cpu.sp) \in Place(MaxDepth + 1) /\ Below(cpu.sp) \in Place(MaxDepth + 2)
      /\ Below(Below(cpu.sp)) \in Place(MaxDepth + 2)
  BY TaskRuns DEF TimerInterrupt
<1>1. /\ tops' = tops /\ current_task' = current_task /\ enabled' = enabled
      /\ in_service' = TRUE /\ created' = created /\ rsp' = rsp
      /\ stopped' = Bind(stopped, current_task, cpu)
      /\ mem' = Bind(Bind(mem, Below(Below(cpu.sp)), Local), Below(cpu.sp), cpu)
      /\ cpu' = Context("irq0", Below(cpu.sp))
  BY DEF TimerInterrupt, boot
<1>2. /\ rsp \in Seq(Place(MaxDepth + 1)) /\ Len(rsp) \in 1 .. MaxTasks
      /\ created \in 0 .. Len(tops) /\ current_task \in 0 .. (Len(rsp) - 1)
      /\ DOMAIN stopped \subseteq 0 .. (Len(rsp) - 1)
      /\ \A c \in DOMAIN mem : c \in Place(MaxDepth + 2) /\ mem[c] \in Frame
      /\ \A t \in 0 .. (Len(rsp) - 1) : t # current_task => rsp[t + 1] \in DOMAIN mem
      /\ enabled \in BOOLEAN /\ (enabled => created = Len(Entries))
  BY DEF TypeIInv
<1>3. PICK m : m = Bind(mem, Below(Below(cpu.sp)), Local)
  OBVIOUS
<1>4. DOMAIN m = DOMAIN mem \union {Below(Below(cpu.sp))} /\ m[Below(Below(cpu.sp))] = Local
      /\ \A y \in DOMAIN mem : y # Below(Below(cpu.sp)) => m[y] = mem[y]
  BY <1>3 DEF Bind
<1>5. mem' = Bind(m, Below(cpu.sp), cpu)
  BY <1>1, <1>3
<1>6. DOMAIN mem' = DOMAIN m \union {Below(cpu.sp)} /\ mem'[Below(cpu.sp)] = cpu
      /\ \A y \in DOMAIN m : y # Below(cpu.sp) => mem'[y] = m[y]
  BY <1>5 DEF Bind
<1>7. \A y \in DOMAIN m : y \in Place(MaxDepth + 2) /\ m[y] \in Frame
  BY <1>0, <1>2, <1>4, LocalFrame
<1>8. \A y \in DOMAIN mem' : y \in Place(MaxDepth + 2) /\ mem'[y] \in Frame
  BY <1>0, <1>6, <1>7
<1>9. /\ cpu' \in [code : Code, sp : Place(MaxDepth + 1)] /\ Handled(cpu')
      /\ cpu'.sp \in DOMAIN mem'
  <2>1. "irq0" \in Code
    BY Codes
  <2>2. QED BY <1>0, <1>1, <1>6, <2>1 DEF Context, Handled
<1>10. DOMAIN stopped' \subseteq 0 .. (Len(rsp) - 1)
  <2>1. DOMAIN stopped' = DOMAIN stopped \union {current_task}
    BY <1>1 DEF Bind
  <2>2. QED BY <1>2, <2>1
<1>11. \A t \in 0 .. (Len(rsp) - 1) : t # current_task => rsp[t + 1] \in DOMAIN mem'
  BY <1>2, <1>4, <1>6
<1>12. QED BY <1>1, <1>2, <1>8, <1>9, <1>10, <1>11, TypeKept

(* Which entry is stored and which is taken up. *)
LEMMA Scheduled ==
  ASSUME TypeIInv, irq0_handler
  PROVE  /\ current_task' \in 0 .. (Len(rsp) - 1)
         /\ rsp' \in Seq(Place(MaxDepth + 1)) /\ Len(rsp') = Len(rsp) /\ Len(rsp) \in 1 .. MaxTasks
         /\ rsp'[current_task + 1] = cpu.sp /\ cpu.sp \in DOMAIN mem
         /\ \A t \in 0 .. (Len(rsp) - 1) : t # current_task => rsp'[t + 1] = rsp[t + 1]
         /\ cpu' = Context("stub", rsp'[current_task' + 1])
         /\ rsp'[current_task' + 1] \in Place(MaxDepth + 1)
         /\ Interrupted /\ current_task \in 0 .. (Len(rsp) - 1)
<1>0. /\ rsp \in Seq(Place(MaxDepth + 1)) /\ Len(rsp) \in 1 .. MaxTasks
      /\ current_task \in 0 .. (Len(rsp) - 1) /\ cpu.sp \in Place(MaxDepth + 1)
      /\ cpu.sp \in DOMAIN mem /\ Interrupted
  <2>1. Interrupted
    BY DEF irq0_handler, Running, Interrupted
  <2>2. QED BY <2>1 DEF TypeIInv
<1>1. /\ rsp' = [rsp EXCEPT ![current_task + 1] = cpu.sp]
      /\ current_task' = (current_task + 1) % Len(rsp)
      /\ cpu' = Context("stub", rsp'[current_task' + 1])
  BY DEF irq0_handler, Task_Schedule, Following, NumTasks
<1>2. current_task' \in 0 .. (Len(rsp) - 1)
  <2>0. current_task + 1 \in Nat /\ Len(rsp) \in Nat \ {0}
    BY <1>0, Numbers
  <2>1. PICK c \in Nat, l \in Nat \ {0} : c = current_task + 1 /\ l = Len(rsp)
    BY <2>0
  <2>2. c % l \in 0 .. (l - 1)
    BY <2>1
  <2>3. QED BY <1>1, <2>1, <2>2
<1>3. current_task + 1 \in 1 .. Len(rsp)
  BY <1>0, Numbers
<1>4. /\ rsp' \in Seq(Place(MaxDepth + 1)) /\ Len(rsp') = Len(rsp)
      /\ \A j \in 1 .. Len(rsp) : rsp'[j] = IF j = current_task + 1 THEN cpu.sp ELSE rsp[j]
  <2>1. PICK S, r, i, x : S = Place(MaxDepth + 1) /\ r = rsp' /\ i = current_task + 1 /\ x = cpu.sp
    OBVIOUS
  <2>2. rsp \in Seq(S) /\ x \in S /\ i \in 1 .. Len(rsp) /\ r = [rsp EXCEPT ![i] = x]
    BY <1>0, <1>1, <1>3, <2>1
  <2>3. r \in Seq(S) /\ Len(r) = Len(rsp) /\ \A j \in 1 .. Len(rsp) : r[j] = IF j = i THEN x ELSE rsp[j]
    BY <2>2, ExceptSeq
  <2>4. QED BY <2>1, <2>3
<1>5. /\ \A t \in 0 .. (Len(rsp) - 1) : t + 1 \in 1 .. Len(rsp)
      /\ \A t \in 0 .. (Len(rsp) - 1) : t # current_task => t + 1 # current_task + 1
  BY <1>0, Numbers
<1>6. rsp'[current_task' + 1] \in Place(MaxDepth + 1)
  <2>1. PICK S, r, i : S = Place(MaxDepth + 1) /\ r = rsp' /\ i = current_task' + 1
    OBVIOUS
  <2>2. r \in Seq(S) /\ i \in 1 .. Len(r)
    BY <1>2, <1>4, <1>5, <2>1
  <2>3. r[i] \in S
    BY <2>2, ElementOfSeq
  <2>4. QED BY <2>1, <2>3
<1>7. QED BY <1>0, <1>1, <1>2, <1>3, <1>4, <1>5, <1>6

LEMMA irq0_handlerTypes == ASSUME TypeIInv, irq0_handler PROVE TypeIInv'
<1>0. /\ current_task' \in 0 .. (Len(rsp) - 1)
      /\ rsp' \in Seq(Place(MaxDepth + 1)) /\ Len(rsp') = Len(rsp) /\ Len(rsp) \in 1 .. MaxTasks
      /\ rsp'[current_task + 1] = cpu.sp /\ cpu.sp \in DOMAIN mem
      /\ \A t \in 0 .. (Len(rsp) - 1) : t # current_task => rsp'[t + 1] = rsp[t + 1]
      /\ cpu' = Context("stub", rsp'[current_task' + 1])
      /\ rsp'[current_task' + 1] \in Place(MaxDepth + 1)
  BY Scheduled
<1>1. /\ tops' = tops /\ enabled' = enabled /\ in_service' = FALSE /\ created' = created
      /\ stopped' = stopped /\ mem' = mem
  BY DEF irq0_handler, PIC_EndMaster, boot
<1>2. /\ created \in 0 .. Len(tops)
      /\ DOMAIN stopped \subseteq 0 .. (Len(rsp) - 1)
      /\ \A c \in DOMAIN mem : c \in Place(MaxDepth + 2) /\ mem[c] \in Frame
      /\ \A t \in 0 .. (Len(rsp) - 1) : t # current_task => rsp[t + 1] \in DOMAIN mem
      /\ enabled \in BOOLEAN /\ (enabled => created = Len(Entries))
  BY DEF TypeIInv
<1>3. \A t \in 0 .. (Len(rsp) - 1) : rsp'[t + 1] \in DOMAIN mem
  BY <1>0, <1>2
<1>4. cpu' \in [code : Code, sp : Place(MaxDepth + 1)] /\ Handled(cpu') /\ cpu'.sp \in DOMAIN mem'
  <2>1. "stub" \in Code
    BY Codes
  <2>2. cpu'.sp = rsp'[current_task' + 1] /\ cpu'.code = "stub"
    BY <1>0 DEF Context
  <2>3. QED BY <1>0, <1>1, <1>3, <2>1, <2>2 DEF Context, Handled
<1>5. QED BY <1>0, <1>1, <1>2, <1>3, <1>4, TypeKept

LEMMA IretqTypes == ASSUME TypeIInv, Iretq PROVE TypeIInv'
<1>1. /\ tops' = tops /\ enabled' = enabled /\ in_service' = in_service /\ created' = created
      /\ rsp' = rsp /\ current_task' = current_task /\ mem' = mem
      /\ cpu' = mem[cpu.sp] /\ stopped' = Restrict(stopped, DOMAIN stopped \ {current_task})
      /\ Interrupted
  BY DEF Iretq, boot, Running, Interrupted
<1>2. /\ rsp \in Seq(Place(MaxDepth + 1)) /\ Len(rsp) \in 1 .. MaxTasks
      /\ created \in 0 .. Len(tops) /\ current_task \in 0 .. (Len(rsp) - 1)
      /\ DOMAIN stopped \subseteq 0 .. (Len(rsp) - 1) /\ cpu.sp \in DOMAIN mem
      /\ \A c \in DOMAIN mem : c \in Place(MaxDepth + 2) /\ mem[c] \in Frame
      /\ \A t \in 0 .. (Len(rsp) - 1) : t # current_task => rsp[t + 1] \in DOMAIN mem
      /\ enabled \in BOOLEAN /\ in_service \in BOOLEAN /\ (enabled => created = Len(Entries))
  BY <1>1 DEF TypeIInv
<1>3. cpu' \in Frame
  BY <1>1, <1>2
<1>4. cpu' \in [code : Code, sp : Place(MaxDepth + 1)] /\ ~Handled(cpu')
  <2>1. PICK c : c = cpu'
    OBVIOUS
  <2>2. c \in Frame
    BY <1>3, <2>1
  <2>3. c.code # "irq0" /\ c.code # "stub" /\ c \in [code : Code, sp : Place(MaxDepth + 1)]
    BY <2>2, FrameFacts
  <2>4. QED BY <2>1, <2>3 DEF Handled
<1>5. DOMAIN stopped' \subseteq DOMAIN stopped
  BY <1>1 DEF Restrict
<1>6. QED BY <1>1, <1>2, <1>3, <1>4, <1>5, TypeKept

LEMMA TypeSteps == TypeIInv /\ HeapIInv /\ [Next]_vars => TypeIInv'
<1>. SUFFICES ASSUME TypeIInv, HeapIInv, [Next]_vars PROVE TypeIInv'
  OBVIOUS
<1>1. CASE UNCHANGED vars
  <2>1. /\ tops' = tops /\ enabled' = enabled /\ in_service' = in_service /\ created' = created
        /\ rsp' = rsp /\ current_task' = current_task /\ mem' = mem /\ cpu' = cpu /\ stopped' = stopped
    BY <1>1 DEF vars, boot
  <2>2. QED BY <2>1 DEF TypeIInv, Place, Frame, Code, Interrupted
<1>2. QED
  BY <1>1, AllocateStackTypes, CreateTaskTypes, StiTypes, CallTypes, ReturnTypes,
     TimerInterruptTypes, irq0_handlerTypes, IretqTypes DEF Next

LEMMA HeapBelow == Spec => HeapSpec
<1>1. Init => Heap_Init
  BY DEF Init
<1>2. [Next]_vars => [HeapNext]_heap
  <2>. SUFFICES ASSUME [Next]_vars PROVE [HeapNext]_heap
    OBVIOUS
  <2>1. CASE AllocateStack
    BY <2>1, Numbers DEF AllocateStack, HeapNext
  <2>2. CASE CreateTask
    BY <2>2 DEF CreateTask
  <2>3. CASE Sti
    BY <2>3 DEF Sti
  <2>4. CASE Call \/ Return \/ TimerInterrupt \/ irq0_handler \/ Iretq
    BY <2>4 DEF Call, Return, TimerInterrupt, irq0_handler, Iretq, boot
  <2>5. CASE UNCHANGED vars
    BY <2>5 DEF vars, boot
  <2>6. QED BY <2>1, <2>2, <2>3, <2>4, <2>5 DEF Next
<1>3. QED BY <1>1, <1>2, PTL DEF Spec, HeapSpec

LEMMA TypeStays == Spec => [](TypeIInv /\ HeapIInv)
<1>1. Spec => []HeapIInv
  BY HeapBelow, HeapStays, PTL
<1>2. QED BY <1>1, TypeStarts, TypeSteps, PTL DEF Spec

LEMMA TypeFollows == TypeIInv => TypeOK
<1>. SUFFICES ASSUME TypeIInv PROVE TypeOK
  OBVIOUS
<1>0. MaxDepth \in Nat /\ MaxDepth + 1 \in Nat /\ MaxDepth + 2 \in Nat
      /\ MaxDepth <= MaxDepth + 2 /\ MaxDepth + 1 <= MaxDepth + 2
  BY Numbers
<1>1. SP = Place(MaxDepth + 2)
  BY DEF SP, Place
<1>2. Place(MaxDepth) \subseteq SP /\ Place(MaxDepth + 1) \subseteq SP
  BY <1>0, <1>1, PlaceWithin
<1>3. Len(tops) \in 0 .. Len(Entries) /\ created \in 0 .. Len(tops)
  BY LenProperties, Numbers DEF TypeIInv
<1>4. Range(rsp) \subseteq SP
  <2>1. PICK S : S = Place(MaxDepth + 1)
    OBVIOUS
  <2>2. rsp \in Seq(S)
    BY <2>1 DEF TypeIInv
  <2>3. DOMAIN rsp = 1 .. Len(rsp)
    BY <2>2, LenProperties
  <2>4. \A i \in 1 .. Len(rsp) : rsp[i] \in S
    BY <2>2, ElementOfSeq
  <2>5. QED BY <1>2, <2>1, <2>3, <2>4 DEF Range
<1>5. cpu \in [code : Code, sp : SP]
  BY <1>2 DEF TypeIInv
<1>6. DOMAIN mem \subseteq SP
  BY <1>1 DEF TypeIInv
<1>7. Range(mem) \subseteq [code : Code, sp : SP]
  <2>1. \A c \in DOMAIN mem : mem[c] \in Frame
    BY DEF TypeIInv
  <2>2. Frame \subseteq [code : Code, sp : SP]
    BY <1>2 DEF Frame
  <2>3. QED BY <2>1, <2>2 DEF Range
<1>8. QED BY <1>3, <1>4, <1>5, <1>6, <1>7 DEF TypeOK, TypeIInv, NumTasks

-----------------------------------------------------------------------------
(* Tasks whose stacks were allocated.                                      *)

(* No kmalloc has returned NULL.                                           *)
NoneFailed == \A i \in 1 .. Len(tops) : tops[i] # StackSize

(* The top of the stack of a task.                                         *)
Stack(t) == IF t = 0 THEN 0 ELSE tops[t]

(* The frame at sp is the one task t was stopped with, on t's stack.       *)
Saved(t, sp, m, s, top) ==
  /\ t \in DOMAIN s /\ sp \in DOMAIN m
  /\ m[sp] = s[t] /\ sp.top = top /\ s[t].sp.top = top

FramesIInv ==
  /\ \A i, j \in 1 .. Len(tops) : tops[i] = tops[j] => i = j
  /\ \A i \in 1 .. Len(tops) : tops[i] - StackSize \in DOMAIN held /\ tops[i] # 0
  /\ Len(rsp) <= created + 1 /\ (Len(rsp) < MaxTasks => Len(rsp) = created + 1)
  /\ cpu.sp.top = Stack(current_task)
  /\ \A t \in 0 .. (Len(rsp) - 1) :
       t # current_task => Saved(t, rsp[t + 1], mem, stopped, Stack(t))
  /\ Interrupted => Saved(current_task, cpu.sp, mem, stopped, Stack(current_task))

FramesInv == NoneFailed => FramesIInv

(* No two tasks have one stack. *)
LEMMA StacksApart ==
  ASSUME TypeIInv, FramesIInv, NEW t \in 0 .. Len(tops), NEW u \in 0 .. Len(tops), t # u
  PROVE  Stack(t) # Stack(u)
<1>1. /\ \A i, j \in 1 .. Len(tops) : tops[i] = tops[j] => i = j
      /\ \A i \in 1 .. Len(tops) : tops[i] # 0
  BY DEF FramesIInv
<1>2. Len(tops) \in Nat
  BY LenProperties DEF TypeIInv
<1>3. (t # 0 => t \in 1 .. Len(tops)) /\ (u # 0 => u \in 1 .. Len(tops))
  BY <1>2
<1>4. QED BY <1>1, <1>3 DEF Stack

(* Every task has a stack. *)
LEMMA TasksHaveStacks ==
  ASSUME TypeIInv, FramesIInv
  PROVE  /\ \A t \in 0 .. (Len(rsp) - 1) : t \in 0 .. Len(tops)
         /\ current_task \in 0 .. (Len(rsp) - 1)
<1>1. /\ Len(rsp) <= created + 1 /\ created \in 0 .. Len(tops) /\ Len(rsp) \in 1 .. MaxTasks
      /\ current_task \in 0 .. (Len(rsp) - 1)
  BY DEF FramesIInv, TypeIInv
<1>2. Len(tops) \in Nat
  BY LenProperties DEF TypeIInv
<1>3. QED BY <1>1, <1>2, Numbers

LEMMA FramesKept ==
  ASSUME FramesIInv, tops' = tops, held' = held,
         Len(rsp') <= created' + 1, Len(rsp') < MaxTasks => Len(rsp') = created' + 1,
         cpu'.sp.top = Stack(current_task'),
         \A t \in 0 .. (Len(rsp') - 1) :
           t # current_task' => Saved(t, rsp'[t + 1], mem', stopped', Stack(t)),
         Handled(cpu') => Saved(current_task', cpu'.sp, mem', stopped', Stack(current_task'))
  PROVE  FramesIInv'
<1>1. \A t : Stack(t)' = IF t = 0 THEN 0 ELSE tops[t]
  BY DEF Stack
<1>2. Interrupted' <=> Handled(cpu')
  BY DEF Interrupted, Handled
<1>3. /\ \A i, j \in 1 .. Len(tops') : tops'[i] = tops'[j] => i = j
      /\ \A i \in 1 .. Len(tops') : tops'[i] - StackSize \in DOMAIN held' /\ tops'[i] # 0
  BY DEF FramesIInv
<1>4. Stack(current_task)' = Stack(current_task')
  BY DEF Stack
<1>5. \A t \in 0 .. (Len(rsp') - 1) :
        t # current_task' => Saved(t, rsp'[t + 1], mem', stopped', Stack(t)')
  BY <1>1 DEF Stack
<1>6. QED BY <1>2, <1>3, <1>4, <1>5 DEF FramesIInv, Saved

(* A failure stays visible, so what none has failed before is known. *)
LEMMA FramesAllocateStack ==
  ASSUME TypeIInv, HeapIInv, FramesInv, AllocateStack, NoneFailed'
  PROVE  FramesIInv'
<1>1. PICK ptr : ptr = Kmalloc(blocks, StackSize).ptr
  OBVIOUS
<1>2. \/ ptr = NULL /\ held' = held
      \/ ptr \in Nat \ DOMAIN held /\ DOMAIN held' = DOMAIN held \union {ptr}
  <2>1. kmalloc(StackSize) /\ StackSize \in Request
    BY Numbers DEF AllocateStack
  <2>2. QED BY <1>1, <2>1, KmallocStep
<1>3. PICK top \in Nat : top = (IF ptr = NULL THEN 0 ELSE ptr) + StackSize
  BY <1>2, Numbers
<1>4. tops' = Append(tops, top)
  BY <1>1, <1>3 DEF AllocateStack
<1>5. /\ tops \in Seq(Nat) /\ Len(tops') = Len(tops) + 1 /\ Len(tops) \in Nat
      /\ \A i \in 1 .. Len(tops) : tops'[i] = tops[i]
      /\ tops'[Len(tops) + 1] = top
  BY <1>3, <1>4, LenProperties, AppendProperties DEF TypeIInv
<1>6. \A i \in 1 .. Len(tops') : tops'[i] # StackSize
  BY DEF NoneFailed
<1>7. ptr # NULL /\ ptr \in Nat \ DOMAIN held /\ DOMAIN held' = DOMAIN held \union {ptr}
  <2>1. top # StackSize
    BY <1>5, <1>6
  <2>2. QED BY <1>2, <1>3, <2>1, Numbers
<1>8. top = ptr + StackSize /\ top - StackSize = ptr /\ top # 0
  BY <1>3, <1>7, Numbers
<1>9. NoneFailed
  <2>1. \A i \in 1 .. Len(tops) : i \in 1 .. Len(tops')
    BY <1>5
  <2>2. QED BY <1>5, <1>6, <2>1 DEF NoneFailed
<1>10. FramesIInv
  BY <1>9 DEF FramesInv
<1>11. /\ \A i, j \in 1 .. Len(tops) : tops[i] = tops[j] => i = j
       /\ \A i \in 1 .. Len(tops) : tops[i] - StackSize \in DOMAIN held /\ tops[i] # 0
  BY <1>10 DEF FramesIInv
<1>12. ASSUME NEW i \in 1 .. Len(tops')
       PROVE  i \in 1 .. Len(tops) \/ i = Len(tops) + 1
  BY <1>5
<1>13. \A i \in 1 .. Len(tops) : tops[i] # top
  BY <1>7, <1>8, <1>11
<1>14. \A i, j \in 1 .. Len(tops') : tops'[i] = tops'[j] => i = j
  BY <1>5, <1>11, <1>12, <1>13
<1>15. \A i \in 1 .. Len(tops') : tops'[i] - StackSize \in DOMAIN held' /\ tops'[i] # 0
  BY <1>5, <1>7, <1>8, <1>11, <1>12
<1>16. /\ created' = created /\ rsp' = rsp /\ current_task' = current_task
       /\ cpu' = cpu /\ mem' = mem /\ stopped' = stopped
  BY DEF AllocateStack
<1>17. \A t \in 0 .. Len(tops) : Stack(t)' = Stack(t)
  <2>1. \A t \in 0 .. Len(tops) : t # 0 => t \in 1 .. Len(tops)
    BY <1>5
  <2>2. QED BY <1>5, <2>1 DEF Stack
<1>18. /\ \A t \in 0 .. (Len(rsp) - 1) : Stack(t)' = Stack(t)
       /\ Stack(current_task)' = Stack(current_task)
  <2>1. Stack(current_task)' = IF current_task' = 0 THEN 0 ELSE tops'[current_task']
    BY DEF Stack
  <2>2. current_task \in 0 .. Len(tops) /\ \A t \in 0 .. (Len(rsp) - 1) : t \in 0 .. Len(tops)
    BY <1>10, TasksHaveStacks
  <2>3. current_task # 0 => current_task \in 1 .. Len(tops)
    BY <1>5, <2>2
  <2>4. Stack(current_task)' = Stack(current_task)
    BY <1>5, <1>16, <2>1, <2>3 DEF Stack
  <2>5. QED BY <1>17, <2>2, <2>4
<1>19. /\ Len(rsp) <= created + 1 /\ (Len(rsp) < MaxTasks => Len(rsp) = created + 1)
       /\ cpu.sp.top = Stack(current_task)
       /\ \A t \in 0 .. (Len(rsp) - 1) :
            t # current_task => Saved(t, rsp[t + 1], mem, stopped, Stack(t))
  BY <1>10 DEF FramesIInv
<1>20. ~Interrupted /\ ~Interrupted'
  BY <1>16 DEF AllocateStack, Running, Interrupted
<1>21. QED BY <1>14, <1>15, <1>16, <1>18, <1>19, <1>20 DEF FramesIInv

LEMMA FramesCreateTask == ASSUME TypeIInv, FramesIInv, CreateTask PROVE FramesIInv'
<1>1. /\ tops' = tops /\ current_task' = current_task /\ cpu' = cpu /\ held' = held
      /\ created' = created + 1 /\ created < Len(Entries) /\ Len(tops) = Len(Entries)
      /\ ~Handled(cpu)
  BY DEF CreateTask, heap, Running, Handled
<1>2. /\ Len(rsp) <= created + 1 /\ (Len(rsp) < MaxTasks => Len(rsp) = created + 1)
      /\ cpu.sp.top = Stack(current_task)
      /\ \A t \in 0 .. (Len(rsp) - 1) :
           t # current_task => Saved(t, rsp[t + 1], mem, stopped, Stack(t))
  BY DEF FramesIInv
<1>3. /\ Len(rsp) \in 1 .. MaxTasks /\ created \in 0 .. Len(tops) /\ Len(tops) \in Nat
      /\ current_task \in 0 .. (Len(rsp) - 1) /\ rsp \in Seq(Place(MaxDepth + 1))
      /\ DOMAIN stopped \subseteq 0 .. (Len(rsp) - 1)
  BY LenProperties DEF TypeIInv
<1>4. CASE NumTasks >= MaxTasks
  <2>1. mem' = mem /\ rsp' = rsp /\ stopped' = stopped
    BY <1>4 DEF CreateTask, Task_Create
  <2>2. Len(rsp') <= created' + 1 /\ ~(Len(rsp') < MaxTasks)
    BY <1>1, <1>2, <1>3, <1>4, <2>1, Numbers DEF NumTasks
  <2>3. QED BY <1>1, <1>2, <2>1, <2>2, FramesKept
<1>5. CASE ~(NumTasks >= MaxTasks)
  <2>1. PICK entry, top, c, f : /\ entry = Entries[created + 1] /\ top = tops[created + 1]
                                /\ c = Cell(top, 1) /\ f = Context(entry, Cell(top, 0))
    OBVIOUS
  <2>2. mem' = Bind(mem, c, f) /\ rsp' = Append(rsp, c) /\ stopped' = Bind(stopped, Len(rsp), f)
    BY <1>5, <2>1 DEF CreateTask, Task_Create, NumTasks
  <2>3. /\ DOMAIN mem' = DOMAIN mem \union {c} /\ mem'[c] = f
        /\ \A y \in DOMAIN mem : y # c => mem'[y] = mem[y]
    BY <2>2 DEF Bind
  <2>4. /\ DOMAIN stopped' = DOMAIN stopped \union {Len(rsp)} /\ stopped'[Len(rsp)] = f
        /\ \A y \in DOMAIN stopped : y # Len(rsp) => stopped'[y] = stopped[y]
    BY <2>2 DEF Bind
  <2>5. /\ Len(rsp') = Len(rsp) + 1 /\ rsp'[Len(rsp) + 1] = c
        /\ \A j \in 1 .. Len(rsp) : rsp'[j] = rsp[j]
    <3>1. PICK S : S = Place(MaxDepth + 1) \union {c}
      OBVIOUS
    <3>2. rsp \in Seq(S) /\ c \in S
      <4>1. Place(MaxDepth + 1) \subseteq S /\ c \in S
        BY <3>1
      <4>2. PICK P : P = Place(MaxDepth + 1)
        OBVIOUS
      <4>3. QED BY <1>3, <4>1, <4>2
    <3>3. QED BY <2>2, <3>2, AppendProperties
  <2>6. Len(rsp) = created + 1 /\ Len(rsp) \in 1 .. Len(tops) /\ Len(rsp) \in Nat \ {0}
    BY <1>1, <1>2, <1>3, <1>5, Numbers DEF NumTasks
  <2>7. c.top = top /\ f.sp.top = top /\ top = Stack(Len(rsp))
    BY <2>1, <2>6 DEF Cell, Context, Stack
  <2>8. ASSUME NEW t \in 0 .. (Len(rsp') - 1), t # current_task
        PROVE  Saved(t, rsp'[t + 1], mem', stopped', Stack(t))
    <3>1. CASE t = Len(rsp)
      BY <2>3, <2>4, <2>5, <2>7, <3>1 DEF Saved
    <3>2. CASE t # Len(rsp)
      <4>1. t \in 0 .. (Len(rsp) - 1) /\ t + 1 \in 1 .. Len(rsp)
        BY <2>5, <2>6, <3>2
      <4>2. Saved(t, rsp[t + 1], mem, stopped, Stack(t)) /\ rsp'[t + 1] = rsp[t + 1]
        BY <1>2, <2>5, <2>8, <4>1
      <4>3. Stack(t) # top
        <5>1. t \in 0 .. Len(tops) /\ Len(rsp) \in 0 .. Len(tops)
          BY <2>6, <4>1, TasksHaveStacks
        <5>2. QED BY <2>7, <3>2, <5>1, StacksApart
      <4>4. rsp[t + 1] # c
        BY <2>7, <4>2, <4>3 DEF Saved
      <4>5. QED BY <2>3, <2>4, <3>2, <4>2, <4>4 DEF Saved
    <3>3. QED BY <3>1, <3>2
  <2>9. Len(rsp') <= created' + 1 /\ Len(rsp') = created' + 1
    BY <1>1, <1>3, <2>5, <2>6
  <2>10. QED BY <1>1, <1>2, <2>8, <2>9, FramesKept
<1>6. QED BY <1>4, <1>5

(* What a task writes is on its own stack, so the waiting tasks' frames    *)
(* are as they were.                                                       *)
LEMMA OthersKept ==
  ASSUME TypeIInv, FramesIInv, NEW m, NEW s, NEW t \in 0 .. (Len(rsp) - 1), t # current_task,
         DOMAIN mem \subseteq DOMAIN m,
         \A c \in DOMAIN mem : c.top # Stack(current_task) => m[c] = mem[c],
         t \in DOMAIN stopped => t \in DOMAIN s /\ s[t] = stopped[t]
  PROVE  Saved(t, rsp[t + 1], m, s, Stack(t))
<1>1. Saved(t, rsp[t + 1], mem, stopped, Stack(t))
  BY DEF FramesIInv
<1>2. Stack(t) # Stack(current_task)
  BY TasksHaveStacks, StacksApart
<1>3. QED BY <1>1, <1>2 DEF Saved

LEMMA FramesCall == ASSUME TypeIInv, FramesIInv, Call PROVE FramesIInv'
<1>1. /\ tops' = tops /\ current_task' = current_task /\ held' = held
      /\ created' = created /\ rsp' = rsp
      /\ stopped' = stopped /\ mem' = Bind(mem, Below(cpu.sp), Local)
      /\ cpu' = [cpu EXCEPT !.sp = Below(@)]
  BY DEF Call, boot, heap
<1>2. /\ cpu \in Frame /\ cpu.code \in Code \ {"irq0", "stub"} /\ Below(cpu.sp).top = cpu.sp.top
  BY TaskRuns DEF Call
<1>3. /\ Len(rsp) <= created + 1 /\ (Len(rsp) < MaxTasks => Len(rsp) = created + 1)
      /\ cpu.sp.top = Stack(current_task)
  BY DEF FramesIInv
<1>4. cpu'.sp = Below(cpu.sp) /\ cpu'.code = cpu.code
  BY <1>1, <1>2 DEF Frame
<1>5. cpu'.sp.top = Stack(current_task) /\ ~Handled(cpu')
  BY <1>2, <1>3, <1>4 DEF Handled
<1>6. /\ DOMAIN mem \subseteq DOMAIN mem'
      /\ \A c \in DOMAIN mem : c # Below(cpu.sp) => mem'[c] = mem[c]
  BY <1>1 DEF Bind
<1>7. \A c \in DOMAIN mem : c.top # Stack(current_task) => mem'[c] = mem[c]
  BY <1>2, <1>3, <1>6
<1>8. \A t \in 0 .. (Len(rsp) - 1) :
        t # current_task => Saved(t, rsp[t + 1], mem', stopped', Stack(t))
  BY <1>1, <1>6, <1>7, OthersKept
<1>9. QED BY <1>1, <1>3, <1>5, <1>8, FramesKept

LEMMA FramesReturn == ASSUME TypeIInv, FramesIInv, Return PROVE FramesIInv'
<1>1. /\ tops' = tops /\ current_task' = current_task /\ held' = held
      /\ created' = created /\ rsp' = rsp /\ stopped' = stopped /\ mem' = mem
      /\ cpu' = [cpu EXCEPT !.sp.depth = @ - 1]
  BY DEF Return, boot, heap
<1>2. cpu \in Frame /\ cpu.code \in Code \ {"irq0", "stub"} /\ cpu.sp \in Place(MaxDepth)
  BY TaskRuns DEF Return
<1>3. /\ Len(rsp) <= created + 1 /\ (Len(rsp) < MaxTasks => Len(rsp) = created + 1)
      /\ cpu.sp.top = Stack(current_task)
      /\ \A t \in 0 .. (Len(rsp) - 1) :
           t # current_task => Saved(t, rsp[t + 1], mem, stopped, Stack(t))
  BY DEF FramesIInv
<1>4. cpu'.sp.top = cpu.sp.top /\ cpu'.code = cpu.code
  <2>1. cpu' = [cpu EXCEPT !.sp = [cpu.sp EXCEPT !.depth = @ - 1]]
    BY <1>1, <1>2 DEF Frame
  <2>2. [cpu.sp EXCEPT !.depth = @ - 1].top = cpu.sp.top
    BY <1>2 DEF Place
  <2>3. QED BY <1>2, <2>1, <2>2 DEF Frame
<1>5. cpu'.sp.top = Stack(current_task) /\ ~Handled(cpu')
  BY <1>2, <1>3, <1>4 DEF Handled
<1>6. QED BY <1>1, <1>3, <1>5, FramesKept

LEMMA FramesTimerInterrupt == ASSUME TypeIInv, FramesIInv, TimerInterrupt PROVE FramesIInv'
<1>1. /\ tops' = tops /\ current_task' = current_task /\ held' = held
      /\ created' = created /\ rsp' = rsp
      /\ stopped' = Bind(stopped, current_task, cpu)
      /\ mem' = Bind(Bind(mem, Below(Below(cpu.sp)), Local), Below(cpu.sp), cpu)
      /\ cpu' = Context("irq0", Below(cpu.sp))
  BY DEF TimerInterrupt, boot, heap
<1>2. /\ cpu \in Frame /\ Below(cpu.sp).top = cpu.sp.top
      /\ Below(Below(cpu.sp)).top = cpu.sp.top
  BY TaskRuns DEF TimerInterrupt
<1>3. /\ Len(rsp) <= created + 1 /\ (Len(rsp) < MaxTasks => Len(rsp) = created + 1)
      /\ cpu.sp.top = Stack(current_task)
  BY DEF FramesIInv
<1>4. cpu'.sp = Below(cpu.sp)
  BY <1>1 DEF Context
<1>5. cpu'.sp.top = Stack(current_task)
  BY <1>2, <1>3, <1>4
<1>6. /\ DOMAIN mem \subseteq DOMAIN mem' /\ Below(cpu.sp) \in DOMAIN mem' /\ mem'[Below(cpu.sp)] = cpu
      /\ \A c \in DOMAIN mem : c # Below(cpu.sp) /\ c # Below(Below(cpu.sp)) => mem'[c] = mem[c]
  <2>1. PICK m : m = Bind(mem, Below(Below(cpu.sp)), Local)
    OBVIOUS
  <2>2. /\ DOMAIN m = DOMAIN mem \union {Below(Below(cpu.sp))}
        /\ \A c \in DOMAIN mem : c # Below(Below(cpu.sp)) => m[c] = mem[c]
    BY <2>1 DEF Bind
  <2>3. mem' = Bind(m, Below(cpu.sp), cpu)
    BY <1>1, <2>1
  <2>4. /\ DOMAIN mem' = DOMAIN m \union {Below(cpu.sp)} /\ mem'[Below(cpu.sp)] = cpu
        /\ \A c \in DOMAIN m : c # Below(cpu.sp) => mem'[c] = m[c]
    BY <2>3 DEF Bind
  <2>5. QED BY <2>2, <2>4
<1>7. \A c \in DOMAIN mem : c.top # Stack(current_task) => mem'[c] = mem[c]
  BY <1>2, <1>3, <1>6
<1>8. /\ current_task \in DOMAIN stopped' /\ stopped'[current_task] = cpu
      /\ \A t \in DOMAIN stopped : t # current_task => t \in DOMAIN stopped' /\ stopped'[t] = stopped[t]
  BY <1>1 DEF Bind
<1>9. \A t \in 0 .. (Len(rsp) - 1) :
        t # current_task => Saved(t, rsp[t + 1], mem', stopped', Stack(t))
  BY <1>6, <1>7, <1>8, OthersKept
<1>10. Saved(current_task, cpu'.sp, mem', stopped', Stack(current_task))
  BY <1>3, <1>4, <1>5, <1>6, <1>8 DEF Saved
<1>11. QED BY <1>1, <1>3, <1>5, <1>9, <1>10, FramesKept

LEMMA Framesirq0_handler == ASSUME TypeIInv, FramesIInv, irq0_handler PROVE FramesIInv'
<1>0. /\ current_task' \in 0 .. (Len(rsp) - 1) /\ current_task \in 0 .. (Len(rsp) - 1)
      /\ Len(rsp') = Len(rsp) /\ rsp'[current_task + 1] = cpu.sp
      /\ \A t \in 0 .. (Len(rsp) - 1) : t # current_task => rsp'[t + 1] = rsp[t + 1]
      /\ cpu' = Context("stub", rsp'[current_task' + 1]) /\ Interrupted
  BY Scheduled
<1>1. /\ tops' = tops /\ held' = held /\ created' = created /\ stopped' = stopped /\ mem' = mem
  BY DEF irq0_handler, boot, heap
<1>2. /\ Len(rsp) <= created + 1 /\ (Len(rsp) < MaxTasks => Len(rsp) = created + 1)
      /\ \A t \in 0 .. (Len(rsp) - 1) :
           t # current_task => Saved(t, rsp[t + 1], mem, stopped, Stack(t))
      /\ Saved(current_task, cpu.sp, mem, stopped, Stack(current_task))
  BY <1>0 DEF FramesIInv
<1>3. ASSUME NEW t \in 0 .. (Len(rsp) - 1)
      PROVE  Saved(t, rsp'[t + 1], mem', stopped', Stack(t))
  BY <1>0, <1>1, <1>2
<1>4. Saved(current_task', rsp'[current_task' + 1], mem', stopped', Stack(current_task'))
  BY <1>0, <1>3
<1>5. cpu'.sp = rsp'[current_task' + 1]
  BY <1>0 DEF Context
<1>6. /\ Saved(current_task', cpu'.sp, mem', stopped', Stack(current_task'))
      /\ cpu'.sp.top = Stack(current_task')
  BY <1>4, <1>5 DEF Saved
<1>7. QED BY <1>0, <1>1, <1>2, <1>3, <1>6, FramesKept

(* The stub restores what the current task was stopped with.               *)
LEMMA Resumed == ASSUME FramesIInv, Iretq PROVE cpu' = stopped[current_task]
<1>1. Interrupted /\ cpu' = mem[cpu.sp]
  BY DEF Iretq, Running, Interrupted
<1>2. Saved(current_task, cpu.sp, mem, stopped, Stack(current_task))
  BY <1>1 DEF FramesIInv
<1>3. QED BY <1>1, <1>2 DEF Saved

LEMMA FramesIretq == ASSUME TypeIInv, FramesIInv, Iretq PROVE FramesIInv'
<1>1. /\ tops' = tops /\ held' = held /\ created' = created
      /\ rsp' = rsp /\ current_task' = current_task /\ mem' = mem /\ cpu' = mem[cpu.sp]
      /\ stopped' = Restrict(stopped, DOMAIN stopped \ {current_task}) /\ Interrupted
  BY DEF Iretq, boot, heap, Running, Interrupted
<1>2. /\ Len(rsp) <= created + 1 /\ (Len(rsp) < MaxTasks => Len(rsp) = created + 1)
      /\ Saved(current_task, cpu.sp, mem, stopped, Stack(current_task))
  BY <1>1 DEF FramesIInv
<1>3. cpu'.sp.top = Stack(current_task)
  BY <1>1, <1>2 DEF Saved
<1>4. ~Handled(cpu')
  <2>1. PICK c : c = mem[cpu.sp]
    OBVIOUS
  <2>2. c \in Frame
    BY <1>1, <2>1 DEF TypeIInv
  <2>3. c.code # "irq0" /\ c.code # "stub"
    BY <2>2, FrameFacts
  <2>4. QED BY <1>1, <2>1, <2>3 DEF Handled
<1>5. \A t \in DOMAIN stopped : t # current_task => t \in DOMAIN stopped' /\ stopped'[t] = stopped[t]
  BY <1>1 DEF Restrict
<1>6. \A t \in 0 .. (Len(rsp) - 1) :
        t # current_task => Saved(t, rsp[t + 1], mem', stopped', Stack(t))
  BY <1>1, <1>5, OthersKept
<1>7. QED BY <1>1, <1>2, <1>3, <1>4, <1>6, FramesKept

LEMMA FramesStart == Init => FramesIInv
<1>. SUFFICES ASSUME Init PROVE FramesIInv
  OBVIOUS
<1>1. /\ tops = << >> /\ rsp = <<BootStack>> /\ current_task = 0 /\ created = 0
      /\ cpu = Context("kernel_main", BootStack)
  BY DEF Init
<1>2. Len(tops) = 0 /\ Len(rsp) = 1
  BY <1>1
<1>3. cpu.sp.top = Stack(0) /\ ~Interrupted
  BY <1>1 DEF Context, BootStack, Cell, Stack, Interrupted
<1>4. \A t \in 0 .. (Len(rsp) - 1) : t = current_task
  BY <1>1, <1>2
<1>5. QED BY <1>1, <1>2, <1>3, <1>4 DEF FramesIInv

LEMMA FramesSteps == TypeIInv /\ HeapIInv /\ FramesInv /\ [Next]_vars => FramesInv'
<1>. SUFFICES ASSUME TypeIInv, HeapIInv, FramesInv, [Next]_vars, NoneFailed' PROVE FramesIInv'
  BY DEF FramesInv
<1>1. CASE AllocateStack
  BY <1>1, FramesAllocateStack
<1>2. CASE tops' = tops
  <2>1. FramesIInv
    BY <1>2 DEF FramesInv, NoneFailed
  <2>2. CASE UNCHANGED vars
    <3>1. /\ held' = held /\ created' = created
          /\ rsp' = rsp /\ current_task' = current_task /\ mem' = mem /\ cpu' = cpu /\ stopped' = stopped
      BY <2>2 DEF vars, boot, heap
    <3>2. QED BY <1>2, <2>1, <3>1 DEF FramesIInv, Interrupted, Stack
  <2>3. CASE Sti
    <3>1. /\ held' = held /\ created' = created
          /\ rsp' = rsp /\ current_task' = current_task /\ mem' = mem /\ cpu' = cpu /\ stopped' = stopped
      BY <2>3 DEF Sti, heap
    <3>2. QED BY <1>2, <2>1, <3>1 DEF FramesIInv, Interrupted, Stack
  <2>4. QED
    BY <1>1, <2>1, <2>2, <2>3, FramesCreateTask, FramesCall, FramesReturn,
       FramesTimerInterrupt, Framesirq0_handler, FramesIretq DEF Next
<1>3. tops' = tops \/ AllocateStack
  BY DEF Next, CreateTask, Sti, Call, Return, TimerInterrupt, irq0_handler, Iretq, vars, boot
<1>4. QED BY <1>1, <1>2, <1>3

LEMMA FramesStay == Spec => [](TypeIInv /\ HeapIInv /\ FramesInv)
<1>1. Init => FramesInv
  BY FramesStart DEF FramesInv
<1>2. QED BY <1>1, TypeStays, FramesSteps, PTL DEF Spec

LEMMA InvFollows == TypeIInv /\ FramesIInv => Inv
<1>. SUFFICES ASSUME TypeIInv, FramesIInv PROVE Inv
  OBVIOUS
<1>1. FramesSurvive
  <2>1. ASSUME NEW t \in DOMAIN stopped \ {current_task}
        PROVE  rsp[t + 1] \in DOMAIN mem /\ mem[rsp[t + 1]] = stopped[t]
    <3>1. t \in 0 .. (Len(rsp) - 1)
      BY DEF TypeIInv
    <3>2. Saved(t, rsp[t + 1], mem, stopped, Stack(t))
      BY <3>1 DEF FramesIInv
    <3>3. QED BY <3>2 DEF Saved
  <2>2. QED BY <2>1 DEF FramesSurvive
<1>2. QED BY <1>1, TypeFollows DEF Inv

-----------------------------------------------------------------------------
(* Tasks, frames and the task table are well formed, even when stacks were *)
(* not allocated and share their place.                                    *)
THEOREM TasksTyped == Spec => []TypeOK
BY TypeStays, TypeFollows, PTL

(* As long as every kmalloc has succeeded, each waiting task's frame is as *)
(* it was saved, however the timer interrupts calls and returns.           *)
THEOREM FramesCorrect == Spec => [](NoneFailed => Inv)
<1>1. TypeIInv /\ FramesInv => (NoneFailed => Inv)
  BY InvFollows DEF FramesInv
<1>2. QED BY <1>1, FramesStay, PTL

-----------------------------------------------------------------------------
(* A heap with room for every stack.                                       *)

(* The region holds a header, and a header and a stack for every task; and *)
(* a rest of that size is worth a block.                                   *)
EnoughHeap ==
  /\ HeapSize >= Header + Len(Entries) * (Header + StackSize)
  /\ Slack < Header + StackSize

(* Until kernel_main has all its stacks, the last block is free, alone is, *)
(* and has room for the ones to come.                                      *)
Room ==
  Len(tops) < Len(Entries) =>
    /\ blocks[Len(blocks)].free
    /\ \A j \in 1 .. (Len(blocks) - 1) : ~blocks[j].free
    /\ blocks[Len(blocks)].size >= (Len(Entries) - Len(tops)) * (Header + StackSize)

LEMMA Multiples ==
  ASSUME NEW m \in Nat \ {0}, NEW x \in Nat
  PROVE  /\ m * x = (m - 1) * x + x /\ (m - 1) * x \in Nat
         /\ m # 1 => (m - 1) * x >= x
<1>1. \A k \in Nat : k * x \in Nat /\ (k + 1) * x = k * x + x
  OBVIOUS
<1>2. PICK k \in Nat : k = m - 1
  OBVIOUS
<1>3. m * x = (m - 1) * x + x /\ (m - 1) * x \in Nat
  BY <1>1, <1>2
<1>4. ASSUME m # 1 PROVE (m - 1) * x >= x
  <2>1. PICK l \in Nat : l = m - 2
    BY <1>4
  <2>2. (m - 1) * x = l * x + x /\ l * x \in Nat
    BY <1>1, <2>1
  <2>3. PICK p \in Nat : p = l * x
    BY <2>2
  <2>4. QED BY <2>2, <2>3
<1>5. QED BY <1>3, <1>4

LEMMA RoomStarts == ASSUME EnoughHeap, Init PROVE Room /\ NoneFailed
<1>1. tops = << >> /\ Heap_Init
  BY DEF Init
<1>2. Len(tops) = 0
  BY <1>1
<1>3. PICK b : b = [at |-> 0, size |-> HeapSize - Header, free |-> TRUE]
  OBVIOUS
<1>4. blocks = <<b>> /\ b.free /\ b.size = HeapSize - Header
  BY <1>1, <1>3 DEF Heap_Init
<1>5. Len(blocks) = 1 /\ blocks[1] = b
  BY <1>4
<1>6. HeapSize - Header >= (Len(Entries) - 0) * (Header + StackSize)
  <2>1. PICK l \in Nat, x \in Nat : l = Len(Entries) /\ x = Header + StackSize
    BY Numbers
  <2>2. PICK p \in Nat : p = l * x
    BY <2>1
  <2>3. HeapSize >= Header + p
    BY <2>1, <2>2 DEF EnoughHeap
  <2>4. HeapSize - Header >= p
    BY <2>3, Numbers
  <2>5. (Len(Entries) - 0) * (Header + StackSize) = p
    BY <2>1, <2>2
  <2>6. QED BY <2>4, <2>5
<1>7. QED BY <1>2, <1>4, <1>5, <1>6 DEF Room, NoneFailed

LEMMA RoomStep ==
  ASSUME EnoughHeap, TypeIInv, HeapIInv, Room, NoneFailed, AllocateStack
  PROVE  Room' /\ NoneFailed'
<1>0. /\ Laid(blocks) /\ blocks \in Seq(Block) /\ Len(blocks) \in Nat \ {0}
      /\ current = 0 /\ AllMerged(blocks)
      /\ StackSize \in Nat \ {0} /\ Header \in Nat \ {0} /\ NULL \notin Nat
      /\ Len(tops) \in Nat /\ Len(tops) < Len(Entries) /\ Len(Entries) \in Nat
      /\ tops \in Seq(Nat) /\ kmalloc(StackSize)
  <2>1. Laid(blocks) /\ Passed
    BY DEF HeapIInv
  <2>2. current = 0 /\ kmalloc(StackSize) /\ Len(tops) < Len(Entries)
    BY DEF AllocateStack, kmalloc
  <2>3. blocks \in Seq(Block) /\ Len(blocks) \in Nat \ {0}
    BY <2>1, BlockFacts
  <2>4. tops \in Seq(Nat) /\ Len(tops) \in Nat
    BY LenProperties DEF TypeIInv
  <2>5. QED BY <2>1, <2>2, <2>3, <2>4, Numbers, NoBlockAssumption DEF Passed, AllMerged
<1>1. PICK list, l, x, m :
        /\ list = blocks /\ l = Len(blocks) /\ x = Header + StackSize /\ x \in Nat
        /\ m = Len(Entries) - Len(tops) /\ m \in Nat \ {0}
  <2>1. Header + StackSize \in Nat /\ Len(Entries) - Len(tops) \in Nat \ {0}
    BY <1>0
  <2>2. QED BY <2>1
<1>2. /\ Laid(list) /\ list \in Seq(Block) /\ Len(list) = l /\ l \in 1 .. Len(list)
      /\ AllMerged(list)
      /\ list[l].free /\ \A j \in 1 .. (l - 1) : ~list[j].free
      /\ list[l].size >= m * x /\ list[l].size \in Nat
  <2>1. /\ blocks[Len(blocks)].free /\ \A j \in 1 .. (Len(blocks) - 1) : ~blocks[j].free
        /\ blocks[Len(blocks)].size >= (Len(Entries) - Len(tops)) * (Header + StackSize)
    BY <1>0 DEF Room
  <2>2. Len(blocks) \in 1 .. Len(blocks)
    BY <1>0
  <2>3. blocks[Len(blocks)].size \in Nat
    BY <1>0, <2>2, BlockFacts
  <2>4. QED BY <1>0, <1>1, <2>1, <2>2, <2>3
<1>3. m * x = (m - 1) * x + x /\ (m - 1) * x \in Nat /\ (m # 1 => (m - 1) * x >= x)
  <2>1. m \in Nat \ {0} /\ x \in Nat
    BY <1>1
  <2>2. QED BY <2>1, Multiples
<1>4. PICK p \in Nat, s \in Nat : p = (m - 1) * x /\ s = list[l].size
  BY <1>2, <1>3
<1>5. s >= p + x /\ x = Header + StackSize /\ (m # 1 => p >= x)
  BY <1>1, <1>2, <1>3, <1>4
<1>6. PICK i : i = FirstFit(list, StackSize)
  OBVIOUS
<1>7. i = l
  <2>1. StackSize \in Nat
    BY <1>0
  <2>2. /\ i = 0 \/ (i \in DOMAIN list /\ list[i].free /\ list[i].size >= StackSize)
        /\ i = 0 => \A j \in 1 .. Len(list) : ~(list[j].free /\ list[j].size >= StackSize)
    BY <1>2, <1>6, <2>1, FirstFits
  <2>3. s >= StackSize
    BY <1>0, <1>5, <1>4
  <2>4. i # 0
    BY <1>2, <1>4, <2>2, <2>3
  <2>5. i \in 1 .. l /\ l \in Nat
    BY <1>0, <1>1, <1>2, <2>2, <2>4, BlockFacts
  <2>6. i # l => i \in 1 .. (l - 1)
    BY <2>5
  <2>7. QED BY <1>2, <2>2, <2>4, <2>6
<1>8. PICK ptr, n : ptr = Data(list[l]) /\ n = Taken(list, l, StackSize)
  OBVIOUS
<1>9. ptr \in Nat \ {0} /\ ptr # NULL
  <2>1. list[l].at \in Nat
    BY <1>2, BlockFacts
  <2>2. ptr = list[l].at + Header
    BY <1>8 DEF Data
  <2>3. ptr \in Nat \ {0}
    BY <1>0, <2>1, <2>2
  <2>4. QED BY <1>0, <2>3
<1>10. Kmalloc(blocks, StackSize) = [ptr |-> ptr, list |-> n]
  <2>1. i # 0
    BY <1>2, <1>7
  <2>2. QED BY <1>1, <1>6, <1>7, <1>8, <2>1 DEF Kmalloc
<1>11. Kmalloc(blocks, StackSize).ptr = ptr /\ Kmalloc(blocks, StackSize).list = n
  BY <1>10
<1>12. PICK top \in Nat : top = ptr + StackSize
  BY <1>0, <1>9
<1>13. tops' = Append(tops, top) /\ blocks' = n
  BY <1>9, <1>11, <1>12 DEF AllocateStack, kmalloc
<1>14. /\ Len(tops') = Len(tops) + 1 /\ tops'[Len(tops) + 1] = top
       /\ \A j \in 1 .. Len(tops) : tops'[j] = tops[j]
  BY <1>0, <1>12, <1>13, AppendProperties
<1>15. NoneFailed'
  <2>1. top # StackSize
    BY <1>0, <1>9, <1>12
  <2>2. \A j \in 1 .. Len(tops') : j \in 1 .. Len(tops) \/ j = Len(tops) + 1
    BY <1>0, <1>14
  <2>3. \A j \in 1 .. Len(tops') : tops'[j] # StackSize
    BY <1>14, <2>1, <2>2 DEF NoneFailed
  <2>4. QED BY <2>3 DEF NoneFailed
<1>16. ASSUME Len(tops') < Len(Entries)
       PROVE  /\ n[Len(n)].free /\ \A j \in 1 .. (Len(n) - 1) : ~n[j].free
              /\ n[Len(n)].size >= (Len(Entries) - Len(tops')) * (Header + StackSize)
  <2>1. m # 1 /\ Len(Entries) - Len(tops') = m - 1
    BY <1>0, <1>1, <1>14, <1>16
  <2>2. list[l].size > StackSize + Header + Slack
    <3>1. Slack < x /\ Slack \in Nat
      BY <1>1, SlackAssumption DEF EnoughHeap
    <3>2. s > StackSize + Header + Slack
      BY <1>0, <1>5, <2>1, <3>1
    <3>3. QED BY <1>4, <3>2
  <2>3. /\ Len(n) = Len(list) + 1 /\ \A j \in 1 .. (l - 1) : n[j] = list[j]
        /\ ~n[l].free /\ n[l + 1].free /\ n[l + 1].size = list[l].size - StackSize - Header
    <3>1. StackSize \in Nat
      BY <1>0
    <3>2. Worth(list[l], StackSize)
      BY <2>2 DEF Worth
    <3>3. Suits(list[l], StackSize)
      <4>1. StackSize <= s
        BY <1>0, <1>5, <2>1
      <4>2. QED BY <1>2, <1>4, <4>1 DEF Suits
    <3>4. QED BY <1>2, <1>8, <3>1, <3>2, <3>3, PartTaken
  <2>4. n[l + 1].size >= (m - 1) * x
    <3>1. s - StackSize - Header >= p
      BY <1>0, <1>5
    <3>2. QED BY <1>4, <2>3, <3>1
  <2>5. Len(n) = l + 1 /\ \A j \in 1 .. l : j \in 1 .. (l - 1) \/ j = l
    BY <1>0, <1>1, <1>2, <2>3
  <2>6. \A j \in 1 .. l : ~n[j].free
    BY <1>2, <2>3, <2>5
  <2>7. Len(n) - 1 = l
    BY <1>0, <1>1, <2>5
  <2>8. QED BY <1>1, <2>1, <2>3, <2>4, <2>5, <2>6, <2>7
<1>17. Room'
  BY <1>13, <1>16 DEF Room
<1>18. QED BY <1>15, <1>17

LEMMA RoomStays == EnoughHeap => (Spec => [](TypeIInv /\ HeapIInv /\ Room /\ NoneFailed))
<1>1. ASSUME EnoughHeap, TypeIInv, HeapIInv, Room, NoneFailed, [Next]_vars
      PROVE  Room' /\ NoneFailed'
  <2>1. CASE AllocateStack
    BY <1>1, <2>1, RoomStep
  <2>2. CASE tops' = tops /\ blocks' = blocks
    BY <1>1, <2>2 DEF Room, NoneFailed
  <2>3. QED
    BY <1>1, <2>1, <2>2 DEF Next, CreateTask, Sti, Call, Return, TimerInterrupt, irq0_handler,
       Iretq, vars, boot, heap
<1>2. EnoughHeap /\ Init => Room /\ NoneFailed
  BY RoomStarts
<1>3. EnoughHeap => []EnoughHeap
  <2>1. EnoughHeap => EnoughHeap'
    BY DEF EnoughHeap
  <2>2. QED BY <2>1, PTL
<1>4. EnoughHeap /\ TypeIInv /\ HeapIInv /\ Room /\ NoneFailed /\ [Next]_vars => Room' /\ NoneFailed'
  BY <1>1
<1>5. QED BY <1>2, <1>3, <1>4, TypeStays, PTL DEF Spec

(* With room for every stack no kmalloc fails, and the waiting tasks'      *)
(* frames survive.                                                         *)
THEOREM RoomCorrect == EnoughHeap => (Spec => [](NoneFailed /\ Inv))
<1>1. EnoughHeap => (Spec => [](NoneFailed))
  BY RoomStays, PTL
<1>2. QED BY <1>1, FramesCorrect, PTL

(* With room for every stack every interrupt returns to the task that is   *)
(* current, at the point where it stopped.                                 *)
THEOREM ResumeCorrect == EnoughHeap => (Spec => ResumesWhereStopped)
<1>1. FramesInv /\ NoneFailed /\ [Next]_vars => [Iretq => cpu' = stopped[current_task]]_vars
  BY Resumed DEF FramesInv
<1>2. EnoughHeap => (Spec => [](FramesInv /\ NoneFailed))
  BY RoomStays, FramesStay, PTL
<1>3. QED BY <1>1, <1>2, PTL DEF Spec, ResumesWhereStopped
=============================================================================
