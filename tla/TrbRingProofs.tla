--------------------------- MODULE TrbRingProofs ---------------------------
(***************************************************************************)
(* For every page size and every callers' bound: a producer ring of xhci.c *)
(* hands its TRBs over in order, each at most once, and after two laps of  *)
(* the page it hands over nothing more.                                    *)
(***************************************************************************)
EXTENDS TrbRing, SequenceTheorems, TLAPS

(* Every variable keeps its type: the driver's index never reaches the     *)
(* link TRB, the controller's never leaves the page.                       *)
THEOREM TypeCorrect == Spec => []TypeOK
<1>. USE TrbsAssumption, PendingAssumption, MaxTdAssumption, NoTrbAssumption
     DEF TypeOK, Slots, Link
<1>1. Init => TypeOK
  <2>. SUFFICES ASSUME Init PROVE TypeOK
    OBVIOUS
  <2>1. ring \in [Slots -> [trb : Trb \union {NoTrb}, cycle : {0, 1}]]
    BY DEF Init
  <2>2. 0 \in 0 .. Link - 1 /\ 0 \in Slots /\ 0 \in 0 .. MaxTd
    OBVIOUS
  <2>. QED
    BY <2>1, <2>2 DEF Init, Stages
<1>2. TypeOK /\ [Next]_vars => TypeOK'
  <2>. SUFFICES ASSUME TypeOK, [Next]_vars PROVE TypeOK'
    OBVIOUS
  <2>1. ASSUME NEW t \in Trb, Push(t) PROVE TypeOK'
    BY <2>1 DEF Push, LowerHalfStored, Stages, hc
  <2>7. CASE StoreUpperHalf
    BY <2>7 DEF StoreUpperHalf, Stages, hc
  <2>8. CASE ClearCycle
    BY <2>8 DEF ClearCycle, Stages, hc
  <2>9. CASE SetCycle
    <3>1. NextIndex(index) \in 0 .. Link - 1 /\ NextCycle(index, cycle) \in {0, 1}
      BY DEF NextIndex, NextCycle
    <3>2. ring' \in [Slots -> [trb : Trb \union {NoTrb}, cycle : {0, 1}]]
      BY <2>9 DEF SetCycle
    <3>3. index' \in 0 .. Link - 1 /\ cycle' \in {0, 1} /\ unrung' \in 0 .. MaxTd
      BY <2>9, <3>1 DEF SetCycle
    <3>. QED
      BY <2>9, <3>2, <3>3 DEF SetCycle, Stages, hc
  <2>2. CASE Doorbell
    BY <2>2 DEF Doorbell, hc
  <2>3. CASE HcExecute
    BY <2>3 DEF HcExecute, driver
  <2>4. CASE HcFollowLink
    BY <2>4 DEF HcFollowLink, LinkToggles, driver
  <2>5. CASE HcIdle
    BY <2>5 DEF HcIdle, driver
  <2>6. CASE UNCHANGED vars
    BY <2>6 DEF vars, driver, hc
  <2>. QED
    BY <2>1, <2>2, <2>3, <2>4, <2>5, <2>6, <2>7, <2>8, <2>9 DEF Next
<1>. QED
  BY <1>1, <1>2, PTL DEF Spec

-----------------------------------------------------------------------------
LEMMA RingInvInit == Init => RingInv
<1>. SUFFICES ASSUME Init PROVE RingInv
  OBVIOUS
<1>. USE TrbsAssumption, PendingAssumption DEF Init, Link
<1>1. ProducerInv
  BY DEF ProducerInv, Pending, SlotOf, Done
<1>2. ConsumerInv
  BY DEF ConsumerInv
<1>3. CycleInv
  <2>1. ring[Link].cycle = 1
    BY DEF Slots
  <2>2. ASSUME NEW i \in 0 .. Link - 1
        PROVE  ~(ring[i].cycle = 1) /\ ~OddLap(i)
    BY DEF Slots, OddLap
  <2>. QED
    BY <2>1, <2>2 DEF CycleInv
<1>4. WrittenInv
  BY DEF WrittenInv
<1>. QED
  BY <1>1, <1>2, <1>3, <1>4 DEF RingInv

(* Two laps are all a ring does. *)
LEMMA LifeFromInv == TypeOK /\ RingInv => RingLife
BY TrbsAssumption DEF TypeOK, Slots, Link, RingInv, ConsumerInv, RingLife

(* Where the driver is, from the number of pushes that are over. *)
LEMMA DriverPlace ==
  TypeOK /\ RingInv /\ (push # "none" \/ Pending < MaxPending) =>
    /\ Done \in Nat /\ Done < Link + Link + Link
    /\ index = SlotOf(Done + 1)
    /\ (cycle = 1) <=> Done < Link \/ Link + Link <= Done
    /\ executed <= Link + Link
<1>. SUFFICES ASSUME TypeOK, RingInv, push # "none" \/ Pending < MaxPending
              PROVE  /\ Done \in Nat /\ Done < Link + Link + Link
                     /\ index = SlotOf(Done + 1)
                     /\ (cycle = 1) <=> Done < Link \/ Link + Link <= Done
                     /\ executed <= Link + Link
  OBVIOUS
<1>1. executed <= Link + Link
  BY LifeFromInv DEF RingLife
<1>2. Done \in Nat /\ Done < Link + Link + Link
  BY <1>1, TrbsAssumption, PendingAssumption
  DEF RingInv, ProducerInv, Pending, Done, TypeOK, Stages, Link
<1>. QED
  BY <1>1, <1>2, TrbsAssumption DEF RingInv, ProducerInv, Link

(* The readiness test of the controller, at a slot the driver writes. *)
LEMMA ExactFromInv == TypeOK /\ RingInv => ReadyIsExact
<1>. SUFFICES ASSUME TypeOK, RingInv, hcIndex # Link
              PROVE  Ready <=> Pending > 0 /\ ~Hidden
  BY DEF ReadyIsExact
<1>1. hcIndex \in 0 .. Link - 1
  BY TrbsAssumption DEF TypeOK, Slots, Link
<1>2. ring[hcIndex].cycle \in {0, 1}
  BY DEF TypeOK
<1>3. CASE ~(push = "cleared" /\ hcIndex = index)
  <2>1. (ring[hcIndex].cycle = 1) <=> OddLap(hcIndex)
    BY <1>1, <1>3 DEF RingInv, CycleInv
  <2>2. ~Hidden
    BY <1>3 DEF Hidden
  <2>. QED
    BY <1>1, <1>2, <2>1, <2>2, TrbsAssumption, PendingAssumption
    DEF TypeOK, Slots, Link, RingInv, ProducerInv, ConsumerInv, Ready, Pending, OddLap
<1>4. CASE push = "cleared" /\ hcIndex = index
  <2>1. ring[hcIndex].cycle = 0
    BY <1>1, <1>4 DEF RingInv, CycleInv
  <2>2. Hidden <=> cycle = 1
    BY <1>4 DEF Hidden
  <2>3. /\ Done = pushed - 1 /\ Done \in Nat /\ Done < Link + Link + Link
        /\ hcIndex = SlotOf(Done + 1)
        /\ (cycle = 1) <=> Done < Link \/ Link + Link <= Done
    BY <1>4, DriverPlace DEF Done
  <2>4. hcCycle = 1 => executed = hcIndex
    BY DEF RingInv, ConsumerInv
  <2>5. hcCycle = 0 => executed = hcIndex + Link
    BY DEF RingInv, ConsumerInv
  <2>6. Pending \in 0 .. MaxPending /\ Pending = pushed - executed
    BY DEF RingInv, ProducerInv, Pending
  <2>7. Link \in Nat /\ Link >= 2 /\ MaxPending \in 1 .. Link
    BY TrbsAssumption, PendingAssumption DEF Link
  <2>8. hcCycle \in {0, 1} /\ cycle \in {0, 1} /\ pushed \in Nat /\ executed \in Nat
    BY DEF TypeOK
  <2>9. Ready <=> hcCycle = 0
    BY <2>1, <2>8 DEF Ready
  <2>10. CASE Done < Link
    BY <1>1, <2>2, <2>3, <2>4, <2>5, <2>6, <2>7, <2>8, <2>9, <2>10 DEF SlotOf
  <2>11. CASE Link <= Done /\ Done < Link + Link
    BY <1>1, <2>2, <2>3, <2>4, <2>5, <2>6, <2>7, <2>8, <2>9, <2>11 DEF SlotOf
  <2>12. CASE Link + Link <= Done
    BY <1>1, <2>2, <2>3, <2>4, <2>5, <2>6, <2>7, <2>8, <2>9, <2>12 DEF SlotOf
  <2>. QED
    BY <2>3, <2>7, <2>10, <2>11, <2>12
<1>. QED
  BY <1>3, <1>4

(* Nothing that is waiting lies where the driver writes. *)
LEMMA WaitingElsewhere ==
  TypeOK /\ RingInv /\ push \in {"none", "half"} /\ Pending < MaxPending =>
    \A n \in executed + 1 .. pushed : SlotOf(n) # index /\ SlotOf(n) \in Slots
<1>. SUFFICES ASSUME TypeOK, RingInv, push \in {"none", "half"}, Pending < MaxPending,
                     NEW n \in executed + 1 .. pushed
              PROVE  SlotOf(n) # index /\ SlotOf(n) \in Slots
  OBVIOUS
<1>1. Done = pushed /\ index = SlotOf(pushed + 1) /\ pushed < Link + Link + Link
  BY DriverPlace DEF Done
<1>. QED
  BY <1>1, TrbsAssumption, PendingAssumption DEF SlotOf, Pending, Slots, Link, TypeOK

LEMMA WaitingInPage ==
  TypeOK /\ RingInv => \A n \in executed + 1 .. pushed : SlotOf(n) \in Slots
<1>. SUFFICES ASSUME TypeOK, RingInv, NEW n \in executed + 1 .. pushed
              PROVE  SlotOf(n) \in Slots
  OBVIOUS
<1>1. executed <= Link + Link /\ pushed <= executed + MaxPending
  BY LifeFromInv, TrbsAssumption, PendingAssumption
  DEF RingLife, RingInv, ProducerInv, Pending, TypeOK
<1>. QED
  BY <1>1, TrbsAssumption, PendingAssumption DEF SlotOf, Slots, Link, TypeOK

LEMMA RingInvPush ==
  ASSUME NEW t \in Trb
  PROVE  TypeOK /\ RingInv /\ Push(t) => RingInv'
<1>. SUFFICES ASSUME TypeOK, RingInv, Push(t) PROVE RingInv'
  OBVIOUS
<1>. USE TrbsAssumption, PendingAssumption DEF Link
<1>1. /\ push = "none" /\ push' = "half" /\ Pending < MaxPending
      /\ index' = index /\ cycle' = cycle /\ pushed' = pushed
      /\ executed' = executed /\ hcIndex' = hcIndex /\ hcCycle' = hcCycle
  BY DEF Push, hc, Pending
<1>2. /\ ring \in [Slots -> [trb : Trb \union {NoTrb}, cycle : {0, 1}]]
      /\ index \in Slots /\ index # Link
  BY DEF TypeOK, Slots
<1>3. /\ ring' \in [Slots -> [trb : Trb \union {NoTrb}, cycle : {0, 1}]]
      /\ \A i \in Slots : ring'[i].cycle = ring[i].cycle
      /\ \A i \in Slots : i # index => ring'[i] = ring[i]
  BY <1>2 DEF Push, LowerHalfStored
<1>4. ProducerInv'
  BY <1>1 DEF RingInv, ProducerInv, Pending, Done, SlotOf
<1>5. ConsumerInv'
  BY <1>1 DEF RingInv, ConsumerInv
<1>6. CycleInv'
  BY <1>1, <1>3 DEF RingInv, CycleInv, OddLap, Slots
<1>7. WrittenInv'
  <2>. SUFFICES ASSUME NEW n \in executed + 1 .. pushed
                PROVE  ring'[SlotOf(n)].trb \in Trb
    BY <1>1 DEF WrittenInv, SlotOf
  <2>. QED
    BY <1>1, <1>3, WaitingElsewhere DEF RingInv, WrittenInv
<1>. QED
  BY <1>4, <1>5, <1>6, <1>7 DEF RingInv

(* The upper half makes the TRB the controller's. *)
LEMMA RingInvStore == TypeOK /\ RingInv /\ StoreUpperHalf => RingInv'
<1>. SUFFICES ASSUME TypeOK, RingInv, StoreUpperHalf PROVE RingInv'
  OBVIOUS
<1>. USE TrbsAssumption, PendingAssumption DEF Link
<1>1. /\ push = "half" /\ push' = "stored" /\ pushed' = pushed + 1
      /\ index' = index /\ cycle' = cycle
      /\ executed' = executed /\ hcIndex' = hcIndex /\ hcCycle' = hcCycle
      /\ pushed \in Nat /\ executed \in Nat /\ Done = pushed /\ Done' = pushed
  BY DEF StoreUpperHalf, hc, TypeOK, Done
<1>2. Pending < MaxPending /\ Pending' = Pending + 1 /\ Pending \in 0 .. MaxPending
  BY <1>1 DEF RingInv, ProducerInv, Pending
<1>3. /\ index = SlotOf(pushed + 1) /\ pushed < Link + Link + Link
      /\ (cycle = 1) <=> pushed < Link \/ Link + Link <= pushed
  BY <1>1, DriverPlace
<1>4. /\ index \in 0 .. Link - 1
      /\ ring'[index].cycle = cycle /\ ring'[index].trb \in Trb
      /\ \A i \in Slots : i # index => ring'[i] = ring[i]
  BY <1>1 DEF StoreUpperHalf, TypeOK, Slots
<1>5. ProducerInv'
  <2>1. SlotOf(Done + 1)' = SlotOf(Done + 1)
    BY <1>1 DEF SlotOf
  <2>. QED
    BY <1>1, <1>2, <2>1 DEF RingInv, ProducerInv
<1>6. ConsumerInv'
  BY <1>1 DEF RingInv, ConsumerInv
<1>7. CycleInv'
  <2>1. ring'[Link].cycle = 1
    BY <1>4 DEF RingInv, CycleInv, Slots
  <2>2. ASSUME NEW i \in 0 .. Link - 1, i # index
        PROVE  (ring'[i].cycle = 1) <=> OddLap(i)'
    <3>1. (ring[i].cycle = 1) <=> OddLap(i)
      BY <1>1 DEF RingInv, CycleInv
    <3>2. OddLap(i)' <=> OddLap(i)
      BY <1>1, <1>3, <2>2 DEF OddLap, SlotOf
    <3>. QED
      BY <1>4, <2>2, <3>1, <3>2 DEF Slots
  <2>3. (ring'[index].cycle = 1) <=> OddLap(index)'
    BY <1>1, <1>3, <1>4 DEF OddLap, SlotOf
  <2>. QED
    BY <1>1, <2>1, <2>2, <2>3 DEF CycleInv
<1>8. WrittenInv'
  <2>. SUFFICES ASSUME NEW n \in executed + 1 .. pushed + 1
                PROVE  ring'[SlotOf(n)].trb \in Trb
    BY <1>1 DEF WrittenInv, SlotOf
  <2>1. CASE n = pushed + 1
    BY <2>1, <1>3, <1>4
  <2>2. CASE n # pushed + 1
    <3>1. n \in executed + 1 .. pushed
      BY <1>1, <2>2
    <3>. QED
      BY <1>1, <1>2, <1>4, <3>1, WaitingElsewhere DEF RingInv, WrittenInv
  <2>. QED
    BY <2>1, <2>2
<1>. QED
  BY <1>5, <1>6, <1>7, <1>8 DEF RingInv

LEMMA RingInvClear == TypeOK /\ RingInv /\ ClearCycle => RingInv'
<1>. SUFFICES ASSUME TypeOK, RingInv, ClearCycle PROVE RingInv'
  OBVIOUS
<1>. USE TrbsAssumption, PendingAssumption DEF Link
<1>1. /\ push = "stored" /\ push' = "cleared" /\ pushed' = pushed
      /\ index' = index /\ cycle' = cycle /\ executed' = executed
      /\ hcIndex' = hcIndex /\ hcCycle' = hcCycle /\ Done' = Done
  BY DEF ClearCycle, hc, Done
<1>2. /\ index \in 0 .. Link - 1
      /\ ring'[index].cycle = 0
      /\ \A i \in Slots : i # index => ring'[i] = ring[i]
      /\ \A i \in Slots : ring'[i].trb = ring[i].trb
  BY DEF ClearCycle, TypeOK, Slots
<1>3. ProducerInv'
  BY <1>1 DEF RingInv, ProducerInv, Pending, SlotOf
<1>4. ConsumerInv'
  BY <1>1 DEF RingInv, ConsumerInv
<1>5. CycleInv'
  BY <1>1, <1>2 DEF RingInv, CycleInv, OddLap, Slots
<1>6. WrittenInv'
  BY <1>1, <1>2, WaitingInPage DEF RingInv, WrittenInv, SlotOf
<1>. QED
  BY <1>3, <1>4, <1>5, <1>6 DEF RingInv

(* The cycle bit is what it was before it was cleared. *)
LEMMA RingInvSet == TypeOK /\ RingInv /\ SetCycle => RingInv'
<1>. SUFFICES ASSUME TypeOK, RingInv, SetCycle PROVE RingInv'
  OBVIOUS
<1>. USE TrbsAssumption, PendingAssumption DEF Link
<1>1. /\ push = "cleared" /\ push' = "none" /\ pushed' = pushed
      /\ index' = NextIndex(index) /\ cycle' = NextCycle(index, cycle)
      /\ executed' = executed /\ hcIndex' = hcIndex /\ hcCycle' = hcCycle
      /\ pushed \in Nat /\ pushed > 0 /\ Done = pushed - 1 /\ Done' = pushed
  BY DEF SetCycle, hc, TypeOK, Done, RingInv, ProducerInv
<1>2. /\ index = SlotOf(pushed) /\ pushed <= Link + Link + Link
      /\ (cycle = 1) <=> pushed <= Link \/ Link + Link < pushed
  BY <1>1, DriverPlace
<1>3. /\ index \in 0 .. Link - 1 /\ cycle \in {0, 1}
      /\ ring'[index].cycle = cycle
      /\ \A i \in Slots : i # index => ring'[i] = ring[i]
      /\ \A i \in Slots : ring'[i].trb = ring[i].trb
  BY DEF SetCycle, TypeOK, Slots
<1>4. ProducerInv'
  <2>1. Pending' = Pending /\ Pending \in 0 .. MaxPending
    BY <1>1 DEF RingInv, ProducerInv, Pending
  <2>2. \/ index' = SlotOf(pushed + 1)
        \/ pushed = Link + Link + Link /\ index' = 0
    BY <1>1, <1>2, <1>3 DEF NextIndex, SlotOf
  <2>3. (cycle' = 1) <=> \/ pushed < Link
                         \/ Link + Link <= pushed /\ pushed < Link + Link + Link
    BY <1>1, <1>2, <1>3 DEF NextCycle, SlotOf
  <2>4. SlotOf(Done + 1)' = SlotOf(pushed + 1)
    BY <1>1 DEF SlotOf
  <2>. QED
    BY <1>1, <2>1, <2>2, <2>3, <2>4 DEF ProducerInv
<1>5. ConsumerInv'
  BY <1>1 DEF RingInv, ConsumerInv
<1>6. CycleInv'
  <2>1. ring'[Link].cycle = 1
    BY <1>3 DEF RingInv, CycleInv, Slots
  <2>2. ASSUME NEW i \in 0 .. Link - 1, i # index
        PROVE  (ring'[i].cycle = 1) <=> OddLap(i)'
    BY <1>1, <1>3, <2>2 DEF RingInv, CycleInv, OddLap, Slots
  <2>3. ASSUME NEW i \in 0 .. Link - 1, i = index
        PROVE  (ring'[i].cycle = 1) <=> OddLap(i)'
    BY <1>1, <1>2, <1>3, <2>3 DEF OddLap, SlotOf
  <2>. QED
    BY <1>1, <2>1, <2>2, <2>3 DEF CycleInv
<1>7. WrittenInv'
  BY <1>1, <1>3, WaitingInPage DEF RingInv, WrittenInv, SlotOf
<1>. QED
  BY <1>4, <1>5, <1>6, <1>7 DEF RingInv

LEMMA RingInvExecute == TypeOK /\ RingInv /\ HcExecute => RingInv'
<1>. SUFFICES ASSUME TypeOK, RingInv, HcExecute PROVE RingInv'
  OBVIOUS
<1>. USE TrbsAssumption, PendingAssumption DEF TypeOK, Slots, Link
<1>1. Pending > 0
  BY ExactFromInv DEF ReadyIsExact, HcExecute
<1>2. ProducerInv'
  BY <1>1 DEF RingInv, ProducerInv, Pending, SlotOf, Done, HcExecute, driver
<1>3. ConsumerInv'
  BY DEF RingInv, ConsumerInv, HcExecute
<1>4. CycleInv'
  BY DEF RingInv, CycleInv, OddLap, HcExecute, driver
<1>5. WrittenInv'
  BY DEF RingInv, WrittenInv, SlotOf, Done, HcExecute, driver
<1>. QED
  BY <1>2, <1>3, <1>4, <1>5 DEF RingInv

(* The controller follows the link TRB once, when its own cycle is 1. *)
LEMMA RingInvFollow == TypeOK /\ RingInv /\ HcFollowLink => RingInv'
<1>. SUFFICES ASSUME TypeOK, RingInv, HcFollowLink PROVE RingInv'
  OBVIOUS
<1>. USE TrbsAssumption, PendingAssumption DEF TypeOK, Slots, Link
<1>1. hcCycle = 1
  BY DEF RingInv, CycleInv, HcFollowLink, Ready
<1>2. ProducerInv'
  BY DEF RingInv, ProducerInv, Pending, SlotOf, Done, HcFollowLink, driver
<1>3. ConsumerInv'
  BY <1>1 DEF RingInv, ConsumerInv, HcFollowLink, LinkToggles
<1>4. CycleInv' /\ WrittenInv'
  BY DEF RingInv, CycleInv, OddLap, WrittenInv, SlotOf, HcFollowLink, driver
<1>. QED
  BY <1>2, <1>3, <1>4 DEF RingInv

(***************************************************************************)
(* The two sides never drift apart (xhci.c:376-394, 426-437, 893-904): the *)
(* producer's index and cycle, the consumer's, the cycle bits and the      *)
(* contents of the TRBs in between.                                        *)
(***************************************************************************)
THEOREM RingCorrect == Spec => []Inv
<1>1. TypeOK /\ RingInv /\ [Next]_vars => RingInv'
  <2>. SUFFICES ASSUME TypeOK, RingInv, [Next]_vars PROVE RingInv'
    OBVIOUS
  <2>1. CASE UNCHANGED <<ring, push, index, cycle, pushed, hcIndex, hcCycle, executed>>
    BY <2>1 DEF RingInv, ProducerInv, ConsumerInv, CycleInv, WrittenInv,
                Pending, SlotOf, Done, OddLap
  <2>2. CASE Doorbell
    BY <2>1, <2>2 DEF Doorbell
  <2>3. CASE HcIdle
    BY <2>1, <2>3 DEF HcIdle, driver
  <2>4. CASE UNCHANGED vars
    BY <2>1, <2>4 DEF vars, driver, hc
  <2>. QED
    BY <2>2, <2>3, <2>4, RingInvPush, RingInvStore, RingInvClear, RingInvSet,
       RingInvExecute, RingInvFollow DEF Next
<1>. QED
  BY <1>1, RingInvInit, TypeCorrect, ExactFromInv, PTL DEF Spec, Inv

(***************************************************************************)
(* A ring of Trbs TRBs executes at most 2 * (Trbs - 1) of what is pushed:  *)
(* 510 for the rings of xhci.c, the interrupt ring of a keyboard included. *)
(***************************************************************************)
THEOREM TwoLapsAtMost == Spec => []RingLife
BY RingCorrect, LifeFromInv, PTL DEF Inv

-----------------------------------------------------------------------------
(* The TRBs not yet executed, as the sequence the refinement maps them to. *)
unexecuted == [k \in 1 .. Pending |-> ring[SlotOf(executed + k)].trb]

WaitingGood ==
  /\ Pending \in 0 .. MaxPending
  /\ unexecuted \in Seq(Trb)
  /\ Len(unexecuted) = Pending

LEMMA WaitingType == TypeOK /\ RingInv => WaitingGood
<1>. SUFFICES ASSUME TypeOK, RingInv PROVE WaitingGood
  OBVIOUS
<1>1. Pending \in 0 .. MaxPending
  BY DEF RingInv, ProducerInv
<1>2. \A k \in 1 .. Pending : unexecuted[k] \in Trb
  <2>. TAKE k \in 1 .. Pending
  <2>1. executed + k \in executed + 1 .. pushed
    BY <1>1, PendingAssumption DEF TypeOK, Pending
  <2>. QED
    BY <2>1 DEF RingInv, WrittenInv, unexecuted
<1>. QED
  BY <1>1, <1>2, PendingAssumption DEF WaitingGood, unexecuted

(* As long as the waiting TRBs and the counts stay, so does the queue. *)
LEMMA QueueStays ==
  ASSUME TypeOK, WaitingGood, pushed' = pushed, executed' = executed, out' = out,
         \A n \in executed + 1 .. pushed : ring'[SlotOf(n)].trb = ring[SlotOf(n)].trb
  PROVE  UNCHANGED Queue!vars
<1>1. Pending' = Pending /\ Pending \in Nat /\ Pending = pushed - executed
  BY PendingAssumption DEF Pending, WaitingGood
<1>2. ASSUME NEW k \in 1 .. Pending
      PROVE  ring'[SlotOf(executed + k)'].trb = ring[SlotOf(executed + k)].trb
  <2>1. SlotOf(executed + k)' = SlotOf(executed + k)
    BY DEF SlotOf
  <2>2. executed + k \in executed + 1 .. pushed
    BY <1>1 DEF TypeOK
  <2>. QED
    BY <2>1, <2>2
<1>3. unexecuted' = unexecuted
  BY <1>1, <1>2 DEF unexecuted
<1>. QED
  BY <1>3 DEF Queue!vars, unexecuted

(* The lower half goes where nothing waits, and the cycle bit is not part  *)
(* of what is handed over.                                                 *)
LEMMA PushStutters ==
  ASSUME TypeOK, RingInv, WaitingGood, (\E t \in Trb : Push(t)) \/ ClearCycle \/ SetCycle
  PROVE  UNCHANGED Queue!vars
<1>1. pushed' = pushed /\ executed' = executed /\ out' = out
  BY DEF Push, ClearCycle, SetCycle, hc
<1>2. \A n \in executed + 1 .. pushed : ring'[SlotOf(n)].trb = ring[SlotOf(n)].trb
  <2>1. ASSUME NEW t \in Trb, Push(t)
        PROVE  \A n \in executed + 1 .. pushed : ring'[SlotOf(n)] = ring[SlotOf(n)]
    <3>1. push = "none" /\ Pending < MaxPending
      BY <2>1 DEF Push, Pending
    <3>2. \A i \in Slots : i # index => ring'[i] = ring[i]
      BY <2>1 DEF Push, TypeOK
    <3>. QED
      BY <3>1, <3>2, WaitingElsewhere
  <2>2. CASE ClearCycle \/ SetCycle
    <3>1. \A i \in Slots : ring'[i].trb = ring[i].trb
      BY <2>2 DEF ClearCycle, SetCycle, TypeOK
    <3>. QED
      BY <3>1, WaitingInPage
  <2>. QED
    BY <2>1, <2>2
<1>. QED
  BY <1>1, <1>2, QueueStays

LEMMA StoreRefines ==
  ASSUME TypeOK, RingInv, WaitingGood, WaitingGood', StoreUpperHalf
  PROVE  \E t \in Trb : Queue!Put(t)
<1>. DEFINE t == pushing
<1>. USE TrbsAssumption, PendingAssumption
<1>0. push = "half" /\ t \in Trb
  BY DEF StoreUpperHalf, TypeOK
<1>1. Pending < MaxPending /\ Pending' = Pending + 1 /\ executed' = executed
  BY <1>0 DEF TypeOK, Pending, RingInv, ProducerInv, StoreUpperHalf, hc
<1>2. Done = pushed /\ pushed < Link + Link + Link /\ index = SlotOf(pushed + 1)
  BY <1>0, DriverPlace DEF Done
<1>4. \A k \in 1 .. Pending : unexecuted'[k] = unexecuted[k]
  <2>. TAKE k \in 1 .. Pending
  <2>1. SlotOf(executed + k)' = SlotOf(executed + k)
    BY <1>1 DEF SlotOf
  <2>2. executed + k \in executed + 1 .. pushed
    BY DEF TypeOK, Pending, WaitingGood
  <2>3. SlotOf(executed + k) # index /\ SlotOf(executed + k) \in Slots
    BY <1>0, <1>1, <2>2, WaitingElsewhere
  <2>4. ring'[SlotOf(executed + k)] = ring[SlotOf(executed + k)]
    BY <2>3 DEF StoreUpperHalf, TypeOK
  <2>5. k \in 1 .. Pending'
    BY <1>1 DEF WaitingGood
  <2>. QED
    BY <2>1, <2>4, <2>5 DEF unexecuted
<1>5. unexecuted'[Pending + 1] = t
  <2>1. ring'[index].trb = t
    BY DEF StoreUpperHalf, TypeOK, Slots, Link
  <2>2. Pending' \in 1 .. Pending' /\ Pending' = Pending + 1
    BY <1>1 DEF WaitingGood
  <2>3. unexecuted'[Pending'] = ring'[SlotOf(executed + Pending)'].trb
    BY <2>2 DEF unexecuted
  <2>4. SlotOf(executed + Pending)' = index
    BY <1>1, <1>2 DEF SlotOf, Pending, TypeOK, StoreUpperHalf
  <2>. QED
    BY <2>1, <2>2, <2>3, <2>4
<1>6. unexecuted' = Append(unexecuted, t)
  <2>1. unexecuted \in Seq(Trb) /\ Len(unexecuted) = Pending
    BY DEF WaitingGood
  <2>2. unexecuted' \in Seq(Trb) /\ Len(unexecuted') = Pending + 1
    BY <1>1 DEF WaitingGood
  <2>3. /\ Append(unexecuted, t) \in Seq(Trb)
        /\ Len(Append(unexecuted, t)) = Pending + 1
        /\ \A k \in 1 .. Pending : Append(unexecuted, t)[k] = unexecuted[k]
        /\ Append(unexecuted, t)[Pending + 1] = t
    BY <1>0, <2>1, AppendProperties
  <2>4. \A k \in 1 .. Pending + 1 : unexecuted'[k] = Append(unexecuted, t)[k]
    BY <1>4, <1>5, <2>3 DEF WaitingGood
  <2>. QED
    BY <2>2, <2>3, <2>4, SeqEqual
<1>7. Queue!Put(t)
  BY <1>1, <1>6 DEF WaitingGood, Queue!Put, unexecuted, StoreUpperHalf, hc
<1>. QED
  BY <1>0, <1>7

LEMMA ExecuteRefines ==
  ASSUME TypeOK, RingInv, WaitingGood, WaitingGood', HcExecute
  PROVE  Queue!Take
<1>. USE TrbsAssumption, PendingAssumption
<1>1. Pending > 0
  BY ExactFromInv DEF ReadyIsExact, HcExecute
<1>2. Pending' = Pending - 1 /\ executed' = executed + 1 /\ ring' = ring
  BY DEF TypeOK, Pending, HcExecute, driver
<1>3. /\ unexecuted \in Seq(Trb) /\ Len(unexecuted) = Pending
      /\ unexecuted' \in Seq(Trb) /\ Len(unexecuted') = Pending - 1
  BY <1>2 DEF WaitingGood
<1>4. unexecuted # <<>>
  BY <1>1, <1>3
<1>5. out' = Head(unexecuted)
  <2>1. SlotOf(executed + 1) = hcIndex
    BY DEF SlotOf, TypeOK, Slots, Link, RingInv, ConsumerInv, HcExecute
  <2>2. unexecuted[1] = ring[hcIndex].trb
    BY <1>1, <2>1 DEF WaitingGood, unexecuted
  <2>. QED
    BY <1>3, <1>4, <2>2, HeadTailProperties DEF HcExecute
<1>6. \A k \in 1 .. Pending - 1 : unexecuted'[k] = unexecuted[k + 1]
  <2>. TAKE k \in 1 .. Pending - 1
  <2>1. SlotOf(executed + k)' = SlotOf(executed + (k + 1))
    BY <1>2 DEF SlotOf, TypeOK, WaitingGood
  <2>2. k \in 1 .. Pending' /\ k + 1 \in 1 .. Pending
    BY <1>2 DEF WaitingGood
  <2>. QED
    BY <1>2, <2>1, <2>2 DEF unexecuted
<1>7. unexecuted' = Tail(unexecuted)
  <2>1. /\ Tail(unexecuted) \in Seq(Trb)
        /\ Len(Tail(unexecuted)) = Pending - 1
        /\ \A k \in 1 .. Pending - 1 : Tail(unexecuted)[k] = unexecuted[k + 1]
    BY <1>3, <1>4, HeadTailProperties
  <2>. QED
    BY <1>3, <1>6, <2>1, SeqEqual
<1>. QED
  BY <1>4, <1>5, <1>7 DEF Queue!Take, unexecuted

LEMMA InitRefines == Init => Queue!Init
<1>. SUFFICES ASSUME Init PROVE Queue!Init
  OBVIOUS
<1>1. Pending = 0
  BY DEF Init, Pending
<1>2. unexecuted = <<>>
  BY <1>1 DEF unexecuted
<1>. QED
  BY <1>2 DEF Init, Queue!Init, unexecuted

(***************************************************************************)
(* The ring implements the queue: the store of a TRB's upper half puts, an *)
(* execution takes, and nothing else shows: neither the other stores of a  *)
(* push nor the doorbell, the link TRB and the idle controller.            *)
(***************************************************************************)
THEOREM RingImplementsQueue == Spec => ImplementsQueue
<1>1. TypeOK /\ RingInv /\ WaitingGood /\ WaitingGood' /\ [Next]_vars
      => [Queue!Next]_(Queue!vars)
  <2>. SUFFICES ASSUME TypeOK, RingInv, WaitingGood, WaitingGood',
                       [Next]_vars
                PROVE  [Queue!Next]_(Queue!vars)
    OBVIOUS
  <2>1. CASE StoreUpperHalf
    BY <2>1, StoreRefines DEF Queue!Next
  <2>8. CASE (\E t \in Trb : Push(t)) \/ ClearCycle \/ SetCycle
    BY <2>8, PushStutters
  <2>2. CASE HcExecute
    BY <2>2, ExecuteRefines DEF Queue!Next
  <2>3. CASE UNCHANGED <<ring, pushed, executed, out>>
    BY <2>3 DEF Queue!vars, Pending, SlotOf
  <2>4. CASE Doorbell
    BY <2>3, <2>4 DEF Doorbell
  <2>5. CASE HcFollowLink
    BY <2>3, <2>5 DEF HcFollowLink, driver
  <2>6. CASE HcIdle
    BY <2>3, <2>6 DEF HcIdle, driver
  <2>7. CASE UNCHANGED vars
    BY <2>3, <2>7 DEF vars, driver, hc
  <2>. QED
    BY <2>1, <2>2, <2>4, <2>5, <2>6, <2>7, <2>8 DEF Next
<1>. QED
  BY <1>1, InitRefines, TypeCorrect, RingCorrect, WaitingType, PTL
  DEF Spec, Inv, ImplementsQueue, Queue!Spec
=============================================================================
