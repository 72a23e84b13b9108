-------------------------- MODULE EventRingProofs --------------------------
(***************************************************************************)
(* The event ring is correct for every size N and every set of events: the *)
(* four parts of RingInv are inductive together, the driver's readiness    *)
(* test is exact, and the ring implements a queue of N - 1 events.         *)
(***************************************************************************)
EXTENDS EventRing, SequenceTheorems, TLAPS

(* Every variable keeps its type; in particular no index leaves the ring. *)
THEOREM TypeCorrect == Spec => []TypeOK
<1>. USE NAssumption, NoEventAssumption DEF TypeOK, Slots
<1>1. Init => TypeOK
  <2>. SUFFICES ASSUME Init PROVE TypeOK
    OBVIOUS
  <2>1. event_ring \in [Slots -> [ev : Event \union {NoEvent}, cycle : {0, 1}]]
    BY DEF Init
  <2>2. 0 \in Slots
    OBVIOUS
  <2>. QED
    BY <2>1, <2>2 DEF Init
<1>2. TypeOK /\ [Next]_vars => TypeOK'
  <2>. SUFFICES ASSUME TypeOK, [Next]_vars PROVE TypeOK'
    OBVIOUS
  <2>1. CASE Poll
    BY <2>1 DEF Poll, Ready, NextIndex, NextCycle, hc
  <2>2. CASE UpdateErdp
    BY <2>2 DEF UpdateErdp, hc
  <2>3. ASSUME NEW e \in Event, HcPost(e) PROVE TypeOK'
    BY <2>3 DEF HcPost, HcNextIndex, driver
  <2>4. CASE UNCHANGED vars
    BY <2>4 DEF vars, driver, hc
  <2>. QED
    BY <2>1, <2>2, <2>3, <2>4 DEF Next
<1>. QED
  BY <1>1, <1>2, PTL DEF Spec

-----------------------------------------------------------------------------
LEMMA RingInvInit == Init => RingInv
BY NAssumption DEF Init, RingInv, LapInv, CycleInv, WrittenInv, ErdpInv,
                   SameLap, Unread, Slots

LEMMA RingInvPoll == TypeOK /\ RingInv /\ Poll => RingInv'
<1>. SUFFICES ASSUME TypeOK, RingInv, Poll PROVE RingInv'
  OBVIOUS
<1>. USE NAssumption DEF TypeOK, Slots
<1>1. LapInv'
  BY DEF RingInv, LapInv, CycleInv, ErdpInv, SameLap, Poll, Ready, hc,
         NextIndex, NextCycle
<1>2. CycleInv'
  BY DEF RingInv, CycleInv, Poll, hc
<1>3. WrittenInv'
  BY DEF RingInv, LapInv, CycleInv, WrittenInv, Unread, SameLap, Poll, Ready,
         hc, NextIndex, NextCycle
<1>4. ErdpInv'
  BY DEF RingInv, LapInv, CycleInv, ErdpInv, SameLap, Poll, Ready, hc,
         NextIndex, NextCycle
<1>. QED
  BY <1>1, <1>2, <1>3, <1>4 DEF RingInv

LEMMA RingInvUpdateErdp == TypeOK /\ RingInv /\ UpdateErdp => RingInv'
BY DEF RingInv, LapInv, CycleInv, WrittenInv, ErdpInv, SameLap, Unread,
       UpdateErdp, hc

LEMMA RingInvPost ==
  ASSUME NEW e \in Event
  PROVE  TypeOK /\ RingInv /\ HcPost(e) => RingInv'
<1>. SUFFICES ASSUME TypeOK, RingInv, HcPost(e) PROVE RingInv'
  OBVIOUS
<1>. USE NAssumption DEF TypeOK, Slots
<1>1. LapInv'
  BY DEF RingInv, LapInv, ErdpInv, SameLap, HcPost, HcNextIndex, NextIndex,
         driver
<1>2. CycleInv'
  BY DEF RingInv, CycleInv, HcPost, HcNextIndex
<1>3. WrittenInv'
  BY DEF RingInv, LapInv, WrittenInv, Unread, SameLap, HcPost, HcNextIndex,
         driver
<1>4. ErdpInv'
  BY DEF RingInv, ErdpInv, HcPost, HcNextIndex, NextIndex, driver
<1>. QED
  BY <1>1, <1>2, <1>3, <1>4 DEF RingInv

(***************************************************************************)
(* The strengthening that makes one cycle bit enough (xhci.c:83-102): the  *)
(* indices stay within a lap of each other, cycle bits tell the written    *)
(* TRBs from the others, and ERDP is at most one TRB late.                 *)
(***************************************************************************)
THEOREM RingCorrect == Spec => []Inv
<1>1. TypeOK /\ RingInv /\ [Next]_vars => RingInv'
  <2>. SUFFICES ASSUME TypeOK, RingInv, [Next]_vars PROVE RingInv'
    OBVIOUS
  <2>1. CASE UNCHANGED vars
    BY <2>1 DEF vars, driver, hc, RingInv, LapInv, CycleInv, WrittenInv,
                ErdpInv, SameLap, Unread
  <2>. QED
    BY <2>1, RingInvPoll, RingInvUpdateErdp, RingInvPost DEF Next
<1>. QED
  BY <1>1, RingInvInit, TypeCorrect, PTL DEF Spec, Inv

-----------------------------------------------------------------------------
LEMMA CountType == TypeOK /\ RingInv => Count \in 0 .. N - 1
BY NAssumption DEF TypeOK, Slots, RingInv, LapInv, SameLap, Count

LEMMA ExactFromInv == TypeOK /\ RingInv => ReadyIsExact
<1>. SUFFICES ASSUME TypeOK, RingInv PROVE ReadyIsExact
  OBVIOUS
<1>1. event_ring[event_ring_index].cycle
        = IF event_ring_index < hcIndex THEN hcCycle ELSE 1 - hcCycle
  BY DEF TypeOK, RingInv, CycleInv
<1>. QED
  BY <1>1, NAssumption DEF TypeOK, Slots, RingInv, LapInv, SameLap, Count,
                           ReadyIsExact, Ready

(***************************************************************************)
(* xhci_poll_event returns 1 exactly when an unread event is in the ring   *)
(* (xhci.c:86-89), on every lap.                                           *)
(***************************************************************************)
THEOREM PollIsExact == Spec => []ReadyIsExact
BY RingCorrect, ExactFromInv, PTL DEF Inv

-----------------------------------------------------------------------------
(* The unread events as the sequence the refinement maps them to. *)
unread == [k \in 1 .. Count |-> event_ring[SlotOf(k)].ev]

UnreadGood ==
  /\ Count \in 0 .. N - 1
  /\ unread \in Seq(Event)
  /\ Len(unread) = Count
  /\ \A k \in 1 .. Count : SlotOf(k) \in Slots /\ Unread(SlotOf(k))

LEMMA UnreadType == TypeOK /\ RingInv => UnreadGood
<1>. SUFFICES ASSUME TypeOK, RingInv PROVE UnreadGood
  OBVIOUS
<1>1. Count \in 0 .. N - 1
  BY CountType
<1>2. \A k \in 1 .. Count : SlotOf(k) \in Slots /\ Unread(SlotOf(k))
  BY NAssumption DEF TypeOK, Slots, RingInv, LapInv, SameLap, Count, SlotOf,
                     Unread
<1>3. \A k \in 1 .. Count : unread[k] \in Event
  BY <1>2 DEF RingInv, WrittenInv, unread
<1>. QED
  BY <1>1, <1>2, <1>3 DEF unread, UnreadGood

LEMMA CountAfterPost ==
  ASSUME NEW e \in Event
  PROVE  TypeOK /\ RingInv /\ HcPost(e) => Count < N - 1 /\ Count' = Count + 1
BY NAssumption DEF TypeOK, Slots, RingInv, LapInv, ErdpInv, SameLap, Count,
                   HcPost, HcNextIndex, NextIndex, driver

LEMMA CountAfterPoll ==
  TypeOK /\ RingInv /\ Poll => Count > 0 /\ Count' = Count - 1
<1>. SUFFICES ASSUME TypeOK, RingInv, Poll
              PROVE  Count > 0 /\ Count' = Count - 1
  OBVIOUS
<1>1. Count > 0
  BY ExactFromInv DEF ReadyIsExact, Poll
<1>. QED
  BY <1>1, NAssumption DEF TypeOK, Slots, RingInv, LapInv, SameLap, Count,
                           Poll, hc, NextIndex, NextCycle

LEMMA PostRefines ==
  ASSUME TypeOK, RingInv, UnreadGood, UnreadGood', NEW e \in Event, HcPost(e)
  PROVE  Queue!Put(e)
<1>. USE NAssumption
<1>1. Count < N - 1 /\ Count' = Count + 1
  BY CountAfterPost
<1>2. \A k \in 1 .. Count : unread'[k] = unread[k]
  <2>. TAKE k \in 1 .. Count
  <2>1. SlotOf(k)' = SlotOf(k)
    BY DEF SlotOf, HcPost, driver
  <2>2. SlotOf(k) \in Slots /\ Unread(SlotOf(k))
    BY DEF UnreadGood
  <2>3. SlotOf(k) # hcIndex
    BY <2>2 DEF Unread, TypeOK, Slots, RingInv, LapInv, SameLap
  <2>4. event_ring'[SlotOf(k)] = event_ring[SlotOf(k)]
    BY <2>2, <2>3 DEF HcPost, TypeOK
  <2>5. k \in 1 .. Count'
    BY <1>1 DEF UnreadGood
  <2>. QED
    BY <2>1, <2>4, <2>5 DEF unread
<1>3. unread'[Count + 1] = e
  <2>1. SlotOf(Count)' = hcIndex
    BY DEF TypeOK, Slots, RingInv, LapInv, SameLap, Count, SlotOf, HcPost,
           HcNextIndex, driver
  <2>2. event_ring'[hcIndex].ev = e
    BY DEF HcPost, TypeOK
  <2>3. Count' \in 1 .. Count' /\ Count' = Count + 1
    BY <1>1 DEF UnreadGood
  <2>4. unread'[Count'] = e
    BY <2>1, <2>2, <2>3 DEF unread
  <2>. QED
    BY <2>3, <2>4
<1>4. unread' = Append(unread, e)
  <2>1. unread \in Seq(Event) /\ Len(unread) = Count
    BY DEF UnreadGood
  <2>2. unread' \in Seq(Event) /\ Len(unread') = Count + 1
    BY <1>1 DEF UnreadGood
  <2>3. /\ Append(unread, e) \in Seq(Event)
        /\ Len(Append(unread, e)) = Count + 1
        /\ \A k \in 1 .. Count : Append(unread, e)[k] = unread[k]
        /\ Append(unread, e)[Count + 1] = e
    BY <2>1, AppendProperties
  <2>4. \A k \in 1 .. Count + 1 : unread'[k] = Append(unread, e)[k]
    BY <1>2, <1>3, <2>3 DEF UnreadGood
  <2>. QED
    BY <2>2, <2>3, <2>4, SeqEqual
<1>. QED
  BY <1>1, <1>4 DEF UnreadGood, Queue!Put, unread, HcPost, driver

LEMMA PollRefines ==
  ASSUME TypeOK, RingInv, UnreadGood, UnreadGood', Poll
  PROVE  Queue!Take
<1>. USE NAssumption
<1>1. Count > 0
  BY CountAfterPoll
<1>2. Count' = Count - 1
  BY CountAfterPoll
<1>3. /\ unread \in Seq(Event) /\ Len(unread) = Count
      /\ unread' \in Seq(Event) /\ Len(unread') = Count - 1
  BY <1>2 DEF UnreadGood
<1>4. unread # <<>>
  BY <1>1, <1>3
<1>5. out' = Head(unread)
  <2>1. SlotOf(1) = event_ring_index
    BY DEF SlotOf, TypeOK, Slots
  <2>2. unread[1] = event_ring[event_ring_index].ev
    BY <1>1, <2>1 DEF UnreadGood, unread
  <2>. QED
    BY <1>3, <1>4, <2>2, HeadTailProperties DEF Poll
<1>6. \A k \in 1 .. Count - 1 : unread'[k] = unread[k + 1]
  <2>. TAKE k \in 1 .. Count - 1
  <2>1. SlotOf(k)' = SlotOf(k + 1)
    BY DEF UnreadGood, SlotOf, TypeOK, Slots, Poll, NextIndex
  <2>2. event_ring' = event_ring
    BY DEF Poll, hc
  <2>3. k \in 1 .. Count' /\ k + 1 \in 1 .. Count
    BY <1>2 DEF UnreadGood
  <2>. QED
    BY <2>1, <2>2, <2>3 DEF unread
<1>7. unread' = Tail(unread)
  <2>1. /\ Tail(unread) \in Seq(Event)
        /\ Len(Tail(unread)) = Count - 1
        /\ \A k \in 1 .. Count - 1 : Tail(unread)[k] = unread[k + 1]
    BY <1>3, <1>4, HeadTailProperties
  <2>. QED
    BY <1>3, <1>6, <2>1, SeqEqual
<1>. QED
  BY <1>4, <1>5, <1>7 DEF Queue!Take, unread

LEMMA InitRefines == Init => Queue!Init
<1>. SUFFICES ASSUME Init PROVE Queue!Init
  OBVIOUS
<1>1. Count = 0
  BY NAssumption DEF Init, Count, SameLap
<1>2. unread = <<>>
  BY <1>1 DEF unread
<1>. QED
  BY <1>2 DEF Init, Queue!Init, unread

(***************************************************************************)
(* The ring implements the queue (xhci.c:83-102 against the controller):   *)
(* Poll delivers the head, a post appends, the ERDP write is invisible.    *)
(***************************************************************************)
THEOREM RingImplementsQueue == Spec => ImplementsQueue
<1>1. TypeOK /\ RingInv /\ UnreadGood /\ UnreadGood' /\ [Next]_vars
      => [Queue!Next]_(Queue!vars)
  <2>. SUFFICES ASSUME TypeOK, RingInv, UnreadGood, UnreadGood',
                       [Next]_vars
                PROVE  [Queue!Next]_(Queue!vars)
    OBVIOUS
  <2>1. CASE Poll
    BY <2>1, PollRefines DEF Queue!Next
  <2>2. CASE UpdateErdp
    BY <2>2 DEF UpdateErdp, hc, Queue!vars, Count, SameLap, SlotOf
  <2>3. ASSUME NEW e \in Event, HcPost(e) PROVE Queue!Next
    BY <2>3, PostRefines DEF Queue!Next
  <2>4. CASE UNCHANGED vars
    BY <2>4 DEF vars, driver, hc, Queue!vars, Count, SameLap, SlotOf
  <2>. QED
    BY <2>1, <2>2, <2>3, <2>4 DEF Next
<1>. QED
  BY <1>1, InitRefines, TypeCorrect, RingCorrect, UnreadType, PTL
  DEF Spec, Inv, ImplementsQueue, Queue!Spec
=============================================================================
