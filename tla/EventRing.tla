------------------------------ MODULE EventRing ------------------------------
(***************************************************************************)
(* The xHCI event ring as xhci.c polls it.  One segment of N TRBs in       *)
(* memory, written by the controller and read by the driver; the two       *)
(* sides share no counter.  A TRB belongs to the driver when its cycle bit *)
(* equals the cycle the driver expects, and the controller learns how far  *)
(* the driver has read from the ERDP register, which the driver writes one *)
(* step after it took the TRB.                                             *)
(*                                                                         *)
(* Only the status/control half of an event is modelled: the data half is  *)
(* never used by the driver.                                               *)
(***************************************************************************)
EXTENDS Naturals, Sequences

CONSTANTS
  N,          \* XHCI_EVT_RING_TRBS
  Event,      \* the status/control words the controller can report
  NoEvent     \* the zeroed TRB of xhci_init

ASSUME NAssumption == N \in Nat /\ N >= 2
ASSUME NoEventAssumption == NoEvent \notin Event

VARIABLES
  event_ring,         \* the shared memory
  event_ring_index,   \* driver: next TRB to look at
  event_ring_cycle,   \* driver: cycle bit that marks a TRB as written
  out,                \* driver: the event of the last successful poll
  erdpStale,          \* driver: index advanced, ERDP not written yet
  erdp,               \* register: where the driver says it will read next
  hcIndex,            \* controller: next TRB to write
  hcCycle             \* controller: producer cycle state

driver == <<event_ring_index, event_ring_cycle, out, erdpStale, erdp>>
hc == <<event_ring, hcIndex, hcCycle>>
vars == <<driver, hc>>

Slots == 0 .. N - 1

TypeOK ==
  /\ event_ring \in [Slots -> [ev : Event \union {NoEvent}, cycle : {0, 1}]]
  /\ event_ring_index \in Slots
  /\ event_ring_cycle \in {0, 1}
  /\ out \in Event \union {NoEvent}
  /\ erdpStale \in BOOLEAN
  /\ erdp \in Slots
  /\ hcIndex \in Slots
  /\ hcCycle \in {0, 1}

(***************************************************************************)
(* Steps 6 and 7 of xhci_init: a zeroed ring, the driver at its start and  *)
(* expecting cycle 1, ERDP at the start.                                   *)
(***************************************************************************)
Init ==
  /\ event_ring = [i \in Slots |-> [ev |-> NoEvent, cycle |-> 0]]
  /\ event_ring_index = 0
  /\ event_ring_cycle = 1
  /\ out = NoEvent
  /\ erdpStale = FALSE
  /\ erdp = 0
  /\ hcIndex = 0
  /\ hcCycle = 1

-----------------------------------------------------------------------------
(* The driver.                                                             *)

(* event_ring_index++, back to 0 past the last TRB. *)
NextIndex(i) == IF i + 1 >= N THEN 0 ELSE i + 1

(* Faulty variants: the toggle is forgotten, or comes one TRB late. *)
CycleNeverToggles(i, c) == c
CycleTogglesLate(i, c) == IF i = 0 THEN 1 - c ELSE c

(* event_ring_cycle ^= 1 when the index wraps. *)
NextCycle(i, c) == IF i + 1 >= N THEN 1 - c ELSE c

(* The producer's cycle bit has reached the value the consumer expects. *)
Ready == event_ring[event_ring_index].cycle = event_ring_cycle

(***************************************************************************)
(* xhci_poll_event, when it returns 1: copy the TRB out and advance.  When *)
(* it returns 0 nothing changes.                                           *)
(***************************************************************************)
Poll ==
  /\ ~erdpStale
  /\ Ready
  /\ out' = event_ring[event_ring_index].ev
  /\ event_ring_index' = NextIndex(event_ring_index)
  /\ event_ring_cycle' = NextCycle(event_ring_index, event_ring_cycle)
  /\ erdpStale' = TRUE
  /\ UNCHANGED <<erdp, hc>>

(* Faulty variant: the register gets the TRB after the next one. *)
AcknowledgesOneTooMany ==
  /\ erdpStale
  /\ erdp' = NextIndex(event_ring_index)
  /\ erdpStale' = FALSE
  /\ UNCHANGED <<event_ring_index, event_ring_cycle, out, hc>>

(* xhci_event_ring_update_erdp, the last call of a successful poll. *)
UpdateErdp ==
  /\ erdpStale
  /\ erdp' = event_ring_index
  /\ erdpStale' = FALSE
  /\ UNCHANGED <<event_ring_index, event_ring_cycle, out, hc>>

-----------------------------------------------------------------------------
(***************************************************************************)
(* The controller.  It writes a TRB with its own cycle state, unless the   *)
(* TRB after it is the one ERDP names: that is a full ring.                *)
(***************************************************************************)
HcNextIndex(i) == IF i = N - 1 THEN 0 ELSE i + 1

HcPost(e) ==
  /\ HcNextIndex(hcIndex) # erdp
  /\ event_ring' = [event_ring EXCEPT ![hcIndex] = [ev |-> e, cycle |-> hcCycle]]
  /\ hcIndex' = HcNextIndex(hcIndex)
  /\ hcCycle' = IF hcIndex = N - 1 THEN 1 - hcCycle ELSE hcCycle
  /\ UNCHANGED driver

Next ==
  \/ Poll
  \/ UpdateErdp
  \/ \E e \in Event : HcPost(e)

Spec == Init /\ [][Next]_vars

(***************************************************************************)
(* kernel_main ends in a loop that calls xhci_poll_events for ever, so the *)
(* driver's steps are weakly fair.  The controller owes nothing.           *)
(***************************************************************************)
FairSpec == Spec /\ WF_vars(Poll) /\ WF_vars(UpdateErdp)

-----------------------------------------------------------------------------
(* Driver and controller are on the same lap of the ring. *)
SameLap == event_ring_cycle = hcCycle

(* The TRBs written and not yet taken. *)
Unread(i) ==
  IF SameLap
  THEN event_ring_index <= i /\ i < hcIndex
  ELSE event_ring_index <= i \/ i < hcIndex

Count ==
  IF SameLap THEN hcIndex - event_ring_index
             ELSE (N - event_ring_index) + hcIndex

(* The k-th unread TRB, counted from 1. *)
SlotOf(k) ==
  IF event_ring_index + (k - 1) < N
  THEN event_ring_index + (k - 1)
  ELSE (event_ring_index + (k - 1)) - N

(***************************************************************************)
(* Why one cycle bit is enough: the two indices are never more than a lap  *)
(* apart, every TRB behind the controller carries its cycle and every TRB  *)
(* ahead of it the other one, and ERDP is at most one TRB behind the       *)
(* driver.  It follows that the driver's test for a written TRB is exact,  *)
(* and that the controller never writes a TRB that is still unread.        *)
(***************************************************************************)
LapInv ==
  /\ SameLap => event_ring_index <= hcIndex
  /\ ~SameLap => hcIndex < event_ring_index

CycleInv ==
  \A i \in Slots :
    event_ring[i].cycle = IF i < hcIndex THEN hcCycle ELSE 1 - hcCycle

WrittenInv ==
  \A i \in Slots : Unread(i) => event_ring[i].ev \in Event

ErdpInv ==
  IF erdpStale
  THEN event_ring_index = NextIndex(erdp) /\ hcIndex # erdp
  ELSE erdp = event_ring_index

RingInv == LapInv /\ CycleInv /\ WrittenInv /\ ErdpInv

(***************************************************************************)
(* Everything at once: what holds of driver, controller and ring after     *)
(* every step, for a ring of any size.                                     *)
(***************************************************************************)
Inv == TypeOK /\ RingInv

(* xhci_poll_event says "nothing there" only when nothing is there, and    *)
(* never takes a TRB of an earlier lap for a new event (xhci.c:86-89).     *)
ReadyIsExact == Ready <=> Count > 0

(***************************************************************************)
(* The ring implements the queue: every event the controller reports is    *)
(* handed out once, in order, and none is overwritten before it is taken,  *)
(* across any number of laps and with ERDP one step late.                  *)
(***************************************************************************)
Queue == INSTANCE BoundedQueue WITH
           Item <- Event,
           NoItem <- NoEvent,
           Capacity <- N - 1,
           queue <- [k \in 1 .. Count |-> event_ring[SlotOf(k)].ev]

ImplementsQueue == Queue!Spec

(* Every event the controller reports is taken in the end, however full    *)
(* the ring gets, because the main loop keeps polling.                     *)
EventuallyTaken == \A i \in Slots : Unread(i) ~> ~Unread(i)
=============================================================================
