------------------------------ MODULE TrbRing ------------------------------
(***************************************************************************)
(* A ring the driver fills and the controller drains: the command ring,    *)
(* an endpoint-0 ring or an interrupt-IN ring of xhci.c.  All three are    *)
(* built and filled by the same code: a page of TRBs whose last one is a   *)
(* link TRB written once, with cycle bit 1 and Toggle Cycle.               *)
(*                                                                         *)
(* A push stores the TRB, its lower half first, and then clears and sets   *)
(* the cycle bit it has stored already.  The kernel is compiled without    *)
(* optimisation, so these stores reach memory in program order, but the    *)
(* controller may look between any two of them.                            *)
(***************************************************************************)
EXTENDS Naturals, Sequences

CONSTANTS
  Trbs,       \* TRBs in the page, the link TRB included (256)
  Trb,        \* what the driver can push
  NoTrb,      \* a zeroed TRB, and the link TRB's payload
  MaxPending, \* how many TRBs the callers leave unexecuted at most
  MaxTd       \* how many TRBs a caller pushes before it rings the doorbell

(* With a single TRB besides the link TRB, only the first doorbell would   *)
(* keep the controller from coming back to it in the middle of a push.     *)
ASSUME TrbsAssumption == Trbs \in Nat /\ Trbs >= 3
ASSUME PendingAssumption == MaxPending \in 1 .. Trbs - 1
ASSUME MaxTdAssumption == MaxTd \in Nat \ {0}
ASSUME NoTrbAssumption == NoTrb \notin Trb

VARIABLES
  ring,       \* command_ring, ep0_ring or intr_ring
  push,       \* how far the push under way is: see Stages
  pushing,    \* its argument
  index,      \* command_ring_index, ep0_index or intr_index
  cycle,      \* command_ring_cycle, ep0_cycle or intr_cycle
  unrung,     \* pushed since the last doorbell
  hcIndex,    \* controller: dequeue pointer
  hcCycle,    \* controller: consumer cycle state
  hcRuns,     \* controller: the ring is running, not waiting for a doorbell
  out,        \* the TRB executed last
  pushed,     \* how many TRBs were pushed ...
  executed    \* ... and how many executed

driver == <<push, pushing, index, cycle, unrung, pushed>>
hc == <<hcIndex, hcCycle, hcRuns, out, executed>>
vars == <<ring, driver, hc>>

Link == Trbs - 1
Slots == 0 .. Link

(* No push; the lower half is stored; the upper half with the cycle bit is *)
(* stored too; the cycle bit is cleared again.                             *)
Stages == {"none", "half", "stored", "cleared"}

TypeOK ==
  /\ ring \in [Slots -> [trb : Trb \union {NoTrb}, cycle : {0, 1}]]
  /\ push \in Stages /\ pushing \in Trb \union {NoTrb}
  /\ push # "none" => pushing \in Trb /\ unrung < MaxTd
  /\ index \in 0 .. Link - 1
  /\ cycle \in {0, 1}
  /\ unrung \in 0 .. MaxTd
  /\ hcIndex \in Slots
  /\ hcCycle \in {0, 1}
  /\ hcRuns \in BOOLEAN
  /\ out \in Trb \union {NoTrb}
  /\ pushed \in Nat
  /\ executed \in Nat

(* xhci_alloc_tr_ring, step 5 of xhci_init: zeroed TRBs and a link TRB; the *)
(* controller is told the ring's base and cycle state 1.                    *)
Init ==
  /\ ring = [i \in Slots |-> [trb |-> NoTrb, cycle |-> IF i = Link THEN 1 ELSE 0]]
  /\ push = "none" /\ pushing = NoTrb
  /\ index = 0
  /\ cycle = 1
  /\ unrung = 0
  /\ hcIndex = 0
  /\ hcCycle = 1
  /\ hcRuns = FALSE
  /\ out = NoTrb
  /\ pushed = 0
  /\ executed = 0

(* Faulty variant: the link TRB is built without Toggle Cycle. *)
LinkKeepsCycle == FALSE

(* The link TRB's bit 1, Toggle Cycle, is set. *)
LinkToggles == TRUE

-----------------------------------------------------------------------------
(* The driver.                                                             *)

NextIndex(i) == IF i + 1 = Link THEN 0 ELSE i + 1

(* Faulty variant: the producer never changes its cycle. *)
CycleNeverToggles(i, c) == c

NextCycle(i, c) == IF i + 1 = Link THEN 1 - c ELSE c

(* Faulty variant: the half with the cycle bit is stored first. *)
UpperHalfStored(slot, t) == [slot EXCEPT !.cycle = cycle]

(* A TRB of which the first 8 bytes are stored. *)
LowerHalfStored(slot, t) == [slot EXCEPT !.trb = t]

(***************************************************************************)
(* xhci_cmd_ring_push, xhci_ep0_ring_push, xhci_intr_ring_push, store by   *)
(* store.  None looks at how far the controller is: the second and third   *)
(* guard are what the callers guarantee.  None writes the link TRB.        *)
(***************************************************************************)
Push(t) ==
  /\ push = "none"
  /\ pushed - executed < MaxPending
  /\ unrung < MaxTd
  /\ push' = "half" /\ pushing' = t
  /\ ring' = [ring EXCEPT ![index] = LowerHalfStored(@, t)]
  /\ UNCHANGED <<index, cycle, unrung, pushed, hc>>

(* The callers have put the cycle into the TRB, so from here on it is the  *)
(* controller's.                                                           *)
StoreUpperHalf ==
  /\ push = "half" /\ push' = "stored"
  /\ ring' = [ring EXCEPT ![index] = [trb |-> pushing, cycle |-> cycle]]
  /\ pushed' = pushed + 1
  /\ UNCHANGED <<pushing, index, cycle, unrung, hc>>

(* control &= ~1u *)
ClearCycle ==
  /\ push = "stored" /\ push' = "cleared"
  /\ ring' = [ring EXCEPT ![index].cycle = 0]
  /\ UNCHANGED <<pushing, index, cycle, unrung, pushed, hc>>

(* control |= cycle, and the index. *)
SetCycle ==
  /\ push = "cleared" /\ push' = "none"
  /\ ring' = [ring EXCEPT ![index].cycle = cycle]
  /\ index' = NextIndex(index)
  /\ cycle' = NextCycle(index, cycle)
  /\ unrung' = unrung + 1
  /\ UNCHANGED <<pushing, pushed, hc>>

(* Faulty variant: the doorbell write is lost. *)
DoorbellUnheard ==
  /\ push = "none" /\ unrung > 0
  /\ unrung' = 0
  /\ UNCHANGED <<ring, push, pushing, index, cycle, pushed, hc>>

(* xhci_ring_doorbell_cmd, _ep0, _ep: every caller rings after its pushes. *)
Doorbell ==
  /\ push = "none" /\ unrung > 0
  /\ unrung' = 0
  /\ hcRuns' = TRUE
  /\ UNCHANGED <<ring, push, pushing, index, cycle, pushed, hcIndex, hcCycle, out, executed>>

-----------------------------------------------------------------------------
(* The controller.                                                         *)

(* The TRB at the dequeue pointer belongs to the controller. *)
Ready == ring[hcIndex].cycle = hcCycle

HcExecute ==
  /\ hcRuns
  /\ hcIndex # Link
  /\ Ready
  /\ out' = ring[hcIndex].trb
  /\ hcIndex' = hcIndex + 1
  /\ executed' = executed + 1
  /\ UNCHANGED <<ring, driver, hcCycle, hcRuns>>

HcFollowLink ==
  /\ hcRuns
  /\ hcIndex = Link
  /\ Ready
  /\ hcIndex' = 0
  /\ hcCycle' = IF LinkToggles THEN 1 - hcCycle ELSE hcCycle
  /\ UNCHANGED <<ring, driver, hcRuns, out, executed>>

(* Nothing to do: wait for the next doorbell. *)
HcIdle ==
  /\ hcRuns
  /\ ~Ready
  /\ hcRuns' = FALSE
  /\ UNCHANGED <<ring, driver, hcIndex, hcCycle, out, executed>>

Next ==
  \/ \E t \in Trb : Push(t)
  \/ StoreUpperHalf
  \/ ClearCycle
  \/ SetCycle
  \/ Doorbell
  \/ HcExecute
  \/ HcFollowLink
  \/ HcIdle

Spec == Init /\ [][Next]_vars

(* A push runs to its end, a caller that pushed rings the doorbell in its  *)
(* next statements, and the controller works while a ring is running.      *)
FairSpec ==
  /\ Spec
  /\ WF_vars(StoreUpperHalf) /\ WF_vars(ClearCycle) /\ WF_vars(SetCycle)
  /\ WF_vars(Doorbell) /\ WF_vars(HcExecute) /\ WF_vars(HcFollowLink)

-----------------------------------------------------------------------------
Pending == pushed - executed

(* The slot of the n-th TRB pushed, counted from 1. *)
SlotOf(n) ==
  IF n <= Link THEN n - 1
  ELSE IF n <= Link + Link THEN n - 1 - Link
  ELSE n - 1 - Link - Link

(* How many pushes are over; a TRB counts as pushed once it is stored.     *)
Done == IF push \in {"stored", "cleared"} THEN pushed - 1 ELSE pushed

(* The cycle bit of a slot that was written in the first lap and not since, *)
(* or in the third.                                                         *)
OddLap(i) ==
  \/ i < pushed /\ pushed <= i + Link
  \/ i + Link + Link < pushed

(***************************************************************************)
(* Where the two sides are.  The driver's index and cycle follow its       *)
(* count; the controller is on its first lap (cycle 1) or its second, and  *)
(* never leaves the second.                                                *)
(***************************************************************************)
ProducerInv ==
  /\ Pending \in 0 .. MaxPending
  /\ push = "half" => Pending < MaxPending
  /\ push \in {"stored", "cleared"} => pushed > 0
  /\ index = SlotOf(Done + 1) \/ (Done = Link + Link + Link /\ index = 0)
  /\ (cycle = 1) <=> \/ Done < Link
                     \/ Link + Link <= Done /\ Done < Link + Link + Link

ConsumerInv ==
  executed = IF hcCycle = 1 THEN hcIndex ELSE hcIndex + Link

(* The cycle bit of a slot tells how often it was written, but for the     *)
(* moment a push has cleared it; the link TRB still has the cycle it was   *)
(* built with.                                                             *)
CycleInv ==
  /\ ring[Link].cycle = 1
  /\ \A i \in 0 .. Link - 1 :
       IF push = "cleared" /\ i = index THEN ring[i].cycle = 0
       ELSE (ring[i].cycle = 1) <=> OddLap(i)

WrittenInv ==
  \A n \in executed + 1 .. pushed : ring[SlotOf(n)].trb \in Trb

RingInv == ProducerInv /\ ConsumerInv /\ CycleInv /\ WrittenInv

(***************************************************************************)
(* Two laps are all a ring ever does.  "Producer writes to link TRB        *)
(* (already initialized), then toggles cycle state" (xhci.c:388-390), but  *)
(* no push does write it, so it keeps the cycle of the first lap and the   *)
(* controller stops there for good at the end of the second.               *)
(***************************************************************************)
RingLife == executed <= Link + Link

(* A push has hidden the TRB that the controller is at. *)
Hidden == push = "cleared" /\ cycle = 1 /\ index = hcIndex

(* As long as it lasts, the controller finds work exactly when there is    *)
(* some and it is not hidden: it executes no TRB twice, none that is half  *)
(* stored and none of an earlier lap.                                      *)
ReadyIsExact ==
  hcIndex # Link => (Ready <=> Pending > 0 /\ ~Hidden)

(***************************************************************************)
(* Everything at once: what holds of driver, controller and ring after     *)
(* every step, on both laps.                                               *)
(***************************************************************************)
Inv == TypeOK /\ RingInv /\ ReadyIsExact

(* Every TRB the driver pushes is executed once, in order, and none is     *)
(* overwritten before it is executed.                                      *)
Queue == INSTANCE BoundedQueue WITH
           Item <- Trb,
           NoItem <- NoTrb,
           Capacity <- MaxPending,
           queue <- [k \in 1 .. Pending |-> ring[SlotOf(executed + k)].trb]

ImplementsQueue == Queue!Spec

(* What is pushed in the first two laps is executed in the end. *)
TwoLapsExecuted ==
  \A n \in 1 .. Link + Link : pushed >= n ~> executed >= n
=============================================================================
