---------------------------- MODULE BoundedQueue ----------------------------
(***************************************************************************)
(* What a ring of xhci.c promises to the two sides that share it: a        *)
(* bounded first-in first-out queue.  For the event ring the controller    *)
(* puts and xhci_poll_event takes; for a command or transfer ring the      *)
(* driver puts and the controller takes.  EventRing and TrbRing implement  *)
(* it, XhciDriver uses it.                                                 *)
(***************************************************************************)
EXTENDS Naturals, Sequences

CONSTANTS
  Item,       \* what is handed over
  NoItem,     \* the contents of a TRB nobody wrote yet, not an Item
  Capacity    \* how many items can wait at a time

VARIABLES
  queue,      \* the waiting items, oldest first
  out         \* the item taken last

vars == <<queue, out>>

TypeOK ==
  /\ queue \in Seq(Item)
  /\ Len(queue) <= Capacity
  /\ out \in Item \union {NoItem}

Init ==
  /\ queue = <<>>
  /\ out = NoItem

Put(item) ==
  /\ Len(queue) < Capacity
  /\ queue' = Append(queue, item)
  /\ UNCHANGED out

Take ==
  /\ queue # <<>>
  /\ out' = Head(queue)
  /\ queue' = Tail(queue)

Next ==
  \/ \E item \in Item : Put(item)
  \/ Take

Spec == Init /\ [][Next]_vars
=============================================================================
