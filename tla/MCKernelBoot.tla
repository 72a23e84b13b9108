---------------------------- MODULE MCKernelBoot ----------------------------
(* A machine of 60 frames, with the kernel linked to frames 1 and 2, the    *)
(* frame buffer and the controllers' registers far above, and what differs  *)
(* from it.                                                                 *)
EXTENDS KernelBoot

Ram(used) == [f \in 0 .. 59 |-> IF f \in used THEN "used" ELSE "conventional"]

None == Nothing
Other == [kind |-> "other", ctrl |-> 0]
Xhci(c) == [kind |-> "xhci", ctrl |-> c]
Slot(multi, alias, functions) == [multi |-> multi, alias |-> alias, functions |-> functions]
Controller(state, mmio, scratchpads) ==
  [state |-> state, mmio |-> mmio, scratchpads |-> scratchpads]

Plain ==
  [memory |-> Ram({0, 3, 58, 59}), spots |-> {4, 57}, image |-> {1, 2}, rip |-> 1,
   stack |-> 58, file |-> "good", gop |-> TRUE, fb |-> <<64, 65>>,
   pci |-> <<Slot(FALSE, FALSE, <<Other, None>>), Slot(FALSE, TRUE, <<Xhci(1), None>>)>>,
   controllers |-> <<Controller("running", <<128, 129>>, 0)>>]

(* Two controllers, one of them a second function; more scratchpads than fit *)
(* in a page of addresses.                                                   *)
TwoControllers ==
  [Plain EXCEPT
     !.spots = {57},
     !.pci = <<Slot(TRUE, FALSE, <<Other, Xhci(1)>>), Slot(FALSE, FALSE, <<None, None>>),
               Slot(FALSE, FALSE, <<Xhci(2), None>>)>>,
     !.controllers = <<Controller("halted", <<128, 129>>, 5), Controller("running", <<132>>, 2)>>]

(* The largest region is in the way of the kernel, is split, or ends early. *)
Occupied == [Plain EXCEPT !.memory = Ram({0, 2, 3, 58, 59}), !.spots = {57}]
Split == [Plain EXCEPT !.memory = Ram({0, 3, 12, 58, 59}), !.spots = {8, 40}]
Small(n) == [TwoControllers EXCEPT !.memory = Ram({0, 3} \union (n .. 59)), !.spots = {n - 1}]

Boots == {Plain, TwoControllers, Occupied, Split,
          [Plain EXCEPT !.file = "missing"], [Plain EXCEPT !.file = "bad"],
          [Plain EXCEPT !.gop = FALSE]} \union {Small(n) : n \in {6, 10, 20, 28, 30, 40, 45, 50}}
=============================================================================
