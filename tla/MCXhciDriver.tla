---------------------------- MODULE MCXhciDriver ----------------------------
(* A keyboard and a device without a usable endpoint, on a controller that  *)
(* takes its time; a keyboard and a mouse, as run.sh plugs them in; two     *)
(* controllers, the second with a device it has no slot for; a keyboard     *)
(* with several interfaces, and one that does not use endpoint 1.           *)
EXTENDS XhciDriver

Boot == [class |-> "boot", endpoint |-> 1]
Report == [class |-> "report", endpoint |-> 2]
Other == [class |-> "other", endpoint |-> 1]
Unusual == [class |-> "boot", endpoint |-> 2]

BootAndReport == [device |-> << <<Boot>>, <<Report>> >>, controller |-> <<1, 1>>, slots |-> 2,
                  events |-> 6, synchronous |-> FALSE, faults |-> 0]
KeyboardAndMouse == [device |-> << <<Boot>>, <<Boot>> >>, controller |-> <<1, 1>>, slots |-> 2,
                     events |-> 255, synchronous |-> TRUE, faults |-> 2]
TwoControllers == [device |-> << <<Boot>>, <<Boot>>, <<Other>> >>, controller |-> <<1, 2, 2>>,
                   slots |-> 1, events |-> 255, synchronous |-> TRUE, faults |-> 2]
Composite == [device |-> << <<Report, Other, Boot>>, <<Unusual, Report>> >>,
              controller |-> <<1, 1>>, slots |-> 2,
              events |-> 255, synchronous |-> TRUE, faults |-> 0]
OneBoot == [device |-> << <<Boot>> >>, controller |-> <<1>>, slots |-> 1,
            events |-> 255, synchronous |-> FALSE, faults |-> 0]

Machines == {BootAndReport, KeyboardAndMouse, TwoControllers, Composite}
OnlyOneBoot == {OneBoot}
=============================================================================
