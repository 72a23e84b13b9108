----------------------------- MODULE XhciDriver -----------------------------
(***************************************************************************)
(* Device bring-up and report polling in xhci.c, against an xHCI           *)
(* controller and the devices behind it.  The driver is one sequential     *)
(* program: xhci_init walks the ports, and for each port it issues a       *)
(* command or a control request and then polls the one event ring until    *)
(* what it waits for comes by, throwing everything else away; after the    *)
(* last port kernel_main calls xhci_poll_events for ever.  The controller  *)
(* executes commands and transfers when it likes and reports each one.     *)
(* With several controllers xhci_init runs once for each: rings and DCBAA  *)
(* are replaced, the device table and its report buffers are not.  Nobody  *)
(* stops an earlier controller, so it goes on with what it was given, and  *)
(* nobody reads its event ring.                                            *)
(*                                                                         *)
(* Rings are queues here (see TrbRing and EventRing for why they may be).  *)
(* The rings, contexts and buffers allocated while port p is brought up    *)
(* are named p: each port allocates its own.  Not so the report buffers:   *)
(* an entry of the device table gets one when it is first polled, and      *)
(* keeps it when the slot number is given to another controller's device   *)
(* (xhci.c:580, 1109-1125), so they are named by their slots.  Memory does *)
(* not run out here.                                                       *)
(***************************************************************************)
EXTENDS Naturals, Sequences, FiniteSets

CONSTANT Setups  \* the machines to look at

(* What a configuration descriptor says of an interface.  "boot": HID of   *)
(* the boot subclass; "report": HID of subclass 0; "other": no HID or of   *)
(* another subclass.  endpoint: the number of its first interrupt-IN       *)
(* endpoint, or 0.  An interface's number is its position, from 0.         *)
Interface == [class : {"boot", "report", "other"}, endpoint : 0 .. 15]
NoInterface == 255

(* device and controller: at each port that is ready (see PortScan), in    *)
(* scan order, which is one controller after the other; slots: that a      *)
(* controller has; events: how many unread events the event ring holds;    *)
(* synchronous: the controller works inside the doorbell write (QEMU);     *)
(* faults: bound on errors and premature timeouts together.                *)
ASSUME SetupsAssumption ==
  \A x \in Setups :
    /\ x.device \in Seq(Seq(Interface)) /\ x.device # <<>>
    /\ \A p \in DOMAIN x.device : Len(x.device[p]) <= NoInterface
    /\ x.controller \in Seq(Nat) /\ DOMAIN x.controller = DOMAIN x.device
    /\ \A p, q \in DOMAIN x.controller : p <= q => x.controller[p] <= x.controller[q]
    /\ x.slots \in 1 .. 255 /\ x.events \in Nat \ {0}
    /\ x.synchronous \in BOOLEAN /\ x.faults \in Nat

VARIABLES
  setup,        \* the machine
  \* the driver
  pc,           \* where the driver is: see Waits
  port,         \* the port being brought up
  slot,         \* slot_id
  req,          \* the control request under way
  g_devs,       \* the device table; port 0 in an entry: never written
  dcbaa,        \* whose device context each slot's entry points to
  buf,          \* the configuration buffer of each port
  lost,         \* history: a command wait has timed out
  faults,       \* history: errors and premature timeouts so far
  \* the rings the driver fills; a TRB in intrq names its report buffer
  cmdq, ep0q, intrq,
  \* the controller
  enabled,      \* the slots it has handed out
  hcPort,       \* the port (and EP0 ring) each slot is addressed to, or 0
  hcIntr,       \* the interrupt ring each slot's endpoint 3 runs, or 0
  halted,       \* the EP0 rings that stopped at an error
  booting,      \* the interfaces of each device that use the boot protocol
  report,       \* the device, by port, whose report each buffer holds, or 0
  \* the controllers before it
  earlierEp0,   \* the EP0 rings, by port, that they run
  earlierIntr,  \* the interrupt rings that they run
  \* the event ring
  evq

program == <<pc, port, slot, req>>
memory == <<g_devs, dcbaa>>
earlier == <<earlierEp0, earlierIntr>>
hc == <<enabled, hcPort, hcIntr, halted, booting, report, earlier>>
vars == <<setup, program, memory, buf, lost, faults, cmdq, ep0q, intrq, hc, evq>>

Interfaces(p) == setup.device[p]
Ports == DOMAIN setup.device
Controller(p) == setup.controller[p]
Slots == 1 .. setup.slots

(* Of all machines. *)
AllPorts == UNION {DOMAIN x.device : x \in Setups}
AllSlots == UNION {1 .. x.slots : x \in Setups}

CommandWaits == {"enable", "address", "configure"}
Waits == CommandWaits \union {"control"}

(* The control requests of a bring-up; the stages of each are one TRB each, *)
(* all of them with Interrupt On Completion.                                *)
InRequests == {"GET_DEVICE", "GET_CONFIG9", "GET_CONFIG"}
OutRequests == {"SET_CONFIG", "SET_PROTOCOL", "SET_IDLE"}
Requests == InRequests \union OutRequests

Command == [op : {"enable", "address", "configure"},
            slot : Slots \union {0}, port : Ports]
Stage == [req : Requests, stage : {"setup", "data", "status"}, index : 0 .. NoInterface]
Event == [type : {"command"}, slot : Slots \union {0}, ep : {0}, cc : {1, 6}]
         \union [type : {"transfer"}, slot : Slots, ep : {1, 3}, cc : {1, 6}]
         \union [type : {"port"}, slot : {0}, ep : {0}, cc : {1}]
Device == [port : Ports \union {0}, hid : 0 .. NoInterface, intr : 0 .. 15,
           ring : Ports \union {0}]

NoDevice == [port |-> 0, hid |-> NoInterface, intr |-> 0, ring |-> 0]

TypeOK ==
  /\ setup \in Setups
  /\ pc \in {"port", "controller", "poll"} \union Waits
  /\ port \in Ports /\ slot \in Slots \union {0} /\ req \in Requests
  /\ g_devs \in [Slots -> Device]
  /\ dcbaa \in [Slots -> Ports \union {0}]
  /\ buf \in [Ports -> {"zero", "config9", "config"}]
  /\ lost \in BOOLEAN /\ faults \in 0 .. setup.faults
  /\ cmdq \in Seq(Command)
  /\ ep0q \in [Ports -> Seq(Stage)]
  /\ intrq \in [Ports -> Seq(Slots)]
  /\ enabled \subseteq Slots
  /\ hcPort \in [Slots -> Ports \union {0}]
  /\ hcIntr \in [Slots -> Ports \union {0}]
  /\ halted \subseteq Ports
  /\ booting \in [Ports -> SUBSET (0 .. (NoInterface - 1))]
  /\ report \in [Slots -> Ports \union {0}]
  /\ earlierEp0 \subseteq Ports /\ earlierIntr \subseteq Ports
  /\ evq \in Seq(Event) /\ Len(evq) <= setup.events

(* The resets of the ports may leave a Port Status Change event behind.    *)
FirstEvents == {<<>>, <<[type |-> "port", slot |-> 0, ep |-> 0, cc |-> 1]>>}

(* The state in which xhci_init reaches its port scan. *)
Init ==
  /\ setup \in Setups
  /\ pc = "port" /\ port = 1 /\ slot = 0 /\ req = "GET_DEVICE"
  /\ g_devs = [s \in Slots |-> NoDevice]
  /\ dcbaa = [s \in Slots |-> 0]
  /\ buf = [p \in Ports |-> "zero"]
  /\ lost = FALSE /\ faults = 0
  /\ cmdq = <<>>
  /\ ep0q = [p \in Ports |-> <<>>]
  /\ intrq = [p \in Ports |-> <<>>]
  /\ enabled = {}
  /\ hcPort = [s \in Slots |-> 0]
  /\ hcIntr = [s \in Slots |-> 0]
  /\ halted = {}
  /\ booting = [p \in Ports |-> {}]
  /\ report = [s \in Slots |-> 0]
  /\ earlierEp0 = {} /\ earlierIntr = {}
  /\ evq \in FirstEvents

(* Something goes wrong, or nothing does. *)
Fault == faults < setup.faults /\ faults' = faults + 1
NoFault == UNCHANGED faults

-----------------------------------------------------------------------------
(* The event ring.                                                         *)

(* The controller has done all it was told and is able to do. *)
HcQuiet ==
  /\ cmdq = <<>>
  /\ \A s \in Slots :
       hcPort[s] # 0 => ep0q[hcPort[s]] = <<>> \/ hcPort[s] \in halted

(* xhci_poll_event returns 1.  A synchronous controller is done before the *)
(* doorbell write returns, so before any poll.                             *)
PollEvent ==
  /\ evq # <<>>
  /\ setup.synchronous => HcQuiet
  /\ evq' = Tail(evq)

Post(e) == Len(evq) < setup.events /\ evq' = Append(evq, e)

-----------------------------------------------------------------------------
(* What the driver does once a wait is over.  Each of these says what      *)
(* becomes of all of the driver's own state and of the rings it fills.     *)

(* continue: on to the next port, or out of xhci_init, to the next         *)
(* controller or to the main loop.                                         *)
NextPort ==
  /\ IF port = Len(setup.device)
     THEN pc' = "poll" /\ UNCHANGED port
     ELSE /\ pc' = IF Controller(port + 1) = Controller(port) THEN "port" ELSE "controller"
          /\ port' = port + 1
  /\ UNCHANGED <<slot, req>>

GiveUp == NextPort /\ UNCHANGED <<memory, buf, cmdq, ep0q, intrq>>

PushCommand(op, s) ==
  cmdq' = Append(cmdq, [op |-> op, slot |-> s, port |-> port])

Stages(r) == IF r \in InRequests THEN <<"setup", "data", "status">>
                                 ELSE <<"setup", "status">>

(* The interface that a request is for. *)
Index(r) == IF r \in {"SET_PROTOCOL", "SET_IDLE"} THEN g_devs[slot].hid ELSE 0

(* xhci_ep0_control_in, xhci_ep0_control_no_data_out and                   *)
(* xhci_ep0_get_device_descriptor up to their wait.  The two reads of the  *)
(* configuration zero their buffer first.                                  *)
Request(r) ==
  /\ pc' = "control"
  /\ req' = r
  /\ ep0q' = [ep0q EXCEPT ![port] = @ \o
                [i \in DOMAIN Stages(r) |->
                   [req |-> r, stage |-> Stages(r)[i], index |-> Index(r)]]]
  /\ buf' = IF r \in {"GET_CONFIG9", "GET_CONFIG"}
            THEN [buf EXCEPT ![port] = "zero"] ELSE buf
  /\ UNCHANGED <<port, slot, dcbaa, cmdq, intrq>>

(* Faulty variant: the DCBAA entry is left for later. *)
AddressWithoutContext(s) ==
  /\ pc' = "address"
  /\ slot' = s
  /\ PushCommand("address", s)
  /\ UNCHANGED <<port, req, memory, buf, ep0q, intrq>>

(* The first half of xhci_cmd_address_device: contexts, DCBAA, command. *)
AddressDevice(s) ==
  /\ pc' = "address"
  /\ slot' = s
  /\ dcbaa' = [dcbaa EXCEPT ![s] = port]
  /\ PushCommand("address", s)
  /\ UNCHANGED <<port, req, g_devs, buf, ep0q, intrq>>

(* Faulty variant: an entry that is there is taken for the device's own. *)
DeviceAddressedOnce ==
  /\ g_devs' = IF g_devs[slot].port = 0
               THEN [g_devs EXCEPT ![slot] = [NoDevice EXCEPT !.port = port]] ELSE g_devs
  /\ Request("GET_DEVICE")

(* The second half: the device table entry, and the first request. *)
DeviceAddressed ==
  /\ g_devs' = [g_devs EXCEPT ![slot] = [NoDevice EXCEPT !.port = port]]
  /\ Request("GET_DEVICE")

(* Faulty variant: nobody waits for the command. *)
ConfigureUnawaited ==
  IF g_devs[slot].intr # 0
  THEN /\ NextPort
       /\ g_devs' = [g_devs EXCEPT ![slot].ring = port]
       /\ PushCommand("configure", slot)
       /\ UNCHANGED <<dcbaa, buf, ep0q, intrq>>
  ELSE GiveUp

(* xhci_cmd_configure_intr_in_ep up to its wait; without an interrupt-IN   *)
(* endpoint it returns at once.                                            *)
ConfigureEndpoint ==
  IF g_devs[slot].intr # 0
  THEN /\ pc' = "configure"
       /\ g_devs' = [g_devs EXCEPT ![slot].ring = port]
       /\ PushCommand("configure", slot)
       /\ UNCHANGED <<port, slot, req, dcbaa, buf, ep0q, intrq>>
  ELSE GiveUp

(* xhci_hid_start_polling: one TRB for the report buffer of the entry. *)
StartPolling(s) == intrq' = [intrq EXCEPT ![g_devs[s].ring] = Append(@, s)]

(* Of the interfaces in a set of positions. *)
First(is) == CHOOSE i \in is : \A j \in is : i <= j
Last(is) == CHOOSE i \in is : \A j \in is : j <= i

HidInterfaces(d) == {i \in DOMAIN d : d[i].class \in {"boot", "report"}}
BootInterfaces(d) == {i \in DOMAIN d : d[i].class = "boot" /\ d[i].endpoint # 0}

(* Faulty variant: the first HID interface is taken instead of the last. *)
ParseFirstHid ==
  LET d == IF buf[port] = "config" THEN Interfaces(port) ELSE <<>>
      hid == HidInterfaces(d)
      boot == BootInterfaces(d)
  IN  g_devs' = [g_devs EXCEPT
                   ![slot].hid = IF hid = {} THEN NoInterface ELSE First(hid) - 1,
                   ![slot].intr = IF boot = {} THEN 0 ELSE d[First(boot)].endpoint]

(* The descriptor loop of xhci_ep0_get_config_and_set_config, run over     *)
(* whatever the buffer holds at that moment: it ends at the first length   *)
(* of 0, so it finds nothing unless the whole configuration is there.  The *)
(* last HID interface is the one to talk to, the first interrupt-IN        *)
(* endpoint of a boot interface the one to poll.                           *)
ParseConfig ==
  LET d == IF buf[port] = "config" THEN Interfaces(port) ELSE <<>>
      hid == HidInterfaces(d)
      boot == BootInterfaces(d)
  IN  g_devs' = [g_devs EXCEPT
                   ![slot].hid = IF hid = {} THEN NoInterface ELSE Last(hid) - 1,
                   ![slot].intr = IF boot = {} THEN 0 ELSE d[First(boot)].endpoint]

(* What follows each control request, by its outcome. *)
AfterRequest(ok) ==
  \/ /\ req = "GET_DEVICE"
     /\ Request("GET_CONFIG9") /\ UNCHANGED g_devs
  \/ /\ req = "GET_CONFIG9" /\ ok
     /\ Request("GET_CONFIG") /\ UNCHANGED g_devs
  \/ /\ req = "GET_CONFIG" /\ ok
     /\ Request("SET_CONFIG") /\ ParseConfig
  \/ /\ req \in {"GET_CONFIG9", "GET_CONFIG"} /\ ~ok
     /\ GiveUp
  \/ /\ req = "SET_CONFIG" /\ g_devs[slot].hid # NoInterface
     /\ Request("SET_PROTOCOL") /\ UNCHANGED g_devs
  \/ /\ req = "SET_CONFIG" /\ g_devs[slot].hid = NoInterface
     /\ GiveUp
  \/ /\ req = "SET_PROTOCOL"
     /\ Request("SET_IDLE") /\ UNCHANGED g_devs
  \/ /\ req = "SET_IDLE"
     /\ ConfigureEndpoint

-----------------------------------------------------------------------------
(* The driver's steps.                                                     *)

(* xhci_init once more, up to its port scan: DCBAA, command and event ring *)
(* are those of the next controller now.  The one before is left running;  *)
(* a command that it has not executed by then comes to nothing more: its   *)
(* port was given up, and no report is asked for there.                    *)
InitNextController ==
  /\ pc = "controller"
  /\ pc' = "port"
  /\ dcbaa' = [s \in Slots |-> 0] /\ enabled' = {}
  /\ hcPort' = [s \in Slots |-> 0] /\ hcIntr' = [s \in Slots |-> 0]
  /\ earlierEp0' = earlierEp0 \union ({hcPort[s] : s \in Slots} \ {0})
  /\ earlierIntr' = earlierIntr \union ({hcIntr[s] : s \in Slots} \ {0})
  /\ cmdq' = <<>> /\ evq' \in FirstEvents
  /\ UNCHANGED <<setup, port, slot, req, g_devs, buf, lost, faults, ep0q, intrq, halted, booting, report>>

(* The port is ready: xhci_cmd_enable_slot up to its wait. *)
EnableSlot ==
  /\ pc = "port"
  /\ pc' = "enable"
  /\ PushCommand("enable", 0)
  /\ UNCHANGED <<setup, port, slot, req, memory, buf, lost, faults, ep0q, intrq, hc, evq>>

(***************************************************************************)
(* xhci_wait_for_command_completion returns 1: the next command completion *)
(* on the ring, whichever command it is for.                               *)
(***************************************************************************)
CommandCompletes ==
  /\ pc \in CommandWaits
  /\ PollEvent
  /\ LET e == Head(evq)
     IN  /\ e.type = "command"
         /\ \/ pc = "enable" /\ e.cc = 1 /\ e.slot # 0 /\ AddressDevice(e.slot)
            \/ pc = "enable" /\ ~(e.cc = 1 /\ e.slot # 0) /\ GiveUp
            \/ pc = "address" /\ e.cc = 1 /\ DeviceAddressed
            \/ pc = "address" /\ e.cc # 1 /\ GiveUp
            \/ /\ pc = "configure" /\ e.cc = 1 /\ NextPort /\ StartPolling(slot)
               /\ UNCHANGED <<memory, buf, cmdq, ep0q>>
            \/ pc = "configure" /\ e.cc # 1 /\ GiveUp
  /\ UNCHANGED <<setup, lost, faults, hc>>

(* xhci_wait_for_transfer_event returns 1: the next transfer event of the  *)
(* slot, whichever endpoint, request or stage it is for.                   *)
TransferCompletes ==
  /\ pc = "control"
  /\ PollEvent
  /\ Head(evq).type = "transfer" /\ Head(evq).slot = slot
  /\ AfterRequest(Head(evq).cc = 1)
  /\ UNCHANGED <<setup, lost, faults, hc>>

(* Either wait drops every other event. *)
DropEvent ==
  /\ pc \in Waits
  /\ PollEvent
  /\ IF pc \in CommandWaits
     THEN Head(evq).type # "command"
     ELSE ~(Head(evq).type = "transfer" /\ Head(evq).slot = slot)
  /\ UNCHANGED <<setup, program, memory, buf, lost, faults, cmdq, ep0q, intrq, hc>>

(* Faulty variant: the wait for a transfer event has no limit. *)
OnlyCommandWaitsTimeOut ==
  /\ pc \in CommandWaits /\ GiveUp
  /\ IF HcQuiet /\ evq = <<>> THEN NoFault ELSE Fault
  /\ lost' = TRUE
  /\ UNCHANGED <<setup, hc, evq>>

(***************************************************************************)
(* Either wait runs out of spins: because no answer will come, or, which   *)
(* counts as a fault, while the answer is still on its way.                *)
(***************************************************************************)
WaitTimesOut ==
  /\ IF HcQuiet /\ evq = <<>> THEN NoFault ELSE Fault
  /\ \/ pc \in CommandWaits /\ GiveUp
     \/ pc = "control" /\ AfterRequest(FALSE)
  /\ lost' = (lost \/ pc \in CommandWaits)
  /\ UNCHANGED <<setup, hc, evq>>

(* The event is a report of a device in the table. *)
IsReport(e) ==
  e.type = "transfer" /\ e.ep = 3 /\ g_devs[e.slot].port # 0

(* Faulty variant: only a successful report is followed by another TRB. *)
PollsOnSuccessOnly ==
  /\ pc = "poll"
  /\ PollEvent
  /\ LET e == Head(evq)
     IN  IF IsReport(e) /\ e.cc = 1 /\ g_devs[e.slot].ring # 0
         THEN StartPolling(e.slot) ELSE UNCHANGED intrq
  /\ UNCHANGED <<setup, program, memory, buf, lost, faults, cmdq, ep0q, hc>>

(* Faulty variant: the endpoint of the event is not looked at. *)
PollsOnAnyTransfer ==
  /\ pc = "poll"
  /\ PollEvent
  /\ LET e == Head(evq)
     IN  IF e.type = "transfer" /\ g_devs[e.slot].ring # 0
         THEN StartPolling(e.slot) ELSE UNCHANGED intrq
  /\ UNCHANGED <<setup, program, memory, buf, lost, faults, cmdq, ep0q, hc>>

(* One round of the loop in xhci_poll_events: a report is printed and the  *)
(* endpoint gets its next TRB, any other event is dropped.                 *)
PollEvents ==
  /\ pc = "poll"
  /\ PollEvent
  /\ LET e == Head(evq)
     IN  IF IsReport(e) /\ g_devs[e.slot].ring # 0
         THEN StartPolling(e.slot) ELSE UNCHANGED intrq
  /\ UNCHANGED <<setup, program, memory, buf, lost, faults, cmdq, ep0q, hc>>

-----------------------------------------------------------------------------
(* The controller and the devices.                                         *)

Completion(s, cc) == [type |-> "command", slot |-> s, ep |-> 0, cc |-> cc]
Transfer(s, ep, cc) == [type |-> "transfer", slot |-> s, ep |-> ep, cc |-> cc]

HcCommand ==
  /\ cmdq # <<>>
  /\ cmdq' = Tail(cmdq)
  /\ LET c == Head(cmdq)
     IN  \/ /\ c.op = "enable"
            /\ \E s \in Slots \ enabled :
                 enabled' = enabled \union {s} /\ Post(Completion(s, 1))
            /\ NoFault /\ UNCHANGED <<hcPort, hcIntr>>
         \/ /\ c.op = "enable" /\ enabled = Slots
            /\ Post(Completion(0, 6))
            /\ NoFault /\ UNCHANGED <<enabled, hcPort, hcIntr>>
         \/ /\ c.op = "address" /\ c.slot \in enabled /\ hcPort[c.slot] = 0
            /\ hcPort' = [hcPort EXCEPT ![c.slot] = c.port]
            /\ Post(Completion(c.slot, 1))
            /\ NoFault /\ UNCHANGED <<enabled, hcIntr>>
         \/ /\ c.op = "address"
            /\ IF c.slot \in enabled /\ hcPort[c.slot] = 0 THEN Fault ELSE NoFault
            /\ Post(Completion(c.slot, 6))
            /\ UNCHANGED <<enabled, hcPort, hcIntr>>
         \/ /\ c.op = "configure" /\ hcPort[c.slot] # 0
            /\ hcIntr' = [hcIntr EXCEPT ![c.slot] = c.port]
            /\ Post(Completion(c.slot, 1))
            /\ NoFault /\ UNCHANGED <<enabled, hcPort>>
         \/ /\ c.op = "configure"
            /\ IF hcPort[c.slot] # 0 THEN Fault ELSE NoFault
            /\ Post(Completion(c.slot, 6))
            /\ UNCHANGED <<enabled, hcPort, hcIntr>>
  /\ UNCHANGED <<setup, program, memory, buf, lost, ep0q, intrq, halted, booting, report, earlier>>

(* One stage of a control transfer; the data stage of a read fills the     *)
(* configuration buffer, the status stage ends the request.  An error      *)
(* halts the endpoint, and nothing in the driver resets it.                *)
ControlStage(p, cc) ==
  /\ p \notin halted /\ ep0q[p] # <<>>
  /\ ep0q' = [ep0q EXCEPT ![p] = Tail(@)]
  /\ LET t == Head(ep0q[p])
     IN  \/ /\ cc = 1
            /\ buf' = IF t.stage # "data" THEN buf
                      ELSE CASE t.req = "GET_CONFIG9" -> [buf EXCEPT ![p] = "config9"]
                             [] t.req = "GET_CONFIG" -> [buf EXCEPT ![p] = "config"]
                             [] OTHER -> buf
            /\ booting' = IF t.stage = "status" /\ t.req = "SET_PROTOCOL"
                          THEN [booting EXCEPT ![p] = @ \union {t.index}] ELSE booting
            /\ NoFault /\ UNCHANGED halted
         \/ /\ cc = 6
            /\ Fault
            /\ halted' = halted \union {p}
            /\ UNCHANGED <<buf, booting>>
  /\ UNCHANGED <<setup, program, memory, lost, cmdq, intrq, enabled, hcPort, hcIntr, report, earlier>>

HcControl(s) ==
  /\ s \in Slots /\ hcPort[s] # 0
  /\ \E cc \in {1, 6} : ControlStage(hcPort[s], cc) /\ Post(Transfer(s, 1, cc))

HasEndpoint1(p) == \E i \in DOMAIN Interfaces(p) : Interfaces(p)[i].endpoint = 1

(* The device has a report and the endpoint a TRB for it.  The endpoint is *)
(* number 1 whatever was found; if the device has no such endpoint it does *)
(* not answer, which is an error.                                          *)
SendReport(p, cc) ==
  /\ intrq[p] # <<>>
  /\ intrq' = [intrq EXCEPT ![p] = Tail(@)]
  /\ \/ /\ cc = 1 /\ HasEndpoint1(p) /\ NoFault
        /\ report' = [report EXCEPT ![Head(intrq[p])] = p]
     \/ /\ cc = 6
        /\ IF HasEndpoint1(p) THEN Fault ELSE NoFault
        /\ UNCHANGED report
  /\ UNCHANGED <<setup, program, memory, buf, lost, cmdq, ep0q, enabled, hcPort, halted, booting, earlier>>

HcReport(s) ==
  /\ hcIntr[s] # 0
  /\ \E cc \in {1, 6} :
       /\ SendReport(hcIntr[s], cc) /\ Post(Transfer(s, 3, cc))
       /\ hcIntr' = IF cc = 1 THEN hcIntr ELSE [hcIntr EXCEPT ![s] = 0]

(* An earlier controller goes on, and nobody reads what it reports. *)
EarlierControl(p) ==
  /\ p \in earlierEp0
  /\ \E cc \in {1, 6} : ControlStage(p, cc)
  /\ UNCHANGED evq

EarlierReport(p) ==
  /\ p \in earlierIntr
  /\ \E cc \in {1, 6} : SendReport(p, cc)
  /\ UNCHANGED <<hcIntr, evq>>

-----------------------------------------------------------------------------
Driver ==
  \/ InitNextController
  \/ EnableSlot
  \/ CommandCompletes
  \/ TransferCompletes
  \/ DropEvent
  \/ WaitTimesOut
  \/ PollEvents

Next ==
  \/ Driver
  \/ HcCommand
  \/ \E s \in Slots : HcControl(s)
  \/ \E s \in Slots : HcReport(s)
  \/ \E p \in Ports : EarlierControl(p) \/ EarlierReport(p)

Spec == Init /\ [][Next]_vars

(***************************************************************************)
(* The driver never blocks: its waits are bounded loops and its main loop  *)
(* has no end.  A controller executes what it was told.  A device need not *)
(* ever have a report.                                                     *)
(***************************************************************************)
FairSpec ==
  /\ Spec
  /\ WF_vars(Driver)
  /\ WF_vars(HcCommand)
  /\ \A s \in AllSlots : WF_vars(HcControl(s))

-----------------------------------------------------------------------------
Reports == {i \in DOMAIN evq : evq[i].type = "transfer" /\ evq[i].ep = 3}

(* Into the buffer of an entry of the device table. *)
ReportsInto(b) == {i \in Reports : evq[i].slot = b}

(* The slots of the controller with a TRB for a buffer. *)
ArmedFor(b) ==
  {s \in Slots : hcPort[s] # 0 /\ \E i \in DOMAIN intrq[hcPort[s]] : intrq[hcPort[s]][i] = b}

(***************************************************************************)
(* Each entry of the device table has one report buffer.  The controller   *)
(* has at most one TRB for it, waiting or completed and not yet printed,   *)
(* so it overwrites no report that xhci_poll_events has not read           *)
(* (xhci.c:576-594, 1572-1597).  An earlier controller, which is not       *)
(* stopped, has at most one TRB for each of its devices, and may.          *)
(***************************************************************************)
OneReportBuffer ==
  /\ \A p \in Ports : Len(intrq[p]) <= 1
  /\ \A b \in Slots : Cardinality(ArmedFor(b)) + Cardinality(ReportsInto(b)) <= 1

(***************************************************************************)
(* xhci_wait_for_command_completion never looks at which command an event  *)
(* answers.  It may: unless a command wait has timed out, the command it   *)
(* waits for is the only one that has no answer yet.                       *)
(***************************************************************************)
OneCommandOutstanding ==
  ~lost => Len(cmdq) + Cardinality({i \in DOMAIN evq : evq[i].type = "command"})
             = IF pc \in CommandWaits THEN 1 ELSE 0

(***************************************************************************)
(* The driver's, the controller's and the rings' state are well formed,    *)
(* and a wait for a command takes the answer to that command.              *)
(***************************************************************************)
Inv == TypeOK /\ OneCommandOutstanding

(***************************************************************************)
(* Unless a command wait has timed out, driver and controller agree on     *)
(* which device has which slot: an addressed slot's DCBAA entry, the       *)
(* device table and the controller name the same port, and no two slots    *)
(* the same one.                                                           *)
(***************************************************************************)
SlotsAgree ==
  ~lost =>
    /\ \A s \in Slots : hcPort[s] # 0 => dcbaa[s] = hcPort[s]
    /\ \A s \in Slots : LET p == g_devs[s].port
                       IN  p # 0 /\ Controller(p) = Controller(port) => p = hcPort[s]
    /\ \A s \in Slots : hcIntr[s] # 0 => hcIntr[s] = hcPort[s] /\ g_devs[s].ring = hcIntr[s]
    /\ \A s, t \in Slots : hcPort[s] = hcPort[t] /\ hcPort[s] # 0 => s = t

(***************************************************************************)
(* The device table is never cleared, so with several controllers it has   *)
(* entries of earlier ones under the same slot numbers, with their report  *)
(* buffers.  A report is still printed for, and followed by a TRB for, the *)
(* device that sent it (xhci.c:1567-1597), unless a command wait has timed *)
(* out.  And what is printed is what this device wrote into the entry's    *)
(* buffer, unless a device of an earlier controller has written over it.   *)
(***************************************************************************)
ReportsFindTheirDevice ==
  \A i \in Reports :
    LET s == evq[i].slot
    IN  /\ ~lost => g_devs[s].port = hcPort[s]
        /\ evq[i].cc = 1 => report[s] = hcPort[s] \/ report[s] \in earlierIntr

(***************************************************************************)
(* Every bring-up ends in the main loop, whatever the devices do: each     *)
(* wait is bounded and no port is tried twice.                             *)
(***************************************************************************)
BringUpEnds == <>(pc = "poll")

(* In the main loop, a report is followed by a TRB for the next one, even  *)
(* if it completed with an error (xhci.c:1594-1597).  The controller may   *)
(* execute that TRB, unless the endpoint has failed.                       *)
RearmedInMainLoop ==
  \A s \in AllSlots :
    s \in Slots /\ pc = "poll" /\ (\E i \in Reports : evq[i].slot = s)
      ~> /\ s \in Slots /\ hcPort[s] # 0 /\ intrq[hcPort[s]] # <<>>
         /\ faults = 0 /\ HasEndpoint1(hcPort[s]) => hcIntr[s] = hcPort[s]

IsBoot(p) == p \in Ports /\ BootInterfaces(Interfaces(p)) # {}
Polled(p) == p \in Ports /\ intrq[p] # <<>>

(* "enable interrupt IN EP and poll reports" (xhci.c:1136-1137): every     *)
(* boot device gets there.                                                 *)
BootDevicesPolled == \A p \in AllPorts : IsBoot(p) => <>Polled(p)

(* There is a slot for the device. *)
HasSlot(p) == Cardinality({q \in 1 .. p : Controller(q) = Controller(p)}) <= setup.slots

(***************************************************************************)
(* The interface that is polled and the one that is told to use the boot   *)
(* protocol are the same one (xhci.c:288, 314), and its endpoint has the   *)
(* number the driver assumes (xhci.c:451).                                 *)
(***************************************************************************)
Fits(p) ==
  LET d == Interfaces(p)
      polled == First(BootInterfaces(d))
  IN  polled = Last(HidInterfaces(d)) /\ d[polled].endpoint = 1

(***************************************************************************)
(* With a controller that is done before the doorbell write returns, and   *)
(* nothing that goes wrong, every boot device that its controller has a    *)
(* slot for gets there, if it fits what the driver assumes: its endpoint   *)
(* is polled and reports by the boot protocol.                             *)
(***************************************************************************)
UndisturbedBootDevicesPolled ==
  setup.synchronous /\ [](faults = 0) =>
    \A p \in AllPorts :
      IsBoot(p) /\ HasSlot(p) /\ Fits(p) =>
        <>(Polled(p) /\ First(BootInterfaces(Interfaces(p))) - 1 \in booting[p])
=============================================================================
