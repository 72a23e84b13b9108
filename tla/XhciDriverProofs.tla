-------------------------- MODULE XhciDriverProofs --------------------------
(***************************************************************************)
(* The driver's state is well formed, each device's report buffer has one  *)
(* owner, and driver and controller agree on the slots, for any machine:   *)
(* any devices, controllers and slots, any bound on faults.  And before    *)
(* that: what the port scan addresses undisturbed is usable, on both kinds *)
(* of hardware and from whatever state firmware left the port in.          *)
(***************************************************************************)
EXTENDS XhciDriver, PortScan, FiniteSetTheorems, SequenceTheorems, WellFoundedInduction, TLAPS

(* What the types of the parts rest on: a slot is known once it is needed, *)
(* and an interface is told its protocol only if there is one.             *)
Addressing == {"address", "control", "configure"}

SlotKnown == pc \in Addressing => slot # 0

ProtocolForHid ==
  \A p \in Ports : \A i \in DOMAIN ep0q[p] :
    ep0q[p][i].req = "SET_PROTOCOL" => ep0q[p][i].index # NoInterface

TypeInv == TypeOK /\ SlotKnown /\ ProtocolForHid

(* A machine is what it is assumed to be. *)
LEMMA Machine ==
  ASSUME setup \in Setups
  PROVE  /\ Ports = 1 .. Len(setup.device) /\ Len(setup.device) \in Nat \ {0}
         /\ \A p \in Ports : Interfaces(p) \in Seq(Interface)
                             /\ Len(Interfaces(p)) \in 0 .. NoInterface
         /\ \A p \in Ports : Controller(p) \in Nat
         /\ \A p, q \in Ports : p <= q => Controller(p) <= Controller(q)
         /\ Slots \subseteq Nat \ {0}
         /\ setup.events \in Nat /\ setup.faults \in Nat
<1>1. /\ setup.device \in Seq(Seq(Interface)) /\ setup.device # <<>>
      /\ \A p \in DOMAIN setup.device : Len(setup.device[p]) <= NoInterface
      /\ setup.controller \in Seq(Nat) /\ DOMAIN setup.controller = DOMAIN setup.device
      /\ \A p, q \in DOMAIN setup.controller : p <= q => setup.controller[p] <= setup.controller[q]
      /\ setup.slots \in 1 .. 255 /\ setup.events \in Nat /\ setup.faults \in Nat
  BY SetupsAssumption
<1>2. Ports = 1 .. Len(setup.device) /\ Len(setup.device) \in Nat \ {0}
  BY <1>1 DEF Ports
<1>3. ASSUME NEW p \in Ports
      PROVE  Interfaces(p) \in Seq(Interface) /\ Len(Interfaces(p)) \in 0 .. NoInterface
  <2>1. p \in 1 .. Len(setup.device) /\ p \in DOMAIN setup.device
    BY <1>2, <1>3 DEF Ports
  <2>2. setup.device[p] \in Seq(Interface)
    BY <1>1, <2>1, ElementOfSeq
  <2>3. Len(setup.device[p]) \in Nat
    BY <2>2, LenProperties
  <2>4. Len(setup.device[p]) <= NoInterface
    BY <1>1, <2>1
  <2>5. Len(setup.device[p]) \in 0 .. NoInterface
    <3>1. \A n \in Nat : n <= NoInterface => n \in 0 .. NoInterface
      BY DEF NoInterface
    <3>2. QED BY <2>3, <2>4, <3>1
  <2>6. QED BY <2>2, <2>5 DEF Interfaces
<1>4. \A p \in Ports : Controller(p) \in Nat
  BY <1>1, ElementOfSeq DEF Ports, Controller
<1>5. QED BY <1>1, <1>2, <1>3, <1>4 DEF Ports, Slots, Controller

(* It stays the same, and so do the kinds of things there are. *)
LEMMA MachineStays ==
  ASSUME UNCHANGED setup
  PROVE  /\ Ports' = Ports /\ Slots' = Slots
         /\ Command' = Command /\ Event' = Event /\ Device' = Device
         /\ \A p \in Ports : Controller(p)' = Controller(p) /\ Interfaces(p)' = Interfaces(p)
BY DEF Ports, Slots, Command, Event, Device, Controller, Interfaces

(* What is in a command and in an event. *)
LEMMA Fields ==
  /\ \A c \in Command : /\ c.op \in {"enable", "address", "configure"}
                        /\ c.slot \in Slots \union {0} /\ c.port \in Ports
  /\ \A e \in Event :
       /\ e.type \in {"command", "transfer", "port"} /\ e.slot \in Slots \union {0}
       /\ e.ep \in {0, 1, 3} /\ e.cc \in {1, 6}
       /\ e.type = "transfer" => e.slot \in Slots /\ e.ep \in {1, 3}
  /\ \A d \in Device : /\ d.port \in Ports \union {0} /\ d.ring \in Ports \union {0}
                       /\ d.hid \in 0 .. NoInterface /\ d.intr \in 0 .. 15
BY DEF Command, Event, Device

(* A set of positions has a first and a last one. *)
LEMMA Extremes ==
  ASSUME NEW n \in Nat, NEW is \in SUBSET (1 .. n), is # {}
  PROVE  First(is) \in is /\ Last(is) \in is
<1>1. ASSUME NEW T \in SUBSET Nat, T # {} PROVE \E x \in T : \A y \in T : x <= y
  <2>1. PICK x \in T : \A y \in T : <<y, x>> \notin OpToRel(<, Nat)
    BY <1>1, WFMin, NatLessThanWellFounded, Zenon
  <2>2. \A y \in T : ~ (y < x)
    BY <1>1, <2>1, Zenon DEF OpToRel
  <2>3. QED BY <1>1, <2>2
<1>2. \E x \in is : \A y \in is : x <= y
  BY <1>1
<1>3. \E x \in is : \A y \in is : y <= x
  <2> DEFINE T == {n - i : i \in is}
  <2>1. T \in SUBSET Nat /\ T # {}
    <3>1. \A i \in is : n - i \in Nat
      OBVIOUS
    <3>2. QED BY <3>1
  <2>2. PICK x \in T : \A y \in T : x <= y
    BY <1>1, <2>1
  <2>3. PICK i \in is : x = n - i
    BY <2>2
  <2>4. \A j \in is : n - i <= n - j
    BY <2>2, <2>3
  <2>5. QED BY <2>4
<1>4. QED BY <1>2, <1>3 DEF First, Last

-----------------------------------------------------------------------------
(* Where the elements of a queue are after a step.                         *)
LEMMA TailOf ==
  ASSUME NEW S, NEW q \in Seq(S), q # <<>>
  PROVE  /\ Tail(q) \in Seq(S) /\ Len(Tail(q)) = Len(q) - 1
         /\ 1 \in DOMAIN q /\ Head(q) = q[1] /\ Head(q) \in S
         /\ \A i \in DOMAIN Tail(q) : /\ i \in Nat /\ i + 1 \in DOMAIN q
                                      /\ Tail(q)[i] = q[i + 1] /\ i + 1 # 1
         /\ \A i \in DOMAIN q : i \in Nat /\ (i # 1 => i - 1 \in DOMAIN Tail(q))
<1>1. DOMAIN q = 1 .. Len(q) /\ Len(q) \in Nat /\ Len(q) # 0
  BY EmptySeq, LenProperties
<1>2. /\ Head(q) \in S /\ Tail(q) \in Seq(S) /\ Len(Tail(q)) = Len(q) - 1
      /\ \A i \in 1 .. Len(Tail(q)) : Tail(q)[i] = q[i + 1]
  BY HeadTailProperties
<1>3. DOMAIN Tail(q) = 1 .. (Len(q) - 1)
  BY <1>2, LenProperties
<1>4. QED BY <1>1, <1>2, <1>3

LEMMA AppendOf ==
  ASSUME NEW S, NEW q \in Seq(S), NEW e \in S
  PROVE  /\ Append(q, e) \in Seq(S) /\ Len(Append(q, e)) = Len(q) + 1
         /\ Len(q) + 1 \in DOMAIN Append(q, e) /\ Append(q, e)[Len(q) + 1] = e
         /\ \A i \in DOMAIN Append(q, e) :
              i # Len(q) + 1 => i \in DOMAIN q /\ Append(q, e)[i] = q[i]
         /\ \A i \in DOMAIN q : i # Len(q) + 1 /\ i \in DOMAIN Append(q, e)
<1>1. DOMAIN q = 1 .. Len(q) /\ Len(q) \in Nat
  BY LenProperties
<1>2. /\ Append(q, e) \in Seq(S) /\ Len(Append(q, e)) = Len(q) + 1
      /\ \A i \in 1 .. Len(q) : Append(q, e)[i] = q[i]
      /\ Append(q, e)[Len(q) + 1] = e
  BY AppendProperties
<1>3. DOMAIN Append(q, e) = 1 .. (Len(q) + 1)
  BY <1>2, LenProperties
<1>4. QED BY <1>1, <1>2, <1>3

LEMMA ConcatOf ==
  ASSUME NEW S, NEW q \in Seq(S), NEW r \in Seq(S)
  PROVE  /\ q \o r \in Seq(S)
         /\ \A i \in DOMAIN (q \o r) : \/ i \in DOMAIN q /\ (q \o r)[i] = q[i]
                                       \/ \E j \in DOMAIN r : (q \o r)[i] = r[j]
<1>1. /\ DOMAIN q = 1 .. Len(q) /\ Len(q) \in Nat
      /\ DOMAIN r = 1 .. Len(r) /\ Len(r) \in Nat
  BY LenProperties
<1>2. /\ q \o r \in Seq(S) /\ Len(q \o r) = Len(q) + Len(r)
      /\ \A i \in 1 .. Len(q) + Len(r) :
           (q \o r)[i] = IF i <= Len(q) THEN q[i] ELSE r[i - Len(q)]
  BY ConcatProperties
<1>3. DOMAIN (q \o r) = 1 .. (Len(q) + Len(r))
  BY <1>1, <1>2, LenProperties
<1>4. QED BY <1>1, <1>2, <1>3

-----------------------------------------------------------------------------
(* The steps, sorted by what they do.                                      *)

(* The end of a wait, for everything but the driver's own state. *)
WaitOver ==
  /\ pc \in Waits /\ UNCHANGED <<setup, hc>>
  /\ faults' \in 0 .. setup.faults
  /\ lost' \in BOOLEAN /\ (lost => lost')
  /\ \/ evq' = evq /\ (lost' \/ pc = "control")
     \/ /\ evq # <<>> /\ evq' = Tail(evq)
        /\ Head(evq).type = IF pc = "control" THEN "transfer" ELSE "command"

(* One more request, with the device table as it is. *)
Asks(r) ==
  /\ pc = "control" /\ r \in Requests
  /\ Request(r) /\ UNCHANGED g_devs
  /\ r = "SET_PROTOCOL" => g_devs[slot].hid # NoInterface
  /\ r \in OutRequests => req \in OutRequests

Parses == pc = "control" /\ Request("SET_CONFIG") /\ ParseConfig

Configures == pc = "control" /\ req \in OutRequests /\ g_devs[slot].intr # 0 /\ ConfigureEndpoint

TakesSlot ==
  /\ pc = "enable" /\ evq # <<>> /\ Head(evq).type = "command"
  /\ Head(evq).slot # 0 /\ Head(evq).cc = 1
  /\ AddressDevice(Head(evq).slot)

EntersDevice == pc = "address" /\ evq # <<>> /\ evq' = Tail(evq) /\ Head(evq).cc = 1 /\ DeviceAddressed

Polls ==
  pc = "configure" /\ NextPort /\ StartPolling(slot) /\ UNCHANGED <<memory, buf, cmdq, ep0q>>

Continues ==
  \/ GiveUp \/ TakesSlot \/ EntersDevice \/ Polls
  \/ (\E r \in Requests : Asks(r)) \/ Parses \/ Configures

LEMMA RequestContinues ==
  ASSUME NEW ok \in BOOLEAN, pc = "control", AfterRequest(ok)
  PROVE  GiveUp \/ (\E r \in Requests : Asks(r)) \/ Parses \/ Configures
<1>. USE DEF Asks, Requests, InRequests, OutRequests
<1>1. CASE req = "GET_DEVICE" /\ Request("GET_CONFIG9") /\ UNCHANGED g_devs
  BY <1>1
<1>2. CASE req = "GET_CONFIG9" /\ Request("GET_CONFIG") /\ UNCHANGED g_devs
  BY <1>2
<1>3. CASE Request("SET_CONFIG") /\ ParseConfig
  BY <1>3 DEF Parses
<1>4. CASE req = "SET_CONFIG" /\ g_devs[slot].hid # NoInterface
           /\ Request("SET_PROTOCOL") /\ UNCHANGED g_devs
  BY <1>4
<1>5. CASE req = "SET_PROTOCOL" /\ Request("SET_IDLE") /\ UNCHANGED g_devs
  BY <1>5
<1>6. CASE req = "SET_IDLE" /\ ConfigureEndpoint
  BY <1>6 DEF Configures, ConfigureEndpoint
<1>7. QED BY <1>1, <1>2, <1>3, <1>4, <1>5, <1>6 DEF AfterRequest

LEMMA FaultBound ==
  ASSUME setup.faults \in Nat, faults \in 0 .. setup.faults, NoFault \/ Fault
  PROVE  faults' \in 0 .. setup.faults
BY DEF NoFault, Fault

LEMMA WaitEnds ==
  ASSUME TypeOK, CommandCompletes \/ TransferCompletes \/ WaitTimesOut
  PROVE  WaitOver /\ Continues
<1>0. setup.faults \in Nat /\ faults \in 0 .. setup.faults /\ lost \in BOOLEAN
  BY Machine DEF TypeOK
<1>1. CASE CommandCompletes
  <2>1. WaitOver
    BY <1>0, <1>1 DEF CommandCompletes, WaitOver, PollEvent, Waits, CommandWaits
  <2>2. Continues
    BY <1>1 DEF CommandCompletes, Continues, TakesSlot, EntersDevice, Polls, PollEvent
  <2>3. QED BY <2>1, <2>2
<1>2. CASE TransferCompletes
  <2>1. WaitOver
    BY <1>0, <1>2 DEF TransferCompletes, WaitOver, PollEvent, Waits
  <2>2. Continues
    BY <1>2, RequestContinues DEF TransferCompletes, Continues
  <2>3. QED BY <2>1, <2>2
<1>3. CASE WaitTimesOut
  <2>1. WaitOver
    BY <1>0, <1>3, FaultBound DEF WaitTimesOut, WaitOver, Waits, CommandWaits
  <2>2. Continues
    BY <1>3, RequestContinues DEF WaitTimesOut, Continues
  <2>3. QED BY <2>1, <2>2
<1>4. QED BY <1>1, <1>2, <1>3

(* The controller answers a command, and what it did before. *)
Answer(e) ==
  /\ cmdq # <<>> /\ cmdq' = Tail(cmdq)
  /\ e \in Event /\ e.type = "command" /\ Post(e)
  /\ faults' \in 0 .. setup.faults
  /\ UNCHANGED <<setup, program, memory, buf, lost, ep0q, intrq, halted, booting, report, earlier>>

Grants(e) ==
  /\ Head(cmdq).op = "enable" /\ e.slot \in Slots \ enabled
  /\ enabled' = enabled \union {e.slot} /\ UNCHANGED <<hcPort, hcIntr>>

Refuses(e) ==
  /\ IF Head(cmdq).op = "enable" THEN e.slot = 0 ELSE e.cc = 6
  /\ UNCHANGED <<enabled, hcPort, hcIntr>>

Addresses ==
  /\ Head(cmdq).op = "address" /\ Head(cmdq).slot \in enabled /\ hcPort[Head(cmdq).slot] = 0
  /\ hcPort' = [hcPort EXCEPT ![Head(cmdq).slot] = Head(cmdq).port]
  /\ UNCHANGED <<enabled, hcIntr>>

Wires ==
  /\ Head(cmdq).op = "configure" /\ hcPort[Head(cmdq).slot] # 0
  /\ hcIntr' = [hcIntr EXCEPT ![Head(cmdq).slot] = Head(cmdq).port]
  /\ UNCHANGED <<enabled, hcPort>>

LEMMA CommandIsAnswered ==
  ASSUME TypeOK, HcCommand
  PROVE  \E e \in Event : Answer(e) /\ (Grants(e) \/ Refuses(e) \/ Addresses \/ Wires)
<1>0. setup.faults \in Nat /\ faults \in 0 .. setup.faults
  BY Machine DEF TypeOK
<1>. DEFINE c == Head(cmdq)
<1>1. /\ cmdq # <<>> /\ cmdq' = Tail(cmdq) /\ faults' \in 0 .. setup.faults
      /\ UNCHANGED <<setup, program, memory, buf, lost, ep0q, intrq, halted, booting, report, earlier>>
  BY <1>0, FaultBound DEF HcCommand
<1>2. c \in Command /\ c.op \in {"enable", "address", "configure"} /\ c.slot \in Slots \union {0}
  <2>1. c \in Command
    BY <1>1, TailOf DEF TypeOK
  <2>2. QED BY <2>1, Fields
<1>3. ASSUME NEW s \in Slots \union {0}, NEW cc \in {1, 6}
      PROVE  /\ Completion(s, cc) \in Event /\ Completion(s, cc).type = "command"
             /\ Completion(s, cc).slot = s /\ Completion(s, cc).cc = cc
  BY <1>3 DEF Completion, Event
<1>4. ASSUME NEW s \in Slots \union {0}, NEW cc \in {1, 6}, Post(Completion(s, cc)),
             LET e == Completion(s, cc) IN Grants(e) \/ Refuses(e) \/ Addresses \/ Wires
      PROVE  \E e \in Event : Answer(e) /\ (Grants(e) \/ Refuses(e) \/ Addresses \/ Wires)
  BY <1>1, <1>3, <1>4 DEF Answer
<1>5. CASE \E s \in Slots \ enabled : /\ c.op = "enable" /\ enabled' = enabled \union {s}
                                      /\ Post(Completion(s, 1)) /\ UNCHANGED <<hcPort, hcIntr>>
  <2>1. PICK s \in Slots \ enabled : /\ c.op = "enable" /\ enabled' = enabled \union {s}
                                     /\ Post(Completion(s, 1)) /\ UNCHANGED <<hcPort, hcIntr>>
    BY <1>5
  <2>2. Grants(Completion(s, 1))
    BY <1>3, <2>1 DEF Grants
  <2>3. QED BY <1>4, <2>1, <2>2
<1>6. CASE c.op = "enable" /\ Post(Completion(0, 6)) /\ UNCHANGED <<enabled, hcPort, hcIntr>>
  <2>1. Refuses(Completion(0, 6))
    BY <1>3, <1>6 DEF Refuses
  <2>2. QED BY <1>4, <1>6, <2>1
<1>7. CASE /\ c.op = "address" /\ c.slot \in enabled /\ hcPort[c.slot] = 0
           /\ hcPort' = [hcPort EXCEPT ![c.slot] = c.port]
           /\ Post(Completion(c.slot, 1)) /\ UNCHANGED <<enabled, hcIntr>>
  <2>1. Addresses
    BY <1>7 DEF Addresses
  <2>2. QED BY <1>2, <1>4, <1>7, <2>1
<1>8. CASE c.op # "enable" /\ Post(Completion(c.slot, 6)) /\ UNCHANGED <<enabled, hcPort, hcIntr>>
  <2>1. Refuses(Completion(c.slot, 6))
    BY <1>2, <1>3, <1>8 DEF Refuses
  <2>2. QED BY <1>2, <1>4, <1>8, <2>1
<1>9. CASE /\ c.op = "configure" /\ hcPort[c.slot] # 0
           /\ hcIntr' = [hcIntr EXCEPT ![c.slot] = c.port]
           /\ Post(Completion(c.slot, 1)) /\ UNCHANGED <<enabled, hcPort>>
  <2>1. Wires
    BY <1>9 DEF Wires
  <2>2. QED BY <1>2, <1>4, <1>9, <2>1
<1>10. QED BY <1>5, <1>6, <1>7, <1>8, <1>9 DEF HcCommand

-----------------------------------------------------------------------------
(* Type correctness, the driver's half and the rest.                       *)
DriverTyped ==
  /\ pc \in {"port", "controller", "poll"} \union Waits
  /\ port \in Ports /\ slot \in Slots \union {0} /\ req \in Requests
  /\ g_devs \in [Slots -> Device]
  /\ dcbaa \in [Slots -> Ports \union {0}]
  /\ buf \in [Ports -> {"zero", "config9", "config"}]
  /\ cmdq \in Seq(Command)
  /\ ep0q \in [Ports -> Seq(Stage)]
  /\ intrq \in [Ports -> Seq(Slots)]
  /\ SlotKnown /\ ProtocolForHid

RestTyped ==
  /\ setup \in Setups
  /\ lost \in BOOLEAN /\ faults \in 0 .. setup.faults
  /\ enabled \subseteq Slots
  /\ hcPort \in [Slots -> Ports \union {0}]
  /\ hcIntr \in [Slots -> Ports \union {0}]
  /\ halted \subseteq Ports
  /\ booting \in [Ports -> SUBSET (0 .. (NoInterface - 1))]
  /\ report \in [Slots -> Ports \union {0}]
  /\ earlierEp0 \subseteq Ports /\ earlierIntr \subseteq Ports
  /\ evq \in Seq(Event) /\ Len(evq) <= setup.events

LEMMA Halves ==
  /\ TypeInv <=> DriverTyped /\ RestTyped
  /\ TypeInv' <=> DriverTyped' /\ RestTyped'
BY DEF TypeInv, TypeOK, DriverTyped, RestTyped

(* The TRBs of a request. *)
LEMMA StagesTyped ==
  ASSUME NEW r \in Requests, NEW x \in 0 .. NoInterface
  PROVE  LET trbs == [i \in DOMAIN Stages(r) |-> [req |-> r, stage |-> Stages(r)[i], index |-> x]]
         IN  /\ trbs \in Seq(Stage)
             /\ \A i \in DOMAIN trbs : trbs[i].req = r /\ trbs[i].index = x
<1>. DEFINE trbs == [i \in DOMAIN Stages(r) |-> [req |-> r, stage |-> Stages(r)[i], index |-> x]]
<1>1. Stages(r) \in Seq({"setup", "data", "status"})
  <2>1. <<"setup", "data", "status">> \in Seq({"setup", "data", "status"})
    OBVIOUS
  <2>2. <<"setup", "status">> \in Seq({"setup", "data", "status"})
    OBVIOUS
  <2>3. QED BY <2>1, <2>2, Zenon DEF Stages
<1>2. PICK n \in Nat : DOMAIN Stages(r) = 1 .. n
  BY <1>1, LenProperties
<1>3. \A i \in 1 .. n : [req |-> r, stage |-> Stages(r)[i], index |-> x] \in Stage
  <2>1. \A i \in 1 .. n : Stages(r)[i] \in {"setup", "data", "status"}
    BY <1>1, <1>2, LenProperties
  <2>2. QED BY <2>1 DEF Stage
<1>4. trbs \in [1 .. n -> Stage]
  BY <1>2, <1>3
<1>5. trbs \in Seq(Stage)
  BY <1>4
<1>6. \A i \in DOMAIN trbs : trbs[i].req = r /\ trbs[i].index = x
  OBVIOUS
<1>7. QED BY <1>5, <1>6

LEMMA RequestTyped ==
  ASSUME DriverTyped, UNCHANGED setup, slot # 0, NEW r \in Requests, Request(r),
         g_devs' \in [Slots -> Device],
         r = "SET_PROTOCOL" => g_devs[slot].hid # NoInterface
  PROVE  DriverTyped'
<1>. DEFINE trbs == [i \in DOMAIN Stages(r) |->
                      [req |-> r, stage |-> Stages(r)[i], index |-> Index(r)]]
<1>0. slot \in Slots /\ port \in Ports
  BY DEF DriverTyped
<1>1. Index(r) \in 0 .. NoInterface /\ (r = "SET_PROTOCOL" => Index(r) # NoInterface)
  <2>1. g_devs[slot].hid \in 0 .. NoInterface
    BY <1>0, Fields DEF DriverTyped
  <2>2. 0 \in 0 .. NoInterface
    BY DEF NoInterface
  <2>3. QED BY <2>1, <2>2 DEF Index
<1>2. trbs \in Seq(Stage) /\ \A i \in DOMAIN trbs : trbs[i].req = r /\ trbs[i].index = Index(r)
  BY <1>1, StagesTyped
<1>3. ep0q' = [ep0q EXCEPT ![port] = @ \o trbs]
  BY DEF Request
<1>. HIDE DEF trbs
<1>4. /\ ep0q[port] \o trbs \in Seq(Stage)
      /\ \A i \in DOMAIN (ep0q[port] \o trbs) :
           \/ i \in DOMAIN ep0q[port] /\ (ep0q[port] \o trbs)[i] = ep0q[port][i]
           \/ \E j \in DOMAIN trbs : (ep0q[port] \o trbs)[i] = trbs[j]
  BY <1>0, <1>2, ConcatOf DEF DriverTyped
<1>5. ep0q' \in [Ports -> Seq(Stage)]
  BY <1>0, <1>3, <1>4 DEF DriverTyped
<1>6. ProtocolForHid'
  <2>1. SUFFICES ASSUME NEW p \in Ports, NEW i \in DOMAIN ep0q'[p],
                        ep0q'[p][i].req = "SET_PROTOCOL"
                 PROVE  ep0q'[p][i].index # NoInterface
    BY MachineStays DEF ProtocolForHid
  <2>2. CASE p = port
    <3>1. ep0q'[p] = ep0q[port] \o trbs
      BY <1>0, <1>3, <2>2 DEF DriverTyped
    <3>2. QED BY <1>0, <1>1, <1>2, <1>4, <2>1, <3>1 DEF DriverTyped, ProtocolForHid
  <2>3. CASE p # port
    <3>1. ep0q'[p] = ep0q[p]
      BY <1>3, <2>3 DEF DriverTyped
    <3>2. QED BY <2>1, <3>1 DEF DriverTyped, ProtocolForHid
  <2>4. QED BY <2>2, <2>3
<1>7. /\ pc' = "control" /\ req' \in Requests /\ UNCHANGED <<port, slot, dcbaa, cmdq, intrq>>
      /\ buf' \in [Ports -> {"zero", "config9", "config"}]
  BY DEF Request, DriverTyped
<1>8. QED BY <1>0, <1>5, <1>6, <1>7, MachineStays DEF DriverTyped, SlotKnown, Waits

(* What the descriptor loop finds. *)
LEMMA Parsed ==
  ASSUME setup \in Setups, port \in Ports, ParseConfig
  PROVE  \E h \in 0 .. NoInterface, n \in 0 .. 15 :
           /\ g_devs' = [g_devs EXCEPT ![slot].hid = h, ![slot].intr = n]
           /\ buf[port] # "config" => n = 0
<1>. DEFINE d == IF buf[port] = "config" THEN Interfaces(port) ELSE <<>>
           h == IF HidInterfaces(d) = {} THEN NoInterface ELSE Last(HidInterfaces(d)) - 1
           n == IF BootInterfaces(d) = {} THEN 0 ELSE d[First(BootInterfaces(d))].endpoint
<1>1. d \in Seq(Interface) /\ Len(d) \in 0 .. NoInterface
  <2>1. Interfaces(port) \in Seq(Interface) /\ Len(Interfaces(port)) \in 0 .. NoInterface
    BY Machine
  <2>2. <<>> \in Seq(Interface) /\ Len(<<>>) \in 0 .. NoInterface
    BY DEF NoInterface
  <2>3. QED BY <2>1, <2>2
<1>2. g_devs' = [g_devs EXCEPT ![slot].hid = h, ![slot].intr = n]
  BY DEF ParseConfig
<1>3. buf[port] # "config" => n = 0
  BY DEF BootInterfaces
<1>. HIDE DEF d
<1>4. DOMAIN d = 1 .. Len(d) /\ Len(d) \in Nat
  BY <1>1, LenProperties
<1>5. HidInterfaces(d) \subseteq 1 .. Len(d) /\ BootInterfaces(d) \subseteq 1 .. Len(d)
  BY <1>4 DEF HidInterfaces, BootInterfaces
<1>6. h \in 0 .. NoInterface
  <2>1. CASE HidInterfaces(d) # {}
    <3>1. Last(HidInterfaces(d)) \in 1 .. Len(d)
      BY <1>4, <1>5, <2>1, Extremes
    <3>2. \A l \in 0 .. NoInterface : \A m \in 1 .. l : m - 1 \in 0 .. NoInterface
      BY DEF NoInterface
    <3>3. QED BY <1>1, <2>1, <3>1, <3>2
  <2>2. QED BY <2>1 DEF NoInterface
<1>7. n \in 0 .. 15
  <2>1. CASE BootInterfaces(d) # {}
    <3>1. First(BootInterfaces(d)) \in 1 .. Len(d)
      BY <1>4, <1>5, <2>1, Extremes
    <3>2. d[First(BootInterfaces(d))] \in Interface
      BY <1>1, <3>1, ElementOfSeq
    <3>3. QED BY <2>1, <3>2 DEF Interface
  <2>2. QED BY <2>1
<1>8. QED BY <1>2, <1>3, <1>6, <1>7

(* To the next port, if there is one. *)
LEMMA NextPortTyped ==
  ASSUME setup \in Setups, port \in Ports, NextPort
  PROVE  /\ port' \in Ports /\ UNCHANGED <<slot, req>>
         /\ \/ pc' = "poll" /\ port' = port
            \/ /\ pc' \in {"port", "controller"} /\ port' = port + 1
               /\ pc' = "controller" => Controller(port + 1) # Controller(port)
               /\ pc' = "port" => Controller(port + 1) = Controller(port)
<1>1. Ports = 1 .. Len(setup.device) /\ Len(setup.device) \in Nat
  BY Machine
<1>2. QED BY <1>1 DEF NextPort

(* One more TRB, for whatever ring. *)
LEMMA MorePolling ==
  ASSUME intrq \in [Ports -> Seq(Slots)], NEW p, NEW s \in Slots
  PROVE  [intrq EXCEPT ![p] = Append(@, s)] \in [Ports -> Seq(Slots)]
<1>1. CASE p \in Ports
  <2>1. Append(intrq[p], s) \in Seq(Slots)
    BY <1>1, AppendOf
  <2>2. QED BY <1>1, <2>1
<1>2. CASE p \notin Ports
  BY <1>2
<1>3. QED BY <1>1, <1>2

LEMMA ContinuesTyped ==
  ASSUME TypeInv, UNCHANGED setup, Continues
  PROVE  DriverTyped'
<1>0. DriverTyped /\ setup \in Setups /\ port \in Ports /\ evq \in Seq(Event)
  BY Halves DEF DriverTyped, RestTyped
<1>. USE <1>0
<1>1. CASE GiveUp
  BY <1>1, NextPortTyped, MachineStays
  DEF GiveUp, DriverTyped, SlotKnown, Addressing, ProtocolForHid, Waits, memory
<1>2. CASE TakesSlot
  <2>1. Head(evq) \in Event
    BY <1>2, TailOf DEF TakesSlot
  <2>2. PICK s \in Slots : AddressDevice(s)
    BY <1>2, <2>1, Fields DEF TakesSlot
  <2>3. [op |-> "address", slot |-> s, port |-> port] \in Command
    BY DEF Command
  <2>4. cmdq' \in Seq(Command)
    BY <2>2, <2>3, AppendOf DEF AddressDevice, PushCommand, DriverTyped
  <2>5. dcbaa' \in [Slots -> Ports \union {0}]
    BY <2>2 DEF AddressDevice, DriverTyped
  <2>6. s # 0
    BY Machine
  <2>7. QED BY <2>2, <2>4, <2>5, <2>6, MachineStays
    DEF AddressDevice, DriverTyped, SlotKnown, Addressing, ProtocolForHid, Waits, CommandWaits
<1>3. CASE EntersDevice
  <2>1. slot # 0 /\ slot \in Slots
    BY <1>3 DEF EntersDevice, DriverTyped, SlotKnown, Addressing
  <2>2. [NoDevice EXCEPT !.port = port] \in Device
    BY DEF NoDevice, Device, NoInterface
  <2>3. g_devs' \in [Slots -> Device]
    BY <1>3, <2>1, <2>2 DEF EntersDevice, DeviceAddressed, DriverTyped
  <2>4. QED BY <1>3, <2>1, <2>3, RequestTyped
    DEF EntersDevice, DeviceAddressed, Requests, InRequests
<1>4. CASE Polls
  <2>1. intrq' \in [Ports -> Seq(Slots)]
    BY <1>4, MorePolling DEF Polls, StartPolling, DriverTyped, SlotKnown, Addressing
  <2>2. QED BY <1>4, <2>1, NextPortTyped, MachineStays
    DEF Polls, DriverTyped, SlotKnown, Addressing, ProtocolForHid, Waits, memory
<1>5. ASSUME NEW r \in Requests, Asks(r) PROVE DriverTyped'
  BY <1>5, RequestTyped DEF Asks, DriverTyped, SlotKnown, Addressing
<1>6. CASE Parses
  <2>1. slot # 0 /\ slot \in Slots
    BY <1>6 DEF Parses, DriverTyped, SlotKnown, Addressing
  <2>2. PICK h \in 0 .. NoInterface, n \in 0 .. 15 :
          g_devs' = [g_devs EXCEPT ![slot].hid = h, ![slot].intr = n]
    BY <1>6, Parsed DEF Parses
  <2>3. \A d \in Device : [d EXCEPT !.hid = h, !.intr = n] \in Device
    BY DEF Device
  <2>4. g_devs \in [Slots -> Device]
    BY DEF DriverTyped
  <2>5. g_devs' \in [Slots -> Device]
    <3>1. g_devs' = [g_devs EXCEPT ![slot] = [g_devs[slot] EXCEPT !.hid = h, !.intr = n]]
      BY <2>1, <2>2, <2>4
    <3>2. [g_devs[slot] EXCEPT !.hid = h, !.intr = n] \in Device
      BY <2>1, <2>3, <2>4, Zenon
    <3>3. QED BY <2>1, <2>4, <3>1, <3>2
  <2>6. QED BY <1>6, <2>1, <2>5, RequestTyped DEF Parses, Requests, OutRequests
<1>7. CASE Configures
  <2>1. slot # 0 /\ slot \in Slots
    BY <1>7 DEF Configures, DriverTyped, SlotKnown, Addressing
  <2>2. \A d \in Device : [d EXCEPT !.ring = port] \in Device
    BY DEF Device
  <2>3. g_devs' \in [Slots -> Device]
    <3>1. g_devs' = [g_devs EXCEPT ![slot].ring = port]
      BY <1>7 DEF Configures, ConfigureEndpoint
    <3>2. g_devs \in [Slots -> Device] /\ [g_devs[slot] EXCEPT !.ring = port] \in Device
      BY <2>1, <2>2 DEF DriverTyped
    <3>3. QED BY <2>1, <3>1, <3>2
  <2>4. [op |-> "configure", slot |-> slot, port |-> port] \in Command
    BY <2>1 DEF Command
  <2>5. cmdq' \in Seq(Command)
    <3>1. cmdq' = Append(cmdq, [op |-> "configure", slot |-> slot, port |-> port])
      BY <1>7 DEF Configures, ConfigureEndpoint, PushCommand
    <3>2. cmdq \in Seq(Command)
      BY DEF DriverTyped
    <3>3. QED BY <2>4, <3>1, <3>2, AppendOf
  <2>6. /\ pc' = "configure" /\ UNCHANGED <<port, slot, req, dcbaa, buf, ep0q, intrq>>
        /\ \A s \in Slots : g_devs'[s].hid = g_devs[s].hid
    <3>1. pc' = "configure" /\ UNCHANGED <<port, slot, req, dcbaa, buf, ep0q, intrq>>
      BY <1>7 DEF Configures, ConfigureEndpoint
    <3>2. g_devs' = [g_devs EXCEPT ![slot].ring = port]
      BY <1>7 DEF Configures, ConfigureEndpoint
    <3>3. QED BY <2>1, <3>1, <3>2 DEF DriverTyped, Device
  <2>7. Ports' = Ports /\ Slots' = Slots /\ Command' = Command /\ Device' = Device
    BY MachineStays
  <2>8. (SlotKnown /\ ProtocolForHid)'
    BY <2>1, <2>3, <2>6, <2>7 DEF DriverTyped, SlotKnown, Addressing, ProtocolForHid
  <2>9. QED BY <2>3, <2>5, <2>6, <2>7, <2>8 DEF DriverTyped, Waits, CommandWaits
<1>8. QED BY <1>1, <1>2, <1>3, <1>4, <1>5, <1>6, <1>7 DEF Continues

(* An event more, if there is room, or one less. *)
LEMMA PostTyped ==
  ASSUME setup \in Setups, UNCHANGED setup, evq \in Seq(Event), NEW e \in Event, Post(e)
  PROVE  evq' \in Seq(Event) /\ Len(evq') <= setup'.events
<1>1. Len(evq) \in Nat /\ setup.events \in Nat
  BY LenProperties, Machine
<1>2. evq' \in Seq(Event) /\ Len(evq') = Len(evq) + 1 /\ Len(evq) < setup.events
  BY AppendOf DEF Post
<1>3. QED BY <1>1, <1>2

LEMMA TakeTyped ==
  ASSUME setup \in Setups, UNCHANGED setup, evq \in Seq(Event), Len(evq) <= setup.events,
         evq # <<>>, evq' = Tail(evq)
  PROVE  evq' \in Seq(Event) /\ Len(evq') <= setup'.events
<1>1. Len(evq) \in Nat /\ setup.events \in Nat
  BY LenProperties, Machine
<1>2. evq' \in Seq(Event) /\ Len(evq') = Len(evq) - 1
  BY TailOf
<1>3. QED BY <1>1, <1>2

LEMMA FirstEventsTyped ==
  ASSUME setup \in Setups, NEW q \in FirstEvents
  PROVE  q \in Seq(Event) /\ Len(q) <= setup.events
<1>1. setup.events \in Nat \ {0}
  BY SetupsAssumption
<1>2. [type |-> "port", slot |-> 0, ep |-> 0, cc |-> 1] \in Event
  BY DEF Event
<1>3. <<>> \in Seq(Event) /\ Len(<<>>) = 0
  OBVIOUS
<1>4. \A e \in Event : <<e>> \in Seq(Event) /\ Len(<<e>>) = 1
  OBVIOUS
<1>5. CASE q = <<>>
  BY <1>1, <1>3, <1>5
<1>6. CASE q = <<[type |-> "port", slot |-> 0, ep |-> 0, cc |-> 1]>>
  BY <1>1, <1>2, <1>4, <1>6
<1>7. QED BY <1>5, <1>6 DEF FirstEvents

LEMMA TypeInit == Init => TypeInv
<1>. SUFFICES ASSUME Init PROVE TypeInv
  OBVIOUS
<1>1. setup \in Setups
  BY DEF Init
<1>2. 1 \in Ports /\ setup.faults \in Nat
  BY <1>1, Machine
<1>3. NoDevice \in Device
  BY DEF NoDevice, Device, NoInterface
<1>4. <<>> \in Seq(Command) /\ <<>> \in Seq(Stage) /\ DOMAIN <<>> = {}
  OBVIOUS
<1>5. DriverTyped
  <2>1. \A p \in Ports : ep0q[p] = <<>>
    BY DEF Init
  <2>2. SlotKnown /\ ProtocolForHid
    BY <1>4, <2>1 DEF Init, SlotKnown, Addressing, ProtocolForHid
  <2>3. g_devs \in [Slots -> Device] /\ dcbaa \in [Slots -> Ports \union {0}]
    BY <1>3 DEF Init
  <2>4. buf \in [Ports -> {"zero", "config9", "config"}] /\ intrq \in [Ports -> Seq(Slots)]
    BY DEF Init
  <2>5. cmdq \in Seq(Command) /\ ep0q \in [Ports -> Seq(Stage)]
    BY <1>4 DEF Init
  <2>6. QED BY <1>2, <2>2, <2>3, <2>4, <2>5 DEF Init, DriverTyped, Requests, InRequests
<1>6. RestTyped
  <2>1. evq \in Seq(Event) /\ Len(evq) <= setup.events
    BY <1>1, FirstEventsTyped DEF Init
  <2>2. hcPort \in [Slots -> Ports \union {0}] /\ hcIntr \in [Slots -> Ports \union {0}]
    BY DEF Init
  <2>3. booting \in [Ports -> SUBSET (0 .. (NoInterface - 1))]
    BY DEF Init
  <2>4. 0 \in 0 .. setup.faults
    BY <1>2
  <2>5. report \in [Slots -> Ports \union {0}] /\ earlierEp0 = {} /\ earlierIntr = {}
    BY DEF Init
  <2>6. QED BY <1>1, <2>1, <2>2, <2>3, <2>4, <2>5 DEF Init, RestTyped
<1>7. QED BY <1>5, <1>6, Halves

LEMMA TypeStep == TypeInv /\ [Next]_vars => TypeInv'
<1>. SUFFICES ASSUME TypeInv, [Next]_vars PROVE TypeInv'
  OBVIOUS
<1>0. DriverTyped /\ RestTyped /\ setup \in Setups /\ evq \in Seq(Event)
      /\ Len(evq) <= setup.events /\ setup.faults \in Nat /\ faults \in 0 .. setup.faults
      /\ TypeOK
  BY Halves, Machine DEF RestTyped, TypeInv
<1>1. CASE CommandCompletes \/ TransferCompletes \/ WaitTimesOut
  <2>1. WaitOver /\ Continues
    BY <1>0, <1>1, WaitEnds
  <2>2. DriverTyped'
    BY <2>1, ContinuesTyped DEF WaitOver
  <2>3. evq' \in Seq(Event) /\ Len(evq') <= setup'.events
    BY <1>0, <2>1, TakeTyped DEF WaitOver
  <2>4. RestTyped'
    BY <1>0, <2>1, <2>3, MachineStays DEF WaitOver, RestTyped, hc, earlier
  <2>5. QED BY <2>2, <2>4, Halves
<1>2. CASE InitNextController
  <2>1. DriverTyped'
    BY <1>0, <1>2, MachineStays
    DEF InitNextController, DriverTyped, SlotKnown, Addressing, ProtocolForHid
  <2>2. RestTyped'
    <3>1. earlierEp0' \subseteq Ports /\ earlierIntr' \subseteq Ports
      BY <1>0, <1>2 DEF InitNextController, RestTyped
    <3>2. QED BY <1>0, <1>2, <3>1, MachineStays, FirstEventsTyped DEF InitNextController, RestTyped
  <2>3. QED BY <2>1, <2>2, Halves
<1>3. CASE EnableSlot
  <2>1. [op |-> "enable", slot |-> 0, port |-> port] \in Command
    BY <1>0 DEF Command, DriverTyped
  <2>2. cmdq' \in Seq(Command)
    BY <1>0, <1>3, <2>1, AppendOf DEF EnableSlot, PushCommand, DriverTyped
  <2>3. DriverTyped'
    BY <1>0, <1>3, <2>2, MachineStays
    DEF EnableSlot, DriverTyped, SlotKnown, Addressing, ProtocolForHid, Waits, CommandWaits, memory
  <2>4. RestTyped'
    BY <1>0, <1>3, MachineStays DEF EnableSlot, RestTyped, hc, earlier
  <2>5. QED BY <2>3, <2>4, Halves
<1>4. CASE DropEvent
  <2>1. evq' \in Seq(Event) /\ Len(evq') <= setup'.events
    BY <1>0, <1>4, TakeTyped DEF DropEvent, PollEvent
  <2>2. DriverTyped'
    BY <1>0, <1>4, MachineStays
    DEF DropEvent, DriverTyped, SlotKnown, Addressing, ProtocolForHid, memory, program
  <2>3. RestTyped'
    BY <1>0, <1>4, <2>1, MachineStays DEF DropEvent, RestTyped, hc, earlier
  <2>4. QED BY <2>2, <2>3, Halves
<1>5. CASE PollEvents
  <2>1. evq' \in Seq(Event) /\ Len(evq') <= setup'.events
    <3>1. evq # <<>> /\ evq' = Tail(evq) /\ UNCHANGED setup
      BY <1>5 DEF PollEvents, PollEvent
    <3>2. QED BY <1>0, <3>1, TakeTyped
  <2>2. intrq' \in [Ports -> Seq(Slots)]
    <3>. DEFINE s == Head(evq).slot
    <3>1. intrq \in [Ports -> Seq(Slots)]
      BY <1>0 DEF DriverTyped
    <3>2. \/ intrq' = intrq
          \/ /\ IsReport(Head(evq))
             /\ intrq' = [intrq EXCEPT ![g_devs[s].ring] = Append(@, s)]
      BY <1>5 DEF PollEvents, StartPolling
    <3>3. IsReport(Head(evq)) => s \in Slots
      BY <1>0, <1>5, TailOf, Fields DEF PollEvents, PollEvent, IsReport
    <3>4. CASE intrq' = intrq
      BY <3>1, <3>4
    <3>5. CASE IsReport(Head(evq)) /\ intrq' = [intrq EXCEPT ![g_devs[s].ring] = Append(@, s)]
      <4>. DEFINE r == g_devs[s].ring
      <4>1. s \in Slots
        BY <3>3, <3>5
      <4>. HIDE DEF s, r
      <4>2. [intrq EXCEPT ![r] = Append(@, s)] \in [Ports -> Seq(Slots)]
        BY <3>1, <4>1, MorePolling
      <4>3. QED BY <3>5, <4>2 DEF r
    <3>6. QED BY <3>2, <3>4, <3>5, Zenon
  <2>3. DriverTyped'
    BY <1>0, <1>5, <2>2, MachineStays
    DEF PollEvents, DriverTyped, SlotKnown, Addressing, ProtocolForHid, memory, program
  <2>4. RestTyped'
    BY <1>0, <1>5, <2>1, MachineStays DEF PollEvents, RestTyped, hc, earlier
  <2>5. QED BY <2>3, <2>4, Halves
<1>6. CASE HcCommand
  <2>1. PICK e \in Event : Answer(e) /\ (Grants(e) \/ Refuses(e) \/ Addresses \/ Wires)
    BY <1>0, <1>6, CommandIsAnswered
  <2>2. evq' \in Seq(Event) /\ Len(evq') <= setup'.events
    BY <1>0, <2>1, PostTyped DEF Answer
  <2>3. cmdq' \in Seq(Command) /\ Head(cmdq) \in Command
    BY <1>0, <2>1, TailOf DEF Answer, DriverTyped
  <2>4. DriverTyped'
    BY <1>0, <2>1, <2>3, MachineStays
    DEF Answer, DriverTyped, SlotKnown, Addressing, ProtocolForHid, memory, program
  <2>5. Head(cmdq).port \in Ports
    BY <2>3, Fields
  <2>6. /\ enabled' \subseteq Slots
        /\ hcPort' \in [Slots -> Ports \union {0}]
        /\ hcIntr' \in [Slots -> Ports \union {0}]
    BY <1>0, <2>1, <2>5 DEF Grants, Refuses, Addresses, Wires, RestTyped
  <2>7. RestTyped'
    BY <1>0, <2>1, <2>2, <2>6, MachineStays DEF Answer, RestTyped, earlier
  <2>8. QED BY <2>4, <2>7, Halves
<1>7. ASSUME NEW p \in Ports, NEW cc \in {1, 6}, ControlStage(p, cc),
             evq' \in Seq(Event) /\ Len(evq') <= setup'.events
      PROVE  TypeInv'
  <2>0. ep0q[p] # <<>> /\ ep0q[p] \in Seq(Stage)
    BY <1>0, <1>7 DEF ControlStage, DriverTyped
  <2>1. /\ Tail(ep0q[p]) \in Seq(Stage) /\ Head(ep0q[p]) \in Stage
        /\ 1 \in DOMAIN ep0q[p] /\ Head(ep0q[p]) = ep0q[p][1]
        /\ \A i \in DOMAIN Tail(ep0q[p]) : i + 1 \in DOMAIN ep0q[p]
                                          /\ Tail(ep0q[p])[i] = ep0q[p][i + 1]
    BY <2>0, TailOf
  <2>2. ep0q' = [ep0q EXCEPT ![p] = Tail(@)]
    BY <1>7 DEF ControlStage
  <2>5. UNCHANGED <<setup, program, memory, lost, cmdq, intrq, enabled, hcPort, hcIntr, report, earlier>>
    BY <1>7 DEF ControlStage
  <2>7. faults' \in 0 .. setup.faults
    BY <1>0, <1>7, FaultBound DEF ControlStage
  <2>8. buf' \in [Ports -> {"zero", "config9", "config"}]
    BY <1>0, <1>7, <2>0 DEF ControlStage, DriverTyped
  <2>9. halted' \subseteq Ports
    BY <1>0, <1>7, <2>0 DEF ControlStage, RestTyped
  <2>10. booting' \in [Ports -> SUBSET (0 .. (NoInterface - 1))]
    <3>1. CASE UNCHANGED booting
      BY <1>0, <3>1 DEF RestTyped
    <3>2. CASE /\ Head(ep0q[p]).req = "SET_PROTOCOL"
               /\ booting' = [booting EXCEPT ![p] = @ \union {Head(ep0q[p]).index}]
      <4>1. Head(ep0q[p]).index # NoInterface
        BY <1>0, <2>0, <2>1, <3>2, SMTT(30) DEF DriverTyped, ProtocolForHid
      <4>2. Head(ep0q[p]).index \in 0 .. NoInterface
        BY <2>1 DEF Stage
      <4>3. Head(ep0q[p]).index \in 0 .. (NoInterface - 1)
        BY <4>1, <4>2 DEF NoInterface
      <4>4. QED BY <1>0, <2>0, <3>2, <4>3 DEF RestTyped
    <3>3. QED BY <1>7, <3>1, <3>2 DEF ControlStage
  <2>11. ep0q' \in [Ports -> Seq(Stage)]
    BY <1>0, <2>0, <2>1, <2>2 DEF DriverTyped
  <2>12. ProtocolForHid'
    <3>1. \A q \in Ports : ep0q'[q] = IF q = p THEN Tail(ep0q[p]) ELSE ep0q[q]
      BY <1>0, <2>2 DEF DriverTyped
    <3>2. \A q \in Ports : \A i \in DOMAIN ep0q'[q] : \E j \in DOMAIN ep0q[q] : ep0q'[q][i] = ep0q[q][j]
      <4>1. \A i \in DOMAIN Tail(ep0q[p]) : \E j \in DOMAIN ep0q[p] : Tail(ep0q[p])[i] = ep0q[p][j]
        BY <2>1, Zenon
      <4>2. ASSUME NEW q \in Ports
            PROVE  \A i \in DOMAIN ep0q'[q] : \E j \in DOMAIN ep0q[q] : ep0q'[q][i] = ep0q[q][j]
        <5>1. CASE q = p
          <6>1. ep0q'[q] = Tail(ep0q[p])
            BY <3>1, <5>1
          <6>2. QED BY <4>1, <5>1, <6>1
        <5>2. CASE q # p
          <6>1. ep0q'[q] = ep0q[q]
            BY <3>1, <5>2
          <6>2. QED BY <6>1
        <5>3. QED BY <5>1, <5>2
      <4>3. QED BY <4>2
    <3>3. Ports' = Ports /\ ProtocolForHid
      BY <1>0, <2>5, MachineStays DEF DriverTyped
    <3>4. QED BY <3>2, <3>3 DEF ProtocolForHid
  <2>13. DriverTyped'
    BY <1>0, <2>5, <2>8, <2>11, <2>12, MachineStays
    DEF DriverTyped, SlotKnown, Addressing, memory, program
  <2>14. RestTyped'
    BY <1>0, <1>7, <2>5, <2>7, <2>9, <2>10, MachineStays DEF RestTyped, earlier
  <2>15. QED BY <2>13, <2>14, Halves
<1>8. ASSUME NEW p \in Ports, NEW cc \in {1, 6}, SendReport(p, cc),
             hcIntr' \in [Slots -> Ports \union {0}],
             evq' \in Seq(Event) /\ Len(evq') <= setup'.events
      PROVE  TypeInv'
  <2>1. intrq[p] \in Seq(Slots) /\ intrq[p] # <<>>
    BY <1>0, <1>8 DEF SendReport, DriverTyped
  <2>2. Tail(intrq[p]) \in Seq(Slots) /\ Head(intrq[p]) \in Slots
    BY <2>1, TailOf
  <2>3. intrq' \in [Ports -> Seq(Slots)]
    BY <1>0, <1>8, <2>2 DEF SendReport, DriverTyped
  <2>4. report' \in [Slots -> Ports \union {0}]
    BY <1>0, <1>8, <2>2 DEF SendReport, RestTyped
  <2>5. UNCHANGED <<setup, program, memory, buf, lost, cmdq, ep0q, enabled, hcPort, halted, booting, earlier>>
    BY <1>8 DEF SendReport
  <2>6. faults' \in 0 .. setup.faults
    BY <1>0, <1>8, FaultBound DEF SendReport
  <2>7. DriverTyped'
    BY <1>0, <2>3, <2>5, MachineStays
    DEF DriverTyped, SlotKnown, Addressing, ProtocolForHid, memory, program
  <2>8. RestTyped'
    BY <1>0, <1>8, <2>4, <2>5, <2>6, MachineStays DEF RestTyped, earlier
  <2>9. QED BY <2>7, <2>8, Halves
<1>9. ASSUME NEW s \in Slots, HcControl(s) PROVE TypeInv'
  <2>1. PICK cc \in {1, 6} : ControlStage(hcPort[s], cc) /\ Post(Transfer(s, 1, cc))
    BY <1>9 DEF HcControl
  <2>2. hcPort[s] \in Ports /\ Transfer(s, 1, cc) \in Event /\ UNCHANGED setup
    BY <1>0, <1>9, <2>1 DEF HcControl, ControlStage, RestTyped, Transfer, Event
  <2>3. evq' \in Seq(Event) /\ Len(evq') <= setup'.events
    BY <1>0, <2>1, <2>2, PostTyped
  <2>4. QED BY <1>7, <2>1, <2>2, <2>3
<1>10. ASSUME NEW s \in Slots, HcReport(s) PROVE TypeInv'
  <2>1. PICK cc \in {1, 6} : SendReport(hcIntr[s], cc) /\ Post(Transfer(s, 3, cc))
    BY <1>10 DEF HcReport
  <2>2. hcIntr[s] \in Ports /\ Transfer(s, 3, cc) \in Event /\ UNCHANGED setup
    BY <1>0, <1>10, <2>1 DEF HcReport, SendReport, RestTyped, Transfer, Event
  <2>3. evq' \in Seq(Event) /\ Len(evq') <= setup'.events
    BY <1>0, <2>1, <2>2, PostTyped
  <2>4. hcIntr' \in [Slots -> Ports \union {0}]
    BY <1>0, <1>10 DEF HcReport, RestTyped
  <2>5. QED BY <1>8, <2>1, <2>2, <2>3, <2>4
<1>11. ASSUME NEW p \in Ports, EarlierControl(p) PROVE TypeInv'
  <2>1. (\E cc \in {1, 6} : ControlStage(p, cc)) /\ UNCHANGED <<setup, evq>>
    BY <1>11 DEF EarlierControl, ControlStage
  <2>2. QED BY <1>0, <1>7, <2>1
<1>12. ASSUME NEW p \in Ports, EarlierReport(p) PROVE TypeInv'
  <2>1. (\E cc \in {1, 6} : SendReport(p, cc)) /\ UNCHANGED <<setup, evq, hcIntr>>
    BY <1>12 DEF EarlierReport, SendReport
  <2>2. hcIntr \in [Slots -> Ports \union {0}] /\ Slots' = Slots
    BY <1>0, <2>1, MachineStays DEF RestTyped
  <2>3. QED BY <1>0, <1>8, <2>1, <2>2
<1>13. CASE UNCHANGED vars
  BY <1>0, <1>13, Halves, MachineStays
  DEF vars, program, memory, hc, earlier, DriverTyped, RestTyped, SlotKnown, Addressing, ProtocolForHid
<1>14. QED
  BY <1>1, <1>2, <1>3, <1>4, <1>5, <1>6, <1>9, <1>10, <1>11, <1>12, <1>13 DEF Next, Driver

-----------------------------------------------------------------------------
(* The port being brought up has no slot yet. *)
Early == {"port", "controller", "enable"}

(* No port is brought up twice, and all that is known of it is known under  *)
(* one slot: whatever an old command still does, it does not give the port  *)
(* that is being brought up to another slot.                                *)
PortsOnce ==
  /\ pc = "controller" => \A q \in Ports : q < port => Controller(q) # Controller(port)
  /\ \A s \in Slots : hcPort[s] # 0 => s \in enabled
  /\ \A s \in Slots : hcPort[s] <= port /\ (hcPort[s] = port => s = slot /\ pc \notin Early)
  /\ \A i \in DOMAIN cmdq :
       cmdq[i].op = "address" =>
         cmdq[i].port <= port /\ (cmdq[i].port = port => cmdq[i].slot = slot /\ pc \notin Early)
  /\ \A s \in Slots : g_devs[s].port <= port
  /\ \A s \in Slots : pc \in Early \union {"address"} => g_devs[s].port < port
  /\ \A p \in earlierEp0 : p < port

(* The parts of a well-formed state. *)
LEMMA Parts ==
  ASSUME TypeInv
  PROVE  /\ setup \in Setups /\ Ports \subseteq Nat \ {0} /\ port \in Ports
         /\ Slots \subseteq Nat \ {0} /\ slot \in Slots \union {0}
         /\ pc \in {"port", "controller", "poll"} \union Waits
         /\ pc \in Addressing => slot \in Slots
         /\ \A s \in Slots : /\ hcPort[s] \in Ports \union {0} /\ hcIntr[s] \in Ports \union {0}
                             /\ g_devs[s].port \in Ports \union {0}
                             /\ g_devs[s].ring \in Ports \union {0}
         /\ hcPort \in [Slots -> Ports \union {0}] /\ hcIntr \in [Slots -> Ports \union {0}]
         /\ g_devs \in [Slots -> Device] /\ intrq \in [Ports -> Seq(Slots)]
         /\ report \in [Slots -> Ports \union {0}]
         /\ earlierEp0 \subseteq Ports /\ earlierIntr \subseteq Ports
         /\ cmdq \in Seq(Command) /\ DOMAIN cmdq \subseteq Nat
         /\ \A i \in DOMAIN cmdq : /\ cmdq[i] \in Command /\ cmdq[i].port \in Ports
                                   /\ cmdq[i].slot \in Slots \union {0}
         /\ evq \in Seq(Event) /\ DOMAIN evq \subseteq Nat
         /\ \A i \in DOMAIN evq : /\ evq[i] \in Event /\ evq[i].slot \in Slots \union {0}
                                  /\ evq[i].type = "transfer" => evq[i].slot \in Slots
<1>1. TypeOK /\ SlotKnown
  BY DEF TypeInv
<1>2. Ports \subseteq Nat \ {0} /\ Slots \subseteq Nat \ {0}
  BY <1>1, Machine, SMTT(30) DEF TypeOK
<1>3. \A s \in Slots : g_devs[s].port \in Ports \union {0} /\ g_devs[s].ring \in Ports \union {0}
  BY <1>1, Fields DEF TypeOK
<1>4. DOMAIN cmdq \subseteq Nat /\ \A i \in DOMAIN cmdq : cmdq[i] \in Command
  BY <1>1, LenProperties DEF TypeOK
<1>5. DOMAIN evq \subseteq Nat /\ \A i \in DOMAIN evq : evq[i] \in Event
  BY <1>1, LenProperties DEF TypeOK
<1>6. QED BY <1>1, <1>2, <1>3, <1>4, <1>5, Fields DEF TypeOK, SlotKnown

LEMMA Numbers ==
  ASSUME TypeInv
  PROVE  /\ port \in Nat /\ port # 0 /\ \A p \in Ports : p \in Nat /\ p # 0
         /\ \A s \in Slots : /\ s \in Nat /\ s # 0 /\ hcPort[s] \in Nat /\ hcIntr[s] \in Nat
                             /\ g_devs[s].port \in Nat /\ g_devs[s].ring \in Nat
         /\ \A i \in DOMAIN cmdq : cmdq[i].port \in Nat /\ cmdq[i].port # 0
         /\ \A p \in earlierEp0 : p \in Nat
BY Parts, SMTT(30)

(* The ports of a controller follow each other. *)
LEMMA ControllersInOrder ==
  ASSUME TypeInv, port + 1 \in Ports, Controller(port + 1) # Controller(port)
  PROVE  \A q \in Ports : q < port + 1 => Controller(q) # Controller(port + 1)
<1>1. port \in Ports /\ setup \in Setups /\ Ports \subseteq Nat
  BY Parts
<1>2. \A p, q \in Ports : p <= q => /\ Controller(p) \in Nat /\ Controller(q) \in Nat
                                   /\ Controller(p) <= Controller(q)
  BY <1>1, Machine
<1>3. QED
  <2>1. SUFFICES ASSUME NEW q \in Ports, q < port + 1 PROVE Controller(q) # Controller(port + 1)
    OBVIOUS
  <2>2. q <= port /\ port <= port + 1
    BY <1>1, <2>1
  <2>3. Controller(q) <= Controller(port) /\ Controller(port) <= Controller(port + 1)
        /\ Controller(q) \in Nat /\ Controller(port) \in Nat /\ Controller(port + 1) \in Nat
    BY <1>1, <1>2, <2>2
  <2>4. QED BY <2>3

(* What each way to continue does to the device table: who is at a slot    *)
(* changes when a device is entered, what is polled there then and when    *)
(* its endpoint is configured.                                             *)
LEMMA TableStep ==
  ASSUME TypeInv, Continues, NEW s \in Slots
  PROVE  /\ g_devs'[s].port = IF EntersDevice /\ s = slot THEN port ELSE g_devs[s].port
         /\ g_devs'[s].ring = IF s = slot /\ EntersDevice THEN 0
                              ELSE IF s = slot /\ Configures THEN port ELSE g_devs[s].ring
<1>0. /\ g_devs \in [Slots -> Device] /\ setup \in Setups /\ port \in Ports
      /\ pc \in Addressing => slot \in Slots
  BY Parts
<1>. USE <1>0
<1>1. CASE EntersDevice
  <2>1. slot \in Slots /\ g_devs' = [g_devs EXCEPT ![slot] = [NoDevice EXCEPT !.port = port]]
    BY <1>1 DEF EntersDevice, DeviceAddressed, Addressing
  <2>2. g_devs'[s] = IF s = slot THEN [NoDevice EXCEPT !.port = port] ELSE g_devs[s]
    BY <2>1
  <2>3. QED BY <1>1, <2>2 DEF NoDevice
<1>2. CASE Configures
  <2>1. slot \in Slots /\ g_devs' = [g_devs EXCEPT ![slot].ring = port] /\ ~EntersDevice
    BY <1>2 DEF Configures, ConfigureEndpoint, Addressing, EntersDevice
  <2>2. g_devs'[s] = IF s = slot THEN [g_devs[s] EXCEPT !.ring = port] ELSE g_devs[s]
    BY <2>1
  <2>3. g_devs[s] \in Device
    OBVIOUS
  <2>4. QED BY <1>2, <2>1, <2>2, <2>3 DEF Device
<1>3. CASE Parses
  <2>1. PICK h \in 0 .. NoInterface, n \in 0 .. 15 :
          g_devs' = [g_devs EXCEPT ![slot].hid = h, ![slot].intr = n]
    BY <1>3, Parsed DEF Parses
  <2>2. slot \in Slots /\ ~EntersDevice /\ (Configures => FALSE)
    BY <1>3 DEF Parses, Request, Configures, ConfigureEndpoint, Addressing, EntersDevice
  <2>3. g_devs'[s] = IF s = slot THEN [g_devs[s] EXCEPT !.hid = h, !.intr = n] ELSE g_devs[s]
    BY <2>1, <2>2
  <2>4. g_devs[s] \in Device
    OBVIOUS
  <2>5. QED BY <2>2, <2>3, <2>4 DEF Device
<1>4. CASE GiveUp \/ TakesSlot \/ Polls \/ \E r \in Requests : Asks(r)
  <2>1. g_devs' = g_devs
    BY <1>4 DEF GiveUp, TakesSlot, AddressDevice, Polls, Asks, memory
  <2>2. CASE ~EntersDevice /\ ~Configures
    BY <2>1, <2>2
  <2>3. QED BY <1>1, <1>2, <2>2
<1>5. QED BY <1>1, <1>2, <1>3, <1>4 DEF Continues

(* Where the commands are after the driver has given one. *)
LEMMA Pushed ==
  ASSUME TypeInv, NEW c \in Command, cmdq' = Append(cmdq, c)
  PROVE  \A i \in DOMAIN cmdq' : cmdq'[i] = c \/ (i \in DOMAIN cmdq /\ cmdq'[i] = cmdq[i])
<1>1. cmdq \in Seq(Command)
  BY Parts
<1>2. QED BY <1>1, AppendOf

LEMMA PortsOnceContinues ==
  ASSUME TypeInv, PortsOnce, UNCHANGED <<setup, enabled, hcPort, earlierEp0>>, Continues
  PROVE  PortsOnce'
<1>0. /\ setup \in Setups /\ port \in Ports /\ Ports \subseteq Nat \ {0}
      /\ \A s \in Slots : hcPort[s] \in Ports \union {0} /\ g_devs[s].port \in Ports \union {0}
      /\ \A i \in DOMAIN cmdq : cmdq[i].port \in Ports
      /\ cmdq \in Seq(Command) /\ evq \in Seq(Event) /\ earlierEp0 \subseteq Ports
      /\ slot \in Slots \union {0} /\ Slots \subseteq Nat \ {0}
      /\ pc \in Addressing => slot \in Slots
  BY Parts
<1>1. Ports' = Ports /\ Slots' = Slots /\ \A p \in Ports : Controller(p)' = Controller(p)
  BY MachineStays
<1>. USE <1>0, <1>1 DEF PortsOnce
<1>2. ASSUME NextPort, UNCHANGED <<cmdq, g_devs>> PROVE PortsOnce'
  <2>1. CASE pc' = "poll" /\ port' = port /\ slot' = slot
    BY <1>2, <2>1 DEF Early
  <2>2. CASE pc' \in {"port", "controller"} /\ port' = port + 1 /\ port + 1 \in Ports
    <3>1. pc' = "controller" => Controller(port + 1) # Controller(port)
      BY <1>2, <2>2, NextPortTyped
    <3>2. pc' = "controller" => \A q \in Ports : q < port + 1 => Controller(q) # Controller(port + 1)
      BY <2>2, <3>1, ControllersInOrder
    <3>3. pc' = "controller" => \A q \in Ports : q < port' => Controller(q)' # Controller(port)'
      BY <2>2, <3>2 DEF Controller
    <3>4. /\ \A s \in Slots : /\ hcPort[s] < port + 1 /\ hcPort[s] # port + 1
                              /\ g_devs[s].port < port + 1
          /\ \A i \in DOMAIN cmdq : cmdq[i].op = "address" => /\ cmdq[i].port < port + 1
                                                            /\ cmdq[i].port # port + 1
          /\ \A p \in earlierEp0 : p < port + 1
      BY Numbers
    <3>5. /\ \A s \in Slots : /\ hcPort'[s] # 0 => s \in enabled'
                              /\ hcPort'[s] <= port' /\ hcPort'[s] # port'
                              /\ g_devs'[s].port < port' /\ g_devs'[s].port <= port'
          /\ \A i \in DOMAIN cmdq' : cmdq'[i].op = "address" => /\ cmdq'[i].port <= port'
                                                             /\ cmdq'[i].port # port'
          /\ \A p \in earlierEp0' : p < port'
      BY <1>2, <2>2, <3>4, Numbers
    <3>6. QED
      <4>. USE <1>2, <2>2, <3>3, <3>5
      <4>1. pc' = "controller" => \A q \in Ports' : q < port' => Controller(q)' # Controller(port)'
        BY Zenon
      <4>2. \A s \in Slots' : hcPort'[s] # 0 => s \in enabled'
        BY Zenon
      <4>3. \A s \in Slots' : hcPort'[s] <= port' /\ (hcPort'[s] = port' => s = slot' /\ pc' \notin Early)
        BY Zenon
      <4>4. QED BY <4>1, <4>2, <4>3
  <2>3. QED BY <1>2, <2>1, <2>2, NextPortTyped
<1>3. CASE GiveUp \/ Polls
  BY <1>2, <1>3 DEF GiveUp, Polls, memory
<1>4. CASE TakesSlot
  <2>1. Head(evq).slot \in Slots
    BY <1>4, TailOf, Fields DEF TakesSlot
  <2>2. PICK s \in Slots : AddressDevice(s)
    BY <1>4, <2>1 DEF TakesSlot
  <2>3. /\ pc = "enable" /\ pc' = "address" /\ slot' = s /\ UNCHANGED <<port, g_devs>>
        /\ cmdq' = Append(cmdq, [op |-> "address", slot |-> s, port |-> port])
    BY <1>4, <2>2 DEF TakesSlot, AddressDevice, PushCommand
  <2>4. [op |-> "address", slot |-> s, port |-> port] \in Command
    BY DEF Command
  <2>5. \A i \in DOMAIN cmdq' : \/ cmdq'[i] = [op |-> "address", slot |-> s, port |-> port]
                                \/ i \in DOMAIN cmdq /\ cmdq'[i] = cmdq[i]
    BY <2>3, <2>4, Pushed
  <2>6. QED BY <2>3, <2>5 DEF Early
<1>5. CASE EntersDevice \/ Parses \/ Configures \/ \E r \in Requests : Asks(r)
  <2>1. /\ pc \in Addressing /\ UNCHANGED <<port, slot>>
        /\ pc' \in {"control", "configure"}
    BY <1>5 DEF EntersDevice, DeviceAddressed, Parses, Configures, ConfigureEndpoint, Asks, Request,
                Addressing
  <2>2. \A s \in Slots : g_devs'[s].port \in {port, g_devs[s].port}
    BY TableStep
  <2>3. CASE Configures
    <3>1. cmdq' = Append(cmdq, [op |-> "configure", slot |-> slot, port |-> port])
      BY <2>3 DEF Configures, ConfigureEndpoint, PushCommand
    <3>2. [op |-> "configure", slot |-> slot, port |-> port] \in Command
      BY DEF Command
    <3>3. \A i \in DOMAIN cmdq' : \/ cmdq'[i] = [op |-> "configure", slot |-> slot, port |-> port]
                                  \/ i \in DOMAIN cmdq /\ cmdq'[i] = cmdq[i]
      BY <3>1, <3>2, Pushed
    <3>4. QED BY <2>1, <2>2, <3>3 DEF Early, Addressing
  <2>4. CASE cmdq' = cmdq
    BY <2>1, <2>2, <2>4 DEF Early, Addressing
  <2>5. QED BY <1>5, <2>3, <2>4 DEF EntersDevice, DeviceAddressed, Parses, Asks, Request
<1>6. QED BY <1>3, <1>4, <1>5 DEF Continues

LEMMA PortsOnceStep == TypeInv /\ PortsOnce /\ [Next]_vars => PortsOnce'
<1>. SUFFICES ASSUME TypeInv, PortsOnce, [Next]_vars PROVE PortsOnce'
  OBVIOUS
<1>0. /\ setup \in Setups /\ port \in Ports /\ Ports \subseteq Nat \ {0}
      /\ \A s \in Slots : hcPort[s] \in Ports \union {0} /\ g_devs[s].port \in Ports \union {0}
      /\ hcPort \in [Slots -> Ports \union {0}]
      /\ \A i \in DOMAIN cmdq : cmdq[i].port \in Ports
      /\ cmdq \in Seq(Command) /\ TypeOK
  BY Parts DEF TypeInv
<1>. USE <1>0
<1>1. CASE CommandCompletes \/ TransferCompletes \/ WaitTimesOut
  <2>1. WaitOver /\ Continues
    BY <1>1, WaitEnds
  <2>2. QED BY <2>1, PortsOnceContinues DEF WaitOver, hc, earlier
<1>2. CASE InitNextController
  <2>1. /\ pc = "controller" /\ pc' = "port" /\ UNCHANGED <<setup, port, slot, g_devs>>
        /\ cmdq' = <<>> /\ \A s \in Slots : hcPort'[s] = 0
        /\ earlierEp0' = earlierEp0 \union ({hcPort[s] : s \in Slots} \ {0})
    BY <1>2 DEF InitNextController
  <2>2. \A s \in Slots : hcPort[s] < port
    BY <2>1, Numbers DEF PortsOnce, Early
  <2>3. \A p \in earlierEp0' : p < port'
    BY <2>1, <2>2 DEF PortsOnce
  <2>4. QED BY <2>1, <2>3, MachineStays DEF PortsOnce, Early
<1>3. CASE EnableSlot
  <2>1. /\ pc = "port" /\ pc' = "enable" /\ UNCHANGED <<setup, port, slot, g_devs, hcPort, enabled, earlierEp0>>
        /\ cmdq' = Append(cmdq, [op |-> "enable", slot |-> 0, port |-> port])
    BY <1>3 DEF EnableSlot, PushCommand, hc, memory, earlier
  <2>2. [op |-> "enable", slot |-> 0, port |-> port] \in Command
    BY DEF Command
  <2>3. \A i \in DOMAIN cmdq' : \/ cmdq'[i].op = "enable"
                                \/ i \in DOMAIN cmdq /\ cmdq'[i] = cmdq[i]
    BY <2>1, <2>2, Pushed
  <2>4. QED BY <2>1, <2>3, MachineStays DEF PortsOnce, Early
<1>4. CASE HcCommand
  <2>1. PICK e \in Event : Answer(e) /\ (Grants(e) \/ Refuses(e) \/ Addresses \/ Wires)
    BY <1>4, CommandIsAnswered
  <2>2. UNCHANGED <<setup, pc, port, slot, g_devs, earlierEp0>>
    BY <2>1 DEF Answer, program, memory, earlier
  <2>3. /\ 1 \in DOMAIN cmdq /\ Head(cmdq) = cmdq[1]
        /\ \A i \in DOMAIN cmdq' : i + 1 \in DOMAIN cmdq /\ cmdq'[i] = cmdq[i + 1]
    BY <2>1, TailOf DEF Answer
  <2>4. \A s \in Slots :
          \/ hcPort'[s] = hcPort[s]
          \/ /\ s \in enabled /\ cmdq[1].op = "address" /\ s = cmdq[1].slot
             /\ hcPort'[s] = cmdq[1].port
    BY <2>1, <2>3 DEF Grants, Refuses, Addresses, Wires
  <2>5. enabled \subseteq enabled'
    BY <2>1 DEF Grants, Refuses, Addresses, Wires
  <2>6. Ports' = Ports /\ Slots' = Slots /\ \A p \in Ports : Controller(p)' = Controller(p)
    BY <2>2, MachineStays
  <2>7. \A s \in Slots : /\ hcPort'[s] # 0 => s \in enabled'
                         /\ hcPort'[s] <= port /\ (hcPort'[s] = port => s = slot /\ pc \notin Early)
    <3>1. SUFFICES ASSUME NEW s \in Slots
                   PROVE  /\ hcPort'[s] # 0 => s \in enabled'
                          /\ hcPort'[s] <= port
                          /\ hcPort'[s] = port => s = slot /\ pc \notin Early
      OBVIOUS
    <3>2. CASE hcPort'[s] = hcPort[s]
      BY <2>5, <3>2 DEF PortsOnce
    <3>3. CASE /\ s \in enabled /\ cmdq[1].op = "address" /\ s = cmdq[1].slot
               /\ hcPort'[s] = cmdq[1].port
      BY <2>3, <2>5, <3>3 DEF PortsOnce
    <3>4. QED BY <2>4, <3>2, <3>3
  <2>8. QED BY <2>2, <2>3, <2>6, <2>7 DEF PortsOnce
<1>5. CASE UNCHANGED <<setup, pc, port, slot, g_devs, cmdq, enabled, hcPort, earlierEp0>>
  BY <1>5, MachineStays DEF PortsOnce
<1>6. CASE DropEvent \/ PollEvents \/ (\E s \in Slots : HcControl(s) \/ HcReport(s))
           \/ (\E p \in Ports : EarlierControl(p) \/ EarlierReport(p)) \/ UNCHANGED vars
  BY <1>5, <1>6
  DEF DropEvent, PollEvents, HcControl, HcReport, EarlierControl, EarlierReport, ControlStage, SendReport,
      vars, program, memory, hc, earlier
<1>7. QED BY <1>1, <1>2, <1>3, <1>4, <1>6 DEF Next, Driver

-----------------------------------------------------------------------------
(* The controller runs the control ring of the port that is brought up. *)
Addressed == slot # 0 /\ hcPort[slot] = port

(* The slots for which the driver polls no other device than the slot's. *)
Wired == {s \in Slots : hcPort[s] # 0 /\ g_devs[s].ring \in {0, hcPort[s]}}

(* The ports that have been brought up. *)
Over == {p \in Ports : p < port \/ (p = port /\ pc = "poll")}

(* Only a device the controller answers for is configured: its descriptor  *)
(* was read.                                                               *)
ConfiguredIfAddressed ==
  /\ \A p \in Ports : p >= port /\ buf[p] # "zero" => p = port /\ Addressed
  /\ pc = "control" /\ req \in OutRequests /\ g_devs[slot].intr # 0 => Addressed
  /\ pc = "configure" => Addressed /\ g_devs[slot].ring = port

(* From the command to the report, an endpoint belongs to the slot's port. *)
EndpointsWired ==
  /\ \A i \in DOMAIN cmdq :
       cmdq[i].op = "configure" => cmdq[i].slot \in Wired /\ hcPort[cmdq[i].slot] = cmdq[i].port
  /\ \A s \in Slots : hcIntr[s] # 0 => hcIntr[s] = hcPort[s] /\ s \in Wired
  /\ \A i \in Reports : evq[i].slot \in Wired

(* One TRB for a report buffer, without counting. *)
OneOwner ==
  /\ \A p \in Ports : intrq[p] # <<>> => p \in Over /\ \E s \in Slots : intrq[p] = <<s>>
  /\ \A i \in Reports : hcPort[evq[i].slot] \in Over /\ intrq[hcPort[evq[i].slot]] = <<>>
  /\ \A i, j \in Reports : hcPort[evq[i].slot] = hcPort[evq[j].slot] => i = j

(* A slot and a port that the controller was told to bring together, or    *)
(* that the driver polls together.                                         *)
Claims(s, p) ==
  \/ hcPort[s] = p
  \/ \E i \in DOMAIN cmdq : cmdq[i].op = "address" /\ cmdq[i].slot = s /\ cmdq[i].port = p
  \/ intrq[p] = <<s>>

(* So the buffer of a TRB is that of the slot whose ring it is on, ... *)
OneClaim == \A p \in Ports : \A s, t \in Slots : Claims(s, p) /\ Claims(t, p) => s = t

(* ... and a report is found where it was written. *)
Written ==
  \A i \in Reports :
    evq[i].cc = 1 => \/ report[evq[i].slot] = hcPort[evq[i].slot]
                    \/ report[evq[i].slot] \in earlierIntr

BufferInv == ConfiguredIfAddressed /\ EndpointsWired /\ OneOwner /\ OneClaim /\ Written

(* Reports and answers after an event was taken, or none was. *)
LEMMA Taken ==
  ASSUME TypeInv, evq' = evq \/ (evq # <<>> /\ evq' = Tail(evq))
  PROVE  \E k \in {0, 1} :
           \A i \in DOMAIN evq' : i \in Nat /\ i + k \in DOMAIN evq /\ evq'[i] = evq[i + k]
<1>1. evq \in Seq(Event) /\ DOMAIN evq \subseteq Nat
  BY Parts
<1>2. CASE evq' = evq
  <2>1. \A i \in DOMAIN evq' : i \in Nat /\ i + 0 \in DOMAIN evq /\ evq'[i] = evq[i + 0]
    BY <1>1, <1>2
  <2>2. QED BY <2>1
<1>3. CASE evq # <<>> /\ evq' = Tail(evq)
  <2>1. \A i \in DOMAIN evq' : i \in Nat /\ i + 1 \in DOMAIN evq /\ evq'[i] = evq[i + 1]
    BY <1>1, <1>3, TailOf
  <2>2. QED BY <2>1
<1>4. QED BY <1>2, <1>3

LEMMA ReportsTaken ==
  ASSUME TypeInv, evq' = evq \/ (evq # <<>> /\ evq' = Tail(evq))
  PROVE  \E k \in {0, 1} :
           \A i \in Reports' : i \in Nat /\ i + k \in Reports /\ evq'[i] = evq[i + k]
BY Taken DEF Reports

(* ... and after one was added. *)
LEMMA ReportsPosted ==
  ASSUME TypeInv, NEW e \in Event, Post(e)
  PROVE  /\ \A i \in Reports' : \/ i \in Reports /\ evq'[i] = evq[i]
                                \/ /\ i = Len(evq) + 1 /\ evq'[i] = e
                                   /\ e.type = "transfer" /\ e.ep = 3
         /\ Len(evq) + 1 \notin Reports
<1>1. evq \in Seq(Event) /\ evq' = Append(evq, e)
  BY Parts DEF Post
<1>2. QED BY <1>1, AppendOf DEF Reports

LEMMA ReportSlots == TypeInv => \A i \in Reports : i \in DOMAIN evq /\ evq[i].slot \in Slots
BY Parts DEF Reports

-----------------------------------------------------------------------------
LEMMA ConfiguredStep ==
  TypeInv /\ PortsOnce /\ BufferInv /\ [Next]_vars => ConfiguredIfAddressed'
<1>. SUFFICES ASSUME TypeInv, PortsOnce, ConfiguredIfAddressed, [Next]_vars
              PROVE  ConfiguredIfAddressed'
  BY DEF BufferInv
<1>0. /\ setup \in Setups /\ port \in Ports
      /\ pc \in Addressing => slot \in Slots
      /\ hcPort \in [Slots -> Ports \union {0}] /\ g_devs \in [Slots -> Device]
      /\ pc \in {"port", "controller", "poll"} \union Waits
      /\ TypeOK /\ buf \in [Ports -> {"zero", "config9", "config"}]
  BY Parts DEF TypeInv, TypeOK
<1>. USE <1>0
<1>1. CASE CommandCompletes \/ TransferCompletes \/ WaitTimesOut
  <2>1. WaitOver /\ Continues
    BY <1>1, WaitEnds
  <2>2. /\ UNCHANGED <<setup, hcPort>> /\ Ports' = Ports /\ pc \in Waits
    BY <2>1, MachineStays DEF WaitOver, hc
  <2>3. ASSUME NextPort, UNCHANGED buf PROVE ConfiguredIfAddressed'
    <3>1. CASE pc' = "poll" /\ port' = port /\ slot' = slot
      BY <2>2, <2>3, <3>1 DEF ConfiguredIfAddressed, Addressed
    <3>2. CASE pc' \in {"port", "controller"} /\ port' = port + 1
      <4>1. \A p \in Ports : p >= port + 1 => p >= port /\ p # port
        BY Numbers
      <4>2. \A p \in Ports : p >= port + 1 => buf[p] = "zero"
        BY <4>1 DEF ConfiguredIfAddressed
      <4>3. QED BY <2>2, <2>3, <3>2, <4>2 DEF ConfiguredIfAddressed
    <3>3. QED BY <2>3, <3>1, <3>2, NextPortTyped
  <2>4. CASE GiveUp \/ Polls
    BY <2>3, <2>4 DEF GiveUp, Polls
  <2>5. CASE TakesSlot
    <3>1. pc = "enable" /\ pc' = "address" /\ UNCHANGED <<buf, port>>
      BY <2>5 DEF TakesSlot, AddressDevice
    <3>2. ~Addressed
      BY <3>1, Parts DEF Addressed, PortsOnce, Early
    <3>3. QED BY <2>2, <3>1, <3>2 DEF ConfiguredIfAddressed
  <2>6. CASE EntersDevice
    <3>1. pc' = "control" /\ req' = "GET_DEVICE" /\ UNCHANGED <<buf, port, slot>>
      BY <2>6 DEF EntersDevice, DeviceAddressed, Request
    <3>2. QED BY <2>2, <3>1 DEF ConfiguredIfAddressed, OutRequests, Addressed
  <2>7. ASSUME NEW r \in Requests, Asks(r) PROVE ConfiguredIfAddressed'
    <3>1. /\ pc = "control" /\ pc' = "control" /\ req' = r /\ UNCHANGED <<port, slot, g_devs>>
          /\ r \in OutRequests => req \in OutRequests
          /\ buf' = buf \/ buf' = [buf EXCEPT ![port] = "zero"]
      BY <2>7 DEF Asks, Request
    <3>2. \A p \in Ports : buf'[p] # "zero" => buf[p] # "zero"
      BY <3>1
    <3>3. QED BY <2>2, <3>1, <3>2 DEF ConfiguredIfAddressed, Addressed
  <2>8. CASE Parses
    <3>1. pc' = "control" /\ UNCHANGED <<port, slot, buf>> /\ slot \in Slots
      BY <2>8 DEF Parses, Request, Addressing
    <3>2. PICK h \in 0 .. NoInterface, n \in 0 .. 15 :
            /\ g_devs' = [g_devs EXCEPT ![slot].hid = h, ![slot].intr = n]
            /\ buf[port] # "config" => n = 0
      BY <2>8, Parsed DEF Parses
    <3>3. g_devs[slot] \in Device /\ g_devs'[slot] = [g_devs[slot] EXCEPT !.hid = h, !.intr = n]
      BY <3>1, <3>2
    <3>4. g_devs'[slot].intr = n
      BY <3>3 DEF Device
    <3>5. buf[port] = "config" => Addressed
      BY Numbers DEF ConfiguredIfAddressed
    <3>6. QED BY <2>2, <3>1, <3>2, <3>4, <3>5 DEF ConfiguredIfAddressed, Addressed
  <2>9. CASE Configures
    <3>1. /\ pc = "control" /\ pc' = "configure" /\ UNCHANGED <<port, slot, buf>>
          /\ req \in OutRequests /\ g_devs[slot].intr # 0 /\ slot \in Slots
      BY <2>9 DEF Configures, ConfigureEndpoint, Addressing
    <3>2. g_devs'[slot].ring = port
      BY <2>1, <2>9, <3>1, TableStep DEF Configures, EntersDevice
    <3>3. QED BY <2>2, <3>1, <3>2 DEF ConfiguredIfAddressed, Addressed
  <2>10. QED BY <2>1, <2>4, <2>5, <2>6, <2>7, <2>8, <2>9 DEF Continues
<1>2. CASE InitNextController
  <2>1. /\ pc = "controller" /\ pc' = "port" /\ UNCHANGED <<setup, port, slot, buf>>
    BY <1>2 DEF InitNextController
  <2>2. ~Addressed
    BY <2>1, Parts DEF Addressed, PortsOnce, Early
  <2>3. QED BY <2>1, <2>2, MachineStays DEF ConfiguredIfAddressed
<1>3. CASE EnableSlot
  BY <1>3, MachineStays DEF EnableSlot, ConfiguredIfAddressed, Addressed, hc
<1>4. CASE HcCommand
  <2>1. PICK e \in Event : Answer(e) /\ (Grants(e) \/ Refuses(e) \/ Addresses \/ Wires)
    BY <1>4, CommandIsAnswered
  <2>2. UNCHANGED <<setup, pc, port, slot, req, g_devs, buf>>
    BY <2>1 DEF Answer, program, memory
  <2>3. \A s \in Slots : hcPort[s] # 0 => hcPort'[s] = hcPort[s]
    BY <2>1 DEF Grants, Refuses, Addresses, Wires
  <2>4. Addressed => Addressed'
    BY <2>2, <2>3, Parts DEF Addressed
  <2>5. QED BY <2>2, <2>4, MachineStays DEF ConfiguredIfAddressed
<1>5. ASSUME NEW s \in Slots, HcControl(s) PROVE ConfiguredIfAddressed'
  <2>1. UNCHANGED <<setup, pc, port, slot, req, g_devs, hcPort>>
    BY <1>5 DEF HcControl, ControlStage, program, memory
  <2>2. \A p \in Ports : p # hcPort[s] => buf'[p] = buf[p]
    BY <1>5 DEF HcControl, ControlStage
  <2>3. hcPort[s] >= port => hcPort[s] = port /\ Addressed
    BY Numbers DEF PortsOnce, Addressed
  <2>4. QED BY <2>1, <2>2, <2>3, MachineStays DEF ConfiguredIfAddressed, Addressed
<1>6. ASSUME NEW q \in Ports, EarlierControl(q) PROVE ConfiguredIfAddressed'
  <2>1. UNCHANGED <<setup, pc, port, slot, req, g_devs, hcPort>>
    BY <1>6 DEF EarlierControl, ControlStage, program, memory
  <2>2. \A p \in Ports : p # q => buf'[p] = buf[p]
    BY <1>6 DEF EarlierControl, ControlStage
  <2>3. ~(q >= port)
    BY <1>6, Numbers DEF EarlierControl, PortsOnce
  <2>4. QED BY <2>1, <2>2, <2>3, MachineStays DEF ConfiguredIfAddressed, Addressed
<1>7. CASE UNCHANGED <<setup, pc, port, slot, req, g_devs, buf, hcPort>>
  BY <1>7, MachineStays DEF ConfiguredIfAddressed, Addressed
<1>8. CASE DropEvent \/ PollEvents \/ (\E s \in Slots : HcReport(s))
           \/ (\E p \in Ports : EarlierReport(p)) \/ UNCHANGED vars
  BY <1>7, <1>8 DEF DropEvent, PollEvents, HcReport, EarlierReport, SendReport, vars, program, memory, hc
<1>9. QED BY <1>1, <1>2, <1>3, <1>4, <1>5, <1>6, <1>8 DEF Next, Driver

LEMMA WiredStep ==
  TypeInv /\ PortsOnce /\ BufferInv /\ [Next]_vars => EndpointsWired'
<1>. SUFFICES ASSUME TypeInv, PortsOnce, ConfiguredIfAddressed, EndpointsWired, [Next]_vars
              PROVE  EndpointsWired'
  BY DEF BufferInv
<1>0. /\ setup \in Setups /\ port \in Ports
      /\ pc \in Addressing => slot \in Slots
      /\ hcPort \in [Slots -> Ports \union {0}] /\ hcIntr \in [Slots -> Ports \union {0}]
      /\ \A i \in DOMAIN cmdq : cmdq[i] \in Command /\ cmdq[i].slot \in Slots \union {0}
      /\ \A i \in Reports : evq[i].slot \in Slots
      /\ cmdq \in Seq(Command) /\ evq \in Seq(Event) /\ TypeOK
  BY Parts, ReportSlots DEF TypeInv
<1>. USE <1>0
<1>1. CASE CommandCompletes \/ TransferCompletes \/ WaitTimesOut
  <2>1. WaitOver /\ Continues
    BY <1>1, WaitEnds
  <2>2. UNCHANGED <<setup, hcPort, hcIntr>> /\ Slots' = Slots
    BY <2>1, MachineStays DEF WaitOver, hc
  <2>3. Configures => hcPort[slot] = port
    BY DEF Configures, ConfiguredIfAddressed, Addressed
  <2>4. Wired \subseteq Wired'
    <3>1. \A s \in Slots : g_devs'[s].ring \in {0, g_devs[s].ring, hcPort[s]}
      BY <2>1, <2>3, TableStep
    <3>2. QED BY <2>2, <3>1 DEF Wired
  <2>5. \A i \in Reports' : \E j \in Reports : evq'[i] = evq[j]
    BY <2>1, ReportsTaken DEF WaitOver
  <2>6. \A i \in DOMAIN cmdq' :
          cmdq'[i].op = "configure" => cmdq'[i].slot \in Wired' /\ hcPort'[cmdq'[i].slot] = cmdq'[i].port
    <3>1. \A i \in DOMAIN cmdq :
            cmdq[i].op = "configure" => cmdq[i].slot \in Wired' /\ hcPort'[cmdq[i].slot] = cmdq[i].port
      BY <2>2, <2>4 DEF EndpointsWired
    <3>2. CASE cmdq' = cmdq
      BY <3>1, <3>2
    <3>3. CASE TakesSlot
      <4>1. Head(evq).slot \in Slots
        BY <3>3, TailOf, Fields DEF TakesSlot
      <4>2. PICK s \in Slots : AddressDevice(s)
        BY <3>3, <4>1 DEF TakesSlot
      <4>3. /\ cmdq' = Append(cmdq, [op |-> "address", slot |-> s, port |-> port])
            /\ [op |-> "address", slot |-> s, port |-> port] \in Command
        BY <4>2 DEF AddressDevice, PushCommand, Command
      <4>4. \A i \in DOMAIN cmdq' : \/ cmdq'[i].op = "address"
                                    \/ i \in DOMAIN cmdq /\ cmdq'[i] = cmdq[i]
        BY <4>3, Pushed
      <4>5. QED BY <3>1, <4>4
    <3>4. CASE Configures
      <4>1. slot \in Slots /\ slot # 0 /\ hcPort[slot] = port
        BY <2>3, <3>4, Numbers DEF Configures, Addressing
      <4>2. /\ cmdq' = Append(cmdq, [op |-> "configure", slot |-> slot, port |-> port])
            /\ [op |-> "configure", slot |-> slot, port |-> port] \in Command
        BY <3>4, <4>1 DEF Configures, ConfigureEndpoint, PushCommand, Command
      <4>3. \A i \in DOMAIN cmdq' :
              \/ cmdq'[i] = [op |-> "configure", slot |-> slot, port |-> port]
              \/ i \in DOMAIN cmdq /\ cmdq'[i] = cmdq[i]
        BY <4>2, Pushed
      <4>4. g_devs'[slot].ring = port /\ port # 0
        BY <2>1, <3>4, <4>1, TableStep, Numbers DEF Configures, EntersDevice
      <4>5. slot \in Wired' /\ hcPort'[slot] = port
        BY <2>2, <4>1, <4>4 DEF Wired
      <4>6. QED BY <3>1, <4>3, <4>5
    <3>5. QED BY <2>1, <3>2, <3>3, <3>4
      DEF Continues, GiveUp, Polls, EntersDevice, DeviceAddressed, Asks, Parses, Request
  <2>7. QED BY <2>2, <2>4, <2>5, <2>6 DEF EndpointsWired
<1>2. CASE InitNextController
  <2>1. cmdq' = <<>> /\ evq' \in FirstEvents /\ \A s \in Slots : hcIntr'[s] = 0
    BY <1>2 DEF InitNextController
  <2>2. Reports' = {}
    BY <2>1 DEF Reports, FirstEvents
  <2>3. UNCHANGED setup
    BY <1>2 DEF InitNextController
  <2>4. QED BY <2>1, <2>2, <2>3, MachineStays DEF EndpointsWired
<1>3. CASE EnableSlot
  <2>1. /\ UNCHANGED <<setup, evq, hcPort, hcIntr, g_devs>>
        /\ cmdq' = Append(cmdq, [op |-> "enable", slot |-> 0, port |-> port])
        /\ [op |-> "enable", slot |-> 0, port |-> port] \in Command
    BY <1>3 DEF EnableSlot, PushCommand, hc, memory, Command
  <2>2. \A i \in DOMAIN cmdq' : cmdq'[i].op = "enable" \/ (i \in DOMAIN cmdq /\ cmdq'[i] = cmdq[i])
    BY <2>1, Pushed
  <2>3. QED BY <2>1, <2>2, MachineStays DEF EndpointsWired, Wired, Reports
<1>4. CASE HcCommand
  <2>1. PICK e \in Event : Answer(e) /\ (Grants(e) \/ Refuses(e) \/ Addresses \/ Wires)
    BY <1>4, CommandIsAnswered
  <2>2. UNCHANGED <<setup, g_devs>> /\ Slots' = Slots /\ e.type = "command" /\ Post(e)
    BY <2>1, MachineStays DEF Answer, memory
  <2>3. /\ 1 \in DOMAIN cmdq /\ Head(cmdq) = cmdq[1]
        /\ \A i \in DOMAIN cmdq' : i + 1 \in DOMAIN cmdq /\ cmdq'[i] = cmdq[i + 1]
    BY <2>1, TailOf DEF Answer
  <2>4. \A s \in Slots : hcPort[s] # 0 => hcPort'[s] = hcPort[s]
    BY <2>1 DEF Grants, Refuses, Addresses, Wires
  <2>5. \A s \in Wired : s \in Wired' /\ s \in Slots /\ hcPort'[s] = hcPort[s]
    BY <2>2, <2>4 DEF Wired
  <2>6. \A i \in Reports' : \E j \in Reports : evq'[i] = evq[j]
    BY <2>2, ReportsPosted
  <2>7. \A s \in Slots : hcIntr'[s] # 0 => hcIntr'[s] = hcPort'[s] /\ s \in Wired'
    <3>1. CASE UNCHANGED hcIntr
      BY <2>5, <3>1 DEF EndpointsWired
    <3>2. CASE Wires
      <4>1. cmdq[1].op = "configure" /\ hcIntr' = [hcIntr EXCEPT ![cmdq[1].slot] = cmdq[1].port]
        BY <2>3, <3>2 DEF Wires
      <4>2. cmdq[1].slot \in Slots /\ hcPort[cmdq[1].slot] = cmdq[1].port /\ cmdq[1].slot \in Wired
        BY <2>3, <4>1 DEF EndpointsWired, Wired
      <4>3. \A s \in Slots : hcIntr'[s] = IF s = cmdq[1].slot THEN hcPort[s] ELSE hcIntr[s]
        BY <4>1, <4>2
      <4>4. QED BY <2>5, <4>2, <4>3 DEF EndpointsWired
    <3>3. QED BY <2>1, <3>1, <3>2 DEF Grants, Refuses, Addresses
  <2>8. \A i \in DOMAIN cmdq' :
          cmdq'[i].op = "configure" => cmdq'[i].slot \in Wired' /\ hcPort'[cmdq'[i].slot] = cmdq'[i].port
    <3>1. \A i \in DOMAIN cmdq :
            cmdq[i].op = "configure" => cmdq[i].slot \in Wired' /\ hcPort'[cmdq[i].slot] = cmdq[i].port
      BY <2>5 DEF EndpointsWired
    <3>2. QED BY <2>3, <3>1
  <2>9. QED BY <2>2, <2>5, <2>6, <2>7, <2>8 DEF EndpointsWired
<1>5. ASSUME NEW s \in Slots, HcControl(s) PROVE EndpointsWired'
  <2>1. UNCHANGED <<setup, g_devs, cmdq, hcPort, hcIntr>>
    BY <1>5 DEF HcControl, ControlStage, memory
  <2>2. PICK cc \in {1, 6} : Post(Transfer(s, 1, cc))
    BY <1>5 DEF HcControl
  <2>3. Transfer(s, 1, cc) \in Event /\ Transfer(s, 1, cc).ep = 1
    BY DEF Transfer, Event
  <2>4. \A i \in Reports' : \E j \in Reports : evq'[i] = evq[j]
    BY <2>2, <2>3, ReportsPosted
  <2>5. QED BY <2>1, <2>4, MachineStays DEF EndpointsWired, Wired
<1>6. ASSUME NEW s \in Slots, HcReport(s) PROVE EndpointsWired'
  <2>1. /\ UNCHANGED <<setup, g_devs, cmdq, hcPort>>
        /\ hcIntr' = hcIntr \/ hcIntr' = [hcIntr EXCEPT ![s] = 0]
        /\ hcIntr[s] # 0
    BY <1>6 DEF HcReport, SendReport, memory
  <2>2. PICK cc \in {1, 6} : Post(Transfer(s, 3, cc))
    BY <1>6 DEF HcReport
  <2>3. Transfer(s, 3, cc) \in Event /\ Transfer(s, 3, cc).slot = s
    BY DEF Transfer, Event
  <2>4. \A i \in Reports' : evq'[i].slot = s \/ \E j \in Reports : evq'[i] = evq[j]
    BY <2>2, <2>3, ReportsPosted
  <2>5. s \in Wired
    BY <2>1 DEF EndpointsWired
  <2>6. Slots' = Slots /\ Wired' = Wired
    BY <2>1, MachineStays DEF Wired
  <2>7. \A t \in Slots : hcIntr'[t] # 0 => hcIntr[t] = hcIntr'[t]
    BY <2>1
  <2>8. \A i \in Reports' : evq'[i].slot \in Wired'
    BY <2>4, <2>5, <2>6 DEF EndpointsWired
  <2>9. QED BY <2>1, <2>6, <2>7, <2>8 DEF EndpointsWired
<1>7. CASE DropEvent \/ PollEvents
  <2>1. UNCHANGED <<setup, g_devs, cmdq, hcPort, hcIntr>> /\ evq # <<>> /\ evq' = Tail(evq)
    BY <1>7 DEF DropEvent, PollEvents, PollEvent, memory, hc
  <2>2. \A i \in Reports' : \E j \in Reports : evq'[i] = evq[j]
    BY <2>1, ReportsTaken
  <2>3. Slots' = Slots /\ Wired' = Wired
    BY <2>1, MachineStays DEF Wired
  <2>4. \A i \in Reports' : evq'[i].slot \in Wired'
    BY <2>2, <2>3 DEF EndpointsWired
  <2>5. QED BY <2>1, <2>3, <2>4 DEF EndpointsWired
<1>8. CASE UNCHANGED <<setup, g_devs, cmdq, hcPort, hcIntr, evq>>
  BY <1>8, MachineStays DEF EndpointsWired, Wired, Reports
<1>9. CASE (\E p \in Ports : EarlierControl(p) \/ EarlierReport(p)) \/ UNCHANGED vars
  BY <1>8, <1>9 DEF EarlierControl, EarlierReport, ControlStage, SendReport, vars, memory, hc
<1>10. QED BY <1>1, <1>2, <1>3, <1>4, <1>5, <1>6, <1>7, <1>9 DEF Next, Driver

-----------------------------------------------------------------------------
(* A port that is over stays so, and so does the one that is left.         *)
LEMMA OverStays ==
  ASSUME TypeInv, UNCHANGED setup
  PROVE  /\ UNCHANGED port /\ (pc = "poll" => pc' = "poll") => Over \subseteq Over'
         /\ NextPort /\ pc # "poll" => Over \union {port} \subseteq Over'
<1>0. port \in Ports /\ setup \in Setups /\ Ports \subseteq Nat \ {0} /\ Ports' = Ports
  BY Parts, MachineStays
<1>1. ASSUME UNCHANGED port, pc = "poll" => pc' = "poll" PROVE Over \subseteq Over'
  BY <1>0, <1>1 DEF Over
<1>2. ASSUME NextPort, pc # "poll" PROVE Over \union {port} \subseteq Over'
  <2>1. \/ pc' = "poll" /\ port' = port
        \/ port' = port + 1
    BY <1>0, <1>2, NextPortTyped
  <2>2. CASE pc' = "poll" /\ port' = port
    BY <1>0, <2>2 DEF Over
  <2>3. CASE port' = port + 1
    <3>1. \A p \in Ports : p < port \/ p = port => p < port + 1
      BY Numbers
    <3>2. QED BY <1>0, <1>2, <2>3, <3>1 DEF Over
  <2>4. QED BY <2>1, <2>2, <2>3
<1>3. QED BY <1>1, <1>2

(* A step that only takes reports away and leaves their ports alone. *)
LEMMA ReportsKept ==
  ASSUME TypeInv, EndpointsWired, OneOwner, UNCHANGED setup, Over \subseteq Over',
         NEW k \in {0, 1},
         \A i \in Reports' :
           /\ i \in Nat /\ i + k \in Reports /\ evq'[i] = evq[i + k]
           /\ hcPort'[evq'[i].slot] = hcPort[evq'[i].slot]
           /\ intrq'[hcPort[evq'[i].slot]] = <<>>,
         \A p \in Ports : intrq'[p] # <<>> => p \in Over' /\ \E s \in Slots : intrq'[p] = <<s>>
  PROVE  OneOwner'
<1>1. \A p \in Ports' : intrq'[p] # <<>> => p \in Over' /\ \E s \in Slots' : intrq'[p] = <<s>>
  BY MachineStays
<1>2. \A i \in Reports' : hcPort'[evq'[i].slot] \in Over' /\ intrq'[hcPort'[evq'[i].slot]] = <<>>
  BY DEF OneOwner
<1>3. \A i, j \in Reports' : hcPort'[evq'[i].slot] = hcPort'[evq'[j].slot] => i = j
  <2>1. SUFFICES ASSUME NEW i \in Reports', NEW j \in Reports',
                        hcPort'[evq'[i].slot] = hcPort'[evq'[j].slot]
                 PROVE  i = j
    OBVIOUS
  <2>2. hcPort[evq[i + k].slot] = hcPort[evq[j + k].slot] /\ i + k \in Reports /\ j + k \in Reports
    BY <2>1
  <2>3. i + k = j + k
    BY <2>2 DEF OneOwner
  <2>4. QED BY <2>1, <2>3
<1>4. QED BY <1>1, <1>2, <1>3 DEF OneOwner

(* A ring with one TRB. *)
LEMMA OneTrb == \A x : /\ Append(<<>>, x) = <<x>> /\ Tail(<<x>>) = <<>> /\ Head(<<x>>) = x /\ <<x>> # <<>>
                       /\ Len(<<x>>) = 1 /\ DOMAIN <<x>> = {1} /\ <<x>>[1] = x
OBVIOUS

(* A report is asked for on the ring of a port that is over. *)
LEMMA PolledIsOver ==
  ASSUME OneOwner, NEW p \in Ports, intrq[p] # <<>>
  PROVE  p \in Over /\ \E s \in Slots : intrq[p] = <<s>>
BY Zenon DEF OneOwner

(* The driver gives an idle ring a TRB. *)
LEMMA Armed ==
  ASSUME TypeInv, OneOwner, NEW q \in Ports, NEW s \in Slots, intrq[q] = <<>>,
         intrq' = [intrq EXCEPT ![q] = Append(@, s)], UNCHANGED setup, Over \union {q} \subseteq Over'
  PROVE  /\ \A p \in Ports : intrq'[p] = IF p = q THEN <<s>> ELSE intrq[p]
         /\ \A p \in Ports : intrq'[p] # <<>> => p \in Over' /\ \E t \in Slots : intrq'[p] = <<t>>
<1>1. intrq \in [Ports -> Seq(Slots)]
  BY Parts
<1>2. \A p \in Ports : intrq'[p] = IF p = q THEN <<s>> ELSE intrq[p]
  BY <1>1, OneTrb
<1>3. ASSUME NEW p \in Ports, intrq'[p] # <<>>
      PROVE  p \in Over' /\ \E t \in Slots : intrq'[p] = <<t>>
  <2>1. CASE p = q
    BY <1>2, <2>1
  <2>2. CASE p # q
    BY <1>2, <1>3, <2>2, PolledIsOver
  <2>3. QED BY <2>1, <2>2
<1>4. QED BY <1>2, <1>3

(* A controller takes the TRB of a ring. *)
LEMMA Disarmed ==
  ASSUME TypeInv, OneOwner, NEW q \in Ports, intrq[q] # <<>>, intrq' = [intrq EXCEPT ![q] = Tail(@)],
         UNCHANGED setup, Over \subseteq Over'
  PROVE  /\ \A p \in Ports : intrq'[p] = IF p = q THEN <<>> ELSE intrq[p]
         /\ \A p \in Ports : intrq'[p] # <<>> => p \in Over' /\ \E t \in Slots : intrq'[p] = <<t>>
<1>1. intrq \in [Ports -> Seq(Slots)]
  BY Parts
<1>2. PICK s \in Slots : intrq[q] = <<s>>
  BY PolledIsOver
<1>3. \A p \in Ports : intrq'[p] = IF p = q THEN <<>> ELSE intrq[p]
  BY <1>1, <1>2, OneTrb
<1>4. QED BY <1>3, PolledIsOver

(* The main loop: the event is gone, and a report is followed by a TRB.    *)
LEMMA PollTakes ==
  ASSUME PollEvents
  PROVE  /\ UNCHANGED <<setup, pc, port, hcPort, cmdq>> /\ evq # <<>> /\ evq' = Tail(evq)
         /\ \/ UNCHANGED intrq
            \/ /\ IsReport(Head(evq)) /\ g_devs[Head(evq).slot].ring # 0
               /\ intrq' = [intrq EXCEPT ![g_devs[Head(evq).slot].ring] = Append(@, Head(evq).slot)]
<1>1. UNCHANGED <<setup, program, cmdq, hc>> /\ PollEvent
  BY DEF PollEvents
<1>2. IF IsReport(Head(evq)) /\ g_devs[Head(evq).slot].ring # 0
      THEN StartPolling(Head(evq).slot) ELSE UNCHANGED intrq
  BY DEF PollEvents
<1>3. UNCHANGED <<setup, pc, port, hcPort, cmdq>> /\ evq # <<>> /\ evq' = Tail(evq)
  BY <1>1 DEF PollEvent, program, hc
<1>4. CASE IsReport(Head(evq)) /\ g_devs[Head(evq).slot].ring # 0
  <2>1. StartPolling(Head(evq).slot)
    BY <1>2, <1>4
  <2>2. intrq' = [intrq EXCEPT ![g_devs[Head(evq).slot].ring] = Append(@, Head(evq).slot)]
    BY <2>1 DEF StartPolling
  <2>3. QED BY <1>3, <1>4, <2>2
<1>5. CASE ~(IsReport(Head(evq)) /\ g_devs[Head(evq).slot].ring # 0)
  BY <1>2, <1>3, <1>5
<1>6. QED BY <1>4, <1>5

LEMMA OwnerStep ==
  TypeInv /\ PortsOnce /\ BufferInv /\ [Next]_vars => OneOwner'
<1>. SUFFICES ASSUME TypeInv, PortsOnce, ConfiguredIfAddressed, EndpointsWired, OneOwner, [Next]_vars
              PROVE  OneOwner'
  BY DEF BufferInv
<1>0. /\ setup \in Setups /\ port \in Ports /\ Ports \subseteq Nat \ {0}
      /\ evq \in Seq(Event) /\ TypeOK
      /\ pc \in Addressing => slot \in Slots
      /\ hcPort \in [Slots -> Ports \union {0}] /\ hcIntr \in [Slots -> Ports \union {0}]
      /\ \A i \in Reports : i \in Nat /\ i + 0 = i
  BY Parts DEF TypeInv, Reports
<1>. USE <1>0
<1>1. \A p \in Ports : intrq[p] # <<>> => p \in Over /\ \E s \in Slots : intrq[p] = <<s>>
  BY DEF OneOwner
<1>2. \A i \in Reports : /\ hcPort[evq[i].slot] \in Over /\ hcPort[evq[i].slot] \in Ports
                         /\ evq[i].slot \in Wired /\ intrq[hcPort[evq[i].slot]] = <<>>
                         /\ evq[i].slot \in Slots
  BY DEF OneOwner, EndpointsWired, Over, Wired
<1>3. ASSUME UNCHANGED <<setup, intrq>>, Over \subseteq Over',
             NEW k \in {0, 1},
             \A i \in Reports' : i \in Nat /\ i + k \in Reports /\ evq'[i] = evq[i + k],
             \A s \in Wired : hcPort'[s] = hcPort[s]
      PROVE  OneOwner'
  <2>1. \A i \in Reports' : /\ i \in Nat /\ i + k \in Reports /\ evq'[i] = evq[i + k]
                            /\ hcPort'[evq'[i].slot] = hcPort[evq'[i].slot]
                            /\ intrq'[hcPort[evq'[i].slot]] = <<>>
    BY <1>2, <1>3
  <2>2. \A p \in Ports : intrq'[p] # <<>> => p \in Over' /\ \E s \in Slots : intrq'[p] = <<s>>
    BY <1>1, <1>3
  <2>3. QED BY <1>3, <2>1, <2>2, ReportsKept
<1>4. CASE CommandCompletes \/ TransferCompletes \/ WaitTimesOut
  <2>1. WaitOver /\ Continues
    BY <1>4, WaitEnds
  <2>2. UNCHANGED <<setup, hcPort>> /\ pc # "poll"
    BY <2>1 DEF WaitOver, hc, Waits, CommandWaits
  <2>3. PICK k \in {0, 1} : \A i \in Reports' : i \in Nat /\ i + k \in Reports /\ evq'[i] = evq[i + k]
    BY <2>1, ReportsTaken DEF WaitOver
  <2>4. CASE Polls
    <3>1. g_devs[slot].ring = port /\ NextPort /\ slot \in Slots
          /\ intrq' = [intrq EXCEPT ![port] = Append(@, slot)]
      BY <2>4 DEF Polls, StartPolling, ConfiguredIfAddressed, Addressing
    <3>2. port \notin Over /\ Over \union {port} \subseteq Over'
      BY <2>2, <3>1, OverStays DEF Over
    <3>3. intrq[port] = <<>>
      BY <1>1, <3>2
    <3>4. /\ \A p \in Ports : intrq'[p] = IF p = port THEN <<slot>> ELSE intrq[p]
          /\ \A p \in Ports : intrq'[p] # <<>> => p \in Over' /\ \E t \in Slots : intrq'[p] = <<t>>
      BY <2>2, <3>1, <3>2, <3>3, Armed
    <3>5. \A i \in Reports' : /\ i \in Nat /\ i + k \in Reports /\ evq'[i] = evq[i + k]
                              /\ hcPort'[evq'[i].slot] = hcPort[evq'[i].slot]
                              /\ intrq'[hcPort[evq'[i].slot]] = <<>>
      <4>1. \A i \in Reports' : evq'[i].slot = evq[i + k].slot /\ i + k \in Reports
        BY <2>3
      <4>2. \A i \in Reports : intrq'[hcPort[evq[i].slot]] = <<>>
        BY <1>2, <3>2, <3>4
      <4>3. QED BY <2>2, <2>3, <4>1, <4>2
    <3>6. QED BY <2>2, <3>2, <3>4, <3>5, ReportsKept
  <2>5. CASE ~Polls
    <3>1. UNCHANGED intrq /\ (NextPort \/ (UNCHANGED port))
      BY <2>1, <2>5
      DEF Continues, GiveUp, TakesSlot, AddressDevice, EntersDevice, DeviceAddressed, Asks, Parses,
          Request, Configures, ConfigureEndpoint
    <3>2. Over \subseteq Over'
      BY <2>2, <3>1, OverStays
    <3>3. QED BY <1>3, <2>2, <2>3, <3>1, <3>2
  <2>6. QED BY <2>4, <2>5
<1>5. CASE InitNextController
  <2>1. /\ pc = "controller" /\ UNCHANGED <<setup, port, intrq>> /\ evq' \in FirstEvents
    BY <1>5 DEF InitNextController
  <2>2. Reports' = {}
    BY <2>1 DEF Reports, FirstEvents
  <2>3. Over \subseteq Over'
    BY <2>1, OverStays
  <2>4. \A p \in Ports : intrq'[p] # <<>> => p \in Over' /\ \E s \in Slots : intrq'[p] = <<s>>
    BY <1>1, <2>1, <2>3
  <2>5. QED BY <2>1, <2>2, <2>3, <2>4, ReportsKept
<1>6. CASE EnableSlot
  <2>1. UNCHANGED <<setup, intrq, port, hcPort, evq>> /\ pc # "poll"
    BY <1>6 DEF EnableSlot, hc
  <2>2. Over \subseteq Over'
    BY <2>1, OverStays
  <2>3. \A i \in Reports' : i \in Nat /\ i + 0 \in Reports /\ evq'[i] = evq[i + 0]
    BY <2>1, Parts DEF Reports
  <2>4. QED BY <1>3, <2>1, <2>2, <2>3
<1>7. CASE HcCommand
  <2>1. PICK e \in Event : Answer(e) /\ (Grants(e) \/ Refuses(e) \/ Addresses \/ Wires)
    BY <1>7, CommandIsAnswered
  <2>2. UNCHANGED <<setup, intrq, pc, port>> /\ Post(e) /\ e.type = "command"
    BY <2>1 DEF Answer, program
  <2>3. \A s \in Wired : hcPort'[s] = hcPort[s]
    BY <2>1 DEF Grants, Refuses, Addresses, Wires, Wired
  <2>4. \A i \in Reports' : i \in Nat /\ i + 0 \in Reports /\ evq'[i] = evq[i + 0]
    BY <2>2, ReportsPosted
  <2>5. Over \subseteq Over'
    BY <2>2, OverStays
  <2>6. QED BY <1>3, <2>2, <2>3, <2>4, <2>5
<1>8. ASSUME NEW s \in Slots, HcControl(s) PROVE OneOwner'
  <2>1. UNCHANGED <<setup, intrq, pc, port, hcPort>>
    BY <1>8 DEF HcControl, ControlStage, program
  <2>2. PICK cc \in {1, 6} : Post(Transfer(s, 1, cc))
    BY <1>8 DEF HcControl
  <2>3. Transfer(s, 1, cc) \in Event /\ Transfer(s, 1, cc).ep = 1
    BY DEF Transfer, Event
  <2>4. \A i \in Reports' : i \in Nat /\ i + 0 \in Reports /\ evq'[i] = evq[i + 0]
    BY <2>2, <2>3, ReportsPosted
  <2>5. Over \subseteq Over'
    BY <2>1, OverStays
  <2>6. QED BY <1>3, <2>1, <2>4, <2>5
<1>9. ASSUME NEW s \in Slots, HcReport(s) PROVE OneOwner'
  <2>. DEFINE p == hcIntr[s]
  <2>1. /\ UNCHANGED <<setup, pc, port, hcPort>> /\ p # 0 /\ intrq[p] # <<>>
        /\ intrq' = [intrq EXCEPT ![p] = Tail(@)]
    BY <1>9 DEF HcReport, SendReport, program
  <2>2. PICK cc \in {1, 6} : Post(Transfer(s, 3, cc))
    BY <1>9 DEF HcReport
  <2>3. Transfer(s, 3, cc) \in Event /\ Transfer(s, 3, cc).slot = s
    BY DEF Transfer, Event
  <2>4. p = hcPort[s] /\ p \in Ports
    <3>1. hcIntr[s] = hcPort[s]
      BY <2>1 DEF EndpointsWired
    <3>2. hcIntr[s] \in Ports \union {0}
      OBVIOUS
    <3>3. QED BY <2>1, <3>1, <3>2
  <2>5. p \in Over
    BY <2>1, <2>4, PolledIsOver
  <2>6. Over \subseteq Over' /\ Ports' = Ports /\ Slots' = Slots
    BY <2>1, OverStays, MachineStays
  <2>7. /\ \A q \in Ports : intrq'[q] = IF q = p THEN <<>> ELSE intrq[q]
        /\ \A q \in Ports : intrq'[q] # <<>> => q \in Over' /\ \E t \in Slots : intrq'[q] = <<t>>
    BY <2>1, <2>4, <2>6, Disarmed
  <2>8. \A i \in Reports' : \/ i \in Reports /\ evq'[i] = evq[i]
                            \/ i = Len(evq) + 1 /\ evq'[i].slot = s
    BY <2>2, <2>3, ReportsPosted
  <2>9. \A i \in Reports : hcPort[evq[i].slot] # p
    BY <1>2, <2>1
  <2>. HIDE DEF p
  <2>10. \A q \in Ports' : intrq'[q] # <<>> => q \in Over' /\ \E t \in Slots' : intrq'[q] = <<t>>
    BY <2>6, <2>7
  <2>11. \A i \in Reports' : hcPort'[evq'[i].slot] \in Over' /\ intrq'[hcPort'[evq'[i].slot]] = <<>>
    <3>1. SUFFICES ASSUME NEW i \in Reports'
                   PROVE  hcPort'[evq'[i].slot] \in Over' /\ intrq'[hcPort'[evq'[i].slot]] = <<>>
      OBVIOUS
    <3>2. CASE i \in Reports /\ evq'[i] = evq[i]
      BY <1>2, <2>1, <2>6, <2>7, <3>2
    <3>3. CASE evq'[i].slot = s
      BY <2>1, <2>4, <2>5, <2>6, <2>7, <3>3
    <3>4. QED BY <2>8, <3>2, <3>3
  <2>12. \A i, j \in Reports' : hcPort'[evq'[i].slot] = hcPort'[evq'[j].slot] => i = j
    <3>1. SUFFICES ASSUME NEW i \in Reports', NEW j \in Reports',
                          hcPort[evq'[i].slot] = hcPort[evq'[j].slot]
                   PROVE  i = j
      BY <2>1
    <3>2. CASE /\ i \in Reports /\ evq'[i] = evq[i]
               /\ j \in Reports /\ evq'[j] = evq[j]
      BY <3>1, <3>2 DEF OneOwner
    <3>3. QED BY <2>4, <2>8, <2>9, <3>1, <3>2
  <2>13. QED BY <2>10, <2>11, <2>12 DEF OneOwner
<1>10. CASE DropEvent
  <2>1. UNCHANGED <<setup, intrq, pc, port, hcPort>> /\ evq # <<>> /\ evq' = Tail(evq)
    BY <1>10 DEF DropEvent, PollEvent, program, hc
  <2>2. PICK k \in {0, 1} : \A i \in Reports' : i \in Nat /\ i + k \in Reports /\ evq'[i] = evq[i + k]
    BY <2>1, ReportsTaken
  <2>3. Over \subseteq Over'
    BY <2>1, OverStays
  <2>4. QED BY <1>3, <2>1, <2>2, <2>3
<1>11. CASE PollEvents
  <2>0. \/ UNCHANGED intrq
        \/ /\ IsReport(Head(evq)) /\ g_devs[Head(evq).slot].ring # 0
           /\ intrq' = [intrq EXCEPT ![g_devs[Head(evq).slot].ring] = Append(@, Head(evq).slot)]
    BY <1>11, PollTakes, Zenon
  <2>1. UNCHANGED <<setup, pc, port, hcPort>> /\ evq # <<>> /\ evq' = Tail(evq)
    BY <1>11, PollTakes, Zenon
  <2>2. \A i \in Reports' : i \in Nat /\ i + 1 \in Reports /\ i + 1 # 1 /\ evq'[i] = evq[i + 1]
    BY <2>1, TailOf DEF Reports
  <2>3. Over \subseteq Over'
    BY <2>1, OverStays
  <2>4. CASE UNCHANGED intrq
    BY <1>3, <2>1, <2>2, <2>3, <2>4
  <2>5. CASE /\ IsReport(Head(evq)) /\ g_devs[Head(evq).slot].ring # 0
             /\ intrq' = [intrq EXCEPT ![g_devs[Head(evq).slot].ring] = Append(@, Head(evq).slot)]
    <3>. DEFINE s == evq[1].slot
                q == hcPort[s]
    <3>0. IsReport(Head(evq))
      BY <2>5
    <3>1. 1 \in Reports /\ Head(evq) = evq[1]
      BY <2>1, <3>0, TailOf DEF Reports, IsReport
    <3>2. q \in Over /\ q \in Ports /\ intrq[q] = <<>> /\ g_devs[s].ring = q /\ s \in Slots
      BY <1>2, <2>5, <3>1 DEF Wired
    <3>3. intrq' = [intrq EXCEPT ![q] = Append(@, s)]
      BY <2>5, <3>1, <3>2
    <3>4. \A i \in Reports' : hcPort[evq'[i].slot] # q /\ hcPort[evq'[i].slot] \in Ports
                              /\ intrq[hcPort[evq'[i].slot]] = <<>>
      BY <1>2, <2>2, <3>1 DEF OneOwner
    <3>5. Over \union {q} \subseteq Over' /\ UNCHANGED <<setup, hcPort>>
      BY <2>1, <2>3, <3>2
    <3>. HIDE DEF q, s
    <3>6. /\ \A p \in Ports : intrq'[p] = IF p = q THEN <<s>> ELSE intrq[p]
          /\ \A p \in Ports : intrq'[p] # <<>> => p \in Over' /\ \E t \in Slots : intrq'[p] = <<t>>
      BY <3>2, <3>3, <3>5, Armed
    <3>7. \A i \in Reports' : intrq'[hcPort[evq'[i].slot]] = <<>>
      BY <3>4, <3>6
    <3>8. \A i \in Reports' : /\ i \in Nat /\ i + 1 \in Reports /\ evq'[i] = evq[i + 1]
                              /\ hcPort'[evq'[i].slot] = hcPort[evq'[i].slot]
                              /\ intrq'[hcPort[evq'[i].slot]] = <<>>
      BY <2>2, <3>5, <3>7, Zenon
    <3>9. PICK k \in {0, 1} :
            \A i \in Reports' : /\ i \in Nat /\ i + k \in Reports /\ evq'[i] = evq[i + k]
                                /\ hcPort'[evq'[i].slot] = hcPort[evq'[i].slot]
                                /\ intrq'[hcPort[evq'[i].slot]] = <<>>
      BY <3>8
    <3>10. QED BY <2>3, <3>5, <3>6, <3>9, ReportsKept
  <2>6. QED BY <2>0, <2>4, <2>5, Zenon
<1>12. ASSUME NEW q \in Ports, EarlierReport(q) PROVE OneOwner'
  <2>1. /\ UNCHANGED <<setup, pc, port, hcPort, evq>> /\ intrq[q] # <<>>
        /\ intrq' = [intrq EXCEPT ![q] = Tail(@)]
    BY <1>12 DEF EarlierReport, SendReport, program
  <2>2. Over \subseteq Over'
    BY <2>1, OverStays
  <2>3. /\ \A p \in Ports : intrq'[p] = IF p = q THEN <<>> ELSE intrq[p]
        /\ \A p \in Ports : intrq'[p] # <<>> => p \in Over' /\ \E t \in Slots : intrq'[p] = <<t>>
    BY <2>1, <2>2, Disarmed
  <2>4. \A i \in Reports' : i \in Reports /\ evq'[i] = evq[i]
    BY <2>1 DEF Reports
  <2>5. \A i \in Reports : intrq'[hcPort[evq[i].slot]] = <<>>
    BY <1>2, <2>3
  <2>6. PICK k \in {0, 1} :
          \A i \in Reports' : /\ i \in Nat /\ i + k \in Reports /\ evq'[i] = evq[i + k]
                              /\ hcPort'[evq'[i].slot] = hcPort[evq'[i].slot]
                              /\ intrq'[hcPort[evq'[i].slot]] = <<>>
    BY <2>1, <2>4, <2>5
  <2>7. QED BY <2>1, <2>2, <2>3, <2>6, ReportsKept
<1>13. CASE UNCHANGED <<setup, intrq, pc, port, hcPort, evq>>
  <2>1. Over \subseteq Over'
    BY <1>13, OverStays
  <2>2. \A i \in Reports' : i \in Nat /\ i + 0 \in Reports /\ evq'[i] = evq[i + 0]
    BY <1>13, Parts DEF Reports
  <2>3. QED BY <1>3, <1>13, <2>1, <2>2
<1>14. CASE (\E p \in Ports : EarlierControl(p)) \/ UNCHANGED vars
  BY <1>13, <1>14 DEF EarlierControl, ControlStage, vars, program, hc
<1>15. QED
  BY <1>4, <1>5, <1>6, <1>7, <1>8, <1>9, <1>10, <1>11, <1>12, <1>14 DEF Next, Driver

-----------------------------------------------------------------------------
(* A step that brings no slot and port together that were not before. *)
LEMMA ClaimsKept ==
  ASSUME OneClaim, UNCHANGED setup, \A p \in Ports, s \in Slots : Claims(s, p)' => Claims(s, p)
  PROVE  OneClaim'
BY MachineStays DEF OneClaim

LEMMA ClaimStep ==
  TypeInv /\ PortsOnce /\ BufferInv /\ [Next]_vars => OneClaim'
<1>. SUFFICES ASSUME TypeInv, PortsOnce, ConfiguredIfAddressed, EndpointsWired, OneOwner, OneClaim, [Next]_vars
              PROVE  OneClaim'
  BY DEF BufferInv
<1>0. /\ setup \in Setups /\ port \in Ports /\ Ports \subseteq Nat \ {0}
      /\ evq \in Seq(Event) /\ cmdq \in Seq(Command) /\ TypeOK
      /\ pc \in Addressing => slot \in Slots
      /\ hcPort \in [Slots -> Ports \union {0}] /\ hcIntr \in [Slots -> Ports \union {0}]
  BY Parts DEF TypeInv
<1>. USE <1>0
<1>1. pc # "poll" => intrq[port] = <<>> /\ port \notin Over
  BY PolledIsOver DEF Over
(* A command that is no Address Device. *)
<1>2. ASSUME NEW c \in Command, c.op # "address", cmdq' = Append(cmdq, c), UNCHANGED <<setup, hcPort, intrq>>
      PROVE  OneClaim'
  <2>1. \A i \in DOMAIN cmdq' : cmdq'[i] = c \/ (i \in DOMAIN cmdq /\ cmdq'[i] = cmdq[i])
    BY <1>2, Pushed
  <2>2. \A p \in Ports, s \in Slots : Claims(s, p)' => Claims(s, p)
    BY <1>2, <2>1 DEF Claims
  <2>3. QED BY <1>2, <2>2, ClaimsKept
(* The driver gives the idle ring of a slot a TRB. *)
<1>3. ASSUME NEW s \in Slots, hcPort[s] # 0, intrq[hcPort[s]] = <<>>,
             intrq' = [intrq EXCEPT ![hcPort[s]] = Append(@, s)], UNCHANGED <<setup, hcPort, cmdq>>
      PROVE  OneClaim'
  <2>1. hcPort[s] \in Ports /\ intrq \in [Ports -> Seq(Slots)]
    BY <1>3, Parts
  <2>2. \A p \in Ports : intrq'[p] = IF p = hcPort[s] THEN <<s>> ELSE intrq[p]
    BY <1>3, <2>1, OneTrb
  <2>3. \A t \in Slots : <<t>> = <<s>> => t = s
    BY OneTrb
  <2>4. \A p \in Ports, t \in Slots : Claims(t, p)' => Claims(t, p)
    BY <1>3, <2>2, <2>3 DEF Claims
  <2>5. QED BY <1>3, <2>4, ClaimsKept
(* A controller takes the TRB of a ring. *)
<1>4. ASSUME NEW q \in Ports, intrq[q] # <<>>, intrq' = [intrq EXCEPT ![q] = Tail(@)],
             UNCHANGED <<setup, pc, port, hcPort, cmdq>>
      PROVE  OneClaim'
  <2>1. Over \subseteq Over'
    BY <1>4, OverStays
  <2>2. \A p \in Ports : intrq'[p] = IF p = q THEN <<>> ELSE intrq[p]
    BY <1>4, <2>1, Disarmed
  <2>3. \A t \in Slots : <<t>> # <<>>
    BY OneTrb
  <2>4. \A p \in Ports, t \in Slots : Claims(t, p)' => Claims(t, p)
    BY <1>4, <2>2, <2>3 DEF Claims
  <2>5. QED BY <1>4, <2>4, ClaimsKept
<1>5. CASE UNCHANGED <<setup, hcPort, cmdq, intrq>>
  BY <1>5, ClaimsKept DEF Claims
<1>6. CASE CommandCompletes \/ TransferCompletes \/ WaitTimesOut
  <2>1. WaitOver /\ Continues
    BY <1>6, WaitEnds
  <2>2. UNCHANGED <<setup, hcPort>> /\ pc # "poll"
    BY <2>1 DEF WaitOver, hc, Waits, CommandWaits
  <2>3. CASE Polls
    <3>1. g_devs[slot].ring = port /\ slot \in Slots /\ hcPort[slot] = port /\ UNCHANGED cmdq
          /\ intrq' = [intrq EXCEPT ![port] = Append(@, slot)]
      BY <2>3 DEF Polls, StartPolling, ConfiguredIfAddressed, Addressed, Addressing
    <3>2. QED BY <1>1, <1>3, <2>2, <3>1
  <2>4. CASE TakesSlot
    <3>1. Head(evq).slot \in Slots /\ pc = "enable"
      BY <2>4, TailOf, Fields DEF TakesSlot
    <3>2. PICK s \in Slots : AddressDevice(s)
      BY <2>4, <3>1 DEF TakesSlot
    <3>. DEFINE c == [op |-> "address", slot |-> s, port |-> port]
    <3>3. cmdq' = Append(cmdq, c) /\ c \in Command /\ UNCHANGED intrq
      BY <3>2 DEF AddressDevice, PushCommand, Command
    <3>4. \A i \in DOMAIN cmdq' : cmdq'[i] = c \/ (i \in DOMAIN cmdq /\ cmdq'[i] = cmdq[i])
      BY <3>3, Pushed
    <3>5. \A t \in Slots : ~Claims(t, port)
      <4>1. \A t \in Slots : hcPort[t] # port /\ intrq[port] # <<t>>
        BY <1>1, <2>2, <3>1, OneTrb DEF PortsOnce, Early
      <4>2. \A i \in DOMAIN cmdq : cmdq[i].op = "address" => cmdq[i].port # port
        BY <3>1 DEF PortsOnce, Early
      <4>3. QED BY <4>1, <4>2 DEF Claims
    <3>6. \A p \in Ports, t \in Slots : Claims(t, p)' => Claims(t, p) \/ (p = port /\ t = s)
      BY <2>2, <3>3, <3>4 DEF Claims
    <3>7. \A p \in Ports : \A t, u \in Slots : Claims(t, p)' /\ Claims(u, p)' => t = u
      BY <3>5, <3>6 DEF OneClaim
    <3>8. QED BY <2>2, <3>7, MachineStays DEF OneClaim
  <2>5. CASE Configures
    <3>1. /\ slot \in Slots /\ UNCHANGED intrq
          /\ cmdq' = Append(cmdq, [op |-> "configure", slot |-> slot, port |-> port])
      BY <2>5 DEF Configures, ConfigureEndpoint, PushCommand, Addressing
    <3>2. [op |-> "configure", slot |-> slot, port |-> port] \in Command
      BY <3>1 DEF Command
    <3>3. QED BY <1>2, <2>2, <3>1, <3>2
  <2>6. CASE GiveUp \/ EntersDevice \/ Parses \/ \E r \in Requests : Asks(r)
    BY <1>5, <2>2, <2>6 DEF GiveUp, EntersDevice, DeviceAddressed, Parses, Asks, Request
  <2>7. QED BY <2>1, <2>3, <2>4, <2>5, <2>6 DEF Continues
<1>7. CASE InitNextController
  <2>1. UNCHANGED <<setup, intrq>> /\ cmdq' = <<>> /\ \A s \in Slots : hcPort'[s] = 0
    BY <1>7 DEF InitNextController
  <2>2. \A p \in Ports, t \in Slots : Claims(t, p)' => Claims(t, p)
    BY <2>1 DEF Claims
  <2>3. QED BY <2>1, <2>2, ClaimsKept
<1>8. CASE EnableSlot
  <2>1. /\ UNCHANGED <<setup, intrq, hcPort>>
        /\ cmdq' = Append(cmdq, [op |-> "enable", slot |-> 0, port |-> port])
        /\ [op |-> "enable", slot |-> 0, port |-> port] \in Command
    BY <1>8 DEF EnableSlot, PushCommand, hc, Command
  <2>2. QED BY <1>2, <2>1
<1>9. CASE HcCommand
  <2>1. PICK e \in Event : Answer(e) /\ (Grants(e) \/ Refuses(e) \/ Addresses \/ Wires)
    BY <1>9, CommandIsAnswered
  <2>2. UNCHANGED <<setup, intrq>>
    BY <2>1 DEF Answer
  <2>3. /\ 1 \in DOMAIN cmdq /\ Head(cmdq) = cmdq[1]
        /\ \A i \in DOMAIN cmdq' : i + 1 \in DOMAIN cmdq /\ cmdq'[i] = cmdq[i + 1]
    BY <2>1, TailOf DEF Answer
  <2>4. \A s \in Slots :
          \/ hcPort'[s] = hcPort[s]
          \/ cmdq[1].op = "address" /\ cmdq[1].slot = s /\ hcPort'[s] = cmdq[1].port
    BY <2>1, <2>3 DEF Grants, Refuses, Addresses, Wires
  <2>5. \A p \in Ports, t \in Slots : Claims(t, p)' => Claims(t, p)
    BY <2>2, <2>3, <2>4 DEF Claims
  <2>6. QED BY <2>2, <2>5, ClaimsKept
<1>10. ASSUME NEW s \in Slots, HcReport(s) PROVE OneClaim'
  <2>1. /\ hcIntr[s] \in Ports /\ intrq[hcIntr[s]] # <<>> /\ intrq' = [intrq EXCEPT ![hcIntr[s]] = Tail(@)]
        /\ UNCHANGED <<setup, pc, port, hcPort, cmdq>>
    BY <1>10 DEF HcReport, SendReport, program
  <2>2. QED BY <1>4, <2>1
<1>11. ASSUME NEW p \in Ports, EarlierReport(p) PROVE OneClaim'
  <2>1. /\ intrq[p] # <<>> /\ intrq' = [intrq EXCEPT ![p] = Tail(@)]
        /\ UNCHANGED <<setup, pc, port, hcPort, cmdq>>
    BY <1>11 DEF EarlierReport, SendReport, program
  <2>2. QED BY <1>4, <2>1
<1>12. CASE PollEvents
  <2>. DEFINE s == Head(evq).slot
  <2>0. \/ UNCHANGED intrq
        \/ /\ IsReport(Head(evq)) /\ g_devs[s].ring # 0
           /\ intrq' = [intrq EXCEPT ![g_devs[s].ring] = Append(@, s)]
    BY <1>12, PollTakes, Zenon
  <2>1. UNCHANGED <<setup, hcPort, cmdq>> /\ evq # <<>>
    BY <1>12, PollTakes, Zenon
  <2>2. CASE UNCHANGED intrq
    BY <1>5, <2>1, <2>2
  <2>3. CASE /\ IsReport(Head(evq)) /\ g_devs[s].ring # 0
             /\ intrq' = [intrq EXCEPT ![g_devs[s].ring] = Append(@, s)]
    <3>0. IsReport(Head(evq))
      BY <2>3
    <3>1. 1 \in Reports /\ Head(evq) = evq[1]
      BY <2>1, <3>0, TailOf DEF Reports, IsReport
    <3>2. s \in Slots /\ s \in Wired /\ intrq[hcPort[s]] = <<>>
      BY <3>1 DEF EndpointsWired, OneOwner, Wired
    <3>3. g_devs[s].ring = hcPort[s] /\ hcPort[s] # 0
      BY <2>3, <3>2 DEF Wired
    <3>4. QED BY <1>3, <2>1, <2>3, <3>2, <3>3
  <2>4. QED BY <2>0, <2>2, <2>3, Zenon
<1>13. CASE DropEvent \/ (\E s \in Slots : HcControl(s)) \/ (\E p \in Ports : EarlierControl(p))
            \/ UNCHANGED vars
  BY <1>5, <1>13 DEF DropEvent, HcControl, EarlierControl, ControlStage, vars, hc
<1>14. QED
  BY <1>6, <1>7, <1>8, <1>9, <1>10, <1>11, <1>12, <1>13 DEF Next, Driver

LEMMA WrittenStep ==
  TypeInv /\ PortsOnce /\ BufferInv /\ [Next]_vars => Written'
<1>. SUFFICES ASSUME TypeInv, EndpointsWired, OneOwner, OneClaim, Written, [Next]_vars
              PROVE  Written'
  BY DEF BufferInv
<1>0. /\ setup \in Setups /\ evq \in Seq(Event) /\ TypeOK /\ Ports \subseteq Nat \ {0}
      /\ hcPort \in [Slots -> Ports \union {0}] /\ hcIntr \in [Slots -> Ports \union {0}]
      /\ report \in [Slots -> Ports \union {0}]
      /\ \A i \in Reports : evq[i].slot \in Slots /\ evq[i].slot \in Wired
  BY Parts, ReportSlots DEF TypeInv, EndpointsWired
<1>. USE <1>0
(* No report more, and what is known of those there are stays. *)
<1>1. ASSUME \A i \in Reports' : \E j \in Reports : evq'[i] = evq[j],
             \A i \in Reports : /\ hcPort'[evq[i].slot] = hcPort[evq[i].slot]
                                /\ \/ report'[evq[i].slot] = report[evq[i].slot]
                                   \/ report'[evq[i].slot] \in earlierIntr,
             UNCHANGED earlierIntr
      PROVE  Written'
  <2>1. SUFFICES ASSUME NEW i \in Reports', evq'[i].cc = 1
                 PROVE  \/ report'[evq'[i].slot] = hcPort'[evq'[i].slot]
                        \/ report'[evq'[i].slot] \in earlierIntr'
    BY DEF Written
  <2>2. PICK j \in Reports : evq'[i] = evq[j]
    BY <1>1
  <2>3. report[evq[j].slot] = hcPort[evq[j].slot] \/ report[evq[j].slot] \in earlierIntr
    BY <2>1, <2>2 DEF Written
  <2>4. QED BY <1>1, <2>2, <2>3
<1>2. CASE CommandCompletes \/ TransferCompletes \/ WaitTimesOut
  <2>1. WaitOver
    BY <1>2, WaitEnds
  <2>2. UNCHANGED <<hcPort, report, earlierIntr>>
    BY <2>1 DEF WaitOver, hc, earlier
  <2>3. \A i \in Reports' : \E j \in Reports : evq'[i] = evq[j]
    BY <2>1, ReportsTaken DEF WaitOver
  <2>4. QED BY <1>1, <2>2, <2>3
<1>3. CASE DropEvent \/ PollEvents
  <2>1. UNCHANGED <<hcPort, report, earlierIntr>> /\ evq # <<>> /\ evq' = Tail(evq)
    BY <1>3 DEF DropEvent, PollEvents, PollEvent, hc, earlier
  <2>2. \A i \in Reports' : \E j \in Reports : evq'[i] = evq[j]
    BY <2>1, ReportsTaken
  <2>3. QED BY <1>1, <2>1, <2>2
<1>4. CASE InitNextController
  <2>1. evq' \in FirstEvents
    BY <1>4 DEF InitNextController
  <2>2. Reports' = {}
    BY <2>1 DEF Reports, FirstEvents
  <2>3. QED BY <2>2 DEF Written
<1>5. CASE HcCommand
  <2>1. PICK e \in Event : Answer(e) /\ (Grants(e) \/ Refuses(e) \/ Addresses \/ Wires)
    BY <1>5, CommandIsAnswered
  <2>2. UNCHANGED <<report, earlierIntr>> /\ e.type = "command" /\ Post(e)
    BY <2>1 DEF Answer, earlier
  <2>3. \A s \in Wired : hcPort'[s] = hcPort[s]
    BY <2>1 DEF Grants, Refuses, Addresses, Wires, Wired
  <2>4. \A i \in Reports' : \E j \in Reports : evq'[i] = evq[j]
    BY <2>2, ReportsPosted
  <2>5. QED BY <1>1, <2>2, <2>3, <2>4
<1>6. ASSUME NEW s \in Slots, HcControl(s) PROVE Written'
  <2>1. UNCHANGED <<hcPort, report, earlierIntr>>
    BY <1>6 DEF HcControl, ControlStage, earlier
  <2>2. PICK cc \in {1, 6} : Post(Transfer(s, 1, cc))
    BY <1>6 DEF HcControl
  <2>3. Transfer(s, 1, cc) \in Event /\ Transfer(s, 1, cc).ep = 1
    BY DEF Transfer, Event
  <2>4. \A i \in Reports' : \E j \in Reports : evq'[i] = evq[j]
    BY <2>2, <2>3, ReportsPosted
  <2>5. QED BY <1>1, <2>1, <2>4
<1>7. ASSUME NEW s \in Slots, HcReport(s) PROVE Written'
  <2>. DEFINE p == hcPort[s]
  <2>1. PICK cc \in {1, 6} : SendReport(hcIntr[s], cc) /\ Post(Transfer(s, 3, cc))
    BY <1>7 DEF HcReport
  <2>2. hcIntr[s] = p /\ p \in Ports
    BY <1>7 DEF HcReport, EndpointsWired
  <2>3. intrq[p] # <<>> /\ UNCHANGED <<hcPort, earlierIntr>>
        /\ \/ cc = 1 /\ report' = [report EXCEPT ![Head(intrq[p])] = p]
           \/ cc = 6 /\ UNCHANGED report
    BY <2>1, <2>2 DEF SendReport, earlier
  <2>4. intrq[p] = <<s>>
    <3>1. PICK t \in Slots : intrq[p] = <<t>>
      BY <2>2, <2>3, PolledIsOver
    <3>2. Claims(t, p) /\ Claims(s, p)
      BY <3>1 DEF Claims
    <3>3. t = s
      BY <2>2, <3>2 DEF OneClaim
    <3>4. QED BY <3>1, <3>3
  <2>5. cc = 1 => report'[s] = p
    BY <2>3, <2>4, OneTrb
  <2>6. \A t \in Slots : t # s => report'[t] = report[t]
    BY <2>3, <2>4, OneTrb
  <2>7. \A i \in Reports : evq[i].slot # s
    BY <2>3 DEF OneOwner
  <2>8. /\ Transfer(s, 3, cc) \in Event /\ Transfer(s, 3, cc).slot = s
        /\ Transfer(s, 3, cc).cc = cc
    BY DEF Transfer, Event
  <2>9. \A i \in Reports' : \/ i \in Reports /\ evq'[i] = evq[i]
                            \/ evq'[i].slot = s /\ evq'[i].cc = cc
    BY <2>1, <2>8, ReportsPosted
  <2>10. SUFFICES ASSUME NEW i \in Reports', evq'[i].cc = 1
                  PROVE  \/ report'[evq'[i].slot] = hcPort'[evq'[i].slot]
                         \/ report'[evq'[i].slot] \in earlierIntr'
    BY DEF Written
  <2>11. CASE i \in Reports /\ evq'[i] = evq[i]
    <3>1. report[evq[i].slot] = hcPort[evq[i].slot] \/ report[evq[i].slot] \in earlierIntr
      BY <2>10, <2>11 DEF Written
    <3>2. report'[evq[i].slot] = report[evq[i].slot]
      BY <2>6, <2>7, <2>11
    <3>3. QED BY <2>3, <2>11, <3>1, <3>2
  <2>12. CASE evq'[i].slot = s /\ evq'[i].cc = cc
    BY <2>3, <2>5, <2>10, <2>12
  <2>13. QED BY <2>9, <2>11, <2>12
<1>8. ASSUME NEW p \in Ports, EarlierReport(p) PROVE Written'
  <2>1. PICK cc \in {1, 6} : SendReport(p, cc) /\ p \in earlierIntr /\ UNCHANGED evq
    BY <1>8 DEF EarlierReport
  <2>2. UNCHANGED <<hcPort, earlierIntr>>
        /\ (report' = [report EXCEPT ![Head(intrq[p])] = p] \/ UNCHANGED report)
    BY <2>1 DEF SendReport, earlier
  <2>3. \A t \in Slots : report'[t] = report[t] \/ report'[t] \in earlierIntr
    BY <2>1, <2>2
  <2>4. \A i \in Reports' : \E j \in Reports : evq'[i] = evq[j]
    BY <2>1 DEF Reports
  <2>5. QED BY <1>1, <2>2, <2>3, <2>4
<1>9. CASE EnableSlot \/ (\E p \in Ports : EarlierControl(p)) \/ UNCHANGED vars
  <2>1. UNCHANGED <<hcPort, report, earlierIntr, evq>>
    BY <1>9 DEF EnableSlot, EarlierControl, ControlStage, vars, hc, earlier
  <2>2. \A i \in Reports' : \E j \in Reports : evq'[i] = evq[j]
    BY <2>1 DEF Reports
  <2>3. QED BY <1>1, <2>1, <2>2
<1>10. QED
  BY <1>2, <1>3, <1>4, <1>5, <1>6, <1>7, <1>8, <1>9 DEF Next, Driver

-----------------------------------------------------------------------------
(* Counting what OneOwner says without counting.                           *)
LEMMA OneBuffer == TypeInv /\ EndpointsWired /\ OneOwner /\ OneClaim => OneReportBuffer
<1>. SUFFICES ASSUME TypeInv, EndpointsWired, OneOwner, OneClaim PROVE OneReportBuffer
  OBVIOUS
<1>1. ASSUME NEW p \in Ports PROVE Len(intrq[p]) <= 1
  <2>1. CASE intrq[p] = <<>>
    BY <2>1
  <2>2. CASE intrq[p] # <<>>
    <3>1. PICK s \in Slots : intrq[p] = <<s>>
      BY <2>2, PolledIsOver
    <3>2. Len(intrq[p]) = 1
      BY <3>1, OneTrb
    <3>3. QED BY <3>2
  <2>3. QED BY <2>1, <2>2
<1>2. ASSUME NEW b \in Slots PROVE Cardinality(ArmedFor(b)) + Cardinality(ReportsInto(b)) <= 1
  <2>1. ArmedFor(b) \subseteq {b}
    <3>1. SUFFICES ASSUME NEW s \in ArmedFor(b) PROVE s = b
      OBVIOUS
    <3>2. PICK i \in DOMAIN intrq[hcPort[s]] : intrq[hcPort[s]][i] = b
      BY DEF ArmedFor
    <3>3. s \in Slots /\ hcPort[s] \in Ports
      BY Parts DEF ArmedFor
    <3>4. CASE intrq[hcPort[s]] = <<>>
      BY <3>2, <3>4
    <3>5. CASE intrq[hcPort[s]] # <<>>
      <4>1. PICK t \in Slots : intrq[hcPort[s]] = <<t>>
        BY <3>3, <3>5, PolledIsOver
      <4>2. t = b
        BY <3>2, <4>1, OneTrb
      <4>3. Claims(s, hcPort[s]) /\ Claims(t, hcPort[s])
        BY <4>1 DEF Claims
      <4>4. QED BY <3>3, <4>2, <4>3 DEF OneClaim
    <3>6. QED BY <3>4, <3>5
  <2>2. ReportsInto(b) # {} => ArmedFor(b) = {}
    <3>1. SUFFICES ASSUME NEW i \in ReportsInto(b) PROVE b \notin ArmedFor(b)
      BY <2>1
    <3>2. intrq[hcPort[b]] = <<>>
      BY DEF ReportsInto, OneOwner
    <3>3. QED BY <3>2 DEF ArmedFor
  <2>3. \A i, j \in ReportsInto(b) : i = j
    BY DEF ReportsInto, OneOwner
  <2>4. CASE ReportsInto(b) = {}
    <3>1. Cardinality(ReportsInto(b)) = 0
      BY <2>4, FS_EmptySet
    <3>2. ArmedFor(b) = {} \/ ArmedFor(b) = {b}
      BY <2>1
    <3>3. Cardinality(ArmedFor(b)) \in {0, 1}
      BY <3>2, FS_EmptySet, FS_Singleton
    <3>4. QED BY <3>1, <3>3
  <2>5. CASE ReportsInto(b) # {}
    <3>1. PICK i : ReportsInto(b) = {i}
      BY <2>3, <2>5
    <3>2. Cardinality(ReportsInto(b)) = 1
      BY <3>1, FS_Singleton
    <3>3. Cardinality(ArmedFor(b)) = 0
      BY <2>2, <2>5, FS_EmptySet
    <3>4. QED BY <3>2, <3>3
  <2>6. QED BY <2>4, <2>5
<1>3. QED BY <1>1, <1>2 DEF OneReportBuffer

-----------------------------------------------------------------------------
Answers == {i \in DOMAIN evq : evq[i].type = "command"}

(* The command that is waited for is with the controller or answered. *)
OneCommand ==
  IF pc \in CommandWaits
  THEN \/ Len(cmdq) = 1 /\ Answers = {}
       \/ cmdq = <<>> /\ \E i \in DOMAIN evq : Answers = {i}
  ELSE cmdq = <<>> /\ Answers = {}

(* What it says, and what its answer says. *)
CommandMeant ==
  \A i \in DOMAIN cmdq :
    /\ cmdq[i].op = pc
    /\ pc # "enable" => cmdq[i].slot = slot /\ cmdq[i].port = port
    /\ pc = "address" => slot \in enabled /\ hcPort[slot] = 0

AnswerMeant ==
  \A i \in Answers :
    /\ pc = "enable" /\ evq[i].slot # 0 => evq[i].slot \in enabled /\ hcPort[evq[i].slot] = 0
    /\ pc = "address" /\ evq[i].cc = 1 => hcPort[slot] = port

(* The slot of the port that is brought up. *)
OwnSlot ==
  /\ pc = "address" => dcbaa[slot] = port
  /\ pc \in {"control", "configure"} => g_devs[slot].port = port /\ hcPort[slot] = port

(* What the controller knows of a slot is in the DCBAA ... *)
ContextsAgree == \A s \in Slots : hcPort[s] # 0 => dcbaa[s] = hcPort[s]

OneSlotEach == \A s, t \in Slots : hcPort[s] = hcPort[t] /\ hcPort[s] # 0 => s = t

(* ... and in the device table, ... *)
TableAgrees ==
  \A s \in Slots :
    g_devs[s].port # 0 /\ Controller(g_devs[s].port) = Controller(port) => g_devs[s].port = hcPort[s]

(* ... and what reports is in the table. *)
Polling ==
  /\ \A s \in Slots : hcIntr[s] # 0 => g_devs[s].port = hcPort[s] /\ g_devs[s].ring = hcIntr[s]
  /\ \A i \in Reports : g_devs[evq[i].slot].port = hcPort[evq[i].slot]

Agreed ==
  /\ OneCommand /\ CommandMeant /\ AnswerMeant
  /\ OwnSlot /\ ContextsAgree /\ OneSlotEach /\ TableAgrees /\ Polling

AgreeInv == ~lost => Agreed

(* The invariant: the state is well formed, no port is brought up twice,   *)
(* reports have one owner, and unless a command wait has timed out, driver *)
(* and controller agree.                                                   *)
IInv == TypeInv /\ PortsOnce /\ BufferInv /\ AgreeInv

LEMMA AnswersTaken ==
  ASSUME TypeInv, evq # <<>>, evq' = Tail(evq)
  PROVE  /\ \A j \in Answers' : j + 1 \in Answers /\ evq'[j] = evq[j + 1]
         /\ \A i \in Answers : i # 1 => i - 1 \in Answers'
         /\ Head(evq).type = "command" => 1 \in Answers /\ evq[1] = Head(evq)
         /\ Head(evq).type # "command" => 1 \notin Answers
         /\ \A i \in DOMAIN evq : /\ Answers = {i} /\ Head(evq).type = "command" => Answers' = {}
                                  /\ Answers = {i} /\ Head(evq).type # "command" => Answers' = {i - 1}
<1>1. evq \in Seq(Event) /\ DOMAIN evq \subseteq Nat
  BY Parts
<1>2. /\ 1 \in DOMAIN evq /\ Head(evq) = evq[1]
      /\ \A j \in DOMAIN evq' : j \in Nat /\ j + 1 \in DOMAIN evq /\ evq'[j] = evq[j + 1] /\ j + 1 # 1
      /\ \A i \in DOMAIN evq : i \in Nat /\ (i # 1 => i - 1 \in DOMAIN evq')
  BY <1>1, TailOf
<1>3. \A j \in Answers' : j \in Nat /\ j + 1 \in Answers /\ evq'[j] = evq[j + 1] /\ j + 1 # 1
  BY <1>2 DEF Answers
<1>4. \A i \in Answers : i # 1 => i - 1 \in Answers'
  <2>1. SUFFICES ASSUME NEW i \in Answers, i # 1 PROVE i - 1 \in Answers'
    OBVIOUS
  <2>2. i \in DOMAIN evq /\ i - 1 \in DOMAIN evq' /\ (i - 1) + 1 = i
    BY <1>2, <2>1 DEF Answers
  <2>3. QED BY <1>2, <2>2 DEF Answers
<1>5. /\ Head(evq).type = "command" => 1 \in Answers /\ evq[1] = Head(evq)
      /\ Head(evq).type # "command" => 1 \notin Answers
  BY <1>2 DEF Answers
<1>6. ASSUME NEW i \in DOMAIN evq, Answers = {i}, Head(evq).type = "command" PROVE Answers' = {}
  BY <1>3, <1>5, <1>6
<1>7. ASSUME NEW i \in DOMAIN evq, Answers = {i}, Head(evq).type # "command" PROVE Answers' = {i - 1}
  <2>1. i # 1 /\ i - 1 \in Answers'
    BY <1>4, <1>5, <1>7
  <2>2. \A j \in Answers' : j \in Nat /\ j + 1 = i
    BY <1>3, <1>7
  <2>3. QED BY <1>2, <2>1, <2>2
<1>8. QED BY <1>3, <1>4, <1>5, <1>6, <1>7

LEMMA AnswersPosted ==
  ASSUME TypeInv, NEW e \in Event, Post(e)
  PROVE  /\ e.type # "command" => Answers' = Answers /\ \A i \in Answers : evq'[i] = evq[i]
         /\ DOMAIN evq \subseteq DOMAIN evq' /\ Len(evq) + 1 \in DOMAIN evq'
         /\ e.type = "command" /\ Answers = {} => Answers' = {Len(evq) + 1}
         /\ evq'[Len(evq) + 1] = e
<1>1. evq \in Seq(Event) /\ evq' = Append(evq, e)
  BY Parts DEF Post
<1>2. /\ Len(evq) + 1 \in DOMAIN evq' /\ evq'[Len(evq) + 1] = e
      /\ \A i \in DOMAIN evq' : i # Len(evq) + 1 => i \in DOMAIN evq /\ evq'[i] = evq[i]
      /\ \A i \in DOMAIN evq : i # Len(evq) + 1 /\ i \in DOMAIN evq'
  BY <1>1, AppendOf
<1>3. QED BY <1>2 DEF Answers

-----------------------------------------------------------------------------
LEMMA Starts == Init => IInv
<1>. SUFFICES ASSUME Init PROVE IInv
  OBVIOUS
<1>1. TypeInv
  BY TypeInit
<1>2. /\ pc = "port" /\ port = 1 /\ slot = 0 /\ cmdq = <<>> /\ evq \in FirstEvents
      /\ \A s \in Slots : /\ hcPort[s] = 0 /\ hcIntr[s] = 0
                          /\ g_devs[s].port = 0 /\ g_devs[s].ring = 0
      /\ \A p \in Ports : buf[p] = "zero" /\ intrq[p] = <<>>
      /\ Ports \subseteq Nat \ {0} /\ earlierEp0 = {}
  BY <1>1, Parts DEF Init, NoDevice
<1>3. Reports = {} /\ Answers = {}
  BY <1>2 DEF Reports, Answers, FirstEvents
<1>4. PortsOnce
  BY <1>2 DEF PortsOnce
<1>5. BufferInv
  <2>1. ConfiguredIfAddressed /\ EndpointsWired /\ OneOwner /\ Written
    BY <1>2, <1>3 DEF ConfiguredIfAddressed, EndpointsWired, OneOwner, Written
  <2>2. OneClaim
    BY <1>2 DEF OneClaim, Claims
  <2>3. QED BY <2>1, <2>2 DEF BufferInv
<1>6. Agreed
  BY <1>2, <1>3
  DEF Agreed, OneCommand, CommandMeant, AnswerMeant, OwnSlot, ContextsAgree, OneSlotEach, TableAgrees,
      Polling, CommandWaits
<1>7. QED BY <1>1, <1>4, <1>5, <1>6 DEF IInv, AgreeInv

(* The queues after an event was taken, added or dropped, and the rest the *)
(* same.                                                                   *)
LEMMA AgreedKept ==
  ASSUME TypeInv, Agreed, UNCHANGED <<setup, pc, port, slot, g_devs, dcbaa, cmdq, enabled, hcPort>>,
         \A s \in Slots : hcIntr'[s] \in {0, hcIntr[s]},
         \A j \in Answers' : \E i \in Answers : evq'[j] = evq[i],
         \A i \in DOMAIN evq : Answers = {i} => \E j \in DOMAIN evq' : Answers' = {j},
         \A j \in Reports' : \/ \E i \in Reports : evq'[j] = evq[i]
                             \/ evq'[j].slot \in Slots /\ hcIntr[evq'[j].slot] # 0
  PROVE  Agreed'
<1>1. Slots' = Slots
  BY MachineStays
<1>2. OneCommand'
  BY DEF Agreed, OneCommand
<1>3. CommandMeant'
  BY DEF Agreed, CommandMeant
<1>4. AnswerMeant'
  BY DEF Agreed, AnswerMeant
<1>5. OwnSlot' /\ ContextsAgree' /\ OneSlotEach'
  BY <1>1 DEF Agreed, OwnSlot, ContextsAgree, OneSlotEach
<1>6. TableAgrees'
  BY <1>1 DEF Agreed, TableAgrees, Controller
<1>7. Polling'
  BY <1>1 DEF Agreed, Polling
<1>8. QED BY <1>2, <1>3, <1>4, <1>5, <1>6, <1>7 DEF Agreed

(* After a wait nothing is under way, and what was taken is the answer to  *)
(* what the driver waited for.                                             *)
LEMMA QueuesIdle ==
  ASSUME TypeInv, OneCommand, WaitOver, ~lost'
  PROVE  /\ cmdq = <<>> /\ Answers' = {}
         /\ pc \in CommandWaits => 1 \in Answers /\ evq[1] = Head(evq)
<1>1. CASE pc = "control"
  <2>1. cmdq = <<>> /\ Answers = {} /\ pc \notin CommandWaits
    BY <1>1 DEF OneCommand, CommandWaits
  <2>2. CASE evq' = evq
    BY <2>1, <2>2 DEF Answers
  <2>3. CASE evq # <<>> /\ evq' = Tail(evq)
    BY <2>1, <2>3, AnswersTaken
  <2>4. QED BY <2>1, <2>2, <2>3 DEF WaitOver
<1>2. CASE pc # "control"
  <2>1. /\ pc \in CommandWaits /\ evq # <<>> /\ evq' = Tail(evq)
        /\ Head(evq).type = "command"
    BY <1>2 DEF WaitOver, Waits
  <2>2. 1 \in Answers /\ evq[1] = Head(evq)
    BY <2>1, AnswersTaken
  <2>3. cmdq = <<>> /\ \E i \in DOMAIN evq : Answers = {i}
    BY <2>1, <2>2 DEF OneCommand
  <2>4. QED BY <2>1, <2>2, <2>3, AnswersTaken
<1>3. QED BY <1>1, <1>2

(* The one command that is given after that. *)
LEMMA OnePushed ==
  ASSUME TypeInv, cmdq = <<>>, NEW c \in Command, cmdq' = Append(cmdq, c)
  PROVE  Len(cmdq') = 1 /\ DOMAIN cmdq' = {1} /\ cmdq'[1] = c
<1>1. cmdq \in Seq(Command) /\ Len(cmdq) = 0
  BY Parts
<1>2. Len(cmdq') = 1 /\ cmdq'[1] = c /\ cmdq' \in Seq(Command)
  BY <1>1, AppendOf
<1>3. DOMAIN cmdq' = 1 .. 1
  BY <1>2, LenProperties
<1>4. QED BY <1>2, <1>3

LEMMA AgreedContinues ==
  ASSUME TypeInv, PortsOnce, ConfiguredIfAddressed, EndpointsWired, Agreed,
         WaitOver, Continues, ~lost'
  PROVE  Agreed'
<1>0. /\ setup \in Setups /\ port \in Ports /\ Ports \subseteq Nat \ {0} /\ evq \in Seq(Event)
      /\ pc \in Addressing => slot \in Slots
      /\ \A s \in Slots : hcPort[s] \in Ports \union {0} /\ g_devs[s].port \in Ports \union {0}
      /\ DOMAIN dcbaa = Slots
  BY Parts DEF TypeInv, TypeOK
<1>1. /\ UNCHANGED <<setup, enabled, hcPort, hcIntr>> /\ Ports' = Ports /\ Slots' = Slots
  BY MachineStays DEF WaitOver, hc
<1>2. /\ cmdq = <<>> /\ Answers' = {}
      /\ pc \in CommandWaits => 1 \in Answers /\ evq[1] = Head(evq)
  BY QueuesIdle DEF Agreed
<1>3. \A i \in Reports' : evq'[i].slot \in Slots /\ \E j \in Reports : evq'[i] = evq[j]
  BY ReportsTaken, ReportSlots DEF WaitOver
<1>. USE <1>0, <1>1, <1>2, <1>3
<1>4. OneSlotEach'
  BY DEF Agreed, OneSlotEach
<1>5. ASSUME NextPort, UNCHANGED <<cmdq, g_devs, dcbaa>> PROVE Agreed'
  <2>1. pc' \in {"port", "controller", "poll"} /\ (port' = port \/ (port' = port + 1 /\ port + 1 \in Ports))
    BY <1>5, NextPortTyped
  <2>2. OneCommand' /\ CommandMeant' /\ AnswerMeant' /\ OwnSlot' /\ ContextsAgree'
    BY <1>5, <2>1 DEF Agreed, OneCommand, CommandMeant, AnswerMeant, OwnSlot, ContextsAgree, CommandWaits
  <2>3. Polling'
    BY <1>5 DEF Agreed, Polling
  <2>4. TableAgrees'
    <3>1. SUFFICES ASSUME NEW s \in Slots, g_devs[s].port # 0,
                          setup.controller[g_devs[s].port] = setup.controller[port']
                   PROVE  g_devs[s].port = hcPort[s]
      BY <1>5 DEF TableAgrees, Controller
    <3>2. Controller(g_devs[s].port) = Controller(port)
      <4>1. CASE port' = port
        BY <3>1, <4>1 DEF Controller
      <4>2. CASE port' = port + 1 /\ port + 1 \in Ports
        <5>1. g_devs[s].port \in Ports /\ g_devs[s].port <= port
          BY <3>1 DEF PortsOnce
        <5>2. port <= port + 1
          OBVIOUS
        <5>3. /\ Controller(g_devs[s].port) <= Controller(port)
              /\ Controller(port) <= Controller(port + 1)
              /\ Controller(g_devs[s].port) \in Nat /\ Controller(port) \in Nat
          BY <4>2, <5>1, <5>2, Machine
        <5>4. Controller(g_devs[s].port) = Controller(port + 1)
          BY <3>1, <4>2 DEF Controller
        <5>5. QED BY <5>3, <5>4
      <4>3. QED BY <2>1, <4>1, <4>2
    <3>3. QED BY <3>1, <3>2 DEF Agreed, TableAgrees
  <2>5. QED BY <1>4, <2>2, <2>3, <2>4 DEF Agreed
<1>6. CASE GiveUp \/ Polls
  BY <1>5, <1>6 DEF GiveUp, Polls, memory
<1>7. CASE TakesSlot
  <2>1. Head(evq).slot \in Slots /\ pc = "enable" /\ Head(evq).slot # 0
    BY <1>7, TailOf, Fields DEF TakesSlot
  <2>2. PICK s \in Slots : s = Head(evq).slot /\ AddressDevice(s)
    BY <1>7, <2>1 DEF TakesSlot
  <2>3. s \in enabled /\ hcPort[s] = 0
    BY <2>1, <2>2 DEF Agreed, AnswerMeant, CommandWaits
  <2>4. /\ pc' = "address" /\ slot' = s /\ UNCHANGED <<port, g_devs>>
        /\ dcbaa' = [dcbaa EXCEPT ![s] = port]
        /\ cmdq' = Append(cmdq, [op |-> "address", slot |-> s, port |-> port])
        /\ [op |-> "address", slot |-> s, port |-> port] \in Command
    BY <2>2 DEF AddressDevice, PushCommand, Command
  <2>5. /\ Len(cmdq') = 1 /\ DOMAIN cmdq' = {1}
        /\ cmdq'[1] = [op |-> "address", slot |-> s, port |-> port]
    BY <2>4, OnePushed
  <2>6. OneCommand' /\ CommandMeant' /\ AnswerMeant'
    BY <2>3, <2>4, <2>5 DEF OneCommand, CommandMeant, AnswerMeant, CommandWaits
  <2>7. OwnSlot' /\ ContextsAgree'
    BY <2>3, <2>4 DEF Agreed, OwnSlot, ContextsAgree
  <2>8. TableAgrees'
    BY <2>4 DEF Agreed, TableAgrees, Controller
  <2>9. Polling'
    BY <2>4 DEF Agreed, Polling
  <2>10. QED BY <1>4, <2>6, <2>7, <2>8, <2>9 DEF Agreed
<1>8. CASE EntersDevice
  <2>1. /\ pc = "address" /\ pc' = "control" /\ slot \in Slots /\ Head(evq).cc = 1
        /\ UNCHANGED <<port, slot, cmdq, dcbaa>>
    BY <1>8 DEF EntersDevice, DeviceAddressed, Request, Addressing
  <2>2. hcPort[slot] = port
    BY <2>1 DEF Agreed, AnswerMeant, CommandWaits
  <2>3. g_devs[slot].port # port
    BY <2>1, Numbers DEF PortsOnce
  <2>4. hcIntr[slot] = 0 /\ \A i \in Reports' : evq'[i].slot # slot
    BY <2>1, <2>2, <2>3 DEF Agreed, Polling
  <2>5. \A s \in Slots : /\ g_devs'[s].port = IF s = slot THEN port ELSE g_devs[s].port
                         /\ s # slot => g_devs'[s].ring = g_devs[s].ring
    BY <1>8, <2>1, TableStep DEF Configures
  <2>6. OneCommand' /\ CommandMeant' /\ AnswerMeant' /\ OwnSlot' /\ ContextsAgree'
    BY <2>1, <2>2, <2>5
    DEF Agreed, OneCommand, CommandMeant, AnswerMeant, OwnSlot, ContextsAgree, CommandWaits
  <2>7. TableAgrees'
    BY <2>1, <2>2, <2>5 DEF Agreed, TableAgrees, Controller
  <2>8. Polling'
    BY <2>1, <2>4, <2>5 DEF Agreed, Polling
  <2>9. QED BY <1>4, <2>6, <2>7, <2>8 DEF Agreed
<1>9. CASE Configures
  <2>1. /\ pc = "control" /\ pc' = "configure" /\ slot \in Slots
        /\ UNCHANGED <<port, slot, dcbaa>>
        /\ cmdq' = Append(cmdq, [op |-> "configure", slot |-> slot, port |-> port])
        /\ [op |-> "configure", slot |-> slot, port |-> port] \in Command
    BY <1>9 DEF Configures, ConfigureEndpoint, PushCommand, Addressing, Command
  <2>2. /\ Len(cmdq') = 1 /\ DOMAIN cmdq' = {1}
        /\ cmdq'[1] = [op |-> "configure", slot |-> slot, port |-> port]
    BY <2>1, OnePushed
  <2>3. hcPort[slot] = port /\ g_devs[slot].port = port
    BY <2>1 DEF Agreed, OwnSlot
  <2>4. \A s \in Slots : /\ g_devs'[s].port = g_devs[s].port
                         /\ g_devs'[s].ring = IF s = slot THEN port ELSE g_devs[s].ring
    BY <1>9, <2>1, TableStep DEF EntersDevice
  <2>5. OneCommand' /\ CommandMeant' /\ AnswerMeant'
    BY <2>1, <2>2 DEF OneCommand, CommandMeant, AnswerMeant, CommandWaits
  <2>6. OwnSlot' /\ ContextsAgree'
    BY <2>1, <2>3, <2>4 DEF Agreed, OwnSlot, ContextsAgree
  <2>7. TableAgrees'
    BY <2>1, <2>4 DEF Agreed, TableAgrees, Controller
  <2>8. Polling'
    BY <2>3, <2>4 DEF Agreed, Polling, EndpointsWired
  <2>9. QED BY <1>4, <2>5, <2>6, <2>7, <2>8 DEF Agreed
<1>10. CASE Parses \/ \E r \in Requests : Asks(r)
  <2>1. /\ pc = "control" /\ pc' = "control" /\ slot \in Slots
        /\ UNCHANGED <<port, slot, dcbaa, cmdq>>
    BY <1>10 DEF Parses, Asks, Request, Addressing
  <2>2. \A s \in Slots : g_devs'[s].port = g_devs[s].port /\ g_devs'[s].ring = g_devs[s].ring
    BY <1>10, <2>1, TableStep DEF EntersDevice, Configures, ConfigureEndpoint
  <2>3. OneCommand' /\ CommandMeant' /\ AnswerMeant' /\ OwnSlot' /\ ContextsAgree'
    BY <2>1, <2>2
    DEF Agreed, OneCommand, CommandMeant, AnswerMeant, OwnSlot, ContextsAgree, CommandWaits
  <2>4. TableAgrees'
    BY <2>1, <2>2 DEF Agreed, TableAgrees, Controller
  <2>5. Polling'
    BY <2>2 DEF Agreed, Polling
  <2>6. QED BY <1>4, <2>3, <2>4, <2>5 DEF Agreed
<1>11. QED BY <1>6, <1>7, <1>8, <1>9, <1>10 DEF Continues

LEMMA AgreedAnswered ==
  ASSUME TypeInv, PortsOnce, ConfiguredIfAddressed, EndpointsWired, Agreed, HcCommand
  PROVE  Agreed'
<1>1. PICK e \in Event : Answer(e) /\ (Grants(e) \/ Refuses(e) \/ Addresses \/ Wires)
  BY CommandIsAnswered DEF TypeInv
<1>0. /\ pc \in Addressing => slot \in Slots
      /\ hcPort \in [Slots -> Ports \union {0}] /\ hcIntr \in [Slots -> Ports \union {0}]
      /\ cmdq \in Seq(Command) /\ Ports \subseteq Nat \ {0} /\ port \in Ports
      /\ \A i \in Reports : evq[i].slot \in Slots
  BY Parts, ReportSlots
<1>. USE <1>0
<1>2. /\ UNCHANGED <<setup, pc, port, slot, g_devs, dcbaa>> /\ Slots' = Slots
      /\ e.type = "command" /\ Post(e) /\ cmdq # <<>> /\ cmdq' = Tail(cmdq)
  BY <1>1, MachineStays DEF Answer, program, memory
<1>3. pc \in CommandWaits /\ Len(cmdq) = 1 /\ Answers = {}
  BY <1>2 DEF Agreed, OneCommand
<1>4. cmdq' = <<>> /\ Head(cmdq) = cmdq[1] /\ 1 \in DOMAIN cmdq
  <2>1. cmdq' \in Seq(Command) /\ Len(cmdq') = 0
    BY <1>2, <1>3, TailOf
  <2>2. QED BY <1>2, <2>1, TailOf, EmptySeq
<1>5. \E i \in DOMAIN evq' : Answers' = {i} /\ evq'[i] = e
  BY <1>2, <1>3, AnswersPosted
<1>6. \A i \in Reports' : evq'[i].slot \in Slots /\ \E j \in Reports : evq'[i] = evq[j]
  BY <1>2, ReportsPosted
<1>7. /\ Head(cmdq).op = pc
      /\ pc # "enable" => Head(cmdq).slot = slot /\ Head(cmdq).port = port /\ slot \in Slots
  BY <1>3, <1>4 DEF Agreed, CommandMeant, CommandWaits, Addressing
<1>8. OneCommand' /\ CommandMeant'
  BY <1>2, <1>3, <1>4, <1>5 DEF OneCommand, CommandMeant
<1>9. CASE Grants(e) \/ Refuses(e)
  <2>1. UNCHANGED <<hcPort, hcIntr>>
    BY <1>9 DEF Grants, Refuses
  <2>2. pc = "enable" /\ e.slot # 0 => e.slot \in enabled' /\ hcPort[e.slot] = 0
    BY <1>7, <1>9 DEF Grants, Refuses, PortsOnce
  <2>3. pc = "address" => e.cc # 1
    BY <1>7, <1>9 DEF Grants, Refuses
  <2>4. AnswerMeant'
    BY <1>2, <1>5, <2>1, <2>2, <2>3 DEF AnswerMeant
  <2>5. OwnSlot' /\ ContextsAgree' /\ OneSlotEach'
    BY <1>2, <2>1 DEF Agreed, OwnSlot, ContextsAgree, OneSlotEach
  <2>6. TableAgrees'
    BY <1>2, <2>1 DEF Agreed, TableAgrees, Controller
  <2>7. Polling'
    BY <1>2, <1>6, <2>1 DEF Agreed, Polling
  <2>8. QED BY <1>8, <2>4, <2>5, <2>6, <2>7 DEF Agreed
<1>10. CASE Addresses
  <2>1. /\ pc = "address" /\ slot \in Slots /\ hcPort[slot] = 0 /\ UNCHANGED hcIntr
        /\ hcPort' = [hcPort EXCEPT ![slot] = port]
    BY <1>7, <1>10 DEF Addresses
  <2>2. \A s \in Slots : hcPort'[s] = IF s = slot THEN port ELSE hcPort[s]
    BY <2>1
  <2>3. hcIntr[slot] = 0 /\ \A i \in Reports : evq[i].slot # slot
    BY <2>1 DEF EndpointsWired, Wired
  <2>4. \A s \in Slots : s # slot => hcPort[s] # port
    BY DEF PortsOnce
  <2>5. AnswerMeant' /\ OwnSlot'
    BY <1>2, <2>1, <2>2 DEF Agreed, AnswerMeant, OwnSlot
  <2>6. ContextsAgree'
    BY <1>2, <2>1, <2>2 DEF Agreed, OwnSlot, ContextsAgree
  <2>7. OneSlotEach'
    BY <1>2, <2>2, <2>4 DEF Agreed, OneSlotEach
  <2>8. TableAgrees'
    BY <1>2, <2>1, <2>2 DEF Agreed, TableAgrees, Controller
  <2>9. Polling'
    BY <1>2, <1>6, <2>1, <2>2, <2>3 DEF Agreed, Polling
  <2>10. QED BY <1>8, <2>5, <2>6, <2>7, <2>8, <2>9 DEF Agreed
<1>11. CASE Wires
  <2>1. /\ pc = "configure" /\ slot \in Slots /\ UNCHANGED hcPort
        /\ hcIntr' = [hcIntr EXCEPT ![slot] = port]
    BY <1>7, <1>11 DEF Wires
  <2>2. g_devs[slot].port = port /\ hcPort[slot] = port /\ g_devs[slot].ring = port
    BY <2>1 DEF Agreed, OwnSlot, ConfiguredIfAddressed
  <2>3. AnswerMeant' /\ OwnSlot' /\ ContextsAgree' /\ OneSlotEach'
    BY <1>2, <2>1 DEF Agreed, AnswerMeant, OwnSlot, ContextsAgree, OneSlotEach
  <2>4. TableAgrees'
    BY <1>2, <2>1 DEF Agreed, TableAgrees, Controller
  <2>5. Polling'
    BY <1>2, <1>6, <2>1, <2>2 DEF Agreed, Polling
  <2>6. QED BY <1>8, <2>3, <2>4, <2>5 DEF Agreed
<1>12. QED BY <1>1, <1>9, <1>10, <1>11

LEMMA AgreeStep ==
  TypeInv /\ PortsOnce /\ BufferInv /\ AgreeInv /\ [Next]_vars => AgreeInv'
<1>. SUFFICES ASSUME TypeInv, PortsOnce, ConfiguredIfAddressed, EndpointsWired,
                     AgreeInv, [Next]_vars, ~lost'
              PROVE  Agreed'
  BY DEF BufferInv, AgreeInv
<1>0. setup \in Setups /\ TypeOK /\ \A i \in DOMAIN evq : i \in Nat
  BY Parts DEF TypeInv
<1>1. CASE CommandCompletes \/ TransferCompletes \/ WaitTimesOut
  <2>1. WaitOver /\ Continues
    BY <1>0, <1>1, WaitEnds
  <2>2. Agreed
    BY <2>1 DEF WaitOver, AgreeInv
  <2>3. QED BY <2>1, <2>2, AgreedContinues
<1>2. ASSUME UNCHANGED lost PROVE Agreed
  BY <1>2 DEF AgreeInv
<1>3. CASE InitNextController
  <2>1. /\ pc = "controller" /\ pc' = "port" /\ UNCHANGED <<setup, port, g_devs>>
        /\ \A s \in Slots : hcPort'[s] = 0 /\ hcIntr'[s] = 0
        /\ cmdq' = <<>> /\ evq' \in FirstEvents
    BY <1>3 DEF InitNextController
  <2>2. Reports' = {} /\ Answers' = {}
    BY <2>1 DEF Reports, Answers, FirstEvents
  <2>3. Slots' = Slots
    BY <2>1, MachineStays
  <2>4. TableAgrees'
    <3>1. \A s \in Slots : g_devs[s].port # 0 => Controller(g_devs[s].port) # Controller(port)
      BY <2>1, Parts DEF PortsOnce, Early
    <3>2. QED BY <2>1, <2>3, <3>1 DEF TableAgrees, Controller
  <2>5. OneCommand' /\ CommandMeant' /\ AnswerMeant' /\ OwnSlot'
    BY <2>1, <2>2 DEF OneCommand, CommandMeant, AnswerMeant, OwnSlot, CommandWaits
  <2>6. ContextsAgree' /\ OneSlotEach' /\ Polling'
    BY <2>1, <2>2, <2>3 DEF ContextsAgree, OneSlotEach, Polling
  <2>7. QED BY <2>4, <2>5, <2>6 DEF Agreed
<1>4. CASE EnableSlot
  <2>1. /\ pc = "port" /\ pc' = "enable"
        /\ UNCHANGED <<setup, port, slot, g_devs, dcbaa, lost, hcPort, hcIntr, evq>>
        /\ cmdq' = Append(cmdq, [op |-> "enable", slot |-> 0, port |-> port])
    BY <1>4 DEF EnableSlot, PushCommand, memory, hc
  <2>2. [op |-> "enable", slot |-> 0, port |-> port] \in Command
    BY <1>0 DEF Command, TypeOK
  <2>3. Agreed
    BY <1>2, <2>1
  <2>4. cmdq = <<>> /\ Answers = {}
    BY <2>1, <2>3 DEF Agreed, OneCommand, CommandWaits
  <2>5. /\ Len(cmdq') = 1 /\ DOMAIN cmdq' = {1}
        /\ cmdq'[1] = [op |-> "enable", slot |-> 0, port |-> port]
    BY <2>1, <2>2, <2>4, OnePushed
  <2>6. Answers' = {} /\ Slots' = Slots /\ Reports' = Reports
    BY <2>1, <2>4, MachineStays DEF Answers, Reports
  <2>7. OneCommand' /\ CommandMeant' /\ AnswerMeant' /\ OwnSlot'
    BY <2>1, <2>5, <2>6 DEF OneCommand, CommandMeant, AnswerMeant, OwnSlot, CommandWaits
  <2>8. ContextsAgree' /\ OneSlotEach' /\ Polling'
    BY <2>1, <2>3, <2>6 DEF Agreed, ContextsAgree, OneSlotEach, Polling
  <2>9. TableAgrees'
    BY <2>1, <2>3, <2>6 DEF Agreed, TableAgrees, Controller
  <2>10. QED BY <2>7, <2>8, <2>9 DEF Agreed
<1>5. CASE HcCommand
  <2>1. Agreed
    BY <1>2, <1>5 DEF HcCommand
  <2>2. QED BY <1>5, <2>1, AgreedAnswered
<1>6. ASSUME NEW s \in Slots, HcControl(s) PROVE Agreed'
  <2>1. UNCHANGED <<setup, pc, port, slot, g_devs, dcbaa, lost, cmdq, enabled, hcPort, hcIntr>>
    BY <1>6 DEF HcControl, ControlStage, program, memory
  <2>2. PICK cc \in {1, 6} : Post(Transfer(s, 1, cc))
    BY <1>6 DEF HcControl
  <2>3. /\ Transfer(s, 1, cc) \in Event /\ Transfer(s, 1, cc).ep = 1
        /\ Transfer(s, 1, cc).type = "transfer"
    BY DEF Transfer, Event
  <2>4. Answers' = Answers /\ DOMAIN evq \subseteq DOMAIN evq' /\ \A i \in Answers : evq'[i] = evq[i]
    BY <2>2, <2>3, AnswersPosted
  <2>5. \A i \in Reports' : \E j \in Reports : evq'[i] = evq[j]
    BY <2>2, <2>3, ReportsPosted
  <2>6. Agreed
    BY <1>2, <2>1
  <2>7. QED BY <2>1, <2>4, <2>5, <2>6, AgreedKept
<1>7. ASSUME NEW s \in Slots, HcReport(s) PROVE Agreed'
  <2>1. /\ UNCHANGED <<setup, pc, port, slot, g_devs, dcbaa, lost, cmdq, enabled, hcPort>>
        /\ hcIntr' = hcIntr \/ hcIntr' = [hcIntr EXCEPT ![s] = 0]
        /\ hcIntr[s] # 0
    BY <1>7 DEF HcReport, SendReport, program, memory
  <2>2. PICK cc \in {1, 6} : Post(Transfer(s, 3, cc))
    BY <1>7 DEF HcReport
  <2>3. /\ Transfer(s, 3, cc) \in Event /\ Transfer(s, 3, cc).slot = s
        /\ Transfer(s, 3, cc).type = "transfer"
    BY DEF Transfer, Event
  <2>4. Answers' = Answers /\ DOMAIN evq \subseteq DOMAIN evq' /\ \A i \in Answers : evq'[i] = evq[i]
    BY <2>2, <2>3, AnswersPosted
  <2>5. \A i \in Reports' : evq'[i].slot = s \/ \E j \in Reports : evq'[i] = evq[j]
    BY <2>2, <2>3, ReportsPosted
  <2>6. Agreed
    BY <1>2, <2>1
  <2>7. \A t \in Slots : hcIntr'[t] \in {0, hcIntr[t]}
    BY <2>1, Parts
  <2>8. QED BY <1>7, <2>1, <2>4, <2>5, <2>6, <2>7, AgreedKept
<1>8. CASE DropEvent \/ PollEvents
  <2>1. /\ UNCHANGED <<setup, pc, port, slot, g_devs, dcbaa, lost, cmdq, enabled, hcPort, hcIntr>>
        /\ evq # <<>> /\ evq' = Tail(evq)
        /\ pc \in CommandWaits => Head(evq).type # "command"
    BY <1>8 DEF DropEvent, PollEvents, PollEvent, program, memory, hc, CommandWaits
  <2>2. Agreed
    BY <1>2, <2>1
  <2>3. \A j \in Answers' : \E i \in Answers : evq'[j] = evq[i]
    BY <2>1, AnswersTaken
  <2>4. \A i \in DOMAIN evq : Answers = {i} => \E j \in DOMAIN evq' : Answers' = {j}
    <3>1. SUFFICES ASSUME NEW i \in DOMAIN evq, Answers = {i}
                   PROVE  \E j \in DOMAIN evq' : Answers' = {j}
      OBVIOUS
    <3>2. pc \in CommandWaits
      BY <2>2, <3>1 DEF Agreed, OneCommand
    <3>3. Answers' = {i - 1}
      BY <2>1, <3>1, <3>2, AnswersTaken
    <3>4. QED BY <3>3 DEF Answers
  <2>5. \A i \in Reports' : \E j \in Reports : evq'[i] = evq[j]
    BY <2>1, ReportsTaken
  <2>6. QED BY <2>1, <2>2, <2>3, <2>4, <2>5, AgreedKept
<1>9. CASE (\E p \in Ports : EarlierControl(p) \/ EarlierReport(p)) \/ UNCHANGED vars
  <2>1. UNCHANGED <<setup, pc, port, slot, g_devs, dcbaa, lost, cmdq, enabled, hcPort, hcIntr, evq>>
    BY <1>9 DEF EarlierControl, EarlierReport, ControlStage, SendReport, vars, program, memory, hc
  <2>2. Agreed
    BY <1>2, <2>1
  <2>3. Answers' = Answers /\ Reports' = Reports
    BY <2>1 DEF Answers, Reports
  <2>4. QED BY <2>1, <2>2, <2>3, AgreedKept
<1>10. QED BY <1>1, <1>3, <1>4, <1>5, <1>6, <1>7, <1>8, <1>9 DEF Next, Driver

-----------------------------------------------------------------------------
LEMMA Keeps == IInv /\ [Next]_vars => IInv'
<1>. SUFFICES ASSUME IInv, [Next]_vars PROVE IInv'
  OBVIOUS
<1>1. TypeInv /\ PortsOnce /\ BufferInv /\ AgreeInv
  BY DEF IInv
<1>2. TypeInv' /\ PortsOnce'
  BY <1>1, TypeStep, PortsOnceStep
<1>3. BufferInv'
  BY <1>1, ConfiguredStep, WiredStep, OwnerStep, ClaimStep, WrittenStep DEF BufferInv
<1>4. AgreeInv'
  BY <1>1, AgreeStep
<1>5. QED BY <1>2, <1>3, <1>4 DEF IInv

LEMMA Invariant == Spec => []IInv
BY Starts, Keeps, PTL DEF Spec

(* OneCommand with the number of commands and answers.                     *)
LEMMA OneOutstanding == TypeInv /\ AgreeInv => OneCommandOutstanding
<1>. SUFFICES ASSUME TypeInv, AgreeInv, ~lost
              PROVE  Len(cmdq) + Cardinality(Answers) = IF pc \in CommandWaits THEN 1 ELSE 0
  BY DEF OneCommandOutstanding, Answers
<1>1. OneCommand
  BY DEF AgreeInv, Agreed
<1>2. CASE Len(cmdq) = 1 /\ pc \in CommandWaits /\ Answers = {}
  BY <1>2, FS_EmptySet
<1>3. CASE cmdq = <<>> /\ pc \notin CommandWaits /\ Answers = {}
  BY <1>3, FS_EmptySet
<1>4. CASE cmdq = <<>> /\ pc \in CommandWaits /\ \E i \in DOMAIN evq : Answers = {i}
  <2>1. PICK i \in DOMAIN evq : Answers = {i}
    BY <1>4
  <2>2. Cardinality(Answers) = 1
    BY <2>1, FS_Singleton
  <2>3. QED BY <1>4, <2>2
<1>5. QED BY <1>1, <1>2, <1>3, <1>4 DEF OneCommand

LEMMA Implied ==
  IInv => Inv /\ OneReportBuffer /\ SlotsAgree /\ ReportsFindTheirDevice
<1>. SUFFICES ASSUME IInv PROVE Inv /\ OneReportBuffer /\ SlotsAgree /\ ReportsFindTheirDevice
  OBVIOUS
<1>1. TypeInv /\ AgreeInv /\ EndpointsWired /\ OneOwner /\ OneClaim /\ Written
  BY DEF IInv, BufferInv
<1>2. Inv
  BY <1>1, OneOutstanding DEF Inv, TypeInv
<1>3. OneReportBuffer
  BY <1>1, OneBuffer
<1>4. SlotsAgree
  <2>1. SUFFICES ASSUME ~lost, ContextsAgree, OneSlotEach, TableAgrees, Polling PROVE SlotsAgree
    BY <1>1 DEF SlotsAgree, AgreeInv, Agreed
  <2>2. \A s \in Slots : hcIntr[s] # 0 => hcIntr[s] = hcPort[s] /\ g_devs[s].ring = hcIntr[s]
    BY <1>1, <2>1 DEF Polling, EndpointsWired
  <2>3. QED BY <2>1, <2>2 DEF SlotsAgree, ContextsAgree, OneSlotEach, TableAgrees
<1>5. ReportsFindTheirDevice
  BY <1>1 DEF ReportsFindTheirDevice, AgreeInv, Agreed, Polling, Written
<1>6. QED BY <1>2, <1>3, <1>4, <1>5

(* The state stays well formed, and unless a command wait has timed out,   *)
(* the command that xhci_wait_for_command_completion waits for is the only *)
(* one without an answer, so that the first answer on the ring is its own. *)
THEOREM DriverCorrect == Spec => []Inv
BY Invariant, Implied, PTL

(* Whatever times out or fails, the report buffer of an entry of the       *)
(* device table is given to the controller that xhci_poll_events serves at *)
(* most once at a time, so that this controller overwrites no report that  *)
(* has not been read; and of the controllers before it, which nobody       *)
(* stops, each device keeps at most one TRB.                               *)
THEOREM BufferCorrect == Spec => []OneReportBuffer
BY Invariant, Implied, PTL

(* Unless a command wait has timed out, DCBAA, device table and controller *)
(* agree on the device behind every slot, though the table is never        *)
(* cleared from one controller to the next.                                *)
THEOREM SlotsCorrect == Spec => []SlotsAgree
BY Invariant, Implied, PTL

(* So a report that xhci_poll_events finds is printed for the device that  *)
(* sent it, and, whatever times out, the buffer it reads holds this        *)
(* device's report, or that of a device of an earlier controller.          *)
THEOREM ReportsCorrect == Spec => []ReportsFindTheirDevice
BY Invariant, Implied, PTL

-----------------------------------------------------------------------------
(* The port scan.                                                          *)

(* The stages between the decision that a reset is needed and the last look. *)
BeforeReset == {"clear_before", "acknowledge_before", "hint", "reset"}
AfterReset == {"clear_after", "acknowledge_after", "wait_ready"}

Asleep(r) == r.pls \in {"U3", "Resume"}

(* What is known of the port at each stage if nothing has gone wrong: the  *)
(* device is there, once the reset has ended the link is not suspended,    *)
(* and the scan believes that a port is ready only if it is.  So it never  *)
(* wakes one.                                                              *)
StageInv ==
  mishaps = 0 =>
    /\ stage \notin {"power", "power_on", "detect", "skip"} => reg.ccs
    /\ stage \in BeforeReset \union {"wait_reset"} \union AfterReset => ~ready
    /\ stage \in {"wait_reset"} \union AfterReset => reg.pr \/ ~Asleep(reg)
    /\ stage = "final" => IF ready THEN PortReady(reg) ELSE ~Asleep(reg)
    /\ stage \notin {"wake", "wait_u0"}
    /\ stage = "address" => PortReady(reg) /\ speed = reg.speed

ScanIInv == ScanTypeOK /\ StageInv

LEMMA Acknowledged == \A r \in PortSC, c \in BOOLEAN : [r EXCEPT !.chg = c] \in PortSC
BY DEF PortSC

LEMMA StoredIsPortSC ==
  ASSUME reg \in PortSC, ped1c \in BOOLEAN, NEW v \in PortSC,
         NEW x \in [clear : BOOLEAN, pr : BOOLEAN, resume : BOOLEAN]
  PROVE  Stored(v, x) \in PortSC
<1> DEFINE resets == (v.pr \/ x.pr) /\ reg.ccs
           disables == ped1c /\ v.ped /\ reg.ped
           pls == IF disables THEN "Disabled"
                  ELSE IF x.resume /\ reg.pls = "U3" THEN "Resume" ELSE reg.pls
           pp == v.pp
           chg == reg.chg /\ ~x.clear
           pr == reg.pr \/ resets
           ped == reg.ped /\ ~resets /\ ~disables
<1>1. pp \in BOOLEAN /\ chg \in BOOLEAN /\ pr \in BOOLEAN /\ ped \in BOOLEAN
  BY DEF PortSC
<1>2. pls \in {"U0", "U3", "Resume", "Disabled"}
  BY DEF PortSC
<1>3. Stored(v, x) = [reg EXCEPT !.pp = pp, !.chg = chg, !.pr = pr, !.ped = ped, !.pls = pls]
  BY DEF Stored
<1> HIDE DEF resets, disables, pls, pp, chg, pr, ped
<1>4. [reg EXCEPT !.pp = pp, !.chg = chg, !.pr = pr, !.ped = ped, !.pls = pls] \in PortSC
  BY <1>1, <1>2 DEF PortSC
<1>5. QED BY <1>3, <1>4, Zenon

LEMMA ScanTypeStep == ScanTypeOK /\ [ScanNext]_scan_vars => ScanTypeOK'
<1>. SUFFICES ASSUME ScanTypeOK, [ScanNext]_scan_vars PROVE ScanTypeOK'
  OBVIOUS
<1>. USE MishapsAssumption DEF ScanTypeOK, Reading, Writing, Final, local
<1>a. ASSUME NEW b \in BOOLEAN, WaitGivesUp(b)
      PROVE  mishaps' \in 0 .. MaxMishaps /\ UNCHANGED <<local, reg, ped1c>>
  BY <1>a DEF WaitGivesUp, Mishap
<1>1. ASSUME NEW v \in PortSC, NEW x \in [clear : BOOLEAN, pr : BOOLEAN, resume : BOOLEAN]
      PROVE  Stored(v, x) \in PortSC
  BY <1>1, StoredIsPortSC
<1>2. /\ Keep \in [clear : BOOLEAN, pr : BOOLEAN, resume : BOOLEAN]
      /\ [Keep EXCEPT !.clear = TRUE] \in [clear : BOOLEAN, pr : BOOLEAN, resume : BOOLEAN]
      /\ [Keep EXCEPT !.pr = TRUE] \in [clear : BOOLEAN, pr : BOOLEAN, resume : BOOLEAN]
      /\ [Keep EXCEPT !.resume = TRUE] \in [clear : BOOLEAN, pr : BOOLEAN, resume : BOOLEAN]
  BY DEF Keep
<1>3. \A r \in PortSC : [r EXCEPT !.pp = TRUE] \in PortSC
  BY DEF PortSC
<1>4. \A s \in {3, 4} : Enabled(s) \in PortSC /\ [Enabled(s) EXCEPT !.chg = TRUE] \in PortSC
  BY DEF PortSC, Enabled, Plugged, Empty, Off
<1>5. Plugged \in PortSC /\ [Plugged EXCEPT !.chg = TRUE] \in PortSC
      /\ Empty \in PortSC /\ [Empty EXCEPT !.chg = TRUE] \in PortSC
  BY DEF PortSC, Plugged, Empty, Off
<1>6. \A r \in PortSC : r.speed \in {0, 3, 4} /\ PortReady(r) \in BOOLEAN /\ r.pr \in BOOLEAN
  BY DEF PortSC, PortReady
<1>7. CASE ScanStep
  <2>1. CASE ReadPower
    BY <2>1 DEF ReadPower, Read
  <2>2. CASE PowerOn
    BY <1>1, <1>2, <1>3, <2>2 DEF PowerOn, Write
  <2>3. CASE Detect
    BY <1>6, <2>3 DEF Detect, Read
  <2>4. CASE ReadChanges
    BY <2>4 DEF ReadChanges, Read
  <2>5. CASE AcknowledgeChanges
    BY <1>1, <1>2, <2>5 DEF AcknowledgeChanges, Write
  <2>6. CASE ReadHint
    BY <2>6 DEF ReadHint, Read
  <2>7. CASE Reset
    BY <1>1, <1>2, <2>7 DEF Reset, Write
  <2>8. CASE WaitReset
    <3>1. CASE Read /\ UNCHANGED <<ready, speed>>
      BY <2>8, <3>1 DEF WaitReset, Read
    <3>2. CASE WaitGivesUp(TRUE)
      BY <1>a, <2>8, <3>2 DEF WaitReset
    <3>3. QED BY <2>8, <3>1, <3>2 DEF WaitReset
  <2>9. CASE WaitReady
    <3>1. CASE Read /\ ready' = TRUE /\ UNCHANGED speed
      BY <2>9, <3>1 DEF WaitReady, Read
    <3>2. CASE WaitGivesUp(reg.pr)
      BY <1>a, <1>6, <2>9, <3>2 DEF WaitReady
    <3>3. QED BY <2>9, <3>1, <3>2 DEF WaitReady
  <2>10. CASE ReadFinal
    BY <1>6, <2>10 DEF ReadFinal, Read
  <2>11. CASE Wake
    BY <1>1, <1>2, <2>11 DEF Wake, Write
  <2>12. CASE WaitU0
    <3>1. CASE Read /\ ready' = TRUE /\ stage' = "address" /\ UNCHANGED speed
      BY <2>12, <3>1 DEF WaitU0, Read
    <3>2. CASE WaitGivesUp(reg.pls = "Resume") /\ stage' = "skip"
      BY <1>a, <2>12, <3>2 DEF WaitU0
    <3>3. QED BY <2>12, <3>1, <3>2 DEF WaitU0
  <2>13. QED
    BY <1>7, <2>1, <2>2, <2>3, <2>4, <2>5, <2>6, <2>7, <2>8, <2>9, <2>10, <2>11, <2>12
    DEF ScanStep
<1>8. CASE HcPlug
  <2>1. \A r \in {Plugged, Enabled(4)} : [r EXCEPT !.chg = TRUE] \in PortSC
    BY <1>4, <1>5
  <2>2. reg' \in PortSC
    BY <1>8, <2>1 DEF HcPlug
  <2>3. QED BY <1>8, <2>2 DEF HcPlug, Mishap
<1>9. CASE HcUnplug
  BY <1>5, <1>9 DEF HcUnplug, Mishap
<1>10. CASE HcSuspend
  BY <1>10 DEF HcSuspend, Mishap, PortSC
<1>11. CASE HcResetEnds
  <2>1. (IF reg.speed = 0 THEN {3, 4} ELSE {reg.speed}) \subseteq {3, 4}
    BY <1>6
  <2>2. PICK s \in {3, 4} : reg' = [Enabled(s) EXCEPT !.chg = TRUE]
    BY <1>11, <2>1 DEF HcResetEnds
  <2>3. QED BY <1>4, <1>11, <2>2 DEF HcResetEnds
<1>12. CASE HcResetFails
  BY <1>5, <1>12 DEF HcResetFails, Mishap
<1>13. CASE HcResumeEnds
  BY <1>13 DEF HcResumeEnds, PortSC
<1>14. CASE UNCHANGED scan_vars
  BY <1>14 DEF scan_vars
<1>15. QED
  BY <1>7, <1>8, <1>9, <1>10, <1>11, <1>12, <1>13, <1>14 DEF ScanNext

(* The fields of the register after a store that the stages speak of. *)
LEMMA AfterStore ==
  ASSUME ScanTypeOK, NEW v \in PortSC, NEW x \in [clear : BOOLEAN, pr : BOOLEAN, resume : BOOLEAN],
         ~x.resume
  PROVE  /\ Stored(v, x).ccs = reg.ccs
         /\ Stored(v, x).pr = (reg.pr \/ ((v.pr \/ x.pr) /\ reg.ccs))
         /\ Asleep(Stored(v, x)) => Asleep(reg)
BY DEF ScanTypeOK, PortSC, Stored, Asleep

LEMMA StageStep == ScanTypeOK /\ ScanTypeOK' /\ StageInv /\ [ScanNext]_scan_vars => StageInv'
<1>. SUFFICES ASSUME ScanTypeOK, ScanTypeOK', StageInv, [ScanNext]_scan_vars, mishaps' = 0 PROVE StageInv'
  BY DEF StageInv
<1>. USE DEF BeforeReset, AfterReset
<1>0. /\ mishaps \in Nat /\ ready \in BOOLEAN /\ ready' \in BOOLEAN
      /\ reg \in PortSC /\ reg' \in PortSC /\ ps \in PortSC
  BY DEF ScanTypeOK
<1>1. CASE ScanStep
  <2>0. mishaps = 0
    BY <1>0, <1>1 DEF ScanStep, ReadPower, PowerOn, Detect, ReadChanges, AcknowledgeChanges,
       ReadHint, Reset, WaitReset, WaitReady, ReadFinal, Wake, WaitU0, Read, Write, WaitGivesUp, Mishap
  <2>. USE <2>0 DEF StageInv
  <2>1. CASE ReadPower \/ PowerOn
    BY <2>1 DEF ReadPower, PowerOn
  <2>2. CASE Detect
    BY <1>0, <2>2 DEF Detect, Read, PortReady
  <2>3. CASE ReadChanges
    BY <1>0, <2>3 DEF ReadChanges, Read
  <2>4. CASE AcknowledgeChanges
    <3>1. [Keep EXCEPT !.clear = TRUE] \in [clear : BOOLEAN, pr : BOOLEAN, resume : BOOLEAN]
          /\ ~[Keep EXCEPT !.clear = TRUE].resume
      BY DEF Keep
    <3>2. reg'.ccs = reg.ccs /\ (reg.pr => reg'.pr) /\ (Asleep(reg') => Asleep(reg))
      BY <1>0, <2>4, <3>1, AfterStore DEF AcknowledgeChanges, Write
    <3>3. QED BY <2>4, <3>2 DEF AcknowledgeChanges, Write, local
  <2>5. CASE ReadHint
    BY <2>5 DEF ReadHint, Read
  <2>6. CASE Reset
    <3>1. [Keep EXCEPT !.pr = TRUE] \in [clear : BOOLEAN, pr : BOOLEAN, resume : BOOLEAN]
          /\ ~[Keep EXCEPT !.pr = TRUE].resume /\ [Keep EXCEPT !.pr = TRUE].pr
      BY DEF Keep
    <3>2. reg.ccs
      BY <2>6 DEF Reset
    <3>3. reg'.ccs /\ reg'.pr
      BY <1>0, <2>6, <3>1, <3>2, AfterStore DEF Reset, Write
    <3>4. QED BY <2>6, <3>3 DEF Reset, Write, local
  <2>7. CASE WaitReset
    BY <1>0, <2>7 DEF WaitReset, Read, WaitGivesUp, Mishap
  <2>8. CASE WaitReady
    BY <1>0, <2>8 DEF WaitReady, Read, WaitGivesUp, Mishap, local
  <2>9. CASE ReadFinal
    BY <2>9 DEF ReadFinal, Read, Asleep
  <2>10. CASE Wake \/ WaitU0
    BY <2>10 DEF Wake, WaitU0
  <2>11. QED
    BY <1>1, <2>1, <2>2, <2>3, <2>4, <2>5, <2>6, <2>7, <2>8, <2>9, <2>10 DEF ScanStep
<1>2. CASE HcPlug \/ HcUnplug \/ HcSuspend \/ HcResetFails
  BY <1>0, <1>2 DEF HcPlug, HcUnplug, HcSuspend, HcResetFails, Mishap
\* A reset that ends leaves a usable port, at the speed it had if any.
<1>3. CASE HcResetEnds
  <2>0. reg.speed \in {0, 3, 4}
    BY <1>0 DEF PortSC
  <2>1. PICK s \in {3, 4} : /\ reg' = [Enabled(s) EXCEPT !.chg = TRUE]
                            /\ reg.speed # 0 => s = reg.speed
    <3>1. PICK s \in (IF reg.speed = 0 THEN {3, 4} ELSE {reg.speed}) :
             reg' = [Enabled(s) EXCEPT !.chg = TRUE]
      BY <1>3 DEF HcResetEnds
    <3>2. s \in {3, 4} /\ (reg.speed # 0 => s = reg.speed)
      BY <2>0
    <3>3. QED BY <3>1, <3>2
  <2>2. PortReady(reg') /\ reg'.ccs /\ ~Asleep(reg') /\ reg'.speed = s
    BY <2>1 DEF PortReady, Asleep, Enabled, Plugged, Empty, Off
  <2>3. PortReady(reg) => reg'.speed = reg.speed
    BY <2>1, <2>2 DEF PortReady
  <2>4. QED BY <1>3, <2>2, <2>3 DEF HcResetEnds, StageInv, local
<1>4. CASE HcResumeEnds
  <2>1. reg'.ccs = reg.ccs /\ ~Asleep(reg') /\ reg.pls = "Resume"
    BY <1>0, <1>4 DEF HcResumeEnds, PortSC, Asleep
  <2>2. ~PortReady(reg)
    BY <2>1 DEF PortReady
  <2>3. QED BY <1>4, <2>1, <2>2 DEF HcResumeEnds, StageInv, local
<1>5. CASE UNCHANGED scan_vars
  BY <1>5 DEF scan_vars, local, StageInv
<1>6. QED BY <1>1, <1>2, <1>3, <1>4, <1>5 DEF ScanNext

(***************************************************************************)
(* Undisturbed, the scan addresses only ports that are usable, and at      *)
(* their speed (xhci.c:1487), whatever state they were found in.           *)
(***************************************************************************)
THEOREM ScanCorrect == ScanSpec => []ScanInv
<1>1. ScanInit => ScanIInv
  <2>1. ScanInit => ScanTypeOK
    <3>. SUFFICES ASSUME ScanInit PROVE ScanTypeOK
      OBVIOUS
    <3>1. Off \in PortSC /\ Empty \in PortSC /\ Plugged \in PortSC
      BY DEF PortSC, Off, Empty, Plugged
    <3>2. ASSUME NEW s \in {3, 4}
          PROVE  /\ [Plugged EXCEPT !.speed = s] \in PortSC
                 /\ Enabled(s) \in PortSC /\ Suspended(s) \in PortSC
      BY DEF PortSC, Off, Empty, Plugged, Enabled, Suspended
    <3>3. PICK c \in BOOLEAN, s \in {3, 4} :
             reg \in {[r EXCEPT !.chg = c] :
                        r \in {Off, Empty, Plugged, [Plugged EXCEPT !.speed = s],
                               Enabled(s), Suspended(s)}}
      BY DEF ScanInit
    <3>4. PICK r \in PortSC : reg = [r EXCEPT !.chg = c]
      BY <3>1, <3>2, <3>3
    <3>5. reg \in PortSC
      BY <3>4, Acknowledged
    <3>6. stage = "power" /\ ps = Off /\ ready = FALSE /\ speed = 0 /\ ped1c \in BOOLEAN /\ mishaps = 0
      BY Zenon DEF ScanInit
    <3>7. mishaps \in 0 .. MaxMishaps
      BY <3>6, MishapsAssumption
    <3>8. ready \in BOOLEAN /\ speed \in {0, 3, 4}
      BY <3>6, Zenon
    <3>9. stage \in Reading \union Writing \union Final
      BY <3>6 DEF Reading
    <3>10. QED BY <3>1, <3>5, <3>6, <3>7, <3>8, <3>9 DEF ScanTypeOK
  <2>2. ScanInit => StageInv
    BY DEF ScanInit, StageInv, BeforeReset, AfterReset
  <2>3. QED BY <2>1, <2>2 DEF ScanIInv
<1>2. ScanIInv /\ [ScanNext]_scan_vars => ScanIInv'
  BY ScanTypeStep, StageStep DEF ScanIInv
<1>3. ScanIInv => ScanInv
  BY DEF ScanIInv, StageInv, ScanInv, UndisturbedIsUsable
<1>4. QED BY <1>1, <1>2, <1>3, PTL DEF ScanSpec
=============================================================================
