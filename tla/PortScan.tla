------------------------------ MODULE PortScan ------------------------------
(***************************************************************************)
(* The port scan of xhci_init for one root hub port: power it, reset it    *)
(* unless it is usable already, wait until it is, and go on to EnableSlot. *)
(* The port is a register (PORTSC) that the driver and the hardware both   *)
(* write; the driver works on copies it read some steps earlier, and each  *)
(* write stores the whole copy back.  Ports do not share anything, so one  *)
(* stands for all.                                                         *)
(*                                                                         *)
(* Port power stays on once it is on, so the second test for it, just      *)
(* before the reset, never finds it off and is left out.                   *)
(***************************************************************************)
EXTENDS Naturals

CONSTANT
  MaxMishaps  \* bound on unplugs, failed resets and premature timeouts

ASSUME MishapsAssumption == MaxMishaps \in Nat

VARIABLES
  stage,    \* where the scan is
  ps,       \* the driver's copy of PORTSC
  ready,    \* as in the code
  speed,    \* the speed AddressDevice is called with
  reg,      \* PORTSC
  ped1c,    \* writing 1 to PED disables the port, as xHCI has it; not so in QEMU
  mishaps   \* history: how much has gone wrong

local == <<ps, ready, speed>>
scan_vars == <<stage, local, reg, ped1c, mishaps>>

(* The fields of PORTSC the scan looks at.  pr is PR, which shows that a   *)
(* reset is under way, a warm one too (WPR reads as 0); chg any of the     *)
(* change bits, speed 0 the speed of a port that has not found one.        *)
PortSC == [ccs : BOOLEAN, ped : BOOLEAN, pr : BOOLEAN, pp : BOOLEAN, chg : BOOLEAN,
           pls : {"U0", "U3", "Resume", "Disabled"}, speed : {0, 3, 4}]

Final == {"address", "skip"}
Reading == {"power", "detect", "clear_before", "hint", "wait_reset",
            "clear_after", "wait_ready", "final", "wait_u0"}
Writing == {"power_on", "acknowledge_before", "reset", "acknowledge_after", "wake"}

ScanTypeOK ==
  /\ stage \in Reading \union Writing \union Final
  /\ ps \in PortSC /\ reg \in PortSC
  /\ ready \in BOOLEAN /\ ped1c \in BOOLEAN
  /\ speed \in {0, 3, 4}
  /\ mishaps \in 0 .. MaxMishaps

Off == [ccs |-> FALSE, ped |-> FALSE, pr |-> FALSE, pp |-> FALSE, chg |-> FALSE,
        pls |-> "Disabled", speed |-> 0]
Empty == [Off EXCEPT !.pp = TRUE]
Plugged == [Empty EXCEPT !.ccs = TRUE]
Enabled(s) == [Plugged EXCEPT !.ped = TRUE, !.pls = "U0", !.speed = s]
Suspended(s) == [Enabled(s) EXCEPT !.pls = "U3"]

(* What firmware and the controller reset can leave: no power, no device, *)
(* or a device that is disabled, enabled or suspended.                    *)
ScanInit ==
  /\ stage = "power"
  /\ ps = Off /\ ready = FALSE /\ speed = 0
  /\ \E c \in BOOLEAN, s \in {3, 4} :
       reg \in {[r EXCEPT !.chg = c] :
                  r \in {Off, Empty, Plugged, [Plugged EXCEPT !.speed = s],
                         Enabled(s), Suspended(s)}}
  /\ ped1c \in BOOLEAN
  /\ mishaps = 0

-----------------------------------------------------------------------------
(* The register.                                                           *)

(* xhci_port_ready, and the same test where the scan spells it out. *)
PortReady(r) == r.ccs /\ r.ped /\ r.speed # 0 /\ r.pls = "U0"

Read == ps' = reg /\ UNCHANGED <<reg, ped1c, mishaps>>

(* What a store of the copy says besides: acknowledge the change bits, or  *)
(* mask them out; start a reset; wake the link.                            *)
Keep == [clear |-> FALSE, pr |-> FALSE, resume |-> FALSE]

(* The register after the driver stored v, a copy with the extras x. *)
Stored(v, x) ==
  LET resets == (v.pr \/ x.pr) /\ reg.ccs
      disables == ped1c /\ v.ped /\ reg.ped
  IN  [reg EXCEPT
         !.pp = v.pp,
         !.chg = @ /\ ~x.clear,
         !.pr = @ \/ resets,
         !.ped = @ /\ ~resets /\ ~disables,
         !.pls = IF disables THEN "Disabled"
                 ELSE IF x.resume /\ @ = "U3" THEN "Resume" ELSE @]

Write(v, x) == reg' = Stored(v, x) /\ UNCHANGED <<local, ped1c, mishaps>>

Mishap == mishaps < MaxMishaps /\ mishaps' = mishaps + 1

(* A wait gives up, before the hardware is done or because nothing more    *)
(* will come.                                                              *)
WaitGivesUp(busy) ==
  /\ IF busy THEN Mishap ELSE UNCHANGED mishaps
  /\ UNCHANGED <<local, reg, ped1c>>

-----------------------------------------------------------------------------
(* The driver.                                                             *)

(* The rounds that power all ports. *)
ReadPower ==
  /\ stage = "power"
  /\ Read
  /\ stage' = IF reg.pp THEN "detect" ELSE "power_on"
  /\ UNCHANGED <<ready, speed>>

PowerOn ==
  /\ stage = "power_on"
  /\ Write([ps EXCEPT !.pp = TRUE], Keep)
  /\ stage' = "power"

(* Faulty variant: a connected port is taken for usable. *)
DetectTrusting ==
  /\ stage = "detect"
  /\ Read
  /\ ready' = reg.ccs
  /\ stage' = IF reg.ccs THEN "final" ELSE "skip"
  /\ UNCHANGED speed

(* A device is there; if the port is usable already it is not reset. *)
Detect ==
  /\ stage = "detect"
  /\ Read
  /\ ready' = PortReady(reg)
  /\ stage' = IF ~reg.ccs THEN "skip"
           ELSE IF PortReady(reg) THEN "final" ELSE "clear_before"
  /\ UNCHANGED speed

(* Change bits are read before the reset and after it ... *)
ReadChanges ==
  /\ stage \in {"clear_before", "clear_after"}
  /\ Read
  /\ stage' = CASE stage = "clear_before" -> IF reg.chg THEN "acknowledge_before" ELSE "hint"
             [] stage = "clear_after" -> IF reg.chg THEN "acknowledge_after" ELSE "wait_ready"
  /\ UNCHANGED <<ready, speed>>

(* ... and acknowledged by storing the copy with all of them set. *)
AcknowledgeChanges ==
  /\ stage \in {"acknowledge_before", "acknowledge_after"}
  /\ Write(ps, [Keep EXCEPT !.clear = TRUE])
  /\ stage' = IF stage = "acknowledge_before" THEN "hint" ELSE "wait_ready"

ReadHint ==
  /\ stage = "hint"
  /\ Read
  /\ stage' = "reset"
  /\ UNCHANGED <<ready, speed>>

(* Faulty variant: the change bits are written, the reset bit is not. *)
ResetForgotten ==
  /\ stage = "reset"
  /\ Write(ps, Keep)
  /\ stage' = "wait_reset"

(* A warm reset for a SuperSpeed port, a cold one for the others. *)
Reset ==
  /\ stage = "reset"
  /\ Write(ps, [Keep EXCEPT !.pr = TRUE])
  /\ stage' = "wait_reset"

Warm == ps.speed = 4

(* Faulty variant: no wait. *)
WaitResetShort ==
  /\ stage = "wait_reset"
  /\ stage' = "clear_after"
  /\ Read /\ UNCHANGED <<ready, speed>>

(* The wait for a warm reset looks at WPR, and is over at once; the other  *)
(* looks at PR.  Both end in the same clean-up, seen or timed out.         *)
WaitReset ==
  /\ stage = "wait_reset"
  /\ stage' = "clear_after"
  /\ \/ (Warm \/ ~reg.pr) /\ Read /\ UNCHANGED <<ready, speed>>
     \/ ~Warm /\ reg.pr /\ WaitGivesUp(TRUE)

(* Faulty variant: the wait has no limit. *)
WaitReadyForever ==
  /\ stage = "wait_ready"
  /\ stage' = "final"
  /\ PortReady(reg) /\ Read /\ ready' = TRUE /\ UNCHANGED speed

(* The port is given a number of rounds to become usable. *)
WaitReady ==
  /\ stage = "wait_ready"
  /\ stage' = "final"
  /\ \/ PortReady(reg) /\ Read /\ ready' = TRUE /\ UNCHANGED speed
     \/ ~PortReady(reg) /\ WaitGivesUp(reg.pr)

(* The last look at the port, for the speed and for a suspended link. *)
ReadFinal ==
  /\ stage = "final"
  /\ Read
  /\ speed' = reg.speed
  /\ stage' = IF ready THEN "address"
           ELSE IF reg.pls = "U3" THEN "wake" ELSE "skip"
  /\ UNCHANGED ready

Wake ==
  /\ stage = "wake"
  /\ Write(ps, [Keep EXCEPT !.resume = TRUE])
  /\ stage' = "wait_u0"

WaitU0 ==
  /\ stage = "wait_u0"
  /\ \/ /\ reg.pls = "U0" /\ Read /\ ready' = TRUE /\ stage' = "address"
        /\ UNCHANGED speed
     \/ /\ reg.pls # "U0" /\ WaitGivesUp(reg.pls = "Resume") /\ stage' = "skip"

ScanStep ==
  \/ ReadPower \/ PowerOn \/ Detect
  \/ ReadChanges \/ AcknowledgeChanges
  \/ ReadHint \/ Reset \/ WaitReset \/ WaitReady
  \/ ReadFinal \/ Wake \/ WaitU0

-----------------------------------------------------------------------------
(* The hardware.                                                           *)

HcPlug ==
  /\ reg.pp /\ ~reg.ccs
  /\ Mishap
  /\ \E r \in {Plugged} \union {Enabled(4)} : reg' = [r EXCEPT !.chg = TRUE]
  /\ UNCHANGED <<stage, local, ped1c>>

HcUnplug ==
  /\ reg.ccs
  /\ Mishap
  /\ reg' = [Empty EXCEPT !.chg = TRUE]
  /\ UNCHANGED <<stage, local, ped1c>>

(* The link is suspended while the scan looks elsewhere. *)
HcSuspend ==
  /\ PortReady(reg)
  /\ Mishap
  /\ reg' = [reg EXCEPT !.pls = "U3"]
  /\ UNCHANGED <<stage, local, ped1c>>

HcResetEnds ==
  /\ reg.pr
  /\ \E s \in (IF reg.speed = 0 THEN {3, 4} ELSE {reg.speed}) :
       reg' = [Enabled(s) EXCEPT !.chg = TRUE]
  /\ UNCHANGED <<stage, local, ped1c, mishaps>>

HcResetFails ==
  /\ reg.pr
  /\ Mishap
  /\ reg' = [Plugged EXCEPT !.chg = TRUE]
  /\ UNCHANGED <<stage, local, ped1c>>

HcResumeEnds ==
  /\ reg.pls = "Resume"
  /\ reg' = [reg EXCEPT !.pls = "U0"]
  /\ UNCHANGED <<stage, local, ped1c, mishaps>>

ScanNext ==
  \/ ScanStep
  \/ HcPlug \/ HcUnplug \/ HcSuspend
  \/ HcResetEnds \/ HcResetFails \/ HcResumeEnds

ScanSpec == ScanInit /\ [][ScanNext]_scan_vars

(* The scan is a sequence of bounded loops; a reset or a resume that was   *)
(* started ends.                                                           *)
FairScanSpec ==
  ScanSpec /\ WF_scan_vars(ScanStep) /\ WF_scan_vars(HcResetEnds) /\ WF_scan_vars(HcResumeEnds)

-----------------------------------------------------------------------------
(***************************************************************************)
(* The scan comes to an end for every port, whatever the device does.      *)
(***************************************************************************)
ScanEnds == <>(stage \in Final)

(***************************************************************************)
(* In whatever state firmware left its port, a device that stays plugged   *)
(* in, and whose port resets when told, gets as far as EnableSlot, if a 1  *)
(* written to PED does nothing (QEMU) or the port was usable already.  If  *)
(* it disables the port, one that has to be reset cold never does: the     *)
(* copy that acknowledges the change bits after the reset has PED set      *)
(* (xhci.c:1463-1466).  After a warm reset it may, because nobody waits    *)
(* for its end before.                                                     *)
(***************************************************************************)
StableDeviceAddressed ==
  /\ (ped1c => PortReady(reg)) /\ [](reg.ccs /\ mishaps = 0) => <>(stage = "address")
  /\ ped1c /\ ~PortReady(reg) /\ reg.speed # 4 => [](mishaps = 0 => stage # "address")

(***************************************************************************)
(* A scan that has seen no unplugging, no failed reset and no suspend      *)
(* addresses a port that is usable at that moment, at its speed.           *)
(***************************************************************************)
UndisturbedIsUsable ==
  stage = "address" /\ mishaps = 0 => PortReady(reg) /\ speed = reg.speed

(***************************************************************************)
(* The copy of the register and the register are well formed, and what is  *)
(* addressed undisturbed is usable.                                        *)
(***************************************************************************)
ScanInv == ScanTypeOK /\ UndisturbedIsUsable
=============================================================================
