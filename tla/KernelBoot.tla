----------------------------- MODULE KernelBoot -----------------------------
(***************************************************************************)
(* The boot sequence: the loader, then kernel_main (main.c) with the       *)
(* physical memory manager, the page tables, the heap's page, the PCI scan *)
(* (pci.c) and the set-up of each xHCI controller (xhci.c) up to its port  *)
(* scan.  The kernel is one sequential program with interrupts off.        *)
(***************************************************************************)
EXTENDS BootLoader, VMM

CONSTANTS
  Machines,   \* the machines it runs on
  Low,        \* frames mapped from address 0 on: 128 MB
  Window,     \* frames mapped of the region: 16 MB
  CodeSpan,   \* frames mapped on either side of the code: 8 MB
  StackSpan   \* ... and of the stack: 2 MB

ASSUME EntriesAssumption == Entries \in Nat \ {0} /\ MaxFirmware \in Nat
ASSUME SpansAssumption == {Low, Window, CodeSpan, StackSpan} \subseteq Nat
ASSUME PagesAssumption == {PageSize, Bits, Width} \subseteq Nat \ {0} /\ NULL \notin Int

(* Memory has fewer frames than a count of pages can tell, and registers   *)
(* are not memory.                                                         *)
ASSUME MemoryAssumption ==
  \A m \in Machines :
    /\ \E size \in 1 .. (Width - 1) :
         m.memory \in [0 .. (size - 1) -> {"conventional", "used"}]
    /\ m.controllers \in Seq([state : {"running", "halted"}, scratchpads : Nat,
                               mmio : Seq(Addresses \ DOMAIN m.memory)])

(* What the kernel uses and maps has an address: 48 bits of it count.      *)
ASSUME AddressesAssumption ==
  \A m \in Machines :
    /\ m.rip \in Nat /\ m.rip + CodeSpan \in Addresses
    /\ m.stack \in Nat /\ m.stack + StackSpan \in Addresses
    /\ m.image \subseteq Addresses /\ m.fb \in Seq(Addresses)
    /\ 0 .. Low \subseteq Addresses
    /\ \A f \in DOMAIN m.memory : f + Window \in Addresses

(* Every xHCI controller is one function of one slot.                      *)
ASSUME PciAssumption ==
  \A m \in Machines :
    /\ m.pci \in Seq([multi : BOOLEAN, alias : BOOLEAN,
                      functions : Seq([kind : {"none", "other", "xhci"},
                                       ctrl : {0} \union DOMAIN m.controllers])])
    /\ \A s \in DOMAIN m.pci :
         /\ m.pci[s].functions # << >>
         /\ \A f \in DOMAIN m.pci[s].functions :
              m.pci[s].functions[f].kind = "xhci" <=> m.pci[s].functions[f].ctrl # 0
    /\ \A s, t \in DOMAIN m.pci :
         \A f \in DOMAIN m.pci[s].functions, g \in DOMAIN m.pci[t].functions :
           m.pci[s].functions[f].ctrl = m.pci[t].functions[g].ctrl
             /\ m.pci[s].functions[f].ctrl # 0 => s = t /\ f = g

VARIABLES
  pc,        \* where the kernel is
  at,        \* the PCI slot and function the scan is at
  ctrl,      \* the controller being set up
  hc,        \* the state of each controller
  pages,     \* the frames the driver gave each controller, and for what
  inits      \* history: how often each controller was set up

xhci == <<at, ctrl, hc, pages, inits>>
vars == <<machine, loader, pmm, vmm, pc, xhci>>

Controllers == DOMAIN machine.controllers
Uses == {"dcbaa", "array", "buffer", "command", "event", "erst"}
Stopped == {"returned", "garbage"}
Ended == {"main_loop", "fatal", "crashed"}

(* What each controller may be in when the kernel finds it. *)
Init ==
  /\ machine \in Machines
  /\ LoaderInit
  /\ stage = "PMM_Init" /\ max_pages = 0 /\ free = {} /\ held = {} /\ result = NULL
  /\ base = 0 /\ kernel_pml4 = NULL /\ tables = << >> /\ todo = << >> /\ mapped = {}
  /\ cr3 = NULL /\ exhausted = FALSE
  /\ pc = "loader"
  /\ at = <<1, 1>> /\ ctrl = 0
  /\ hc = [c \in Controllers |-> machine.controllers[c].state]
  /\ pages = [c \in Controllers |-> << >>]
  /\ inits = [c \in Controllers |-> 0]

-----------------------------------------------------------------------------
(* Memory (main.c 80-215).                                                 *)

At(from, to) == pc = from /\ pc' = to

EnterKernel ==
  /\ step = "entry" /\ At("loader", "pmm_init")
  /\ base' = region.base
  /\ max_pages' = region.size
  /\ UNCHANGED <<machine, loader, stage, free, held, result,
                 kernel_pml4, tables, todo, mapped, cr3, exhausted, xhci>>

SetUpMemory ==
  /\ \/ At("pmm_init", "pmm_free") /\ Pmm!PMM_Init
     \/ At("pmm_free", "vmm_init") /\ Pmm!PMM_FreePages
  /\ UNCHANGED <<machine, loader, vmm, xhci>>

Consecutive(from, size) == [i \in 1 .. size |-> from + i - 1]

(* All frames at most span away. *)
Around(f, span) ==
  LET from == IF f > span THEN f - span ELSE 0
  IN  Consecutive(from, f + span + 1 - from)

(* Faulty variant: the region is thought to lie in low memory. *)
IdentityMapWithoutRegion ==
  Consecutive(0, Low) \o machine.fb
    \o Around(machine.rip, CodeSpan) \o Around(machine.stack, StackSpan)

(* The five loops of kernel_main that map frames, one after the other. *)
IdentityMap ==
  Consecutive(0, Low) \o Consecutive(region.base, Window) \o machine.fb
    \o Around(machine.rip, CodeSpan) \o Around(machine.stack, StackSpan)

SetUpTables ==
  /\ At("vmm_init", "map")
  /\ VMM_Init
  /\ todo' = IdentityMap
  /\ UNCHANGED <<machine, loader, xhci>>

(* What the kernel uses: its image, the stack with the boot information,   *)
(* the frame buffer, the manager's bitmap and every page it was given.     *)
InUse ==
  machine.image \union {machine.stack} \union {machine.fb[i] : i \in DOMAIN machine.fb}
    \union {base + p : p \in held \union (0 .. (Pmm!Reserved(max_pages) - 1))}

(* VMM_Activate.  Without the code or the stack the next instruction       *)
(* faults, and so does the handler there is not.                           *)
Activate ==
  /\ pc = "map" /\ todo = << >>
  /\ VMM_Activate
  /\ pc' = IF \A f \in machine.image \union {machine.stack} : Translate(f) = f
           THEN "heap" ELSE "crashed"
  /\ UNCHANGED <<machine, loader, xhci>>

(* A walk that leaves the tables writes where it should not. *)
GoAstray ==
  /\ pc \in {"map", "mmio"} /\ Astray
  /\ pc' = "crashed"
  /\ UNCHANGED <<machine, loader, pmm, vmm, xhci>>

MapPage ==
  /\ pc \in {"map", "heap_map", "mmio"}
  /\ VMM_MapPage
  /\ UNCHANGED <<machine, loader, pc, xhci>>

(* Faulty variant: the heap page is not looked at. *)
HeapUnchecked ==
  /\ pc = "heap"
  /\ AllocatePage
  /\ pc' = "heap_map" /\ todo' = <<Frame(result')>>
  /\ UNCHANGED <<machine, loader, base, kernel_pml4, tables, mapped, cr3, xhci>>

(* The heap's page; without one the kernel loops for ever. *)
AllocateHeap ==
  /\ pc = "heap"
  /\ AllocatePage
  /\ IF result' = NULL
     THEN pc' = "fatal" /\ UNCHANGED todo
     ELSE pc' = "heap_map" /\ todo' = <<Frame(result')>>
  /\ UNCHANGED <<machine, loader, base, kernel_pml4, tables, mapped, cr3, xhci>>

HeapMapped ==
  /\ At("heap_map", "pci") /\ todo = << >>
  /\ UNCHANGED <<machine, loader, pmm, vmm, xhci>>

-----------------------------------------------------------------------------
(* pci_enumerate (pci.c 65-128).  A slot is a record of its functions, of  *)
(* whether it is a multi-function device and, if not, of whether it        *)
(* answers for all functions as it does for function 0.                    *)

Nothing == [kind |-> "none", ctrl |-> 0]

Function(s, f) ==
  LET slot == machine.pci[s]
  IN  IF f = 1 \/ slot.multi THEN slot.functions[f]
      ELSE IF slot.alias THEN slot.functions[1]
      ELSE Nothing

(* Faulty variant: all functions of every device are looked at. *)
FollowingAll(s, f) ==
  IF f = Len(machine.pci[s].functions) THEN <<s + 1, 1>> ELSE <<s, f + 1>>

(* An absent function is skipped; after function 0 of a device that is not *)
(* a multi-function device comes the next slot.                            *)
Following(s, f) ==
  IF \/ f = Len(machine.pci[s].functions)
     \/ f = 1 /\ Function(s, f).kind # "none" /\ ~machine.pci[s].multi
  THEN <<s + 1, 1>> ELSE <<s, f + 1>>

ReadFunction ==
  /\ pc = "pci" /\ at[1] <= Len(machine.pci)
  /\ at' = Following(at[1], at[2])
  /\ LET found == Function(at[1], at[2])
     IN  IF found.kind = "xhci"
         THEN /\ pc' = "mmio"
              /\ ctrl' = found.ctrl
              /\ todo' = machine.controllers[found.ctrl].mmio
              /\ inits' = [inits EXCEPT ![found.ctrl] = @ + 1]
              /\ pages' = [pages EXCEPT ![found.ctrl] = << >>]
         ELSE UNCHANGED <<pc, ctrl, todo, inits, pages>>
  /\ UNCHANGED <<machine, loader, pmm, base, kernel_pml4, tables, mapped, cr3, exhausted, hc>>

(* Tasks and interrupts follow; they are the subject of Multitasking. *)
ScanDone ==
  /\ pc = "pci" /\ at[1] > Len(machine.pci)
  /\ pc' = "main_loop"
  /\ UNCHANGED <<machine, loader, pmm, vmm, xhci>>

-----------------------------------------------------------------------------
(* xhci_init (xhci.c 1155-1320), up to its port scan.                      *)

Hc(from, to) == hc[ctrl] \in from /\ hc' = [hc EXCEPT ![ctrl] = to]

(* Faulty variant: the controller is not stopped before the wait. *)
StopForgotten ==
  /\ At("mmio", "wait_halt") /\ todo = << >>
  /\ UNCHANGED <<machine, loader, pmm, vmm, at, ctrl, hc, pages, inits>>

(* The BIOS is asked for the controller, for a bounded time and with no    *)
(* consequence; then run/stop is cleared.                                  *)
StopController ==
  /\ At("mmio", "wait_halt") /\ todo = << >>
  /\ hc' = [hc EXCEPT ![ctrl] = IF @ = "halted" THEN @ ELSE "halting"]
  /\ UNCHANGED <<machine, loader, pmm, vmm, at, ctrl, pages, inits>>

ResetController ==
  /\ At("wait_halt", "wait_reset") /\ Hc({"halted"}, "resetting")
  /\ UNCHANGED <<machine, loader, pmm, vmm, at, ctrl, pages, inits>>

ControllerReset ==
  /\ \/ At("wait_reset", "wait_ready") /\ hc[ctrl] # "resetting"
     \/ At("wait_ready", "dcbaa") /\ hc[ctrl] = "ready"
  /\ UNCHANGED <<machine, loader, pmm, vmm, xhci>>

Given(c, use) == {i \in DOMAIN pages[c] : pages[c][i].use = use}
Scratchpads == machine.controllers[ctrl].scratchpads

(* Faulty variant: the buffers come before the array of their addresses. *)
ArrayLast(use) ==
  CASE use = "dcbaa" -> IF Scratchpads > 0 THEN "buffer" ELSE "command"
    [] use = "buffer" -> IF Cardinality(Given(ctrl, "buffer")) + 1 < Scratchpads
                         THEN "buffer" ELSE "array"
    [] use = "array" -> "command"
    [] use = "command" -> "event"
    [] use = "event" -> "erst"
    [] use = "erst" -> "start"

(* What is allocated next. *)
NextUse(use) ==
  CASE use = "dcbaa" -> IF Scratchpads > 0 THEN "array" ELSE "command"
    [] use = "array" -> "buffer"
    [] use = "buffer" -> IF Cardinality(Given(ctrl, "buffer")) + 1 < Scratchpads
                         THEN "buffer" ELSE "command"
    [] use = "command" -> "event"
    [] use = "event" -> "erst"
    [] use = "erst" -> "start"

(* No result is looked at: NULL is frame 0. *)
AllocateTables ==
  /\ pc \in Uses
  /\ AllocatePage
  /\ pages' = [pages EXCEPT ![ctrl] = Append(@, [use |-> pc, frame |-> Frame(result')])]
  /\ pc' = NextUse(pc)
  /\ UNCHANGED <<machine, loader, base, kernel_pml4, tables, todo, mapped, cr3, at, ctrl, hc, inits>>

(* The ports and their devices are the subject of PortScan and XhciDriver. *)
StartController ==
  /\ At("start", "pci")
  /\ hc' = [hc EXCEPT ![ctrl] = "started"]
  /\ UNCHANGED <<machine, loader, pmm, vmm, at, ctrl, pages, inits>>

(* What a controller does with what it was told. *)
HcStep(c) ==
  /\ \/ hc[c] = "halting" /\ hc' = [hc EXCEPT ![c] = "halted"]
     \/ hc[c] = "resetting" /\ hc' = [hc EXCEPT ![c] = "not_ready"]
     \/ hc[c] = "not_ready" /\ hc' = [hc EXCEPT ![c] = "ready"]
  /\ UNCHANGED <<machine, loader, pmm, vmm, pc, at, ctrl, pages, inits>>

Kernel ==
  \/ EnterKernel \/ SetUpMemory \/ SetUpTables \/ MapPage \/ Activate \/ GoAstray
  \/ AllocateHeap \/ HeapMapped \/ ReadFunction \/ ScanDone
  \/ StopController \/ ResetController \/ ControllerReset
  \/ AllocateTables \/ StartController

Program ==
  \/ Kernel
  \/ LoaderStep /\ UNCHANGED <<pmm, vmm, pc, xhci>>

Next ==
  \/ Program
  \/ FirmwareTakes /\ UNCHANGED <<pmm, vmm, pc, xhci>>
  \/ \E c \in Controllers : HcStep(c)

Spec == Init /\ [][Next]_vars

(***************************************************************************)
(* Nothing else runs on the processor; a controller halts, resets and gets *)
(* ready when told.  The waits for that have no limit (xhci.c 1199-1207).  *)
(***************************************************************************)
FairSpec ==
  Spec /\ WF_vars(Program) /\ \A c \in {1, 2} : WF_vars(c \in Controllers /\ HcStep(c))

-----------------------------------------------------------------------------
LoaderSteps == {"open", "file_info", "buffer", "segments", "graphics", "map_size",
                "map_pool", "map", "choose", "exit", "entry"}
PastHeap == {"heap_map", "pci", "mmio", "wait_halt", "wait_reset", "wait_ready", "start",
             "main_loop"} \union Uses

TypeOK ==
  /\ machine \in Machines
  /\ step \in LoaderSteps \union Stopped
  /\ memory \in [DOMAIN machine.memory -> {"conventional", "used", "loader", "firmware"}]
  /\ firmware \in 0 .. MaxFirmware
  /\ pc \in {"loader", "pmm_init", "pmm_free", "vmm_init", "map", "heap"}
            \union PastHeap \union Ended
  /\ free \union held \subseteq Pmm!Page
  /\ DOMAIN tables \subseteq {0} \union {base + p : p \in held}
  /\ ctrl \in {0} \union Controllers
  /\ hc \in [Controllers -> {"running", "halting", "halted", "resetting", "not_ready",
                             "ready", "started"}]

(***************************************************************************)
(* The loader hands over memory that is free (boot/main.c:98-114), and no  *)
(* page the kernel takes from it is also the firmware's, the loader's or   *)
(* part of the kernel: if boot services ended and the segments were        *)
(* allocated, neither of which the loader checks.                          *)
(***************************************************************************)
OnlyFreeMemory ==
  pc # "loader" /\ exited /\ segments => {base + p : p \in Pmm!Page} \subseteq Free(memory)

(***************************************************************************)
(* "Identity map the PMM region itself so we can access it" (main.c:137):  *)
(* after VMM_Activate everything the kernel uses is mapped to itself,      *)
(* pages it was given later included, and so are the registers of the      *)
(* controllers, unless a request for a page has failed.                    *)
(***************************************************************************)
EverythingMapped ==
  cr3 # NULL /\ ~exhausted /\ pc # "crashed" =>
    /\ \A f \in InUse : Translate(f) = f
    /\ \A c \in Controllers : pages[c] # << >> =>
         \A i \in DOMAIN machine.controllers[c].mmio :
           LET f == machine.controllers[c].mmio[i] IN Translate(f) = f

(***************************************************************************)
(* VMM_MapPage does not look whether it got a page for a table             *)
(* (vmm.c:31).  The check of the heap's page (main.c:195) makes up for it: *)
(* nothing is freed in between, so past it all code, the stack and the     *)
(* frame buffer are mapped, even if memory runs out later.                 *)
(***************************************************************************)
NullTableIsFatal ==
  pc \in PastHeap =>
    \A f \in machine.image \union {machine.stack}
             \union {machine.fb[i] : i \in DOMAIN machine.fb} : Translate(f) = f

(***************************************************************************)
(* The scan sets up every xHCI controller once, also one that answers for  *)
(* all functions of its slot (pci.c:121-124).                              *)
(***************************************************************************)
OncePerController ==
  \A c \in Controllers :
    /\ inits[c] <= 1
    /\ pc = "main_loop" =>
         inits[c] = Cardinality({s \in DOMAIN machine.pci :
                      \E f \in DOMAIN machine.pci[s].functions :
                        /\ machine.pci[s].functions[f].ctrl = c
                        /\ f = 1 \/ machine.pci[s].multi})

(***************************************************************************)
(* A controller is given its tables only while it is halted, reset and     *)
(* ready (xhci.c 1198-1207).                                               *)
(***************************************************************************)
TablesWhenReady ==
  \A c \in Controllers : pages[c] # << >> => hc[c] \in {"ready", "started"}

(***************************************************************************)
(* Memory, tables and controllers are well formed; the page tables are     *)
(* exact, and controllers get theirs when they are ready.                  *)
(***************************************************************************)
Inv == TypeOK /\ TranslationExact /\ TablesWhenReady

(***************************************************************************)
(* The array of scratchpad addresses has one page and room for 512; up to  *)
(* 1023 are stored (xhci.c:1262).  Pages are given out in order, so the    *)
(* addresses that do not fit go to the controller's own first buffer and   *)
(* to no page of the kernel, unless a request for a page has failed.       *)
(***************************************************************************)
OverflowStaysInBuffer ==
  ~exhausted =>
    \A c \in Controllers : \A a \in Given(c, "array") :
      \A n \in 0 .. (Cardinality(Given(c, "buffer")) - 1) :
        n \div Entries # 0 =>
          pages[c][a].frame + n \div Entries \in {pages[c][i].frame : i \in Given(c, "buffer")}

(***************************************************************************)
(* Every boot ends: in the main loop, in the loop after FATAL, in a fault, *)
(* or back in the firmware.                                                *)
(***************************************************************************)
BootEnds == <>(step \in Stopped \/ pc \in Ended)
=============================================================================
