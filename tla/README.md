# Tiny64: formal models

Tiny64 is a small x86-64 operating system: a UEFI boot loader, a kernel with a
physical memory manager, page tables, a heap, preemptive multitasking, a PCI
scan and an xHCI USB driver that polls keyboards and mice, and a Python tool
that writes the system to USB drives. This directory holds TLA+ models of all of
these, the TLC configurations that check them, and TLAPS proofs.

Paths below are relative to the repository; `xhci.c` is
`src/kernel/drivers/usb/xhci/xhci.c`, `main.c` is `src/kernel/core/main.c`, and
the loader's `main.c` is always written `boot/main.c`.

## Running

    tlc -config MCEventRing.cfg MCEventRing.tla     # one of the runs below
    tlapm EventRingProofs.tla                       # one of the proof modules

Definitions introduced with "Faulty variant" are what a plausible bug would turn
the definition next to them into. No specification uses them; each is there to
show that a property notices the bug.

## Inventory

| component | state | operations | what makes it correct |
|---|---|---|---|
| xHCI event ring (`xhci.c` 57-127) | TRBs in memory shared with the controller, `event_ring_index`, `event_ring_cycle`, the ERDP register | `xhci_poll_event`, `xhci_event_ring_update_erdp`; the controller writes TRBs | no event is lost, repeated, reordered or overwritten, although the only shared knowledge is a cycle bit and a register that is one step late |
| command and transfer rings (`xhci.c` 71-75, 376-441, 872-905) | a page of TRBs with a link TRB, index, cycle | three `*_ring_push`, the doorbells; the controller drains | everything pushed is executed once and in order |
| device bring-up and polling (`xhci.c` 142-374, 443-594, 845-870, 906-1152, 1524-1610) | `g_devs`, the DCBAA, one ring set and buffer per device | commands, control requests, two kinds of waits that poll the event ring, `xhci_poll_events` | an answer is taken for what it answers; slots, table and controller agree; every device ends up polled |
| root hub port scan (`xhci.c` 1336-1523) | PORTSC of each port, copies of it in locals | power, reset, waits, acknowledging changes, wake-up | the scan ends, and what it addresses undisturbed is a usable port |
| controller initialisation (`xhci.c` 789-828, 1155-1335) | operational registers, DCBAA, scratchpads | hand-off, halt, reset, start | it is given tables only when it is ready; the addresses of more scratchpads than a page has room for overwrite nothing but scratchpads |
| physical memory (`mem/pmm.c`, `main.c` 80-128) | a bitmap inside the region it describes | `PMM_Init`, `PMM_FreePages`, `PMM_AllocatePage`, `PMM_FreePage` | a page has one owner; the bitmap is nobody's page |
| virtual memory (`mem/vmm.c`) | four levels of tables | `VMM_MapPage`, `VMM_Activate` | mapping one page leaves the others mapped; everything the kernel uses is mapped |
| heap (`mem/heap.c`) | a list of blocks with headers | `kmalloc`, `kfree` | blocks tile the region, held blocks stay |
| tasks (`tasking/task.c`, `cpu/idt.c`, `arch/interrupt_stubs.s`) | `tasks[]`, `current_task`, stacks | `Task_Create`, the timer interrupt, `Task_Schedule` | a task resumes where it stopped; none is starved |
| console (`drivers/console.c`) | the cursor and the frame buffer | `PutChar`, `PrintString` | the cursor stays on the screen, although tasks share it and preempt each other |
| boot sequence (`main.c`) | the order of all of the above | `kernel_main` | what is used was set up and is mapped, or the boot stops |
| PCI scan (`drivers/pci.c`) | none of its own | `pci_enumerate` calls `xhci_init` for each controller | each controller once; the driver's globals belong to one of them |
| boot loader (`src/boot/main.c`) | the memory map and its key | load the kernel, leave boot services | the region it hands over is free memory |
| flasher (`tiny64_usb_flasher.py`) | the lists, the selection, files on drives | refresh, update, copy, flash, each in a thread | a drive that is left in peace boots; no drive gets a mixed system; of the drives that were in when the window opened, only those picked or labelled for it are written to |

How they interact. `kernel_main` calls the parts in order: the PMM lies under the
page tables, the heap page and the xHCI driver's rings; `pci_enumerate` runs the
whole of `xhci_init`, the port scan and the bring-up of every device included,
with interrupts off. Then it creates the tasks, enables the timer interrupt and
becomes task 0, which calls `xhci_poll_events` for ever. Driver and controller
share memory and registers and run truly concurrently. The tasks share the
console and nothing else.

What is hard here: the ring protocols (two parties, no lock, late registers);
one event ring for all answers, read by waits that drop what they do not want and
give up after a number of spins; PORTSC, written by both sides with copies read
earlier; the bitmap that describes the memory it is in; merging and splitting
heap blocks; frames on stacks that an interrupt can put anywhere; loads and
stores of a cursor that everybody moves; page tables that may be NULL; a boot in
which hardly any result is looked at; threads that write to the same drive.
Nothing in the kernel is persistent, so there is no recovery after a crash to
model there; the flasher's copies can fail half way, and that is modelled.

## The models

### BoundedQueue, EventRing, TrbRing

`BoundedQueue` is what a ring promises: a FIFO queue of bounded length. Two
modules implement it, and `XhciDriver` uses queues because they do.

`EventRing` has one action per driver step: `Poll` is `xhci_poll_event` up to the
point where the index has moved, `UpdateErdp` the register write that comes after
it. Between the two the controller (`HcPost`) still sees the old ERDP. `HcPost`
follows the hardware's rule for a full ring and is otherwise free. The refinement
mapping makes the queue out of the TRBs between the two indices.

`TrbRing` is the command, endpoint-0 and interrupt ring, whose code differs in names
only. The kernel is built without optimisation, so a push's stores reach memory one
by one: the TRB's lower half (`Push`), its upper half, which has the cycle bit
already (`StoreUpperHalf`), and then the read-modify-writes that clear and set that
bit (`ClearCycle`, `SetCycle`). The controller may look between any two: it may find
a TRB, execute it, and have it rewritten behind its back, or find it hidden and go
idle just before the doorbell. A push never looks at how far the controller is:
`MaxPending` is what the callers leave outstanding. The link TRB is written by
`Init` and by nobody after, so a ring executes two laps and no more: `RingLife`,
which is what the code does and a bound a driver should not have.

### XhciDriver

The driver is one sequential program and `pc` is the wait it is in (`enable`,
`address`, `configure`, `control`), the start of a port's turn, or `poll`. An
action is what the program does from one event to its next wait: for instance
`CommandCompletes` with `pc = "address"` is the rest of
`xhci_cmd_address_device`, the device table entry and the first control request.
The waits are as in the code: `CommandCompletes` takes the next command completion
whichever command it answers, `TransferCompletes` the next transfer event of the
slot whichever endpoint or stage it is for, `DropEvent` throws the others away,
`WaitTimesOut` ends the spin.
A timeout with the answer still on its way counts as a fault, and so does an error
completion; the machine's `faults` bounds them.

The controller executes commands (`HcCommand`) and control stages (`HcControl`)
and completes reports (`HcReport`), in any order among rings and in order within
one. Rings, contexts and configuration buffers are allocated while a port is
brought up, so they are named by that port. Report buffers are not: an entry of
`g_devs` gets one when it is first polled and keeps it when its slot number goes to
another controller's device (`xhci.c` 580, 1109-1125), so they are named by the slot,
a TRB of `intrq` is the name of the buffer it points to, and `report` says whose
report is in each.

What kind of machine it is belongs to the initial state: `setup` is a record of the
ports' devices, the controller of each port, the slots, the event ring's length,
whether the controller is done before the doorbell write returns (`synchronous`,
as QEMU is), and the faults. `InitNextController` is `xhci_init` for the next
controller: DCBAA and rings are replaced, the device table is not. The controller
before is not halted: `EarlierControl` and `EarlierReport` go on with the stages and
TRBs that its rings hold, reports land in the buffers their TRBs point to, and the
events are read by nobody. Memory does not run out here: `PMM_AllocatePage`
returning NULL for a context, ring or buffer (214, 458, 873, 950, 1033, 1043), which
the code does not look at, is left out.

A device is the sequence of its interfaces, each with its class and its first
interrupt-IN endpoint. `ParseConfig` finds all of it or, if the buffer does not hold
the complete configuration when it runs, nothing: the loop ends at the first length
of 0. As in the code the last HID interface is the one that is talked to, the first
boot interface's endpoint decides whether to poll, and what is polled is endpoint 1.
What a report says is left out.

### PortScan

One port, because ports share nothing. Each action is one read or one write of
PORTSC; `ps` is the copy the code works on, and a write stores the copy with a few
bits changed, while the hardware may have changed the register in between.
`ScanInit` ranges over everything firmware can leave. Unplugging, failed resets,
suspends and premature timeouts are mishaps, bounded by `MaxMishaps`. `ped1c` says
what writing 1 to PED does: turn the port off, as in the xHCI specification, or
nothing, as in QEMU. PR shows a reset of either kind. The wait after a warm reset
looks at WPR (1430), which reads as 0, so it is over at once (`Warm`); the wait
after a cold one looks at PR. Left out: the second test for port power directly
before the reset, which finds the power on because nothing turns it off, and the
helpers `xhci_port_*` (655-787), which have no callers.

### PMM and PageAllocator

`PageAllocator` says what an allocator of pages promises. `PMM` has the bitmap as
the set of pages whose bit is clear, the reservation `kernel_main` computes, and
the wrap of its page count. `OwnerWrites` is the interesting action: the owner of
a page may write to it, and if bits of the bitmap lie in that page they change at
will. `PMM_FreePage` has no caller in the kernel and is modelled as the interface
it offers to an owner of a page.

### Heap

The list of blocks as a sequence, with each block's own address stored as in the
code, so that `Tiles` is a statement about what `kmalloc` and `kfree` wrote. What
`kmalloc` returns and leaves is an operator on lists, `Kmalloc`. `kfree` marks the
block and starts the merging pass; each round of the pass's loop is an action,
`Swallow` or `MoveOn`, and `current` is where the pass is, so its invariant can be
stated. Nothing else happens to the heap until the pass has ended. `kfree`
has no caller in the kernel; callers free what they hold and once.

### Multitasking

Extends `Heap`, whose `kmalloc` is part of `AllocateStack`. A stack is named by the
address of its top and is a number of cells, each of them
one frame. Two stacks with the same top are the same memory. `AllocateStack`,
`CreateTask` and `Sti` are `kernel_main`; `Call` and `Return` are what any running
code does with its stack; `TimerInterrupt` is what the CPU and the stub push,
`irq0_handler` the handler with `Task_Schedule` and the end of interrupt, `Iretq`
the stub's way out. `stopped` is a history variable: the context of each task that
is not running. Not modelled: a task whose calls overflow its 4096 bytes.
`Task_Yield` is declared and never defined, `context_switch` never called.

### BootLoader, VMM, KernelBoot

`KernelBoot` is the boot from the loader's first line to the end of the PCI scan; it
extends the other two, and `VMM` uses `PMM` (by `INSTANCE`, so the pages are the
manager's). Memory is a function from frame numbers to who has the frame.

`BootLoader` has an action for each firmware call whose result matters. The firmware
(`Take`, `AllocatePool`, `FirmwareTakes`) is external: it gives out pool from the
machine's `spots` (an `AllocatePool` that fails is left out), and may at any time
take a frame for itself, which changes the map and its key. `LoadSegments` and
`ExitBootServices` go on whatever the call returned; whether it worked is kept in
`segments` and `exited`.

`VMM` keeps the contents of the frames used as tables. `VMM_MapPage` is one step for
each table it adds and one for the entry, so that memory can run out at any of
them: then `Frame` is 0 and frame 0 becomes a table, of several levels at a time if
it happens again. A walk that leaves the tables (`Astray`) would write anywhere;
the model stops there ("crashed").

`KernelBoot` adds the loops of `kernel_main` (`IdentityMap` lists the frames in
order), the heap's page, the PCI walk over slots and functions, and `xhci_init` up
to its port scan. The state of each controller (running, halting, halted, ...)
changes by `HcStep`. A machine is a record: its memory, where the firmware puts
pool, the kernel's image and stack, the frame buffer, what is in the PCI slots, the
controllers. Left out: the contents of the rings (they are the initial states of
`EventRing` and `TrbRing`), and the bytes of the ELF file, which is good or bad.

### Console

`PutChar` as unoptimised code runs it: each `+=` is a load and a store, the check is
a step of its own, and another writer may come in between any two. The characters'
columns and the pixels' colours are left out; what is kept of the frame buffer is
which rows have text on them. `torn` and `mixed` are history variables: a line was
stored that was computed from an old one; two writers were in `PutChar` at once.

### Flasher

The window (`rows`, `selection`, `diskRows`, `question`), the threads, and the
drives. The script knows volumes by letter and disks by number, so those are what
rows, questions and threads hold; `drive` and `disk` say what they stand for now.
A thread's step is where it is in `_task` and `_safe_copy`; opening a file
for writing and writing it are separate, since a failure or another thread may come
in between. `Over` is the end of a thread by success or exception, with the refresh
a flash ends in. The window is busy with one question at a time, but goes on
handling `_update_ui`. A label is TINY64, another with TINY64 in it, or none of
these, because a scan selects a volume whose label equals TINY64 (234, `Tiny64`)
and quick update looks for one that contains it (290, `InLabel`).

Windows is external. When a drive is pulled out (`Replug`), its number and a free
letter may go to one that is plugged in, the internal disk included; a format takes
away the files and gives the volume a free letter. Windows would refuse to remove a
file that another thread has open; here the removal works and the other's write
fails, so it is the other of the two that ends with an exception. The PowerShell
script is one step that can fail half way; a number that changes between the
script's own check and its first write is left out. `meant`, `late`, `touched`,
`disturbed` and `intact` are history variables.

## The runs

Each module's safety invariant is `Inv` (`HeapInv` and `ScanInv` in the two modules
that others extend along with their own), the conjunction of its type invariant and
its named parts, stated one by one in the module: `RingInv` and `ReadyIsExact` of the
rings, `OneCommandOutstanding` of the driver, `UndisturbedIsUsable` of the scan,
`BitmapReserved`, `Disjoint` and `NothingLost` of the PMM, `Tiles` and
`NoFreeNeighbours` of the heap, `FramesSurvive` of the tasks, `TranslationExact` and
`TablesWhenReady` of the boot, `RoomForNext` of the console, `NeverMixed`,
`SuccessIsBootable` and `InternalDiskSafe` of the flasher. What is not a part of
`Inv` is listed by its own name.

| run | shows | bounds, and why they are enough |
|---|---|---|
| `event_ring` | lossless FIFO, exact readiness test, every event is taken in the end | N = 5, two events: all pairs of positions, both cycles on both sides, many laps, full and empty |
| `trb_ring` | lossless FIFO for two laps, everything pushed in them is executed, and no ring lives longer | 4 TRBs, 3 of them usable; three laps of the driver, after which it is out of pending places; the controller may look between the four stores of each push |
| `driver` | commands and slots are kept apart; a report is read as its device wrote it, unless an earlier controller's device wrote over it; bring-up ends, polling goes on, and if nothing goes wrong boot devices that fit the driver's choices are polled and told the boot protocol | four machines: a keyboard and a device without an endpoint on a controller that takes its time (6 events let it run ahead to the armed endpoint); a keyboard and a mouse on a synchronous one, two faults (an error or timeout in one bring-up and another in the same or the next); two controllers with one slot each, so that the second's device gets the first's report buffer, and the second with a device too many, two faults; a device whose third interface is the boot one, and one whose endpoint is number 2 and whose last HID interface is not the boot one |
| `driver_polled` | violation: a boot device is never polled | one device |
| `port_scan` | the scan ends, addresses a stable device, and what it addresses undisturbed is usable; a cold reset turns the port off where PED is cleared by writing 1 | all states firmware can leave, both kinds of PED, two mishaps: enough for a device to leave and come back |
| `pmm` | implements `PageAllocator`; the bitmap is reserved; nothing is lost | a byte of 2 bits and a page of 2 bytes: regions of 0 to 8 pages need up to two bitmap pages; Width 16 for the wrap |
| `heap` | tiling, complete merging, held blocks stay, waste is bounded | 18 bytes, header 2: up to nine blocks, requests of 0, of sizes around the split threshold, and one that never fits |
| `multitasking` | frames survive, each task resumes where it stopped, none is starved | three stacks and a table for three tasks (the kernel's own is the first), so the last create is refused; calls nest three deep |
| `multitasking_kernel` | violation: task 1 resumes as task B | the kernel's own sizes |
| `boot` | what is handed over is free; page tables are exact and cover everything used; a NULL table ends in FATAL or a crash before the heap is used; controllers are set up once, when ready; scratchpads beyond a page stay in a scratchpad; the boot ends | 60 frames, tables of 4 entries, so 4 levels cover 256 frames and any two of the mapped ranges share some tables and not others. 15 machines: plain, two controllers (5 scratchpads for 4 entries), an occupied image, a split region, eight sizes of region from none to just too small, and the loader's error returns; the firmware takes one frame |
| `console` | the column is in range, the line too unless a store was lost, and scrolling clears what it should | three writers, lines of two characters, screens of three lines and of three and a half; `Wrap` = 14 lets the cursor wrap |
| `flasher` | no drive that was in gets a mixed system; one left in peace boots; the internal disk is not formatted; of the drives that were in, only those picked or labelled with TINY64 are written to or formatted | two sticks and the internal disk, one disk number; either two threads and one letter (threads meet on a drive) or one thread and two letters (two drives to confuse): both at once is too much for TLC. One mishap: a failure, or a drive pulled out and another plugged in under its names |

Deadlock checking is off where the system may stop: a ring at its link TRB, a
driver with nothing to poll, a scan or a boot that has ended.

Some bounds stand for sizes of the real system. The kernel maps 16 MB of the
region, 4096 pages; it takes about 150 of them for tables, and up to 1029 for each
controller and its scratchpads, so `Window` is larger than what is given out. With
four controllers of 1023 scratchpads, or a region so large that its bitmap fills
the 16 MB (512 GB), `EverythingMapped` would not hold; no such machine is in the
run. `Wrap` is 2^32 in the code.

### Fairness

- `kernel_main` ends in a loop without exit, so the driver's polling steps are
  weakly fair; the waits of the bring-up are bounded loops, so some driver step
  always comes.
- A push, once begun, runs to its end, and its caller rings the doorbell in its next
  statements.
- The controller executes what it was told (`HcCommand`, `HcControl`,
  `HcExecute`, `HcStep`, the end of a reset). `BootEnds` rests on it: the waits for
  halt, reset and ready have no limit. A device need not ever have a report: `HcReport`
  and `HcPost` are not fair.
- Loader and kernel are the only program there is until tasks are created
  (`Program`).
- The timer ticks at 100 Hz. `PIC_Remap` puts back the interrupt masks it found,
  so this assumes that firmware left IRQ 0 unmasked.

## What the code does otherwise

Runs that expect a violation show where the code does not do what a comment in it
says:

- `driver_polled`: all stages of a control request report their completion, and the
  wait is content with the first. The configuration is parsed before it has
  arrived unless the controller is done before the doorbell write returns.
- `multitasking_kernel`: the heap has 4072 bytes, so both stacks of 4096 bytes are
  NULL; both tasks get the stack that ends at address 4096, and the second
  `Task_Create` overwrites the frame of the first.

Found while modelling:

- A port is read once more after it was found ready, its speed is taken from that
  read and nothing else is looked at: a device unplugged in between is addressed
  with speed 0, although a comment (`xhci.c:1522`) says that this is not attempted.
  `UndisturbedIsUsable` is the part that holds, if nothing is unplugged.
- No push gives the link TRB the cycle of the current lap, so a ring executes two
  laps, 510 TRBs, and no more (`RingLife`, proved as `TwoLapsAtMost`). An interrupt
  ring gets one TRB per report: a keyboard stops after 510 reports.
- In the xHCI specification PED is cleared by writing 1. The scan writes back the
  copy it read, PED included, when it acknowledges changes, so on such hardware a
  port that a cold reset has just enabled is turned off again and never addressed
  (the second part of `StableDeviceAddressed`). A port of speed 4, which is reset warm,
  may escape: nobody waits for the end of that reset, so the copy may be of before.
- After a report that completed with an error the driver pushes the next TRB, but the
  endpoint is halted and nothing resets it, so polling that device is over. The
  same goes for endpoint 0 after a stall.
- A device with several HID interfaces has the last one told to use the boot
  protocol (`xhci.c:288`) and the first boot interface polled (314), and the endpoint
  context is that of endpoint 1 IN whatever the descriptor says (451): a keyboard
  whose endpoint is number 2 gets a TRB that never completes well. `Fits` in
  `UndisturbedBootDevicesPolled` says for which devices it works out.
- With several controllers only the last one is polled: the event ring of the
  others is read by nobody. None of them is halted, and a report buffer belongs to
  a slot number for good. A device of an earlier controller may so write its one
  report, if it comes late, over that of the device that has the slot number now,
  and it is printed as that one's. `OneReportBuffer` and `ReportsFindTheirDevice` hold
  but for this, and the `driver` run contains it.
- A writer preempted between loading and storing the cursor's line loses the other's
  lines or scrolls (`torn`). The cursor may then be below the screen, and if it is by
  more than a line every newline scrolls and nothing is seen again; or it is stepped
  back below 0 and wraps. A height that leaves 1 to 15 rows below the last whole line
  of 20 (768 does) makes the last line lose its bottom.
- The loader ignores the status of `ExitBootServices` and of the segments'
  `AllocatePages`; `OnlyFreeMemory` has both as premises. A frame the firmware takes
  for itself between the two `GetMemoryMap` calls can make the map longer than its
  buffer, and what is in it is then used unread (`MapFits` excludes it for the
  loader's own allocations only).
- A page table that could not be allocated is frame 0. The heap's page cannot be
  allocated either then, and its check ends the boot (`NullTableIsFatal`), if the
  boot gets there.
- More than 512 scratchpads are stored past the page of their addresses, into the
  first scratchpad (`OverflowStaysInBuffer`), by the order of
  allocation and by nothing else. It is the controller's own to write to, so the
  addresses stored there do not last; the controller reads them when it likes.
- `xhci.c:1315` says "do NOT enable INTE yet"; the next line sets `USB_CMD_INTE`. No
  interrupt line is unmasked for it.
- The flasher's copy asks about one drive and then reads the selection again, so a
  refresh that ends while the question is on the screen can send the files to
  another (`OnlyChosenOrTiny` bounds the damage). Quick update takes the selected
  drive whatever its label, and without a selection any drive with TINY64 in its
  label, MYTINY64 for instance. A letter or number listed before may stand for
  another drive by the time it is used: a stick plugged in meanwhile is written to
  or formatted in another's place, and a copy that goes on there leaves it mixed.
  Two refreshes that overlap list every drive twice. A copy that fails after the old
  kernel was removed leaves the drive without one.
- A report that completes while another device is being brought up is dropped by
  that bring-up's waits, and only `xhci_poll_events` re-arms an endpoint, so the
  device is never polled again. `RearmedInMainLoop` is the part that holds.
- The bitmap's size is rounded down in `main.c` (108) and up in `pmm.c` (36). For a
  region 1 to 7 pages above a multiple of 128 MB the last byte of the bitmap is in
  a page that is given out. `FittingSizes` proves that there are no other such
  sizes; the properties of `PMM` hold for the sizes that fit and `MCPMM` takes
  those.

## The proofs

All for arbitrary values of the constants, from the assumptions named in the
modules.

- `EventRingProofs`: `TypeCorrect`, `RingCorrect` (`Inv`), `PollIsExact`
  (`ReadyIsExact`), `RingImplementsQueue`. The invariant `RingInv` has four parts
  that need each other: the indices are at most a lap apart; TRBs behind the
  controller carry its cycle and those ahead the other one; unread TRBs are written;
  ERDP is at most one TRB behind, and in that case the controller is not at ERDP.
  The last part is what forbids the controller to overwrite an unread TRB, the
  second is what makes the cycle test exact. The queue is mapped to the TRBs from
  the driver's index on; lemmas give the count and the sequence after a step.
- `TrbRingProofs`: the same for a ring the driver fills, and `TwoLapsAtMost`
  (`RingLife`). The
  counters `pushed` and `executed` make the invariant easy to state: a slot's cycle
  bit is a function of how often it was written. The controller's lap is bounded
  because the link TRB's cycle is constant. While a push has the cycle bit cleared,
  the slot is an exception to that function, and `ReadyIsExact` says what the
  controller then sees (`Hidden`). In the refinement the store of the upper half is
  what puts; the other stores of a push change nothing that waits (`PushStutters`).
- `PMMProofs`: `ManagerCorrect` (`Inv`) and `ManagerImplementsAllocator`, under
  `AllFit`: the region's bitmap fits the pages reserved for it. `Disjoint` alone is
  not inductive because owners may write to bitmap bits; with `BehindBitmap` (no
  free or owned page is a reserved one) `OwnerWrites` changes nothing
  (`OwnersAreHarmless`). `NothingLost` comes last: the wrapped count of
  `PMM_FreePages` is exact whenever there is a page behind the bitmap.
  `FittingSizes` discharges the condition for the kernel's page size, by arithmetic.
- `ConsoleProofs`: `RoomCorrect` (`Inv`) and `LineCorrect` (`CursorOnScreen`), for
  any number of writers. The first follows from `Checked`: a column without room
  belongs to a writer that has yet to check it. The second needs a count: `LineInv`
  says that the cursor is a multiple of a line, that whoever is about to step back
  can do so, and that the cursor is below the screen by no more lines than there are
  writers that have stored one and have yet to look or to step back.
- `FlasherProofs`: `FlasherCorrect` (`Inv`), `CopiesWhereMeant` (`OnlyChosenOrTiny`)
  and `DoneMeansBootable` (`QuietMeansBootable`), for any drives and threads. Every
  step of a thread is classified once by what it does to a drive (`Effect`: nothing,
  something elsewhere, start, format, copy), and the invariants are proved over the
  classes. `QuietInv` is the interesting one: what a drive lacks, some thread will
  yet write, and whoever destroys something is one of those threads. All three say
  nothing of drives plugged in meanwhile but that a disk that is not removable is
  never formatted.
- `ConsoleProofs` also has `ScrollCorrect` (`FreshLine`): as long as no writer has
  interrupted another, ink is above the line being written, or the writer at work
  is about to clear what it uncovered. It needs a screen whose width is below
  `Wrap` (`ScreenAssumption`), so that a column never wraps.
- `XhciDriverProofs`: `DriverCorrect` (`Inv`), `BufferCorrect` (`OneReportBuffer`),
  `SlotsCorrect` (`SlotsAgree`) and `ReportsCorrect` (`ReportsFindTheirDevice`), for
  any setups. The invariant is `IInv`. `TypeInv` adds to the types that a device is
  addressed with a slot, and that only an interface that exists is told the boot
  protocol. `PortsOnce` says that no port is brought up twice and that all that is
  known of it is known under one slot, even by commands whose wait has timed out,
  and that what earlier controllers run is of earlier ports. Only with it is the
  buffer of a TRB that of the slot whose ring it is on (`BufferInv`, `OneClaim`): a
  ring has a TRB that waits or a report on its way, never both, and neither before
  the device's bring-up is over; the report is in the buffer where the device wrote
  it, unless a device of an earlier controller has written there since (`Written`).
  `AgreeInv` holds unless a command wait has timed out, and is the reason why the
  driver may take the next completion without looking at which command it answers:
  there is one command, or one answer to it, and it is the one the wait is for. From
  that follow the slots, contexts and DCBAA entries one by one, whoever is ahead.
  The ports are brought up one controller after the other (`SetupsAssumption`), as
  `pci_enumerate` does.
- `XhciDriverProofs` also has `ScanCorrect` (`ScanInv`) of `PortScan`. `StageInv`
  says what is known at each stage of the scan if nothing went wrong so far: the
  device is there, after a reset the link is not suspended, the scan believes that a
  port is ready only if it is, and so an undisturbed scan never has to wake a port.
  One step per stage.
- `KernelBootProofs`, for every machine, any size of tables, pages and windows:
  - `MapCorrect` (`MapFits`) and `RegionCorrect` (`OnlyFreeMemory`). A frame that
    changes hands adds two descriptors at most, which is what the loader leaves
    room for. The region is free as long as the map's key is the current one, and
    an exit that worked had that key (`RegionInv`).
  - `ScanCorrect` (`OncePerController`). What was set up is what lies before the
    scan's place in the order of slots and functions (`OnceInv`); the scan is at a
    place where a function can answer.
  - `KernelCorrect` (`Inv`). The hard part is `TranslationExact`: `ExactInv` says
    that every table is on one level and only on ways of addresses that begin
    alike, so a new entry is on the way of one address only. It holds as long as
    every table had a page. Frames that were given out are never handed out
    again (`ManagerInv`), so a new table is not one already.
  - `FatalCorrect` (`NullTableIsFatal`). Once a request has failed the manager is
    empty for good (`ManagerInv`), so the heap's request fails as well, and a boot that
    gets past it had a table for everything the kernel maps before. `KeptInv` keeps
    that so if pages run out later: frame 0, then cleared and used as a table, is on
    no way to what is kept, and neither are the tables that are added.
  - `OverflowCorrect` (`OverflowStaysInBuffer`), from `PagesInv`: while no request
    failed, the frames of a controller follow one another in the order of their
    uses, because the manager takes the first free page and nobody gives one back.
  - `WindowCorrect` (`EverythingMapped`), under `InWindow`: what was given out, the
    bitmap included, is in the part of the region that the kernel maps. The
    theorem says that nothing else is needed. That the window suffices depends on the
    machine (see the bounds above); TLC checks `EverythingMapped` without the condition
    on the machines of the run.

  What is assumed of machines is stated with the constants of `KernelBoot`: memory
  begins at frame 0 and is smaller than a page count can tell, registers are not
  memory, what is mapped has an address that four tables can tell apart, a
  controller is one function of one slot.

- `MultitaskingProofs`, for both modules:
  - `HeapCorrect` (`HeapInv`), `HeldCorrect` (`HeldAreBlocks`) and `WasteCorrect`
    (`WasteBounded`), for any sizes of region, header and slack and any requests.
    The invariant `HeapIInv` says of every block where it ends (`Laid`), of every
    block in use that it is held (`HeldFrom`), and of every pair of neighbours the
    pass has behind it that they are not both free (`Passed`). `Passed` is what
    makes the merging complete: a block that swallows the next one is looked at
    again before the pass goes on. No fold or induction is needed, because a round
    of the pass is a step.
  - `TasksTyped`: `TypeOK`, whatever `kmalloc` returns. `TypeIInv` adds that stack
    pointers leave room for the frames an interrupt needs, and that what the
    stub finds at the stack pointer is a frame.
  - `FramesCorrect` (`Inv`): as long as no `kmalloc` has failed (`NoneFailed`).
    Blocks in use have different addresses, so the stacks have different tops. A task
    that waits has its frame on its own stack, and what runs writes to the stack of
    the current task only (`FramesInv`).
  - `RoomCorrect` (`Inv`) and `ResumeCorrect` (`ResumesWhereStopped`): if
    `EnoughHeap`, no `kmalloc` fails. That is, the heap has
    room for as many stacks and headers as there are tasks, and `Slack` is too small to
    waste a whole stack; `Room` says how much of the last block is left while stacks
    are allocated. The kernel's own numbers, one
    page of heap for two stacks of 4096 bytes, do not satisfy `EnoughHeap`:
    `multitasking_kernel` shows what happens then.

Only model-checked: liveness (`EventuallyTaken`, `TwoLapsExecuted`, `BringUpEnds`,
`RearmedInMainLoop`, `UndisturbedBootDevicesPolled`, `ScanEnds`,
`StableDeviceAddressed`, `EveryTaskRuns`, `BootEnds`). Fairness and ENABLED are
outside what tlapm handles. Every invariant the passing runs check is a theorem,
`EverythingMapped` under `InWindow` and `Inv` of `Multitasking` under `EnoughHeap`.

## Not modelled

GDT, IDT and PIC set-up write constants once; the path of the one interrupt they
enable is in `Multitasking`. Serial output and fonts have no state worth a property.
The build and run scripts are used as a source of facts only (no optimisation, which
devices QEMU gets). The helpers `xhci_port_*` (655-787) have no callers. Of the
driver, the walk over a configuration's bytes is abstracted to its result, so
configurations whose descriptors have wrong lengths are left out: the loop's two
breaks (269, 271) end it there, with what was found before.
