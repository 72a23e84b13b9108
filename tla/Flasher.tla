------------------------------ MODULE Flasher ------------------------------
(***************************************************************************)
(* The USB flasher (tiny64_usb_flasher.py): a window whose buttons start   *)
(* threads that list the drives, copy the two files of the system to a     *)
(* drive, or format a disk first.  Nothing keeps two threads off the same  *)
(* drive (_lock is never taken), and while a question is on the screen the *)
(* window goes on handling what the threads send it.                       *)
(*                                                                         *)
(* The script knows volumes by their letters and disks by their numbers.   *)
(* Windows gives both to other devices when sticks are pulled out, and a   *)
(* formatted disk gets a letter that is free.                              *)
(***************************************************************************)
EXTENDS Naturals

CONSTANTS
  Sticks,     \* the removable drives
  Internal,   \* a drive that is not removable, plugged in late if at all
  Numbers,    \* of disks
  Letters,    \* of removable volumes
  Threads,    \* bound on the threads at work at a time
  NULL,       \* nothing
  MaxMishaps  \* bound on exceptions out of the blue and on pulling and plugging

Drives == Sticks \union {Internal}

ASSUME NamesAssumption ==
  Internal \notin Sticks /\ NULL \notin Drives \union Numbers \union Letters
ASSUME BoundAssumption == MaxMishaps \in Nat

VARIABLES
  \* the drives
  volume,     \* of each drive: its label and files
  disk,       \* the drive each number stands for, or NULL
  drive,      \* the drive each letter stands for, or NULL
  \* the window
  rows,       \* vol_tree
  selection,  \* the selected row, or NULL
  diskRows,   \* tree: the numbers listed
  update_btn, \* quick_update_btn is on
  question,   \* the question on the screen, or NULL
  \* the threads
  thread,
  \* history
  meant,      \* the drives labelled TINY64, more or less, and those the user picked
  late,       \* the drives that were plugged in since
  touched,    \* the drives written to or formatted
  disturbed,  \* the threads at work that had their volume not to themselves, or lost it
  intact,     \* the internal drive was not formatted
  faults, plugs

drives == <<volume, disk, drive>>
lists == <<rows, selection, diskRows>>
window == <<lists, update_btn, question>>
history == <<meant, late, touched, disturbed, intact>>
vars == <<drives, window, thread, history, faults, plugs>>

Labels == {"TINY64", "MYTINY64", "DATA"}  \* MYTINY64: any other with TINY64 in it
Contents == {"none", "old", "empty", "new"}
Volume == [label : Labels, dir : BOOLEAN, efi : Contents, kernel : Contents]
Row == [letter : Letters, label : Labels]
Question == [about : {"copy"}] \union [about : {"flash"}, target : Numbers]
Copying == {"check", "remove", "makedirs", "open_boot", "write_boot",
            "open_kernel", "write_kernel", "success"}
Scanning == {"get_disks", "get_volumes", "update_ui"}
(* A copy's target is a letter, a format's a number; found is the drive    *)
(* on which it has a file open.                                            *)
Thread == [step : {"none", "format"} \union Copying \union Scanning,
           target : Letters \union Numbers \union {NULL}, found : Drives \union {NULL},
           disks : SUBSET Numbers, volumes : SUBSET Row, flash : BOOLEAN]

NoThread == [step |-> "none", target |-> NULL, found |-> NULL,
             disks |-> {}, volumes |-> {}, flash |-> FALSE]

(* The selected row is one that is listed. *)
TypeOK ==
  /\ volume \in [Drives -> Volume]
  /\ disk \in [Numbers -> Drives \union {NULL}]
  /\ drive \in [Letters -> Drives \union {NULL}]
  /\ rows \subseteq Row /\ selection \in rows \union {NULL}
  /\ diskRows \subseteq Numbers /\ update_btn \in BOOLEAN
  /\ question \in Question \union {NULL}
  /\ thread \in [Threads -> Thread]

(* One name for one drive. *)
OneEach(names) == \A m, n \in DOMAIN names : names[m] = names[n] /\ names[m] # NULL => m = n

(* Label "TINY64", which makes the scan select a volume, or TINY64 in it,  *)
(* which is enough for quick_update.                                       *)
Tiny64(x) == x.label = "TINY64"
InLabel(x) == x.label # "DATA"

(* Sticks that boot an older Tiny64, and empty ones.  Those that are in    *)
(* have a letter, and a number if they are on USB.                         *)
Init ==
  /\ volume \in [Drives -> {v \in Volume :
                               \/ Tiny64(v) /\ v.dir /\ v.efi = "old" /\ v.kernel = "old"
                               \/ ~Tiny64(v) /\ ~v.dir /\ v.efi = "none" /\ v.kernel = "none"}]
  /\ ~InLabel(volume[Internal])
  /\ disk \in [Numbers -> Sticks \union {NULL}] /\ OneEach(disk)
  /\ drive \in [Letters -> Sticks \union {NULL}] /\ OneEach(drive)
  /\ {disk[n] : n \in Numbers} \subseteq {drive[l] : l \in Letters} \union {NULL}
  /\ rows = {} /\ selection = NULL /\ diskRows = {} /\ update_btn = TRUE /\ question = NULL
  /\ thread = [t \in Threads |-> NoThread]
  /\ meant = {d \in Drives : InLabel(volume[d])}
  /\ late = {} /\ touched = {} /\ disturbed = {} /\ intact = TRUE
  /\ faults = 0 /\ plugs = 0

-----------------------------------------------------------------------------
(* The window.                                                             *)

Start(t, step, target) ==
  thread' = [thread EXCEPT ![t] = [NoThread EXCEPT !.step = step, !.target = target]]

Idle(t) == thread[t].step = "none"
Mishap == faults + plugs < MaxMishaps

(* refresh: both lists are emptied and a thread fills them again. *)
Refresh(t) ==
  /\ rows' = {} /\ diskRows' = {} /\ selection' = NULL
  /\ Start(t, "get_disks", NULL)

ClickRefresh(t) ==
  /\ question = NULL /\ Idle(t)
  /\ Refresh(t)
  /\ UNCHANGED <<drives, update_btn, question, history, faults, plugs>>

(* The user means the drive that the row was listed for: the one that has  *)
(* the letter, unless another was plugged in or formatted since.           *)
Select(r) ==
  /\ question = NULL
  /\ selection' = r
  /\ meant' = meant \union ({drive[r.letter]} \ {NULL})
  /\ UNCHANGED <<drives, rows, diskRows, update_btn, question, thread,
                 late, touched, disturbed, intact, faults, plugs>>

(* The threads at work on letter l, those on drive d. *)
At(l) == {t \in Threads : thread[t].step \in Copying /\ thread[t].target = l}
Using(d) == {t \in Threads : thread[t].step \in Copying /\ drive[thread[t].target] = d}

(* The disturbed threads when t starts on letter l: it and those that are  *)
(* there disturb each other.                                               *)
Joined(t, l) == disturbed \union IF At(l) = {} THEN {} ELSE At(l) \union {t}

(* Faulty variant: without a selection any row will do. *)
TargetsAny == IF selection # NULL THEN {selection} ELSE rows

(* The row quick_update takes: the selected one, or one with TINY64 in its *)
(* label.                                                                  *)
Targets == IF selection # NULL THEN {selection} ELSE {r \in rows : InLabel(r)}

(* quick_update *)
Update(t) ==
  \/ \E r \in Targets :
       /\ selection' = r
       /\ Start(t, "check", r.letter)
       /\ disturbed' = Joined(t, r.letter)
  \/ Targets = {} /\ UNCHANGED <<selection, thread, disturbed>>

ClickQuickUpdate(t) ==
  /\ question = NULL /\ Idle(t) /\ update_btn
  /\ Update(t)
  /\ UNCHANGED <<drives, rows, diskRows, update_btn, question, meant, late, touched, intact,
                 faults, plugs>>

(* copy_only up to its question. *)
ClickCopy ==
  /\ question = NULL /\ selection # NULL
  /\ question' = [about |-> "copy"]
  /\ UNCHANGED <<drives, lists, update_btn, thread, history, faults, plugs>>

(* ... and after it: quick_update looks at the selection once more. *)
CopyConfirmed(t) ==
  /\ question # NULL /\ question.about = "copy" /\ Idle(t)
  /\ question' = NULL
  /\ Update(t)
  /\ UNCHANGED <<drives, rows, diskRows, update_btn, meant, late, touched, intact,
                 faults, plugs>>

(* flash_selected up to its question, with WIPE typed in. *)
ClickFlash(n) ==
  /\ question = NULL
  /\ question' = [about |-> "flash", target |-> n]
  /\ UNCHANGED <<drives, lists, update_btn, thread, history, faults, plugs>>

(* The user means the disk that was listed with this number: see Select. *)
FlashConfirmed(t) ==
  /\ question # NULL /\ question.about = "flash" /\ Idle(t)
  /\ question' = NULL
  /\ Start(t, "format", question.target)
  /\ meant' = meant \union ({disk[question.target]} \ {NULL})
  /\ UNCHANGED <<drives, lists, update_btn, late, touched, disturbed, intact, faults, plugs>>

Declined ==
  /\ question # NULL /\ question' = NULL
  /\ UNCHANGED <<drives, lists, update_btn, thread, history, faults, plugs>>

-----------------------------------------------------------------------------
(* The thread of a refresh.                                                *)

(* A PowerShell script works, or fails, and the list is empty. *)
Works == UNCHANGED faults
Fails == Mishap /\ faults' = faults + 1

ListedDisks == {n \in Numbers : disk[n] \in Sticks}

GetDisks(t) ==
  /\ thread[t].step = "get_disks"
  /\ \E D \in {ListedDisks, {}} :
       /\ (D = ListedDisks /\ Works) \/ (D = {} /\ Fails)
       /\ thread' = [thread EXCEPT ![t].step = "get_volumes", ![t].disks = D]
  /\ UNCHANGED <<drives, window, history, plugs>>

Listed == {[letter |-> l, label |-> volume[drive[l]].label] :
             l \in {k \in Letters : drive[k] \in Sticks}}

GetVolumes(t) ==
  /\ thread[t].step = "get_volumes"
  /\ \E V \in {Listed, {}} :
       /\ (V = Listed /\ Works) \/ (V = {} /\ Fails)
       /\ thread' = [thread EXCEPT ![t].step = "update_ui", ![t].volumes = V]
  /\ UNCHANGED <<drives, window, history, plugs>>

(* _update_ui runs in the window, whatever is on the screen; the last      *)
(* TINY64 drive is selected.                                               *)
UpdateUi(t) ==
  /\ thread[t].step = "update_ui"
  /\ diskRows' = diskRows \union thread[t].disks
  /\ rows' = rows \union thread[t].volumes
  /\ LET found == {r \in thread[t].volumes : Tiny64(r)}
     IN  /\ update_btn' = (found # {})
         /\ \/ found # {} /\ selection' \in found
            \/ found = {} /\ UNCHANGED selection
  /\ thread' = [thread EXCEPT ![t] = NoThread]
  /\ UNCHANGED <<drives, question, history, faults, plugs>>

-----------------------------------------------------------------------------
(* _safe_copy, in the thread of quick_update or flash_selected.            *)

(* The drive the thread's letter stands for now, and what is there. *)
Here(t) == drive[thread[t].target]
Missing == [label |-> "DATA", dir |-> FALSE, efi |-> "none", kernel |-> "none"]
On(t) == IF Here(t) = NULL THEN Missing ELSE volume[Here(t)]

(* The thread is over, with an exception or without.  A flash refreshes    *)
(* the lists in the end, from its own thread.                              *)
Over(t) ==
  /\ IF thread[t].flash
     THEN Refresh(t)
     ELSE thread' = [thread EXCEPT ![t] = NoThread] /\ UNCHANGED lists
  /\ disturbed' = disturbed \ {t}

(* It goes on, with a file open on drive d or with none. *)
GoWith(t, step, d) ==
  /\ thread' = [thread EXCEPT ![t].step = step, ![t].found = d]
  /\ UNCHANGED <<lists, disturbed>>

Go(t, step) == GoWith(t, step, NULL)

Keep == UNCHANGED <<volume, touched>>

(* The drive's new contents. *)
Put(t, contents) ==
  /\ volume' = [volume EXCEPT ![Here(t)] = contents]
  /\ touched' = touched \union {Here(t)}

(* Faulty variant: only a flash removes the old kernel. *)
CheckFilesNoClean(t) == Go(t, "makedirs") /\ Keep

(* The files of the build are there; the old kernel, if there is one, goes *)
(* first, except from a drive that was just formatted.                     *)
CheckFiles(t) ==
  /\ Go(t, IF ~thread[t].flash /\ On(t).kernel # "none" THEN "remove" ELSE "makedirs")
  /\ Keep

(* Another thread may have removed it: an exception. *)
Remove(t) ==
  IF On(t).kernel # "none"
  THEN Put(t, [On(t) EXCEPT !.kernel = "none"]) /\ Go(t, "makedirs")
  ELSE Over(t) /\ Keep

MakeDirs(t) ==
  IF Here(t) # NULL
  THEN Put(t, [On(t) EXCEPT !.dir = TRUE]) /\ Go(t, "open_boot")
  ELSE Over(t) /\ Keep

(* Opening for writing empties the file; without the directory it fails. *)
OpenBoot(t) ==
  IF On(t).dir
  THEN Put(t, [On(t) EXCEPT !.efi = "empty"]) /\ GoWith(t, "write_boot", Here(t))
  ELSE Over(t) /\ Keep

(* The drive on which the file was opened is there, and the file: a file   *)
(* that was formatted away cannot be written to.                           *)
WriteBoot(t) ==
  IF Here(t) = thread[t].found /\ On(t).efi # "none"
  THEN Put(t, [On(t) EXCEPT !.efi = "new"]) /\ Go(t, "open_kernel")
  ELSE Over(t) /\ Keep

OpenKernel(t) ==
  IF Here(t) # NULL
  THEN Put(t, [On(t) EXCEPT !.kernel = "empty"]) /\ GoWith(t, "write_kernel", Here(t))
  ELSE Over(t) /\ Keep

(* Faulty variant: the kernel is left empty. *)
WriteKernelNothing(t) == Go(t, "success") /\ Keep

WriteKernel(t) ==
  IF Here(t) = thread[t].found /\ On(t).kernel # "none"
  THEN Put(t, [On(t) EXCEPT !.kernel = "new"]) /\ Go(t, "success")
  ELSE Over(t) /\ Keep

Succeed(t) == Over(t) /\ Keep

(* One step; or it raises an exception: the drive is full, or gone. *)
CopyStep(t) ==
  /\ LET step == thread[t].step
     IN  \/ /\ \/ step = "check" /\ CheckFiles(t)
               \/ step = "remove" /\ Remove(t)
               \/ step = "makedirs" /\ MakeDirs(t)
               \/ step = "open_boot" /\ OpenBoot(t)
               \/ step = "write_boot" /\ WriteBoot(t)
               \/ step = "open_kernel" /\ OpenKernel(t)
               \/ step = "write_kernel" /\ WriteKernel(t)
               \/ step = "success" /\ Succeed(t)
            /\ UNCHANGED faults
         \/ /\ step \in Copying \ {"success"}
            /\ Mishap /\ faults' = faults + 1
            /\ Over(t) /\ Keep
  /\ UNCHANGED <<disk, drive, update_btn, question, meant, late, intact, plugs>>

(* "Refusing: not a USB disk"; or there is none of that number. *)
Wipe(n) == disk[n] \in Sticks

(* What the script does to drive d; its last command sets the label, and   *)
(* without it there is no letter either.                                   *)
Blank(label) == [label |-> label, dir |-> FALSE, efi |-> "none", kernel |-> "none"]

Formatted(d, l) ==
  /\ intact' = (intact /\ d # Internal)
  /\ volume' = [volume EXCEPT ![d] = Blank(IF l = NULL THEN "DATA" ELSE "TINY64")]
  /\ drive' = [k \in Letters |-> IF k = l THEN d ELSE IF drive[k] = d THEN NULL ELSE drive[k]]
  /\ touched' = touched \union {d}

(* The script formats what the number stands for now and gives it a free   *)
(* letter, unless it refuses or fails half way, or prints something else   *)
(* than the letter.                                                        *)
Format(t) ==
  /\ thread[t].step = "format"
  /\ LET d == disk[thread[t].target]
         free == {l \in Letters : drive[l] \in {d, NULL}}
     IN  \/ /\ Wipe(thread[t].target)
            /\ \E l \in free :
                 /\ Formatted(d, l)
                 /\ thread' = [thread EXCEPT ![t] =
                                 [NoThread EXCEPT !.step = "check", !.target = l, !.flash = TRUE]]
                 /\ disturbed' = Joined(t, l) \union Using(d)
            /\ UNCHANGED <<lists, faults>>
         \/ /\ Wipe(thread[t].target)
            /\ Mishap /\ faults' = faults + 1
            /\ \E l \in free \union {NULL} :
                 /\ Formatted(d, l)
                 /\ disturbed' = disturbed \union Using(d) \union At(l)
            /\ Refresh(t)
         \/ /\ \/ ~Wipe(thread[t].target) /\ UNCHANGED faults
               \/ Mishap /\ faults' = faults + 1
            /\ Refresh(t)
            /\ UNCHANGED <<volume, drive, touched, disturbed, intact>>
  /\ UNCHANGED <<disk, update_btn, question, meant, late, plugs>>

(* A drive is pulled out.  Its number, and its letter or another that is   *)
(* free, may go to a drive that is plugged in.                             *)
Replug(n) ==
  /\ Mishap /\ plugs' = plugs + 1
  /\ LET out == disk[n]
         in == {disk[m] : m \in Numbers} \union {drive[l] : l \in Letters}
         free == {l \in Letters : drive[l] \in {out, NULL}}
     IN  \E d \in (Drives \ in) \union {NULL}, l \in free \union {NULL} :
           /\ disk' = [disk EXCEPT ![n] = d]
           /\ drive' = [k \in Letters |->
                          IF k = l THEN d ELSE IF drive[k] = out THEN NULL ELSE drive[k]]
           /\ late' = late \union ({d} \ {NULL})
           /\ disturbed' = disturbed \union Using(out) \union At(l)
  /\ UNCHANGED <<volume, window, thread, meant, touched, intact, faults>>

Next ==
  \/ \E t \in Threads :
       \/ ClickRefresh(t) \/ ClickQuickUpdate(t) \/ CopyConfirmed(t) \/ FlashConfirmed(t)
       \/ GetDisks(t) \/ GetVolumes(t) \/ UpdateUi(t)
       \/ CopyStep(t) \/ Format(t)
  \/ \E r \in rows : Select(r)
  \/ \E n \in diskRows : ClickFlash(n)
  \/ ClickCopy \/ Declined
  \/ \E n \in Numbers : Replug(n)

Spec == Init /\ [][Next]_vars

-----------------------------------------------------------------------------
Bootable(d) == volume[d].efi = "new" /\ volume[d].kernel = "new"

(***************************************************************************)
(* No drive has the new loader with the old kernel, not even when a copy   *)
(* fails half way, two threads write to the drive or it is pulled out: the *)
(* old kernel is removed first (flasher 256-260).  Only a drive that was   *)
(* plugged in while a copy ran, and got the letter, can end like that.     *)
(***************************************************************************)
NeverMixed ==
  \A d \in Drives \ late : volume[d].efi = "new" => volume[d].kernel # "old"

(***************************************************************************)
(* Threads that write to the same drive make each other fail, but when     *)
(* they are done, and nothing else went wrong, the drive boots: whoever    *)
(* destroyed something last has written both files afterwards.             *)
(***************************************************************************)
QuietMeansBootable ==
  faults = 0 =>
    \A l \in Letters : drive[l] \in touched \ late /\ At(l) = {} => Bootable(drive[l])

(***************************************************************************)
(* "Tiny64 updated on ..." (flasher:306), "flashed and ready!" (:373): a   *)
(* thread that had the drive to itself, and whose drive stayed where it    *)
(* was, reports success only if it boots.                                  *)
(***************************************************************************)
SuccessIsBootable ==
  \A t \in Threads :
    thread[t].step = "success" /\ t \notin disturbed => Here(t) # NULL /\ Bootable(Here(t))

(***************************************************************************)
(* Whatever refreshes, formats and plugging come between a listing, a      *)
(* click, the question and the answer: of the drives that were in from the *)
(* start, only those are written to or formatted that the user picked from *)
(* the lists or that have or had a label with TINY64 in it (flasher 234    *)
(* and 290).  A drive plugged in later may get a letter or a number that   *)
(* was listed before, and is written to or formatted in another's place.   *)
(***************************************************************************)
OnlyChosenOrTiny == touched \subseteq meant \union late

(***************************************************************************)
(* "Refusing: not a USB disk" (flasher:357): a disk number that the window *)
(* listed may have gone to another device; that is not formatted if it is  *)
(* not a removable one.                                                    *)
(***************************************************************************)
InternalDiskSafe == intact

(***************************************************************************)
(* Window, threads and drives are well formed, no drive has a mixed        *)
(* system, a drive whose copy is reported boots, and the internal disk is  *)
(* untouched.                                                              *)
(***************************************************************************)
Inv == TypeOK /\ NeverMixed /\ SuccessIsBootable /\ InternalDiskSafe
=============================================================================
