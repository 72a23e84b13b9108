--------------------------- MODULE FlasherProofs ---------------------------
(***************************************************************************)
(* The flasher keeps its promises for any number of drives, disks, letters *)
(* and threads.                                                            *)
(***************************************************************************)
EXTENDS Flasher, TLAPS

(* A copy goes to a letter, a format to a disk number, and no drive has    *)
(* two letters.                                                            *)
KindInv ==
  /\ OneEach(drive)
  /\ touched \subseteq Drives
  /\ \A t \in Threads :
    /\ thread[t].step \in Copying => thread[t].target \in Letters
    /\ thread[t].step = "format" => thread[t].target \in Numbers

-----------------------------------------------------------------------------
(* A thread past the removal, or one that formatted, has no old kernel on  *)
(* its drive: none is ever made.                                           *)
OldIsGone ==
  \A t \in Threads :
    thread[t].step \in Copying /\ (thread[t].flash \/ thread[t].step \notin {"check", "remove"})
      /\ Here(t) \notin late \union {NULL}
      => volume[Here(t)].kernel # "old"

(* Two threads on one letter both know that they are not alone. *)
SharedInv ==
  \A t, u \in Threads :
    t # u /\ thread[t].step \in Copying /\ thread[u].step \in Copying
      /\ thread[t].target = thread[u].target => t \in disturbed

(* What a thread that is alone has written is there. *)
WrittenInv ==
  \A t \in Threads \ disturbed :
    /\ thread[t].step \in {"open_kernel", "write_kernel", "success"}
         => Here(t) # NULL /\ volume[Here(t)].efi = "new"
    /\ thread[t].step = "write_kernel" => volume[Here(t)].kernel = "empty"
    /\ thread[t].step = "success" => volume[Here(t)].kernel = "new"

-----------------------------------------------------------------------------
(* Drives that may be written to and formatted: what the window knows of a *)
(* drive that it would take for TINY64 is true or was, or the letter moved *)
(* to a drive that the user picked for a format, or to a late one.         *)
Fair(x) == x \in meant \union late \union {NULL}

MeantInv ==
  /\ \A d \in Drives : InLabel(volume[d]) => Fair(d)
  /\ \A r \in rows : InLabel(r) => Fair(drive[r.letter])
  /\ selection # NULL => Fair(drive[selection.letter])
  /\ \A t \in Threads :
       /\ \A r \in thread[t].volumes : InLabel(r) => Fair(drive[r.letter])
       /\ thread[t].step \in Copying => Fair(drive[thread[t].target])
       /\ thread[t].step = "format" => Fair(disk[thread[t].target])
  /\ touched \subseteq meant \union late

-----------------------------------------------------------------------------
(* The threads that will yet make the directory on the drive of a letter,  *)
(* write its loader, its kernel, unless another one gets in their way.     *)
MakesDir(t, l) ==
  \/ thread[t].step \in {"check", "makedirs"}
  \/ thread[t].step = "remove" /\ volume[drive[l]].kernel # "none"

WritesEfi(t, l) ==
  \/ MakesDir(t, l)
  \/ thread[t].step = "open_boot" /\ volume[drive[l]].dir
  \/ thread[t].step = "write_boot" /\ drive[l] = thread[t].found
       /\ volume[drive[l]].efi # "none"

WritesKernel(t, l) ==
  \/ WritesEfi(t, l)
  \/ thread[t].step = "open_kernel"
  \/ thread[t].step = "write_kernel" /\ drive[l] = thread[t].found
       /\ volume[drive[l]].kernel # "none"

(* What is missing on a drive, somebody will yet write.  Whoever destroys  *)
(* it is one of those.                                                     *)
Attended(l) ==
  /\ ~volume[drive[l]].dir => \E t \in At(l) : MakesDir(t, l)
  /\ volume[drive[l]].efi # "new" => \E t \in At(l) : WritesEfi(t, l)
  /\ volume[drive[l]].kernel # "new" => \E t \in At(l) : WritesKernel(t, l)

(* A thread that is past its first write has written to its drive. *)
QuietInv ==
  /\ faults \in Nat
  /\ \A t \in Threads :
       thread[t].step \in {"write_boot", "open_kernel", "write_kernel", "success"}
         => Here(t) \in touched \union late \union {NULL}
  /\ faults = 0 => \A l \in Letters : drive[l] \in touched \ late => Attended(l)

-----------------------------------------------------------------------------
(* What the steps do, as far as the invariants about drives and threads    *)
(* tell it apart.                                                          *)
Others(t) == \A u \in Threads \ {t} : thread'[u] = thread[u]
Working(t) == thread[t].step \in Copying

(* Thread t does nothing to a drive and goes on doing nothing to it. *)
Elsewhere(t) ==
  /\ ~Working(t) /\ thread'[t].step \notin Copying /\ Others(t)
  /\ UNCHANGED <<volume, drive, late, touched, disturbed>>
  /\ faults' = faults \/ faults' = faults + 1

(* It starts to copy to letter l. *)
Starts(t, l) ==
  /\ l \in Letters
  /\ ~Working(t) /\ Others(t)
  /\ thread'[t].step = "check" /\ thread'[t].target = l /\ ~thread'[t].flash
  /\ disturbed' = Joined(t, l)
  /\ UNCHANGED <<volume, drive, late, touched, faults>>

(* Drive d gets letter l, if that is one, and drive "out" has none then. *)
Moves(d, l, out) ==
  /\ l \in Letters => drive[l] \in {out, NULL}
  /\ drive' = [k \in Letters |-> IF k = l THEN d ELSE IF drive[k] = out THEN NULL ELSE drive[k]]

(* It formats drive d, and copies to its letter then or gives up. *)
Formats(t, d, l) ==
  /\ d \in Drives /\ l \in Letters \union {NULL} /\ ~Working(t) /\ Others(t)
  /\ \A x \in Drives : x # d => volume'[x] = volume[x]
  /\ volume'[d].efi = "none" /\ volume'[d].kernel = "none"
  /\ Moves(d, l, d)
  /\ touched' = touched \union {d} /\ UNCHANGED late
  /\ \/ /\ l \in Letters /\ thread'[t].step = "check" /\ thread'[t].target = l
        /\ disturbed' = Joined(t, l) \union Using(d)
        /\ UNCHANGED faults
     \/ /\ thread'[t].step \notin Copying
        /\ disturbed' = disturbed \union Using(d) \union At(l)
        /\ faults' = faults + 1

(* Drive "out" is pulled, and d, if that is one, plugged in. *)
Plugs(d, l, out) ==
  /\ d \in Drives \union {NULL} /\ l \in Letters \union {NULL}
  /\ \A k \in Letters : drive[k] = d => d = NULL
  /\ Moves(d, l, out)
  /\ late' = late \union ({d} \ {NULL})
  /\ disturbed' = disturbed \union Using(out) \union At(l)
  /\ UNCHANGED <<volume, thread, touched, faults>>

(* The thread was in step "from" and is in step "to"; its drive has the    *)
(* directory if dir, and these files.                                      *)
Makes(t, from, to, dir, efi, kernel) ==
  /\ thread[t].step = from /\ thread'[t].step = to
  /\ Here(t) \in Drives
  /\ volume'[Here(t)].dir = dir
  /\ volume'[Here(t)].efi = efi
  /\ volume'[Here(t)].kernel = kernel
  /\ touched' = touched \union {Here(t)}

(* The thread is over without success and an exception out of the blue. *)
Blocked(t) ==
  \/ thread[t].step = "remove" /\ On(t).kernel = "none"
  \/ thread[t].step = "makedirs" /\ Here(t) = NULL
  \/ thread[t].step = "open_boot" /\ ~On(t).dir
  \/ thread[t].step = "write_boot" /\ (Here(t) # thread[t].found \/ On(t).efi = "none")
  \/ thread[t].step = "open_kernel" /\ Here(t) = NULL
  \/ thread[t].step = "write_kernel" /\ (Here(t) # thread[t].found \/ On(t).kernel = "none")

(* It goes on, or it is over. *)
GoesOn(t) ==
  /\ thread'[t].step \in Copying
  /\ thread'[t].target = thread[t].target /\ thread'[t].flash = thread[t].flash
  /\ UNCHANGED <<disturbed, faults>>

Ends(t) ==
  /\ thread'[t].step \notin Copying /\ volume' = volume /\ touched' = touched
  /\ disturbed' = disturbed \ {t}
  /\ \/ faults' = faults + 1
     \/ faults' = faults /\ (thread[t].step = "success" \/ Blocked(t))

Checks(t) ==
  /\ thread[t].step = "check" /\ volume' = volume /\ touched' = touched
  /\ \/ ~thread[t].flash /\ On(t).kernel # "none" /\ thread'[t].step = "remove"
     \/ (thread[t].flash \/ On(t).kernel = "none") /\ thread'[t].step = "makedirs"

Writes(t) ==
  LET v == volume[Here(t)]
  IN  \/ v.kernel # "none" /\ Makes(t, "remove", "makedirs", v.dir, v.efi, "none")
      \/ Makes(t, "makedirs", "open_boot", TRUE, v.efi, v.kernel)
      \/ /\ v.dir /\ Makes(t, "open_boot", "write_boot", v.dir, "empty", v.kernel)
         /\ thread'[t].found = Here(t)
      \/ v.efi # "none" /\ Makes(t, "write_boot", "open_kernel", v.dir, "new", v.kernel)
      \/ /\ Makes(t, "open_kernel", "write_kernel", v.dir, v.efi, "empty")
         /\ thread'[t].found = Here(t)
      \/ v.kernel # "none" /\ Makes(t, "write_kernel", "success", v.dir, v.efi, "new")

Copies(t) ==
  /\ thread[t].target \in Letters /\ Others(t) /\ Working(t)
  /\ \A x \in Drives : x # Here(t) => volume'[x] = volume[x]
  /\ UNCHANGED <<drive, late>>
  /\ (GoesOn(t) /\ (Checks(t) \/ Writes(t))) \/ Ends(t)

Rest == UNCHANGED <<volume, drive, late, thread, touched, disturbed, faults>>

-----------------------------------------------------------------------------
LEMMA StepNames ==
  /\ Copying \subseteq {"none", "format"} \union Copying \union Scanning
  /\ Scanning \subseteq {"none", "format"} \union Copying \union Scanning
  /\ "none" \notin Copying /\ "format" \notin Copying /\ "get_disks" \notin Copying
  /\ "get_volumes" \notin Copying /\ "update_ui" \notin Copying
BY DEF Copying, Scanning

LEMMA NoThreadType == NoThread \in Thread
BY DEF NoThread, Thread

LEMMA StartType ==
  ASSUME TypeOK, NEW t \in Threads, NEW l \in {"none", "format"} \union Copying \union Scanning,
         NEW x \in Letters \union Numbers \union {NULL}, Start(t, l, x)
  PROVE  /\ Others(t) /\ thread' \in [Threads -> Thread]
         /\ thread'[t].step = l /\ thread'[t].target = x
         /\ ~thread'[t].flash /\ thread'[t].volumes = {}
<1>1. [NoThread EXCEPT !.step = l, !.target = x] \in Thread
  BY DEF NoThread, Thread
<1>2. /\ [NoThread EXCEPT !.step = l, !.target = x].step = l
      /\ [NoThread EXCEPT !.step = l, !.target = x].target = x
      /\ ~[NoThread EXCEPT !.step = l, !.target = x].flash
      /\ [NoThread EXCEPT !.step = l, !.target = x].volumes = {}
  BY DEF NoThread
<1>3. QED BY <1>1, <1>2 DEF Start, TypeOK, Others

(* The lists are emptied and the thread reads them again. *)
LEMMA RefreshStarts ==
  ASSUME TypeOK, NEW t \in Threads, Refresh(t)
  PROVE  /\ Others(t) /\ thread' \in [Threads -> Thread]
         /\ thread'[t].step = "get_disks" /\ thread'[t].volumes = {}
         /\ rows' = {} /\ selection' = NULL /\ diskRows' = {}
<1>1. "get_disks" \in {"none", "format"} \union Copying \union Scanning
  BY DEF Scanning
<1>2. QED BY <1>1, StartType DEF Refresh

(* The end of a copying thread. *)
LEMMA OverEnds ==
  ASSUME TypeOK, NEW t \in Threads, Over(t)
  PROVE  /\ Others(t)
         /\ thread'[t].step \in {"none", "get_disks"} /\ thread'[t].volumes = {}
         /\ thread' \in [Threads -> Thread]
         /\ disturbed' = disturbed \ {t}
         /\ \/ UNCHANGED lists
            \/ rows' = {} /\ selection' = NULL /\ diskRows' = {}
<1>1. NoThread.step = "none" /\ NoThread.volumes = {} /\ NoThread \in Thread
  BY NoThreadType DEF NoThread
<1>2. CASE thread[t].flash
  BY <1>2, RefreshStarts DEF Over
<1>3. CASE ~thread[t].flash
  BY <1>1, <1>3 DEF Over, TypeOK, Others
<1>4. QED BY <1>2, <1>3

(* The step of a thread that goes on. *)
LEMMA GoGoes ==
  ASSUME TypeOK, NEW t \in Threads, NEW l \in Copying, NEW d \in Drives \union {NULL},
         GoWith(t, l, d)
  PROVE  /\ Others(t)
         /\ thread'[t].step = l /\ thread'[t].target = thread[t].target
         /\ thread'[t].flash = thread[t].flash /\ thread'[t].volumes = thread[t].volumes
         /\ thread'[t].found = d
         /\ thread' \in [Threads -> Thread]
         /\ UNCHANGED lists /\ UNCHANGED disturbed
<1> DEFINE n == [thread[t] EXCEPT !.step = l, !.found = d]
<1>1. thread[t] \in Thread /\ thread \in [Threads -> Thread]
  BY DEF TypeOK
<1>2. /\ n \in Thread /\ n.step = l /\ n.target = thread[t].target /\ n.found = d
      /\ n.flash = thread[t].flash /\ n.volumes = thread[t].volumes
  BY <1>1 DEF Thread
<1>3. thread' = [thread EXCEPT ![t] = n] /\ UNCHANGED lists /\ UNCHANGED disturbed
  BY <1>1 DEF GoWith
<1>. HIDE DEF n
<1>4. QED BY <1>1, <1>2, <1>3 DEF Others

(* What is on a drive that a letter stands for. *)
LEMMA OnType ==
  ASSUME TypeOK, NEW t \in Threads, thread[t].target \in Letters
  PROVE  /\ Here(t) \in Drives \union {NULL} /\ On(t) \in Volume
         /\ Here(t) \in Drives => On(t) = volume[Here(t)]
         /\ Here(t) = NULL => ~On(t).dir /\ On(t).efi = "none" /\ On(t).kernel = "none"
<1>1. Here(t) \in Drives \union {NULL}
  BY DEF TypeOK, Here
<1>2. Missing \in Volume /\ ~Missing.dir /\ Missing.efi = "none" /\ Missing.kernel = "none"
  BY DEF Missing, Volume, Labels, Contents
<1>3. volume \in [Drives -> Volume]
  BY DEF TypeOK
<1>4. QED BY <1>1, <1>2, <1>3, NamesAssumption DEF On

(* Contents that are put on a drive. *)
LEMMA PutPuts ==
  ASSUME TypeOK, NEW t \in Threads, Here(t) \in Drives, NEW c \in Volume, Put(t, c)
  PROVE  /\ volume' \in [Drives -> Volume]
         /\ \A x \in Drives : x # Here(t) => volume'[x] = volume[x]
         /\ volume'[Here(t)] = c
         /\ touched' = touched \union {Here(t)}
BY DEF Put, TypeOK

LEMMA Contained ==
  ASSUME NEW v \in Volume, NEW c \in Contents
  PROVE  /\ [v EXCEPT !.efi = c] \in Volume /\ [v EXCEPT !.kernel = c] \in Volume
         /\ [v EXCEPT !.dir = TRUE] \in Volume
         /\ [v EXCEPT !.efi = c].label = v.label /\ [v EXCEPT !.efi = c].dir = v.dir
         /\ [v EXCEPT !.efi = c].efi = c /\ [v EXCEPT !.efi = c].kernel = v.kernel
         /\ [v EXCEPT !.kernel = c].label = v.label /\ [v EXCEPT !.kernel = c].dir = v.dir
         /\ [v EXCEPT !.kernel = c].efi = v.efi /\ [v EXCEPT !.kernel = c].kernel = c
         /\ [v EXCEPT !.dir = TRUE].label = v.label /\ [v EXCEPT !.dir = TRUE].dir = TRUE
         /\ [v EXCEPT !.dir = TRUE].efi = v.efi /\ [v EXCEPT !.dir = TRUE].kernel = v.kernel
BY DEF Volume

(* The step that follows, and the new contents of the drive. *)
Changes(t, l, c) ==
  \/ /\ thread[t].step = "remove" /\ On(t).kernel # "none" /\ l = "makedirs"
     /\ c.dir = On(t).dir /\ c.efi = On(t).efi /\ c.kernel = "none"
  \/ /\ thread[t].step = "makedirs" /\ l = "open_boot"
     /\ c.dir = TRUE /\ c.efi = On(t).efi /\ c.kernel = On(t).kernel
  \/ /\ thread[t].step = "open_boot" /\ On(t).dir /\ l = "write_boot"
     /\ c.dir = On(t).dir /\ c.efi = "empty" /\ c.kernel = On(t).kernel
  \/ /\ thread[t].step = "write_boot" /\ On(t).efi # "none" /\ l = "open_kernel"
     /\ c.dir = On(t).dir /\ c.efi = "new" /\ c.kernel = On(t).kernel
  \/ /\ thread[t].step = "open_kernel" /\ l = "write_kernel"
     /\ c.dir = On(t).dir /\ c.efi = On(t).efi /\ c.kernel = "empty"
  \/ /\ thread[t].step = "write_kernel" /\ On(t).kernel # "none" /\ l = "success"
     /\ c.dir = On(t).dir /\ c.efi = On(t).efi /\ c.kernel = "new"

(* What a copying thread leaves alone. *)
Frame(t) ==
  /\ volume' \in [Drives -> Volume] /\ thread' \in [Threads -> Thread]
  /\ \A x \in Drives : volume'[x].label = volume[x].label
  /\ thread'[t].volumes = thread[t].volumes \/ thread'[t].volumes = {}
  /\ thread'[t].step # "format"
  /\ touched' \subseteq touched \union ({Here(t)} \ {NULL})
  /\ \/ UNCHANGED lists
     \/ rows' = {} /\ selection' = NULL /\ diskRows' = {}

LEMMA CopyIsCopies ==
  ASSUME TypeOK, KindInv, NEW t \in Threads, CopyStep(t)
  PROVE  Copies(t) /\ Frame(t)
<1>0. /\ Working(t) /\ thread[t].target \in Letters
      /\ volume \in [Drives -> Volume] /\ thread \in [Threads -> Thread]
      /\ UNCHANGED <<drive, late>>
  <2>1. thread[t].step \in Copying
    BY DEF CopyStep, Copying
  <2>2. QED BY <2>1 DEF KindInv, TypeOK, CopyStep, Working
<1>a. /\ "makedirs" \in Copying /\ "remove" \in Copying
      /\ "open_boot" \in Copying /\ "write_boot" \in Copying /\ "open_kernel" \in Copying
      /\ "write_kernel" \in Copying /\ "success" \in Copying
      /\ "none" \in Contents /\ "empty" \in Contents /\ "new" \in Contents
  BY DEF Copying, Contents
<1>b. /\ Here(t) \in Drives \union {NULL} /\ On(t) \in Volume
      /\ Here(t) \in Drives => On(t) = volume[Here(t)]
      /\ Here(t) = NULL => ~On(t).dir /\ On(t).efi = "none" /\ On(t).kernel = "none"
      /\ Here(t) \in Drives => Here(t) # NULL
  BY <1>0, OnType, NamesAssumption
\* The end of the thread.
<1>1. ASSUME Over(t), Keep,
             \/ faults' = faults + 1
             \/ faults' = faults /\ (thread[t].step = "success" \/ Blocked(t))
      PROVE  Copies(t) /\ Frame(t)
  <2>1. /\ thread'[t].step \notin Copying /\ thread'[t].step # "format"
        /\ disturbed' = disturbed \ {t} /\ Others(t)
    BY <1>1, OverEnds, StepNames
  <2>2. volume' = volume /\ touched' = touched
    BY <1>1 DEF Keep
  <2>3. Ends(t)
    BY <1>1, <2>1, <2>2 DEF Ends
  <2>4. Copies(t)
    BY <1>0, <2>1, <2>2, <2>3 DEF Copies
  <2>5. Frame(t)
    BY <1>0, <1>1, <2>1, <2>2, OverEnds DEF Frame
  <2>6. QED BY <2>4, <2>5
\* A step that writes nothing.
<1>2. ASSUME NEW l \in Copying, Go(t, l), Keep, UNCHANGED faults, thread[t].step = "check",
             \/ ~thread[t].flash /\ On(t).kernel # "none" /\ l = "remove"
             \/ (thread[t].flash \/ On(t).kernel = "none") /\ l = "makedirs"
      PROVE  Copies(t) /\ Frame(t)
  <2>1. GoWith(t, l, NULL) /\ volume' = volume /\ touched' = touched
    BY <1>2 DEF Go, Keep
  <2>2. GoesOn(t) /\ Others(t) /\ thread'[t].step = l
    BY <1>2, <2>1, GoGoes DEF GoesOn
  <2>3. Checks(t)
    BY <1>2, <2>1, <2>2 DEF Checks
  <2>4. Copies(t)
    BY <1>0, <2>1, <2>2, <2>3 DEF Copies
  <2>5. Frame(t)
    BY <1>0, <1>2, <2>1, GoGoes, StepNames DEF Frame
  <2>6. QED BY <2>4, <2>5
\* A step that writes.
<1>3. ASSUME NEW l \in Copying, NEW c \in Volume, NEW d \in Drives \union {NULL},
             Here(t) \in Drives, GoWith(t, l, d), Put(t, c), UNCHANGED faults,
             c.label = On(t).label, d = Here(t) \/ l \notin {"write_boot", "write_kernel"},
             Changes(t, l, c)
      PROVE  Copies(t) /\ Frame(t)
  <2>1. /\ volume' \in [Drives -> Volume]
        /\ \A x \in Drives : x # Here(t) => volume'[x] = volume[x]
        /\ volume'[Here(t)] = c
        /\ touched' = touched \union {Here(t)}
    BY <1>3, PutPuts
  <2>2. /\ GoesOn(t) /\ Others(t) /\ thread'[t].step = l /\ thread'[t].found = d
    BY <1>3, GoGoes DEF GoesOn
  <2>3. On(t) = volume[Here(t)]
    BY <1>3, <1>b
  <2>4. Writes(t)
    BY <1>3, <2>1, <2>2, <2>3 DEF Writes, Makes, Changes
  <2>5. Copies(t)
    BY <1>0, <2>1, <2>2, <2>4 DEF Copies
  <2>6. \A x \in Drives : volume'[x].label = volume[x].label
    BY <1>3, <2>1, <2>3
  <2>7. /\ thread' \in [Threads -> Thread] /\ thread'[t].volumes = thread[t].volumes
        /\ thread'[t].step # "format" /\ UNCHANGED lists
    BY <1>3, GoGoes, StepNames
  <2>8. Frame(t)
    BY <1>3, <1>b, <2>1, <2>6, <2>7 DEF Frame
  <2>9. QED BY <2>5, <2>8
<1>4. CASE thread[t].step = "check" /\ CheckFiles(t) /\ UNCHANGED faults
  <2>1. CASE ~thread[t].flash /\ On(t).kernel # "none"
    <3>1. Go(t, "remove") /\ Keep
      BY <1>4, <2>1 DEF CheckFiles
    <3>2. QED BY <1>2, <1>4, <1>a, <2>1, <3>1
  <2>2. CASE thread[t].flash \/ On(t).kernel = "none"
    <3>1. Go(t, "makedirs") /\ Keep
      BY <1>4, <2>2 DEF CheckFiles
    <3>2. QED BY <1>2, <1>4, <1>a, <2>2, <3>1
  <2>3. QED BY <2>1, <2>2
<1>5. CASE thread[t].step = "remove" /\ Remove(t) /\ UNCHANGED faults
  <2>1. CASE On(t).kernel # "none"
    <3>1. Here(t) \in Drives
      BY <1>b, <2>1
    <3>2. GoWith(t, "makedirs", NULL) /\ Put(t, [On(t) EXCEPT !.kernel = "none"])
      BY <1>5, <2>1 DEF Remove, Go
    <3>3. Changes(t, "makedirs", [On(t) EXCEPT !.kernel = "none"])
      BY <1>5, <1>a, <1>b, <2>1, Contained DEF Changes
    <3>4. [On(t) EXCEPT !.kernel = "none"] \in Volume /\ [On(t) EXCEPT !.kernel = "none"].label = On(t).label
      BY <1>a, <1>b, Contained
    <3>5. QED BY <1>3, <1>5, <1>a, <1>b, <3>1, <3>2, <3>3, <3>4
  <2>2. CASE On(t).kernel = "none"
    BY <1>1, <1>5, <2>2 DEF Remove, Blocked
  <2>3. QED BY <2>1, <2>2
<1>6. CASE thread[t].step = "makedirs" /\ MakeDirs(t) /\ UNCHANGED faults
  <2>1. CASE Here(t) # NULL
    <3>1. Here(t) \in Drives
      BY <1>b, <2>1
    <3>2. GoWith(t, "open_boot", NULL) /\ Put(t, [On(t) EXCEPT !.dir = TRUE])
      BY <1>6, <2>1 DEF MakeDirs, Go
    <3>3. Changes(t, "open_boot", [On(t) EXCEPT !.dir = TRUE])
      BY <1>6, <1>a, <1>b, <2>1, Contained DEF Changes
    <3>4. [On(t) EXCEPT !.dir = TRUE] \in Volume /\ [On(t) EXCEPT !.dir = TRUE].label = On(t).label
      BY <1>a, <1>b, Contained
    <3>5. QED BY <1>3, <1>6, <1>a, <1>b, <3>1, <3>2, <3>3, <3>4
  <2>2. CASE Here(t) = NULL
    BY <1>1, <1>6, <2>2 DEF MakeDirs, Blocked
  <2>3. QED BY <2>1, <2>2
<1>7. CASE thread[t].step = "open_boot" /\ OpenBoot(t) /\ UNCHANGED faults
  <2>1. CASE On(t).dir
    <3>1. Here(t) \in Drives
      BY <1>b, <2>1
    <3>2. GoWith(t, "write_boot", Here(t)) /\ Put(t, [On(t) EXCEPT !.efi = "empty"])
      BY <1>7, <2>1 DEF OpenBoot
    <3>3. Changes(t, "write_boot", [On(t) EXCEPT !.efi = "empty"])
      BY <1>7, <1>a, <1>b, <2>1, Contained DEF Changes
    <3>4. [On(t) EXCEPT !.efi = "empty"] \in Volume /\ [On(t) EXCEPT !.efi = "empty"].label = On(t).label
      BY <1>a, <1>b, Contained
    <3>5. QED BY <1>3, <1>7, <1>a, <1>b, <3>1, <3>2, <3>3, <3>4
  <2>2. CASE ~On(t).dir
    BY <1>1, <1>7, <2>2 DEF OpenBoot, Blocked
  <2>3. QED BY <2>1, <2>2
<1>8. CASE thread[t].step = "write_boot" /\ WriteBoot(t) /\ UNCHANGED faults
  <2>1. CASE Here(t) = thread[t].found /\ On(t).efi # "none"
    <3>1. Here(t) \in Drives
      BY <1>b, <2>1
    <3>2. GoWith(t, "open_kernel", NULL) /\ Put(t, [On(t) EXCEPT !.efi = "new"])
      BY <1>8, <2>1 DEF WriteBoot, Go
    <3>3. Changes(t, "open_kernel", [On(t) EXCEPT !.efi = "new"])
      BY <1>8, <1>a, <1>b, <2>1, Contained DEF Changes
    <3>4. [On(t) EXCEPT !.efi = "new"] \in Volume /\ [On(t) EXCEPT !.efi = "new"].label = On(t).label
      BY <1>a, <1>b, Contained
    <3>5. QED BY <1>3, <1>8, <1>a, <1>b, <3>1, <3>2, <3>3, <3>4
  <2>2. CASE ~(Here(t) = thread[t].found /\ On(t).efi # "none")
    BY <1>1, <1>8, <2>2 DEF WriteBoot, Blocked
  <2>3. QED BY <2>1, <2>2
<1>9. CASE thread[t].step = "open_kernel" /\ OpenKernel(t) /\ UNCHANGED faults
  <2>1. CASE Here(t) # NULL
    <3>1. Here(t) \in Drives
      BY <1>b, <2>1
    <3>2. GoWith(t, "write_kernel", Here(t)) /\ Put(t, [On(t) EXCEPT !.kernel = "empty"])
      BY <1>9, <2>1 DEF OpenKernel
    <3>3. Changes(t, "write_kernel", [On(t) EXCEPT !.kernel = "empty"])
      BY <1>9, <1>a, <1>b, <2>1, Contained DEF Changes
    <3>4. [On(t) EXCEPT !.kernel = "empty"] \in Volume /\ [On(t) EXCEPT !.kernel = "empty"].label = On(t).label
      BY <1>a, <1>b, Contained
    <3>5. QED BY <1>3, <1>9, <1>a, <1>b, <3>1, <3>2, <3>3, <3>4
  <2>2. CASE Here(t) = NULL
    BY <1>1, <1>9, <2>2 DEF OpenKernel, Blocked
  <2>3. QED BY <2>1, <2>2
<1>10. CASE thread[t].step = "write_kernel" /\ WriteKernel(t) /\ UNCHANGED faults
  <2>1. CASE Here(t) = thread[t].found /\ On(t).kernel # "none"
    <3>1. Here(t) \in Drives
      BY <1>b, <2>1
    <3>2. GoWith(t, "success", NULL) /\ Put(t, [On(t) EXCEPT !.kernel = "new"])
      BY <1>10, <2>1 DEF WriteKernel, Go
    <3>3. Changes(t, "success", [On(t) EXCEPT !.kernel = "new"])
      BY <1>10, <1>a, <1>b, <2>1, Contained DEF Changes
    <3>4. [On(t) EXCEPT !.kernel = "new"] \in Volume /\ [On(t) EXCEPT !.kernel = "new"].label = On(t).label
      BY <1>a, <1>b, Contained
    <3>5. QED BY <1>3, <1>10, <1>a, <1>b, <3>1, <3>2, <3>3, <3>4
  <2>2. CASE ~(Here(t) = thread[t].found /\ On(t).kernel # "none")
    BY <1>1, <1>10, <2>2 DEF WriteKernel, Blocked
  <2>3. QED BY <2>1, <2>2
<1>11. CASE thread[t].step = "success" /\ Succeed(t) /\ UNCHANGED faults
  BY <1>1, <1>11 DEF Succeed
<1>12. CASE Mishap /\ faults' = faults + 1 /\ Over(t) /\ Keep
  <2>1. Over(t) /\ Keep
    BY <1>12
  <2>2. faults' = faults + 1
    BY <1>12
  <2>3. QED BY <1>1, <2>1, <2>2
<1>13. QED
  BY <1>4, <1>5, <1>6, <1>7, <1>8, <1>9, <1>10, <1>11, <1>12 DEF CopyStep

-----------------------------------------------------------------------------
(* Every step is one of these, as far as drives and threads go. *)
Effect ==
  \/ Rest
  \/ \E t \in Threads : Elsewhere(t)
  \/ \E t \in Threads, l \in Letters : Starts(t, l)
  \/ \E t \in Threads, d \in Drives, l \in Letters \union {NULL} : Formats(t, d, l)
  \/ \E d \in Drives \union {NULL}, l \in Letters \union {NULL}, out \in Drives \union {NULL} :
       Plugs(d, l, out)
  \/ \E t \in Threads : Copies(t)

(* A letter keeps its drive, loses it, or is the one that gets another; no *)
(* drive gets a second letter.                                             *)
LEMMA MoveMoves ==
  ASSUME TypeOK, KindInv, NEW d \in Drives \union {NULL}, NEW l \in Letters \union {NULL},
         NEW out \in Drives \union {NULL}, Moves(d, l, out),
         d = out \/ \A k \in Letters : drive[k] = d => d = NULL
  PROVE  /\ drive' \in [Letters -> Drives \union {NULL}]
         /\ OneEach(drive)'
         /\ \A k \in Letters :
              \/ drive'[k] = drive[k] /\ k # l /\ (drive[k] # out \/ out = NULL)
              \/ drive'[k] = NULL
              \/ k = l /\ drive'[k] = d
<1>1. /\ drive \in [Letters -> Drives \union {NULL}] /\ OneEach(drive)
      /\ DOMAIN drive = Letters /\ DOMAIN drive' = Letters
  BY DEF TypeOK, KindInv, Moves
<1>2. drive' \in [Letters -> Drives \union {NULL}]
  BY <1>1 DEF Moves
<1>3. \A k \in Letters :
        drive'[k] = IF k = l THEN d ELSE IF drive[k] = out THEN NULL ELSE drive[k]
  BY DEF Moves
<1>4. \A m, n \in Letters : drive[m] = drive[n] /\ drive[m] # NULL => m = n
  BY <1>1 DEF OneEach
<1>5. \A m, n \in Letters : drive'[m] = drive'[n] /\ drive'[m] # NULL => m = n
  BY <1>3, <1>4
<1>6. OneEach(drive)'
  BY <1>1, <1>5 DEF OneEach
<1>7. QED BY <1>2, <1>3, <1>6

(* The window's values are what they seem. *)
LEMMA WindowTypes ==
  ASSUME TypeOK
  PROVE  /\ \A r \in rows : r.letter \in Letters /\ r.label \in Labels
         /\ selection # NULL => selection \in rows
         /\ Targets \subseteq rows
         /\ question # NULL /\ question.about = "flash" => question.target \in Numbers
<1>1. \A r \in rows : r.letter \in Letters /\ r.label \in Labels
  BY DEF TypeOK, Row
<1>2. selection # NULL => selection \in rows
  BY DEF TypeOK
<1>3. Targets \subseteq rows
  BY <1>2 DEF Targets
<1>4. ASSUME question # NULL, question.about = "flash" PROVE question.target \in Numbers
  <2>1. question \in Question
    BY <1>4 DEF TypeOK
  <2>2. QED BY <1>4, <2>1 DEF Question
<1>5. QED BY <1>1, <1>2, <1>3, <1>4

LEMMA UpdateEffect ==
  ASSUME TypeOK, NEW t \in Threads, Idle(t), Update(t),
         UNCHANGED <<volume, drive, late, touched, faults>>
  PROVE  /\ \/ Rest /\ selection' = selection
            \/ \E r \in Targets : selection' = r /\ Starts(t, r.letter)
         /\ thread' \in [Threads -> Thread]
         /\ \A u \in Threads : thread'[u] = thread[u] \/ thread'[u].volumes = {}
<1>1. CASE UNCHANGED <<selection, thread, disturbed>>
  BY <1>1 DEF Rest, TypeOK
<1>2. ASSUME NEW r \in Targets, selection' = r, Start(t, "check", r.letter),
             disturbed' = Joined(t, r.letter)
      PROVE  /\ Starts(t, r.letter) /\ thread' \in [Threads -> Thread]
             /\ \A u \in Threads : thread'[u] = thread[u] \/ thread'[u].volumes = {}
  <2>1. r.letter \in Letters
    BY WindowTypes
  <2>2. "check" \in Copying
    BY DEF Copying
  <2>3. ~Working(t)
    BY StepNames DEF Idle, Working
  <2>4. /\ Others(t) /\ thread' \in [Threads -> Thread]
        /\ thread'[t].step = "check" /\ thread'[t].target = r.letter
        /\ ~thread'[t].flash /\ thread'[t].volumes = {}
    BY <1>2, <2>1, <2>2, StartType
  <2>5. QED BY <1>2, <2>1, <2>3, <2>4 DEF Starts, Others
<1>3. CASE \E r \in Targets :
             /\ selection' = r /\ Start(t, "check", r.letter)
             /\ disturbed' = Joined(t, r.letter)
  BY <1>2, <1>3
<1>4. QED BY <1>1, <1>3 DEF Update

LEMMA FormattedType ==
  ASSUME TypeOK, NEW d \in Sticks, NEW l \in Letters \union {NULL}, Formatted(d, l),
         l \in Letters => drive[l] \in {d, NULL}
  PROVE  /\ volume' \in [Drives -> Volume]
         /\ \A x \in Drives : x # d => volume'[x] = volume[x]
         /\ volume'[d].efi = "none" /\ volume'[d].kernel = "none"
         /\ Moves(d, l, d) /\ touched' = touched \union {d}
         /\ intact => intact'
<1> DEFINE b == Blank(IF l = NULL THEN "DATA" ELSE "TINY64")
<1>1. b \in Volume /\ b.efi = "none" /\ b.kernel = "none"
  BY DEF Blank, Volume, Contents, Labels
<1>2. volume' = [volume EXCEPT ![d] = b] /\ d \in Drives /\ volume \in [Drives -> Volume]
  BY DEF Formatted, TypeOK, Drives
<1>. HIDE DEF b
<1>3. /\ volume' \in [Drives -> Volume] /\ volume'[d] = b
      /\ \A x \in Drives : x # d => volume'[x] = volume[x]
  BY <1>1, <1>2
<1>4. Moves(d, l, d) /\ touched' = touched \union {d}
  BY DEF Formatted, Moves
<1>5. intact => intact'
  BY NamesAssumption DEF Formatted
<1>6. QED BY <1>1, <1>3, <1>4, <1>5

LEMMA FormatEffect ==
  ASSUME TypeOK, KindInv, NEW t \in Threads, Format(t)
  PROVE  /\ \/ Elsewhere(t) /\ UNCHANGED <<volume, touched, drive>>
            \/ \E l \in Letters \union {NULL} :
                 disk[thread[t].target] \in Sticks /\ Formats(t, disk[thread[t].target], l)
         /\ volume' \in [Drives -> Volume] /\ thread' \in [Threads -> Thread]
         /\ thread'[t].volumes = {} /\ Others(t)
         /\ thread'[t].step # "format"
         /\ \/ UNCHANGED lists
            \/ rows' = {} /\ selection' = NULL /\ diskRows' = {}
         /\ UNCHANGED <<disk, late, meant>>
         /\ intact => intact'
<1> DEFINE d == disk[thread[t].target]
           free == {l \in Letters : drive[l] \in {d, NULL}}
<1>0. /\ thread[t].step = "format" /\ ~Working(t) /\ UNCHANGED <<disk, late, meant>>
      /\ volume \in [Drives -> Volume] /\ thread \in [Threads -> Thread]
  BY StepNames DEF Format, TypeOK, Working
<1>1. ASSUME Wipe(thread[t].target) PROVE d \in Sticks /\ d \in Drives
  BY <1>1 DEF Wipe, Drives
<1>2. \A l \in free \union {NULL} : l \in Letters \union {NULL}
                                     /\ (l \in Letters => drive[l] \in {d, NULL})
  BY NamesAssumption
<1>3. ASSUME Wipe(thread[t].target), NEW l \in free, Formatted(d, l),
             thread' = [thread EXCEPT ![t] =
                          [NoThread EXCEPT !.step = "check", !.target = l, !.flash = TRUE]],
             disturbed' = Joined(t, l) \union Using(d),
             UNCHANGED <<lists, faults>>
      PROVE  /\ \E k \in Letters \union {NULL} : Formats(t, d, k)
             /\ volume' \in [Drives -> Volume] /\ thread' \in [Threads -> Thread]
             /\ thread'[t].volumes = {} /\ Others(t) /\ thread'[t].step # "format"
             /\ intact => intact'
  <2> DEFINE n == [NoThread EXCEPT !.step = "check", !.target = l, !.flash = TRUE]
  <2>1. n \in Thread /\ n.step = "check" /\ n.target = l /\ n.volumes = {}
    BY DEF NoThread, Thread, Copying
  <2>2. /\ thread' \in [Threads -> Thread] /\ Others(t)
        /\ thread'[t].step = "check" /\ thread'[t].target = l /\ thread'[t].volumes = {}
    <3>1. thread' = [thread EXCEPT ![t] = n]
      BY <1>3
    <3>. HIDE DEF n
    <3>2. QED BY <1>0, <2>1, <3>1 DEF Others
  <2>3. /\ volume' \in [Drives -> Volume]
        /\ \A x \in Drives : x # d => volume'[x] = volume[x]
        /\ volume'[d].efi = "none" /\ volume'[d].kernel = "none"
        /\ Moves(d, l, d) /\ touched' = touched \union {d}
        /\ intact => intact'
    BY <1>1, <1>2, <1>3, FormattedType
  <2>4. Formats(t, d, l)
    BY <1>0, <1>1, <1>3, <2>2, <2>3 DEF Formats
  <2>5. QED BY <2>2, <2>3, <2>4
<1>4. ASSUME Wipe(thread[t].target), faults' = faults + 1,
             NEW l \in free \union {NULL}, Formatted(d, l),
             disturbed' = disturbed \union Using(d) \union At(l),
             Refresh(t)
      PROVE  /\ \E k \in Letters \union {NULL} : Formats(t, d, k)
             /\ volume' \in [Drives -> Volume] /\ (intact => intact')
  <2>1. /\ volume' \in [Drives -> Volume]
        /\ \A x \in Drives : x # d => volume'[x] = volume[x]
        /\ volume'[d].efi = "none" /\ volume'[d].kernel = "none"
        /\ Moves(d, l, d) /\ touched' = touched \union {d}
        /\ intact => intact'
    BY <1>1, <1>2, <1>4, FormattedType
  <2>2. thread'[t].step \notin Copying /\ Others(t)
    BY <1>4, RefreshStarts, StepNames
  <2>3. Formats(t, d, l)
    BY <1>0, <1>1, <1>2, <1>4, <2>1, <2>2 DEF Formats
  <2>4. QED BY <1>2, <2>1, <2>3
<1>5. ASSUME Refresh(t)
      PROVE  /\ Others(t) /\ thread' \in [Threads -> Thread]
             /\ thread'[t].step # "format" /\ thread'[t].step \notin Copying
             /\ thread'[t].volumes = {}
             /\ rows' = {} /\ selection' = NULL /\ diskRows' = {}
  BY <1>5, RefreshStarts, StepNames
<1>6. ASSUME Refresh(t), UNCHANGED <<volume, drive, touched, disturbed, intact>>,
             faults' = faults \/ faults' = faults + 1
      PROVE  Elsewhere(t)
  BY <1>0, <1>5, <1>6 DEF Elsewhere
<1>7. CASE /\ Wipe(thread[t].target)
           /\ \E l \in free :
                /\ Formatted(d, l)
                /\ thread' = [thread EXCEPT ![t] =
                                [NoThread EXCEPT !.step = "check", !.target = l, !.flash = TRUE]]
                /\ disturbed' = Joined(t, l) \union Using(d)
           /\ UNCHANGED <<lists, faults>>
  <2>1. PICK l \in free :
          /\ Formatted(d, l)
          /\ thread' = [thread EXCEPT ![t] =
                          [NoThread EXCEPT !.step = "check", !.target = l, !.flash = TRUE]]
          /\ disturbed' = Joined(t, l) \union Using(d)
    BY <1>7
  <2>2. Wipe(thread[t].target) /\ UNCHANGED <<lists, faults>>
    BY <1>7
  <2>3. /\ \E k \in Letters \union {NULL} : Formats(t, d, k)
        /\ volume' \in [Drives -> Volume] /\ thread' \in [Threads -> Thread]
        /\ thread'[t].volumes = {} /\ Others(t) /\ thread'[t].step # "format"
        /\ intact => intact'
    BY <1>3, <2>1, <2>2
  <2>4. d \in Sticks /\ UNCHANGED lists
    BY <1>1, <2>2
  <2>5. QED BY <1>0, <2>3, <2>4
<1>8. CASE /\ Wipe(thread[t].target)
           /\ Mishap /\ faults' = faults + 1
           /\ \E l \in free \union {NULL} :
                /\ Formatted(d, l)
                /\ disturbed' = disturbed \union Using(d) \union At(l)
           /\ Refresh(t)
  <2>1. PICK l \in free \union {NULL} :
          Formatted(d, l) /\ disturbed' = disturbed \union Using(d) \union At(l)
    BY <1>8
  <2>2. Wipe(thread[t].target) /\ faults' = faults + 1 /\ Refresh(t)
    BY <1>8
  <2>3. /\ \E k \in Letters \union {NULL} : Formats(t, d, k)
        /\ volume' \in [Drives -> Volume] /\ (intact => intact')
    BY <1>4, <2>1, <2>2
  <2>4. d \in Sticks /\ d \in Drives
    BY <1>1, <2>2
  <2>5. /\ Others(t) /\ thread' \in [Threads -> Thread]
        /\ thread'[t].step # "format" /\ thread'[t].volumes = {}
        /\ rows' = {} /\ selection' = NULL /\ diskRows' = {}
    BY <1>5, <2>2
  <2>6. \E k \in Letters \union {NULL} : d \in Sticks /\ Formats(t, d, k)
    BY <2>3, <2>4
  <2>7. volume' \in [Drives -> Volume] /\ (intact => intact')
    BY <2>3
  <2>8. QED BY <1>0, <2>5, <2>6, <2>7
<1>9. CASE /\ \/ ~Wipe(thread[t].target) /\ UNCHANGED faults
              \/ Mishap /\ faults' = faults + 1
           /\ Refresh(t)
           /\ UNCHANGED <<volume, drive, touched, disturbed, intact>>
  <2>1. Refresh(t) /\ UNCHANGED <<volume, drive, touched, disturbed, intact>>
    BY <1>9
  <2>2. Elsewhere(t)
    BY <1>6, <1>9, <2>1
  <2>3. QED BY <1>0, <1>5, <2>1, <2>2
<1>10. QED BY <1>7, <1>8, <1>9 DEF Format

LEMMA ReplugEffect ==
  ASSUME TypeOK, NEW n \in Numbers, Replug(n)
  PROVE  \E d \in Drives \union {NULL}, l \in Letters \union {NULL}, out \in Drives \union {NULL} :
           /\ Plugs(d, l, out)
           /\ disk' = [disk EXCEPT ![n] = d]
<1> DEFINE out == disk[n]
           in == {disk[m] : m \in Numbers} \union {drive[l] : l \in Letters}
           free == {l \in Letters : drive[l] \in {out, NULL}}
<1>1. PICK d \in (Drives \ in) \union {NULL}, l \in free \union {NULL} :
        /\ disk' = [disk EXCEPT ![n] = d]
        /\ drive' = [k \in Letters |->
                       IF k = l THEN d ELSE IF drive[k] = out THEN NULL ELSE drive[k]]
        /\ late' = late \union ({d} \ {NULL})
        /\ disturbed' = disturbed \union Using(out) \union At(l)
  BY DEF Replug
<1>2. /\ d \in Drives \union {NULL} /\ l \in Letters \union {NULL}
      /\ out \in Drives \union {NULL}
      /\ \A k \in Letters : drive[k] = d => d = NULL
      /\ l \in Letters => drive[l] \in {out, NULL}
  BY NamesAssumption DEF TypeOK
<1>3. UNCHANGED <<volume, thread, touched, faults>>
  BY DEF Replug
<1>4. Moves(d, l, out)
  BY <1>1, <1>2 DEF Moves
<1>5. Plugs(d, l, out)
  BY <1>1, <1>2, <1>3, <1>4 DEF Plugs
<1>6. QED BY <1>1, <1>2, <1>5

LEMMA RowsUpdate ==
  ASSUME TypeOK, NEW t \in Threads, UpdateUi(t)
  PROVE  /\ rows' = rows \union thread[t].volumes /\ rows' \subseteq Row
         /\ diskRows' \subseteq Numbers
         /\ selection' \in rows' \union {NULL}
         /\ selection' = selection \/ \E r \in thread[t].volumes : InLabel(r) /\ selection' = r
         /\ thread' = [thread EXCEPT ![t] = NoThread]
<1>1. thread[t].volumes \subseteq Row /\ thread[t].disks \subseteq Numbers
  BY DEF TypeOK, Thread
<1>2. rows' = rows \union thread[t].volumes /\ thread' = [thread EXCEPT ![t] = NoThread]
      /\ diskRows' = diskRows \union thread[t].disks
  BY DEF UpdateUi
<1>3. selection' = selection \/ \E r \in thread[t].volumes : InLabel(r) /\ selection' = r
  BY DEF UpdateUi, Tiny64, InLabel
<1>4. selection \in rows \union {NULL} /\ rows \subseteq Row /\ diskRows \subseteq Numbers
  BY DEF TypeOK
<1>5. QED BY <1>1, <1>2, <1>3, <1>4

(* The thread that reads the lists. *)
LEMMA ListerEffect ==
  ASSUME TypeOK, NEW t \in Threads, GetDisks(t) \/ GetVolumes(t) \/ UpdateUi(t)
  PROVE  /\ Elsewhere(t) /\ thread' \in [Threads -> Thread]
         /\ thread'[t].step # "format"
         /\ GetVolumes(t) \/ thread'[t].volumes = thread[t].volumes \/ thread'[t].volumes = {}
         /\ GetVolumes(t) => \A r \in thread'[t].volumes :
              /\ r.letter \in Letters /\ drive[r.letter] \in Drives
              /\ InLabel(r) => InLabel(volume[drive[r.letter]])
<1>0. /\ thread \in [Threads -> Thread] /\ volume \in [Drives -> Volume]
      /\ Sticks \subseteq Drives
  BY DEF TypeOK, Drives
<1>a. Works \/ Fails => faults' = faults \/ faults' = faults + 1
  BY DEF Works, Fails
<1>1. CASE GetDisks(t)
  <2>1. PICK D \in {ListedDisks, {}} :
          /\ (D = ListedDisks /\ Works) \/ (D = {} /\ Fails)
          /\ thread' = [thread EXCEPT ![t].step = "get_volumes", ![t].disks = D]
    BY <1>1 DEF GetDisks
  <2> DEFINE n == [thread[t] EXCEPT !.step = "get_volumes", !.disks = D]
  <2>2. D \in SUBSET Numbers
    BY DEF ListedDisks
  <2>3. n \in Thread /\ n.step = "get_volumes" /\ n.volumes = thread[t].volumes
    BY <1>0, <2>2 DEF Thread, Scanning
  <2>4. thread' = [thread EXCEPT ![t] = n]
    BY <1>0, <2>1
  <2>. HIDE DEF n
  <2>5. thread'[t] = n /\ Others(t) /\ thread' \in [Threads -> Thread]
    BY <1>0, <2>3, <2>4 DEF Others
  <2>6. ~Working(t) /\ UNCHANGED <<volume, drive, late, touched, disturbed>>
    BY <1>1, StepNames DEF GetDisks, Working, history, drives
  <2>7. Elsewhere(t)
    BY <1>a, <2>1, <2>3, <2>5, <2>6, StepNames DEF Elsewhere
  <2>8. ~GetVolumes(t)
    BY <1>1 DEF GetDisks, GetVolumes
  <2>9. QED BY <2>3, <2>5, <2>7, <2>8
<1>2. CASE GetVolumes(t)
  <2>1. PICK V \in {Listed, {}} :
          /\ (V = Listed /\ Works) \/ (V = {} /\ Fails)
          /\ thread' = [thread EXCEPT ![t].step = "update_ui", ![t].volumes = V]
    BY <1>2 DEF GetVolumes
  <2> DEFINE n == [thread[t] EXCEPT !.step = "update_ui", !.volumes = V]
  <2>2. /\ Listed \subseteq Row
        /\ \A r \in Listed : /\ r.letter \in Letters /\ drive[r.letter] \in Drives
                             /\ InLabel(r) => InLabel(volume[drive[r.letter]])
    BY <1>0 DEF Listed, Row, Volume, InLabel
  <2>3. /\ V \subseteq Row
        /\ \A r \in V : /\ r.letter \in Letters /\ drive[r.letter] \in Drives
                        /\ InLabel(r) => InLabel(volume[drive[r.letter]])
    BY <2>2
  <2>4. n \in Thread /\ n.step = "update_ui" /\ n.volumes = V
    BY <1>0, <2>3 DEF Thread, Scanning
  <2>5. thread' = [thread EXCEPT ![t] = n]
    BY <1>0, <2>1
  <2>. HIDE DEF n
  <2>6. thread'[t] = n /\ Others(t) /\ thread' \in [Threads -> Thread]
    BY <1>0, <2>4, <2>5 DEF Others
  <2>7. ~Working(t) /\ UNCHANGED <<volume, drive, late, touched, disturbed>>
    BY <1>2, StepNames DEF GetVolumes, Working, history, drives
  <2>8. Elsewhere(t)
    BY <1>a, <2>1, <2>4, <2>6, <2>7, StepNames DEF Elsewhere
  <2>9. QED BY <1>2, <2>3, <2>4, <2>6, <2>8
<1>3. CASE UpdateUi(t)
  <2>1. NoThread.step = "none" /\ NoThread.volumes = {}
    BY DEF NoThread
  <2>2. thread'[t] = NoThread /\ Others(t) /\ thread' \in [Threads -> Thread]
    BY <1>0, <1>3, NoThreadType DEF Others, UpdateUi
  <2>3. Elsewhere(t)
    BY <1>3, <2>1, <2>2, StepNames DEF Elsewhere, UpdateUi, Working, history, drives
  <2>4. ~GetVolumes(t)
    BY <1>3 DEF UpdateUi, GetVolumes
  <2>5. QED BY <2>1, <2>2, <2>3, <2>4
<1>4. QED BY <1>1, <1>2, <1>3

LEMMA NextEffect == TypeOK /\ KindInv /\ [Next]_vars => Effect /\ thread' \in [Threads -> Thread]
<1>. SUFFICES ASSUME TypeOK, KindInv, [Next]_vars PROVE Effect /\ thread' \in [Threads -> Thread]
  OBVIOUS
<1>0. thread \in [Threads -> Thread]
  BY DEF TypeOK
<1>1. ASSUME NEW t \in Threads, ClickRefresh(t) PROVE Elsewhere(t) /\ thread' \in [Threads -> Thread]
  <2>1. /\ Refresh(t) /\ thread[t].step = "none"
        /\ UNCHANGED <<volume, drive, late, touched, disturbed, faults>>
    BY <1>1 DEF ClickRefresh, Idle, history, drives
  <2>2. QED BY <2>1, StepNames, RefreshStarts DEF Elsewhere, Working
<1>2. ASSUME NEW t \in Threads, ClickQuickUpdate(t) \/ CopyConfirmed(t)
      PROVE  Effect /\ thread' \in [Threads -> Thread]
  <2>1. Idle(t) /\ Update(t) /\ UNCHANGED <<volume, drive, late, touched, faults>>
    BY <1>2 DEF ClickQuickUpdate, CopyConfirmed, drives
  <2>2. QED BY <2>1, UpdateEffect DEF Effect, Starts
<1>3. ASSUME NEW t \in Threads, FlashConfirmed(t)
      PROVE  Elsewhere(t) /\ thread' \in [Threads -> Thread]
  <2>1. /\ question.target \in Numbers /\ Start(t, "format", question.target)
        /\ thread[t].step = "none"
        /\ UNCHANGED <<volume, drive, late, touched, disturbed, faults>>
    BY <1>3, WindowTypes DEF FlashConfirmed, Idle, drives
  <2>2. QED BY <2>1, StepNames, StartType DEF Elsewhere, Working
<1>4. ASSUME NEW t \in Threads, GetDisks(t) \/ GetVolumes(t) \/ UpdateUi(t)
      PROVE  Elsewhere(t) /\ thread' \in [Threads -> Thread]
  BY <1>4, ListerEffect
<1>5. ASSUME NEW t \in Threads, CopyStep(t) PROVE Copies(t) /\ thread' \in [Threads -> Thread]
  BY <1>5, CopyIsCopies DEF Frame
<1>6. ASSUME NEW t \in Threads, Format(t) PROVE Effect /\ thread' \in [Threads -> Thread]
  BY <1>6, FormatEffect DEF Effect, Drives
<1>7. ASSUME NEW n \in Numbers, Replug(n) PROVE Effect /\ thread' \in [Threads -> Thread]
  BY <1>0, <1>7, ReplugEffect DEF Effect, Plugs
<1>8. ASSUME (\E r \in rows : Select(r)) \/ (\E n \in diskRows : ClickFlash(n)) \/ ClickCopy
             \/ Declined \/ UNCHANGED vars
      PROVE  Rest
  BY <1>8 DEF Select, ClickFlash, ClickCopy, Declined, Rest, vars, history, drives
<1>9. Rest => thread' \in [Threads -> Thread]
  BY <1>0 DEF Rest
<1>10. QED
  BY <1>1, <1>2, <1>3, <1>4, <1>5, <1>6, <1>7, <1>8, <1>9 DEF Next, Effect

-----------------------------------------------------------------------------
LEMMA OldIsGoneStep ==
  TypeOK /\ KindInv /\ OldIsGone /\ NeverMixed /\ Effect => OldIsGone' /\ NeverMixed'
<1>. SUFFICES ASSUME TypeOK, KindInv, OldIsGone, NeverMixed, Effect
              PROVE  OldIsGone' /\ NeverMixed'
  OBVIOUS
<1>0. /\ \A u \in Threads : thread[u].step \in Copying => thread[u].target \in Letters
      /\ drive \in [Letters -> Drives \union {NULL}]
  BY DEF KindInv, TypeOK
\* A thread that does not change, and whose drive does not.
<1>a. ASSUME NEW u \in Threads, thread'[u] = thread[u],
             thread[u].step \in Copying, late \subseteq late',
             thread[u].flash \/ thread[u].step \notin {"check", "remove"},
             Here(u)' = Here(u), Here(u)' \notin late' \union {NULL},
             \A x \in Drives : x \notin late' /\ volume'[x].kernel = "old" => volume[x].kernel = "old"
      PROVE  volume'[Here(u)'].kernel # "old"
  <2>1. Here(u) \in Drives
    BY <1>0, <1>a DEF Here
  <2>2. volume[Here(u)].kernel # "old"
    BY <1>a DEF OldIsGone
  <2>3. QED BY <1>a, <2>1, <2>2
<1>1. CASE Rest
  BY <1>1 DEF Rest, OldIsGone, NeverMixed, Here
<1>2. ASSUME NEW t \in Threads, Elsewhere(t) PROVE OldIsGone' /\ NeverMixed'
  <2>1. NeverMixed'
    BY <1>2 DEF Elsewhere, NeverMixed
  <2>2. OldIsGone'
    BY <1>2 DEF Elsewhere, Others, OldIsGone, Here
  <2>3. QED BY <2>1, <2>2
<1>3. ASSUME NEW t \in Threads, NEW l \in Letters, Starts(t, l) PROVE OldIsGone' /\ NeverMixed'
  <2>1. NeverMixed'
    BY <1>3 DEF Starts, NeverMixed
  <2>2. OldIsGone'
    BY <1>3 DEF Starts, Others, OldIsGone, Here
  <2>3. QED BY <2>1, <2>2
<1>4. ASSUME NEW t \in Threads, NEW d \in Drives, NEW l \in Letters \union {NULL}, Formats(t, d, l)
      PROVE  OldIsGone' /\ NeverMixed'
  <2>1. NeverMixed'
    BY <1>4 DEF Formats, NeverMixed
  <2>2. \A k \in Letters : drive'[k] = drive[k] \/ drive'[k] = NULL \/ drive'[k] = d
    BY <1>4, MoveMoves DEF Formats
  <2>3. volume'[d].kernel = "none" /\ \A x \in Drives : x # d => volume'[x] = volume[x]
    BY <1>4 DEF Formats
  <2>4. ASSUME NEW u \in Threads, thread'[u].step \in Copying,
               thread'[u].flash \/ thread'[u].step \notin {"check", "remove"},
               Here(u)' \notin late' \union {NULL}
        PROVE  volume'[Here(u)'].kernel # "old"
    <3>1. CASE u = t
      <4>1. thread'[t].target = l /\ l \in Letters
        BY <1>4, <2>4, <3>1 DEF Formats
      <4>2. Here(u)' = d
        BY <1>4, <3>1, <4>1 DEF Here, Formats, Moves
      <4>3. QED BY <2>3, <4>2
    <3>2. CASE u # t
      <4>1. thread'[u] = thread[u] /\ late' = late
        BY <1>4, <3>2 DEF Formats, Others
      <4>2. thread[u].target \in Letters
        BY <1>0, <2>4, <4>1
      <4>3. Here(u)' = Here(u) \/ Here(u)' = d
        BY <2>2, <2>4, <4>1, <4>2 DEF Here
      <4>4. QED BY <1>a, <2>3, <2>4, <4>1, <4>3
    <3>3. QED BY <3>1, <3>2
  <2>5. QED BY <2>1, <2>4 DEF OldIsGone
<1>5. ASSUME NEW d \in Drives \union {NULL}, NEW l \in Letters \union {NULL},
             NEW out \in Drives \union {NULL}, Plugs(d, l, out)
      PROVE  OldIsGone' /\ NeverMixed'
  <2>1. NeverMixed'
    BY <1>5 DEF Plugs, NeverMixed
  <2>2. \A k \in Letters : drive'[k] = drive[k] \/ drive'[k] = NULL \/ drive'[k] = d
    BY <1>5, MoveMoves DEF Plugs
  <2>3. thread' = thread /\ volume' = volume /\ late' = late \union ({d} \ {NULL})
    BY <1>5 DEF Plugs
  <2>4. ASSUME NEW u \in Threads, thread'[u].step \in Copying,
               thread'[u].flash \/ thread'[u].step \notin {"check", "remove"},
               Here(u)' \notin late' \union {NULL}
        PROVE  volume'[Here(u)'].kernel # "old"
    <3>1. thread[u].target \in Letters
      BY <1>0, <2>3, <2>4
    <3>2. Here(u)' = Here(u)
      BY <2>2, <2>3, <2>4, <3>1 DEF Here
    <3>3. QED BY <1>a, <2>3, <2>4, <3>2
  <2>5. QED BY <2>1, <2>4 DEF OldIsGone
<1>6. ASSUME NEW t \in Threads, Copies(t) PROVE OldIsGone' /\ NeverMixed'
  <2>1. /\ \A x \in Drives : x # Here(t) => volume'[x] = volume[x]
        /\ drive' = drive /\ late' = late /\ Others(t) /\ thread[t].target \in Letters
        /\ Working(t)
        /\ (GoesOn(t) /\ (Checks(t) \/ Writes(t))) \/ Ends(t)
    BY <1>6 DEF Copies
  \* Nobody makes an old kernel, ...
  <2>2. \A x \in Drives : volume'[x].kernel = "old" => volume[x].kernel = "old"
    BY <2>1 DEF Ends, Checks, Writes, Makes
  \* ... and the new loader is written after the old kernel was removed.
  <2>3. \A x \in Drives : x \notin late /\ volume'[x].efi = "new" =>
          volume[x].efi = "new" \/ volume[x].kernel # "old"
    BY <2>1, NamesAssumption DEF Ends, Checks, Writes, Makes, OldIsGone, Working
  <2>4. NeverMixed'
    BY <2>1, <2>2, <2>3 DEF NeverMixed
  <2>5. ASSUME NEW u \in Threads, thread'[u].step \in Copying,
               thread'[u].flash \/ thread'[u].step \notin {"check", "remove"},
               Here(u)' \notin late' \union {NULL}
        PROVE  volume'[Here(u)'].kernel # "old"
    <3>1. CASE u = t
      <4>1. GoesOn(t) /\ (Checks(t) \/ Writes(t))
        BY <2>1, <2>5, <3>1 DEF Ends
      <4>2. thread'[t].flash = thread[t].flash /\ Here(t)' = Here(t) /\ Here(t) \in Drives
        BY <1>0, <2>1, <2>5, <3>1, <4>1 DEF GoesOn, Here
      <4>3. CASE thread[t].flash \/ thread[t].step \notin {"check", "remove"}
        BY <2>1, <2>2, <2>5, <3>1, <4>2, <4>3 DEF Working, OldIsGone
      <4>4. CASE ~thread[t].flash /\ thread[t].step = "check"
        <5>1. Checks(t) /\ thread'[t].step = "makedirs" /\ On(t).kernel = "none"
          BY <2>5, <3>1, <4>1, <4>2, <4>4 DEF Checks, Writes, Makes
        <5>2. volume'[Here(t)].kernel = "none"
          BY <2>5, <3>1, <4>2, <5>1 DEF On, Checks
        <5>3. QED BY <3>1, <4>2, <5>2
      <4>5. CASE ~thread[t].flash /\ thread[t].step = "remove"
        BY <2>1, <3>1, <4>1, <4>2, <4>5 DEF Checks, Writes, Makes
      <4>6. QED BY <4>3, <4>4, <4>5
    <3>2. CASE u # t
      <4>1. thread'[u] = thread[u]
        BY <2>1, <3>2 DEF Others
      <4>2. Here(u)' = Here(u)
        BY <2>1, <4>1 DEF Here
      <4>3. QED BY <1>a, <2>1, <2>2, <2>5, <4>1, <4>2
    <3>3. QED BY <3>1, <3>2
  <2>6. QED BY <2>4, <2>5 DEF OldIsGone
<1>7. QED BY <1>1, <1>2, <1>3, <1>4, <1>5, <1>6 DEF Effect

LEMMA SharedStep ==
  TypeOK /\ KindInv /\ SharedInv /\ WrittenInv /\ Effect => SharedInv' /\ WrittenInv'
<1>. SUFFICES ASSUME TypeOK, KindInv, SharedInv, WrittenInv, Effect
              PROVE  SharedInv' /\ WrittenInv'
  OBVIOUS
<1>0. /\ \A u \in Threads : thread[u].step \in Copying => thread[u].target \in Letters
      /\ drive \in [Letters -> Drives \union {NULL}]
      /\ \A k, m \in Letters : drive[k] = drive[m] /\ drive[k] # NULL => k = m
  BY DEF KindInv, TypeOK, OneEach
<1>a. {"open_kernel", "write_kernel", "success"} \subseteq Copying /\ "check" \in Copying
  BY DEF Copying
\* A thread that does not change, and neither does what is on its drive.
<1>b. ASSUME NEW u \in Threads \ disturbed, thread'[u] = thread[u],
             thread[u].step \in Copying => Here(u)' = Here(u)
                /\ (Here(u) \in Drives => volume'[Here(u)] = volume[Here(u)])
      PROVE  /\ thread'[u].step \in {"open_kernel", "write_kernel", "success"}
                  => Here(u)' # NULL /\ volume'[Here(u)'].efi = "new"
             /\ thread'[u].step = "write_kernel" => volume'[Here(u)'].kernel = "empty"
             /\ thread'[u].step = "success" => volume'[Here(u)'].kernel = "new"
  <2>1. thread[u].step \in {"open_kernel", "write_kernel", "success"}
          => thread[u].step \in Copying /\ Here(u) # NULL /\ Here(u) \in Drives
    BY <1>0, <1>a DEF WrittenInv, Here
  <2>2. QED BY <1>b, <2>1 DEF WrittenInv
<1>1. CASE Rest
  <2>1. thread' = thread /\ disturbed' = disturbed
    BY <1>1 DEF Rest
  <2>2. SharedInv'
    BY <2>1 DEF SharedInv
  <2>3. WrittenInv'
    BY <1>1, <1>b DEF Rest, WrittenInv, Here
  <2>4. QED BY <2>2, <2>3
<1>2. ASSUME NEW t \in Threads, Elsewhere(t) PROVE SharedInv' /\ WrittenInv'
  <2>1. SharedInv'
    BY <1>2 DEF Elsewhere, Others, SharedInv
  <2>2. \A u \in Threads \ {t} : thread'[u] = thread[u] /\ Here(u)' = Here(u)
    BY <1>2 DEF Elsewhere, Others, Here
  <2>3. disturbed' = disturbed /\ volume' = volume /\ thread'[t].step \notin Copying
    BY <1>2 DEF Elsewhere
  <2>4. WrittenInv'
    BY <1>a, <1>b, <2>2, <2>3 DEF WrittenInv
  <2>5. QED BY <2>1, <2>4
\* Threads on the letter, the new one too, know of each other.
<1>3. ASSUME NEW t \in Threads, NEW l \in Letters, ~Working(t), Others(t),
             Joined(t, l) \subseteq disturbed',
             thread'[t].step = "check", thread'[t].target = l
      PROVE  SharedInv'
  <2>1. disturbed \subseteq disturbed'
    BY <1>3 DEF Joined
  <2>2. \A u \in Threads \ {t} :
          thread[u].step \in Copying /\ thread[u].target = l => u \in disturbed' /\ t \in disturbed'
    BY <1>3 DEF Joined, At
  <2>3. QED BY <1>3, <2>1, <2>2 DEF Others, SharedInv, Working
<1>4. ASSUME NEW t \in Threads, NEW l \in Letters, Starts(t, l) PROVE SharedInv' /\ WrittenInv'
  <2>1. SharedInv'
    BY <1>3, <1>4 DEF Starts
  <2>2. disturbed \subseteq disturbed'
    BY <1>4 DEF Starts, Joined
  <2>3. \A u \in Threads \ {t} : thread'[u] = thread[u] /\ Here(u)' = Here(u)
    BY <1>4 DEF Starts, Others, Here
  <2>4. volume' = volume /\ thread'[t].step = "check"
    BY <1>4 DEF Starts
  <2>5. WrittenInv'
    BY <1>b, <2>2, <2>3, <2>4 DEF WrittenInv
  <2>6. QED BY <2>1, <2>5
<1>5. ASSUME NEW t \in Threads, NEW d \in Drives, NEW l \in Letters \union {NULL}, Formats(t, d, l)
      PROVE  SharedInv' /\ WrittenInv'
  <2>1. disturbed \subseteq disturbed' /\ Using(d) \subseteq disturbed'
    BY <1>5 DEF Formats, Joined
  <2>2. l \in Letters => At(l) \subseteq disturbed'
    BY <1>5 DEF Formats, Joined
  <2>3. SharedInv'
    <3>1. CASE l \in Letters /\ thread'[t].step = "check" /\ thread'[t].target = l
               /\ disturbed' = Joined(t, l) \union Using(d)
      BY <1>3, <1>5, <3>1 DEF Formats
    <3>2. CASE thread'[t].step \notin Copying
      BY <1>5, <2>1, <3>2 DEF Formats, Others, SharedInv
    <3>3. QED BY <1>5, <3>1, <3>2 DEF Formats
  \* Whoever is on the drive that is formatted is not alone.
  <2>4. \A k \in Letters : \/ drive'[k] = drive[k] /\ k # l /\ drive[k] # d
                           \/ drive[k] = d \/ k = l
    BY <1>5, NamesAssumption DEF Formats, Moves
  <2>5. ASSUME NEW u \in Threads \ {t}, u \notin disturbed', thread[u].step \in Copying
        PROVE  Here(u)' = Here(u) /\ (Here(u) \in Drives => volume'[Here(u)] = volume[Here(u)])
    <3>1. thread[u].target \in Letters /\ thread'[u] = thread[u]
      BY <1>0, <1>5, <2>5 DEF Formats, Others
    <3>2. u \notin Using(d) /\ (l \in Letters => u \notin At(l))
      BY <2>1, <2>2, <2>5
    <3>3. drive[thread[u].target] # d /\ thread[u].target # l
      BY <2>5, <3>1, <3>2 DEF Using, At
    <3>4. Here(u)' = Here(u)
      BY <2>4, <3>1, <3>3 DEF Here
    <3>5. QED BY <1>5, <3>3, <3>4 DEF Formats, Here
  <2>6. WrittenInv'
    <3>1. thread'[t].step \notin {"open_kernel", "write_kernel", "success"}
      BY <1>5, <1>a DEF Formats
    <3>2. \A u \in Threads \ {t} : thread'[u] = thread[u]
      BY <1>5 DEF Formats, Others
    <3>3. QED BY <1>b, <2>1, <2>5, <3>1, <3>2 DEF WrittenInv
  <2>7. QED BY <2>3, <2>6
<1>6. ASSUME NEW d \in Drives \union {NULL}, NEW l \in Letters \union {NULL},
             NEW out \in Drives \union {NULL}, Plugs(d, l, out)
      PROVE  SharedInv' /\ WrittenInv'
  <2>1. disturbed \subseteq disturbed' /\ Using(out) \subseteq disturbed' /\ At(l) \subseteq disturbed'
    BY <1>6 DEF Plugs
  <2>2. thread' = thread /\ volume' = volume
    BY <1>6 DEF Plugs
  <2>3. SharedInv'
    BY <2>1, <2>2 DEF SharedInv
  <2>4. \A k \in Letters : drive'[k] = drive[k] \/ drive[k] = out \/ k = l
    BY <1>6 DEF Plugs, Moves
  <2>5. ASSUME NEW u \in Threads, u \notin disturbed', thread[u].step \in Copying
        PROVE  Here(u)' = Here(u)
    <3>1. thread[u].target \in Letters
      BY <1>0, <2>5
    <3>2. drive[thread[u].target] # out /\ thread[u].target # l
      BY <2>1, <2>5, <3>1 DEF Using, At
    <3>3. QED BY <2>2, <2>4, <3>1, <3>2 DEF Here
  <2>6. WrittenInv'
    BY <1>b, <2>1, <2>2, <2>5 DEF WrittenInv
  <2>7. QED BY <2>3, <2>6
<1>7. ASSUME NEW t \in Threads, Copies(t) PROVE SharedInv' /\ WrittenInv'
  <2>0. /\ \A x \in Drives : x # Here(t) => volume'[x] = volume[x]
        /\ drive' = drive /\ Others(t) /\ thread[t].target \in Letters
        /\ Working(t)
        /\ (GoesOn(t) /\ (Checks(t) \/ Writes(t))) \/ Ends(t)
    BY <1>7 DEF Copies
  <2>a. \A u \in Threads \ {t} : /\ thread'[u] = thread[u] /\ Here(u)' = Here(u)
                                 /\ u \in disturbed' <=> u \in disturbed
    BY <2>0 DEF Others, Here, GoesOn, Ends
  <2>b. /\ thread'[t].step \in Copying =>
             thread'[t].target = thread[t].target /\ (t \in disturbed' <=> t \in disturbed)
    BY <2>0 DEF GoesOn, Ends
  <2>1. SharedInv'
    BY <2>0, <2>a, <2>b DEF SharedInv, Working
  <2>2. ASSUME NEW u \in Threads \ {t}, u \notin disturbed, thread[u].step \in Copying
        PROVE  Here(u) \in Drives => volume'[Here(u)] = volume[Here(u)]
    <3>1. thread[u].target # thread[t].target /\ thread[u].target \in Letters
      BY <1>0, <2>0, <2>2 DEF Working, SharedInv
    <3>2. Here(u) # Here(t) \/ Here(u) = NULL
      BY <1>0, <2>0, <3>1 DEF Here
    <3>3. QED BY <2>0, <3>2, NamesAssumption
  <2>3. ASSUME t \notin disturbed, thread'[t].step \in {"open_kernel", "write_kernel", "success"}
        PROVE /\ Here(t)' # NULL /\ volume'[Here(t)'].efi = "new"
              /\ thread'[t].step = "write_kernel" => volume'[Here(t)'].kernel = "empty"
              /\ thread'[t].step = "success" => volume'[Here(t)'].kernel = "new"
    <3>1. GoesOn(t) /\ (Checks(t) \/ Writes(t))
      BY <1>a, <2>0, <2>3 DEF Ends
    <3>2. Writes(t) /\ Here(t)' = Here(t)
      BY <2>0, <2>3, <3>1 DEF Checks, GoesOn, Here
    <3>3. Here(t) \in Drives /\ Here(t) # NULL
      BY <3>2, NamesAssumption DEF Writes, Makes
    <3>4. thread[t].step \in {"open_kernel", "write_kernel"} => volume[Here(t)].efi = "new"
      BY <2>3 DEF WrittenInv
    <3>5. QED BY <2>3, <3>2, <3>3, <3>4 DEF Writes, Makes
  <2>4. ASSUME NEW u \in Threads \ disturbed'
        PROVE  /\ thread'[u].step \in {"open_kernel", "write_kernel", "success"}
                    => Here(u)' # NULL /\ volume'[Here(u)'].efi = "new"
               /\ thread'[u].step = "write_kernel" => volume'[Here(u)'].kernel = "empty"
               /\ thread'[u].step = "success" => volume'[Here(u)'].kernel = "new"
    <3>1. CASE u # t
      BY <1>b, <2>2, <2>4, <2>a, <3>1
    <3>2. CASE u = t
      BY <1>a, <2>3, <2>4, <2>b, <3>2
    <3>3. QED BY <3>1, <3>2
  <2>5. WrittenInv'
    BY <2>4 DEF WrittenInv
  <2>6. QED BY <2>1, <2>5
<1>8. QED BY <1>1, <1>2, <1>4, <1>5, <1>6, <1>7 DEF Effect

-----------------------------------------------------------------------------
LEMMA ListsStep ==
  ASSUME TypeOK, KindInv, [Next]_vars
  PROVE  /\ rows' \subseteq Row /\ diskRows' \subseteq Numbers
         /\ selection' \in rows' \union {NULL}
<1>0. rows \subseteq Row /\ diskRows \subseteq Numbers /\ selection \in rows \union {NULL}
  BY DEF TypeOK
<1>1. ASSUME rows' = {}, selection' = NULL, diskRows' = {}
      PROVE  /\ rows' \subseteq Row /\ diskRows' \subseteq Numbers
             /\ selection' \in rows' \union {NULL}
  BY <1>1
<1>2. ASSUME NEW t \in Threads, ClickRefresh(t)
      PROVE  rows' = {} /\ selection' = NULL /\ diskRows' = {}
  BY <1>2 DEF ClickRefresh, Refresh
<1>3. ASSUME NEW t \in Threads, ClickQuickUpdate(t) \/ CopyConfirmed(t)
      PROVE  UNCHANGED <<rows, diskRows>> /\ selection' \in rows \union {NULL}
  BY <1>0, <1>3, WindowTypes DEF ClickQuickUpdate, CopyConfirmed, Update
<1>4. ASSUME NEW t \in Threads, FlashConfirmed(t) \/ GetDisks(t) \/ GetVolumes(t)
      PROVE  UNCHANGED lists
  BY <1>4 DEF FlashConfirmed, GetDisks, GetVolumes, window
<1>5. ASSUME NEW t \in Threads, CopyStep(t)
      PROVE  UNCHANGED lists \/ (rows' = {} /\ selection' = NULL /\ diskRows' = {})
  BY <1>5, CopyIsCopies DEF Frame
<1>6. ASSUME NEW t \in Threads, Format(t)
      PROVE  UNCHANGED lists \/ (rows' = {} /\ selection' = NULL /\ diskRows' = {})
  BY <1>6, FormatEffect
<1>7. ASSUME NEW r \in rows, Select(r)
      PROVE  UNCHANGED <<rows, diskRows>> /\ selection' \in rows
  BY <1>7 DEF Select
<1>8. ASSUME (\E n \in diskRows : ClickFlash(n)) \/ ClickCopy
             \/ Declined \/ (\E n \in Numbers : Replug(n)) \/ UNCHANGED vars
      PROVE  UNCHANGED lists
  BY <1>8 DEF ClickFlash, ClickCopy, Declined, Replug, vars, window
<1>9. ASSUME NEW t \in Threads, UpdateUi(t)
      PROVE  /\ rows' \subseteq Row /\ diskRows' \subseteq Numbers
             /\ selection' \in rows' \union {NULL}
  BY <1>9, RowsUpdate
<1>10. QED
  BY <1>0, <1>1, <1>2, <1>3, <1>4, <1>5, <1>6, <1>7, <1>8, <1>9 DEF Next, lists

LEMMA QuestionStep ==
  ASSUME TypeOK, [Next]_vars
  PROVE  question' \in Question \union {NULL} /\ update_btn' \in BOOLEAN
<1>0. question \in Question \union {NULL} /\ update_btn \in BOOLEAN
  BY DEF TypeOK
<1>1. ASSUME ClickCopy PROVE question' \in Question /\ update_btn' = update_btn
  BY <1>1 DEF ClickCopy, Question
<1>2. ASSUME NEW n \in diskRows, ClickFlash(n)
      PROVE  question' \in Question /\ update_btn' = update_btn
  <2>1. n \in Numbers
    BY DEF TypeOK
  <2>2. question' = [about |-> "flash", target |-> n] /\ update_btn' = update_btn
    BY <1>2 DEF ClickFlash
  <2>3. [about |-> "flash", target |-> n] \in Question
    BY <2>1 DEF Question
  <2>4. QED BY <2>2, <2>3
<1>3. ASSUME NEW t \in Threads,
             ClickRefresh(t) \/ ClickQuickUpdate(t) \/ CopyConfirmed(t) \/ FlashConfirmed(t)
             \/ GetDisks(t) \/ GetVolumes(t) \/ CopyStep(t) \/ Format(t)
      PROVE  (question' = question \/ question' = NULL) /\ update_btn' = update_btn
  BY <1>3 DEF ClickRefresh, ClickQuickUpdate, CopyConfirmed, FlashConfirmed, GetDisks,
              GetVolumes, CopyStep, Format, window
<1>4. ASSUME (\E r \in rows : Select(r)) \/ Declined \/ (\E n \in Numbers : Replug(n))
             \/ UNCHANGED vars
      PROVE  (question' = question \/ question' = NULL) /\ update_btn' = update_btn
  BY <1>4 DEF Select, Declined, Replug, vars, window
<1>5. ASSUME NEW t \in Threads, UpdateUi(t)
      PROVE  question' = question /\ update_btn' \in BOOLEAN
  BY <1>5 DEF UpdateUi
<1>6. QED BY <1>0, <1>1, <1>2, <1>3, <1>4, <1>5 DEF Next

LEMMA DrivesStep ==
  ASSUME TypeOK, KindInv, [Next]_vars
  PROVE  /\ volume' \in [Drives -> Volume]
         /\ disk' \in [Numbers -> Drives \union {NULL}]
         /\ intact => intact'
<1>0. volume \in [Drives -> Volume] /\ disk \in [Numbers -> Drives \union {NULL}]
  BY DEF TypeOK
<1>1. ASSUME NEW t \in Threads, CopyStep(t)
      PROVE  volume' \in [Drives -> Volume] /\ UNCHANGED <<disk, intact>>
  BY <1>1, CopyIsCopies DEF Frame, CopyStep
<1>2. ASSUME NEW t \in Threads, Format(t)
      PROVE  volume' \in [Drives -> Volume] /\ UNCHANGED disk /\ (intact => intact')
  BY <1>2, FormatEffect
<1>3. ASSUME NEW n \in Numbers, Replug(n)
      PROVE  disk' \in [Numbers -> Drives \union {NULL}] /\ UNCHANGED <<volume, intact>>
  <2>1. PICK d \in Drives \union {NULL} : disk' = [disk EXCEPT ![n] = d]
    BY <1>3, ReplugEffect
  <2>2. UNCHANGED <<volume, intact>>
    BY <1>3 DEF Replug
  <2>3. QED BY <1>0, <2>1, <2>2
<1>4. ASSUME NEW t \in Threads,
             ClickRefresh(t) \/ ClickQuickUpdate(t) \/ CopyConfirmed(t) \/ FlashConfirmed(t)
             \/ GetDisks(t) \/ GetVolumes(t) \/ UpdateUi(t)
      PROVE  UNCHANGED <<volume, disk, intact>>
  BY <1>4 DEF ClickRefresh, ClickQuickUpdate, CopyConfirmed, FlashConfirmed, GetDisks,
              GetVolumes, UpdateUi, history, drives
<1>5. ASSUME (\E r \in rows : Select(r)) \/ (\E n \in diskRows : ClickFlash(n)) \/ ClickCopy
             \/ Declined \/ UNCHANGED vars
      PROVE  UNCHANGED <<volume, disk, intact>>
  BY <1>5 DEF Select, ClickFlash, ClickCopy, Declined, vars, history, drives
<1>6. QED BY <1>0, <1>1, <1>2, <1>3, <1>4, <1>5 DEF Next

(* Letters, what was touched, and where the copies go. *)
LEMMA LettersStep ==
  ASSUME TypeOK, KindInv, Effect
  PROVE  /\ drive' \in [Letters -> Drives \union {NULL}] /\ OneEach(drive)'
         /\ touched' \subseteq Drives
         /\ \A u \in Threads : thread'[u].step \in Copying => thread'[u].target \in Letters
<1>0. /\ drive \in [Letters -> Drives \union {NULL}] /\ OneEach(drive) /\ touched \subseteq Drives
      /\ \A u \in Threads : thread[u].step \in Copying => thread[u].target \in Letters
  BY DEF TypeOK, KindInv
<1>a. drive' = drive => OneEach(drive)'
  BY <1>0 DEF OneEach
<1>1. CASE Rest
  BY <1>0, <1>1, <1>a DEF Rest
<1>2. ASSUME NEW t \in Threads, Elsewhere(t)
      PROVE  /\ UNCHANGED <<drive, touched>> /\ Others(t)
             /\ thread'[t].step \notin Copying
  BY <1>2 DEF Elsewhere
<1>3. ASSUME NEW t \in Threads, NEW l \in Letters, Starts(t, l)
      PROVE  /\ UNCHANGED <<drive, touched>> /\ Others(t)
             /\ thread'[t].target \in Letters
  BY <1>3 DEF Starts
<1>4. ASSUME NEW t \in Threads, NEW d \in Drives, NEW l \in Letters \union {NULL}, Formats(t, d, l)
      PROVE  /\ drive' \in [Letters -> Drives \union {NULL}] /\ OneEach(drive)'
             /\ touched' \subseteq Drives /\ Others(t)
             /\ thread'[t].step \in Copying => thread'[t].target \in Letters
  <2>1. Moves(d, l, d)
    BY <1>4 DEF Formats
  <2>2. drive' \in [Letters -> Drives \union {NULL}] /\ OneEach(drive)'
    BY <2>1, MoveMoves
  <2>3. QED BY <1>0, <1>4, <2>2 DEF Formats
<1>5. ASSUME NEW d \in Drives \union {NULL}, NEW l \in Letters \union {NULL},
             NEW out \in Drives \union {NULL}, Plugs(d, l, out)
      PROVE  /\ drive' \in [Letters -> Drives \union {NULL}] /\ OneEach(drive)'
             /\ UNCHANGED <<touched, thread>>
  BY <1>5, MoveMoves DEF Plugs
<1>6. ASSUME NEW t \in Threads, Copies(t)
      PROVE  /\ UNCHANGED drive /\ Others(t)
             /\ touched' \subseteq Drives
             /\ thread'[t].step \in Copying => thread'[t].target \in Letters
  <2>1. /\ drive' = drive /\ Others(t) /\ thread[t].target \in Letters
        /\ (GoesOn(t) /\ (Checks(t) \/ Writes(t))) \/ Ends(t)
    BY <1>6 DEF Copies
  <2>2. touched' \subseteq Drives
    BY <1>0, <2>1 DEF Ends, Checks, Writes, Makes
  <2>3. thread'[t].step \in Copying => thread'[t].target \in Letters
    BY <2>1 DEF GoesOn, Ends
  <2>4. QED BY <2>1, <2>2, <2>3
<1>7. QED BY <1>0, <1>1, <1>2, <1>3, <1>4, <1>5, <1>6, <1>a DEF Effect, Others

LEMMA KindStep ==
  ASSUME TypeOK, KindInv, [Next]_vars
  PROVE  KindInv' /\ drive' \in [Letters -> Drives \union {NULL}]
<1>1. Effect
  BY NextEffect
\* Only a confirmed question makes a thread that formats.
<1>2. ASSUME NEW u \in Threads, thread'[u].step = "format" PROVE thread'[u].target \in Numbers
  <2>0. ASSUME thread'[u] = thread[u] PROVE thread'[u].target \in Numbers
    BY <1>2, <2>0 DEF KindInv
  <2>1. ASSUME NEW t \in Threads, ClickRefresh(t)
        PROVE  Others(t) /\ thread'[t].step # "format"
    BY <2>1, RefreshStarts DEF ClickRefresh
  <2>2. ASSUME NEW t \in Threads, ClickQuickUpdate(t) \/ CopyConfirmed(t)
        PROVE  thread' = thread \/ (Others(t) /\ thread'[t].step # "format")
    <3>1. Idle(t) /\ Update(t) /\ UNCHANGED <<volume, drive, late, touched, faults>>
      BY <2>2 DEF ClickQuickUpdate, CopyConfirmed, drives
    <3>2. QED BY <3>1, UpdateEffect DEF Rest, Starts
  <2>3. ASSUME NEW t \in Threads, FlashConfirmed(t)
        PROVE  Others(t) /\ thread'[t].target \in Numbers
    <3>1. question.target \in Numbers
      BY <2>3, WindowTypes DEF FlashConfirmed
    <3>2. QED BY <2>3, <3>1, StartType DEF FlashConfirmed
  <2>4. ASSUME NEW t \in Threads, GetDisks(t) \/ GetVolumes(t) \/ UpdateUi(t)
        PROVE  Others(t) /\ thread'[t].step # "format"
    BY <2>4, ListerEffect DEF Elsewhere
  <2>5. ASSUME NEW t \in Threads, CopyStep(t)
        PROVE  Others(t) /\ thread'[t].step # "format"
    BY <2>5, CopyIsCopies DEF Copies, Frame
  <2>6. ASSUME NEW t \in Threads, Format(t)
        PROVE  Others(t) /\ thread'[t].step # "format"
    BY <2>6, FormatEffect
  <2>7. ASSUME (\E r \in rows : Select(r)) \/ (\E n \in diskRows : ClickFlash(n)) \/ ClickCopy
               \/ Declined \/ (\E n \in Numbers : Replug(n)) \/ UNCHANGED vars
        PROVE  thread' = thread
    BY <2>7 DEF Select, ClickFlash, ClickCopy, Declined, Replug, vars, window
  <2>8. QED
    BY <1>2, <2>0, <2>1, <2>2, <2>3, <2>4, <2>5, <2>6, <2>7 DEF Next, Others
<1>3. QED BY <1>1, <1>2, LettersStep DEF KindInv

LEMMA TypeStep == TypeOK /\ KindInv /\ [Next]_vars => TypeOK' /\ KindInv'
<1>. SUFFICES ASSUME TypeOK, KindInv, [Next]_vars PROVE TypeOK' /\ KindInv'
  OBVIOUS
<1>1. TypeOK'
  BY NextEffect, ListsStep, QuestionStep, DrivesStep, KindStep DEF TypeOK
<1>2. QED BY <1>1, KindStep

-----------------------------------------------------------------------------
(* What is fair stays fair: a letter goes to a drive that is plugged in,   *)
(* or to one that is formatted because the user picked it, or another that *)
(* had its number.                                                         *)
StayFair ==
  /\ \A x : Fair(x) => Fair(x)'
  /\ \A l \in Letters : Fair(drive[l]) => Fair(drive[l])'
  /\ \A n \in Numbers : Fair(disk[n]) => Fair(disk[n])'
  /\ \A d \in Drives : InLabel(volume[d])' => Fair(d)'
  /\ (touched \subseteq meant \union late)'

LEMMA FairStep ==
  ASSUME TypeOK, KindInv, MeantInv, [Next]_vars PROVE StayFair
<1>0. /\ \A d \in Drives : InLabel(volume[d]) => Fair(d)
      /\ \A t \in Threads :
           /\ thread[t].step \in Copying => Fair(drive[thread[t].target])
           /\ thread[t].step = "format" => Fair(disk[thread[t].target])
      /\ touched \subseteq meant \union late
  BY DEF MeantInv
<1>1. ASSUME meant \subseteq meant', UNCHANGED <<drives, late, touched>>
      PROVE  StayFair
  BY <1>0, <1>1 DEF Fair, drives, StayFair
<1>2. ASSUME NEW t \in Threads, CopyStep(t)
      PROVE  StayFair
  <2>1. /\ UNCHANGED <<disk, drive, meant, late>> /\ Working(t)
        /\ \A x \in Drives : volume'[x].label = volume[x].label
        /\ touched' \subseteq touched \union ({Here(t)} \ {NULL})
    BY <1>2, CopyIsCopies DEF CopyStep, Copies, Frame
  <2>2. Fair(Here(t))
    BY <1>0, <2>1 DEF Working, Here
  <2>3. \A d \in Drives : InLabel(volume[d])' => InLabel(volume[d])
    BY <2>1 DEF InLabel
  <2>4. QED BY <1>0, <2>1, <2>2, <2>3 DEF Fair, StayFair
<1>3. ASSUME NEW t \in Threads, Format(t)
      PROVE  StayFair
  <2>1. UNCHANGED <<disk, late, meant>> /\ thread[t].step = "format"
    BY <1>3, FormatEffect DEF Format
  <2>2. CASE UNCHANGED <<volume, touched, drive>>
    BY <1>1, <2>1, <2>2 DEF drives
  <2>3. ASSUME NEW l \in Letters \union {NULL}, disk[thread[t].target] \in Sticks,
               Formats(t, disk[thread[t].target], l)
        PROVE  /\ \A k \in Letters : Fair(drive[k]) => Fair(drive[k])'
               /\ \A d \in Drives : InLabel(volume[d])' => Fair(d)'
               /\ (touched \subseteq meant \union late)'
    <3> DEFINE d == disk[thread[t].target]
    <3>1. Fair(d) /\ d \in Drives /\ d # NULL
      BY <1>0, <2>1, <2>3, NamesAssumption DEF Drives
    <3>2. /\ \A x \in Drives : x # d => volume'[x] = volume[x]
          /\ touched' = touched \union {d} /\ Moves(d, l, d)
      BY <2>3 DEF Formats
    <3>3. \A k \in Letters : drive'[k] = drive[k] \/ drive'[k] = NULL \/ drive'[k] = d
      BY <3>2 DEF Moves
    <3>. HIDE DEF d
    <3>4. QED BY <1>0, <2>1, <3>1, <3>2, <3>3 DEF Fair
  <2>4. \A x : Fair(x) => Fair(x)'
    BY <2>1 DEF Fair
  <2>5. \A n \in Numbers : Fair(disk[n]) => Fair(disk[n])'
    BY <2>1 DEF Fair
  <2>6. \/ UNCHANGED <<volume, touched, drive>>
        \/ \E l \in Letters \union {NULL} :
             disk[thread[t].target] \in Sticks /\ Formats(t, disk[thread[t].target], l)
    BY <1>3, FormatEffect
  <2>7. ASSUME NEW l \in Letters \union {NULL}, disk[thread[t].target] \in Sticks,
               Formats(t, disk[thread[t].target], l)
        PROVE  StayFair
    BY <2>3, <2>4, <2>5, <2>7 DEF StayFair
  <2>8. QED BY <2>2, <2>6, <2>7
<1>4. ASSUME NEW n \in Numbers, Replug(n)
      PROVE  StayFair
  <2>1. PICK d \in Drives \union {NULL}, l \in Letters \union {NULL}, out \in Drives \union {NULL} :
          Plugs(d, l, out) /\ disk' = [disk EXCEPT ![n] = d]
    BY <1>4, ReplugEffect
  <2>2. /\ meant' = meant /\ late' = late \union ({d} \ {NULL})
        /\ UNCHANGED <<volume, touched>>
        /\ \A k \in Letters : drive'[k] = drive[k] \/ drive'[k] = NULL \/ drive'[k] = d
    BY <1>4, <2>1 DEF Replug, Plugs, Moves
  <2>3. \A m \in Numbers : disk'[m] = disk[m] \/ disk'[m] = d
    BY <2>1 DEF TypeOK
  <2>4. \A x : Fair(x) => Fair(x)'
    BY <2>2 DEF Fair
  <2>5. Fair(d)' /\ Fair(NULL)'
    BY <2>2 DEF Fair
  <2>6. \A k \in Letters : Fair(drive[k]) => Fair(drive[k])'
    BY <2>2, <2>4, <2>5 DEF Fair
  <2>7. \A m \in Numbers : Fair(disk[m]) => Fair(disk[m])'
    BY <2>3, <2>4, <2>5 DEF Fair
  <2>8. \A x \in Drives : InLabel(volume[x])' => Fair(x)'
    BY <1>0, <2>2, <2>4
  <2>9. QED BY <1>0, <2>2, <2>4, <2>6, <2>7, <2>8 DEF StayFair
<1>5. ASSUME NEW t \in Threads,
             ClickRefresh(t) \/ ClickQuickUpdate(t) \/ CopyConfirmed(t) \/ FlashConfirmed(t)
             \/ GetDisks(t) \/ GetVolumes(t) \/ UpdateUi(t)
      PROVE  meant \subseteq meant' /\ UNCHANGED <<drives, late, touched>>
  BY <1>5 DEF ClickRefresh, ClickQuickUpdate, CopyConfirmed, FlashConfirmed, GetDisks,
              GetVolumes, UpdateUi, history
<1>6. ASSUME (\E r \in rows : Select(r)) \/ (\E n \in diskRows : ClickFlash(n)) \/ ClickCopy
             \/ Declined \/ UNCHANGED vars
      PROVE  meant \subseteq meant' /\ UNCHANGED <<drives, late, touched>>
  BY <1>6 DEF Select, ClickFlash, ClickCopy, Declined, vars, history
<1>7. QED BY <1>1, <1>2, <1>3, <1>4, <1>5, <1>6 DEF Next

(* What the window and the threads know is fair. *)
FairRows(R) == \A r \in R : InLabel(r) => Fair(drive[r.letter])
FairSelection == selection # NULL => Fair(drive[selection.letter])
FairThread(t) ==
  /\ FairRows(thread[t].volumes)
  /\ thread[t].step \in Copying => Fair(drive[thread[t].target])
  /\ thread[t].step = "format" => Fair(disk[thread[t].target])

LEMMA MeantStep ==
  TypeOK /\ KindInv /\ MeantInv /\ [Next]_vars => MeantInv'
<1>. SUFFICES ASSUME TypeOK, KindInv, MeantInv, [Next]_vars PROVE MeantInv'
  OBVIOUS
<1>0. FairRows(rows) /\ FairSelection /\ \A t \in Threads : FairThread(t)
  BY DEF MeantInv, FairRows, FairSelection, FairThread
<1>a. /\ \A l \in Letters : Fair(drive[l]) => Fair(drive[l])'
      /\ \A n \in Numbers : Fair(disk[n]) => Fair(disk[n])'
      /\ \A d \in Drives : InLabel(volume[d])' => Fair(d)'
      /\ (touched \subseteq meant \union late)'
  BY FairStep DEF StayFair
<1>b. /\ rows \subseteq Row /\ \A r \in Row : r.letter \in Letters
      /\ \A t \in Threads : thread[t].volumes \subseteq Row
      /\ selection # NULL => selection \in rows
      /\ KindInv
  BY WindowTypes DEF TypeOK, Thread, Row
\* What was fair and does not change is fair.
<1>c. ASSUME NEW R, R \subseteq Row, FairRows(R) PROVE \A r \in R : InLabel(r) => Fair(drive[r.letter])'
  BY <1>a, <1>b, <1>c DEF FairRows
<1>d. ASSUME NEW t \in Threads, thread'[t] = thread[t] PROVE FairThread(t)'
  <2>1. FairRows(thread[t].volumes)'
    <3>1. \A r \in thread[t].volumes : InLabel(r) => Fair(drive[r.letter])'
      BY <1>0, <1>b, <1>c DEF FairThread
    <3>2. QED BY <1>d, <3>1 DEF FairRows
  <2>2. (thread[t].step \in Copying => Fair(drive[thread[t].target]))'
    BY <1>0, <1>a, <1>b, <1>d DEF FairThread, KindInv, Fair
  <2>3. (thread[t].step = "format" => Fair(disk[thread[t].target]))'
    BY <1>0, <1>a, <1>b, <1>d DEF FairThread, KindInv, Fair
  <2>4. QED BY <2>1, <2>2, <2>3 DEF FairThread
\* Lists that stay or are emptied.
<1>e. ASSUME UNCHANGED lists \/ (rows' = {} /\ selection' = NULL /\ diskRows' = {})
      PROVE  FairRows(rows)' /\ FairSelection'
  <2>1. CASE UNCHANGED lists
    <3>1. rows' = rows /\ selection' = selection
      BY <2>1 DEF lists
    <3>2. FairRows(rows)'
      BY <1>0, <1>b, <1>c, <3>1 DEF FairRows
    <3>3. FairSelection'
      <4>1. selection # NULL => selection.letter \in Letters /\ Fair(drive[selection.letter])
        BY <1>0, <1>b DEF FairSelection
      <4>2. QED BY <1>a, <3>1, <4>1 DEF FairSelection
    <3>4. QED BY <3>2, <3>3
  <2>2. CASE rows' = {} /\ selection' = NULL
    BY <2>2 DEF FairRows, FairSelection
  <2>3. QED BY <1>e, <2>1, <2>2
\* A thread that is over, or lists, or works on what is fair.
<1>f. ASSUME NEW t \in Threads, FairRows(thread[t].volumes)',
             (thread[t].step \in Copying => Fair(drive[thread[t].target]))',
             thread'[t].step # "format"
      PROVE  FairThread(t)'
  BY <1>f DEF FairThread
<1>g. ASSUME NEW t \in Threads, thread'[t].volumes = thread[t].volumes \/ thread'[t].volumes = {}
      PROVE  FairRows(thread[t].volumes)'
  <2>1. \A r \in thread[t].volumes : InLabel(r) => Fair(drive[r.letter])'
    BY <1>0, <1>b, <1>c DEF FairThread
  <2>2. QED BY <1>g, <2>1 DEF FairRows
<1>h. ASSUME FairRows(rows)', FairSelection', \A t \in Threads : FairThread(t)' PROVE MeantInv'
  BY <1>h, <1>a DEF MeantInv, FairRows, FairSelection, FairThread
<1>1. ASSUME NEW t \in Threads, ClickRefresh(t) PROVE MeantInv'
  <2>1. /\ Others(t) /\ thread'[t].volumes = {} /\ thread'[t].step = "get_disks"
        /\ rows' = {} /\ selection' = NULL /\ diskRows' = {}
    BY <1>1, RefreshStarts DEF ClickRefresh
  <2>2. FairThread(t)'
    BY <1>f, <1>g, <2>1, StepNames
  <2>3. QED BY <1>d, <1>e, <1>h, <2>1, <2>2 DEF Others
<1>2. ASSUME NEW t \in Threads, ClickQuickUpdate(t) \/ CopyConfirmed(t) PROVE MeantInv'
  <2>1. /\ Idle(t) /\ Update(t) /\ UNCHANGED <<volume, drive, late, touched, faults>>
        /\ rows' = rows /\ diskRows' = diskRows
    BY <1>2 DEF ClickQuickUpdate, CopyConfirmed, drives
  <2>2. \A r \in Targets : r \in rows /\ r.letter \in Letters /\ Fair(drive[r.letter])
    BY <1>0, <1>b, WindowTypes DEF Targets, FairRows, FairSelection
  <2>3. FairRows(rows)'
    BY <1>0, <1>b, <1>c, <2>1 DEF FairRows
  <2>4. CASE UNCHANGED <<selection, thread>>
    BY <1>d, <1>e, <1>h, <2>1, <2>4 DEF lists
  <2>5. ASSUME NEW r \in Targets, selection' = r, Start(t, "check", r.letter)
        PROVE  MeantInv'
    <3>1. "check" \in Copying
      BY DEF Copying
    <3>2. /\ Others(t) /\ thread'[t].volumes = {}
          /\ thread'[t].step = "check" /\ thread'[t].target = r.letter
      BY <2>2, <2>5, <3>1, StartType
    <3>3. Fair(drive[r.letter])'
      BY <1>a, <2>2
    <3>4. FairSelection'
      BY <2>5, <3>3 DEF FairSelection
    <3>5. (thread[t].step \in Copying => Fair(drive[thread[t].target]))'
      BY <3>2, <3>3
    <3>6. FairThread(t)'
      BY <1>f, <1>g, <3>2, <3>5
    <3>7. QED BY <1>d, <1>h, <2>3, <3>2, <3>4, <3>6 DEF Others
  <2>6. QED BY <2>1, <2>4, <2>5 DEF Update
<1>3. ASSUME NEW t \in Threads, FlashConfirmed(t) PROVE MeantInv'
  <2>1. question.target \in Numbers
    BY <1>3, WindowTypes DEF FlashConfirmed
  <2>2. /\ Others(t) /\ thread'[t].volumes = {} /\ UNCHANGED lists
        /\ thread'[t].step = "format" /\ thread'[t].target = question.target
        /\ UNCHANGED disk /\ meant' = meant \union ({disk[question.target]} \ {NULL})
    BY <1>3, <2>1, StartType DEF FlashConfirmed, drives
  <2>3. Fair(disk[thread[t].target])'
    BY <2>2 DEF Fair
  <2>4. FairThread(t)'
    BY <1>g, <2>2, <2>3, StepNames DEF FairThread
  <2>5. QED BY <1>d, <1>e, <1>h, <2>2, <2>4 DEF Others
<1>4. ASSUME NEW t \in Threads, GetDisks(t) \/ GetVolumes(t) \/ UpdateUi(t) PROVE MeantInv'
  <2>1. /\ UNCHANGED <<volume, drive, meant, late>> /\ Others(t)
        /\ thread'[t].step \notin Copying /\ thread'[t].step # "format"
    BY <1>4, ListerEffect DEF GetDisks, GetVolumes, UpdateUi, history, Elsewhere
  <2>2. FairRows(thread[t].volumes)'
    <3>1. CASE GetVolumes(t)
      <4>1. \A r \in thread'[t].volumes :
              InLabel(r) => drive[r.letter] \in Drives /\ InLabel(volume[drive[r.letter]])
        BY <3>1, ListerEffect
      <4>2. \A d \in Drives : InLabel(volume[d]) => Fair(d)
        BY DEF MeantInv
      <4>3. QED BY <2>1, <4>1, <4>2 DEF FairRows, Fair
    <3>2. CASE ~GetVolumes(t)
      BY <1>4, <1>g, <3>2, ListerEffect
    <3>3. QED BY <3>1, <3>2
  <2>3. FairThread(t)'
    BY <1>f, <2>1, <2>2
  <2>4. FairRows(rows)' /\ FairSelection'
    <3>1. CASE UpdateUi(t)
      <4>1. /\ rows' = rows \union thread[t].volumes
            /\ selection' = selection \/ \E r \in thread[t].volumes : InLabel(r) /\ selection' = r
        BY <3>1, RowsUpdate
      <4>2. \A r \in rows \union thread[t].volumes : InLabel(r) => Fair(drive[r.letter])'
        <5>1. FairRows(rows \union thread[t].volumes)
          BY <1>0 DEF FairThread, FairRows
        <5>2. rows \union thread[t].volumes \subseteq Row
          BY <1>b
        <5>3. QED BY <1>c, <5>1, <5>2
      <4>3. \A l \in Letters : selection # NULL /\ selection.letter = l => Fair(drive[l])'
        <5>1. selection # NULL => Fair(drive[selection.letter])
          BY <1>0 DEF FairSelection
        <5>2. QED BY <1>a, <5>1
      <4>4. FairSelection'
        <5>1. CASE selection' = selection
          BY <1>b, <4>3, <5>1 DEF FairSelection
        <5>2. CASE \E r \in thread[t].volumes : InLabel(r) /\ selection' = r
          BY <4>2, <5>2 DEF FairSelection
        <5>3. QED BY <4>1, <5>1, <5>2
      <4>5. QED BY <4>1, <4>2, <4>4 DEF FairRows
    <3>2. CASE ~UpdateUi(t)
      <4>1. UNCHANGED lists
        BY <1>4, <3>2 DEF GetDisks, GetVolumes, window
      <4>2. QED BY <1>e, <4>1
    <3>3. QED BY <3>1, <3>2
  <2>5. QED BY <1>d, <1>h, <2>1, <2>3, <2>4 DEF Others
<1>5. ASSUME NEW t \in Threads, CopyStep(t) PROVE MeantInv'
  <2>1. /\ Frame(t) /\ Others(t) /\ drive' = drive /\ Working(t) /\ thread[t].target \in Letters
        /\ thread'[t].step \in Copying => thread'[t].target = thread[t].target
    BY <1>5, CopyIsCopies DEF Copies, GoesOn, Ends
  <2>2. (thread[t].step \in Copying => Fair(drive[thread[t].target]))'
    <3>1. Fair(drive[thread[t].target])
      BY <1>0, <2>1 DEF FairThread, Working
    <3>2. Fair(drive[thread[t].target]) => drive[thread[t].target] \in meant' \union late' \union {NULL}
      BY <1>a, <2>1 DEF Fair
    <3>3. QED BY <2>1, <3>1, <3>2 DEF Fair
  <2>3. FairThread(t)'
    BY <1>f, <1>g, <2>1, <2>2 DEF Frame
  <2>4. FairRows(rows)' /\ FairSelection'
    BY <1>e, <2>1 DEF Frame
  <2>5. QED BY <1>d, <1>h, <2>1, <2>3, <2>4 DEF Others
<1>6. ASSUME NEW t \in Threads, Format(t) PROVE MeantInv'
  <2>1. /\ thread'[t].volumes = {} /\ Others(t) /\ thread'[t].step # "format"
        /\ UNCHANGED lists \/ (rows' = {} /\ selection' = NULL /\ diskRows' = {})
        /\ UNCHANGED <<late, meant>>
    BY <1>6, FormatEffect
  <2>2. (thread[t].step \in Copying => Fair(drive[thread[t].target]))'
    <3>1. CASE Elsewhere(t)
      BY <3>1 DEF Elsewhere
    <3>2. ASSUME NEW l \in Letters \union {NULL}, Formats(t, disk[thread[t].target], l),
                 thread'[t].step \in Copying
          PROVE  Fair(drive[thread[t].target])'
      <4> DEFINE d == disk[thread[t].target]
      <4>1. Fair(d)
        BY <1>0, <1>6 DEF FairThread, Format
      <4>2. Formats(t, d, l)
        BY <3>2
      <4>. HIDE DEF d
      <4>3. l \in Letters /\ thread'[t].target = l /\ Moves(d, l, d)
        BY <3>2, <4>2 DEF Formats
      <4>4. drive'[l] = d
        BY <4>3 DEF Moves
      <4>5. QED BY <2>1, <4>1, <4>3, <4>4 DEF Fair
    <3>3. Elsewhere(t) \/ \E l \in Letters \union {NULL} : Formats(t, disk[thread[t].target], l)
      BY <1>6, FormatEffect
    <3>4. QED BY <3>1, <3>2, <3>3
  <2>3. FairThread(t)'
    BY <1>f, <1>g, <2>1, <2>2
  <2>4. QED BY <1>d, <1>e, <1>h, <2>1, <2>3 DEF Others
<1>7. ASSUME NEW r \in rows, Select(r) PROVE MeantInv'
  <2>1. /\ meant' = meant \union ({drive[r.letter]} \ {NULL}) /\ selection' = r
        /\ UNCHANGED <<drive, rows, thread>>
    BY <1>7 DEF Select, drives
  <2>2. FairSelection'
    BY <2>1 DEF FairSelection, Fair
  <2>3. FairRows(rows)'
    BY <1>0, <1>b, <1>c, <2>1 DEF FairRows
  <2>4. QED BY <1>d, <1>h, <2>1, <2>2, <2>3
<1>8. ASSUME (\E n \in diskRows : ClickFlash(n)) \/ ClickCopy
             \/ Declined \/ (\E n \in Numbers : Replug(n)) \/ UNCHANGED vars
      PROVE  UNCHANGED <<lists, thread>>
  BY <1>8 DEF ClickFlash, ClickCopy, Declined, Replug, vars, window, lists
<1>9. ASSUME UNCHANGED <<lists, thread>> PROVE MeantInv'
  BY <1>9, <1>d, <1>e, <1>h
<1>10. QED BY <1>1, <1>2, <1>3, <1>4, <1>5, <1>6, <1>7, <1>8, <1>9 DEF Next

-----------------------------------------------------------------------------
(* A thread that starts on a letter attends to its drive. *)
LEMMA NewcomerAttends ==
  ASSUME NEW t \in Threads, NEW l \in Letters,
         thread'[t].step \in {"check", "makedirs"} \/
         (thread'[t].step = "remove" /\ volume'[drive'[l]].kernel # "none"),
         thread'[t].target = l
  PROVE  Attended(l)'
<1>1. t \in At(l)'
  BY DEF At, Copying
<1>2. MakesDir(t, l)'
  BY DEF MakesDir
<1>3. QED BY <1>1, <1>2 DEF Attended, WritesEfi, WritesKernel

(* A drive is attended to as before if neither it nor those at work on it  *)
(* change.                                                                 *)
LEMMA StillAttended ==
  ASSUME NEW l \in Letters, Attended(l), drive'[l] = drive[l],
         volume'[drive[l]] = volume[drive[l]],
         \A u \in At(l) : thread'[u] = thread[u] \/ ~WritesKernel(u, l)
  PROVE  Attended(l)'
<1>1. ASSUME NEW u \in At(l), thread'[u] = thread[u]
      PROVE  /\ u \in At(l)'
             /\ MakesDir(u, l) => MakesDir(u, l)'
             /\ WritesEfi(u, l) => WritesEfi(u, l)'
             /\ WritesKernel(u, l) => WritesKernel(u, l)'
  BY <1>1 DEF At, MakesDir, WritesEfi, WritesKernel
<1>2. \A u : MakesDir(u, l) => WritesEfi(u, l)
  BY DEF WritesEfi
<1>3. \A u : WritesEfi(u, l) => WritesKernel(u, l)
  BY DEF WritesKernel
<1>4. ~volume'[drive'[l]].dir => \E u \in At(l)' : MakesDir(u, l)'
  BY <1>1, <1>2, <1>3 DEF Attended
<1>5. volume'[drive'[l]].efi # "new" => \E u \in At(l)' : WritesEfi(u, l)'
  BY <1>1, <1>3 DEF Attended
<1>6. volume'[drive'[l]].kernel # "new" => \E u \in At(l)' : WritesKernel(u, l)'
  BY <1>1 DEF Attended
<1>7. QED BY <1>4, <1>5, <1>6 DEF Attended

(* A thread that goes on with its copy either attends to what it changes,  *)
(* or leaves it to those who did.                                          *)
LEMMA CopyAttends ==
  ASSUME NEW t \in Threads, NEW l \in Letters, l = thread[t].target, drive[l] \in Drives,
         Copies(t), faults' = faults, faults \in Nat,
         \/ Attended(l)
         \/ thread'[t].step \in {"makedirs", "open_boot", "write_boot"}
  PROVE  Attended(l)'
<1> DEFINE v == volume[drive[l]]
           w == volume'[drive'[l]]
<1>0. /\ Others(t) /\ t \in At(l) /\ \A u \in At(l) \ {t} : thread'[u] = thread[u]
      /\ drive' = drive /\ Here(t) = drive[l] /\ On(t) = v
  BY NamesAssumption DEF Copies, At, Working, Others, Here, On
<1>a. thread'[t].step \in Copying => thread'[t].target = l
  BY DEF Copies, GoesOn, Ends
\* What the others still do for a drive that t changed.
<1>b. ASSUME NEW u \in At(l) \ {t}, w.kernel = v.kernel \/ w.kernel # "none"
      PROVE  /\ u \in At(l)'
             /\ MakesDir(u, l) => MakesDir(u, l)'
             /\ w.dir = v.dir /\ w.efi = v.efi /\ WritesEfi(u, l) => WritesEfi(u, l)'
  BY <1>0, <1>b DEF At, MakesDir, WritesEfi
<1>1. CASE Ends(t)
  <2>1. /\ volume' = volume /\ thread'[t].step \notin Copying
        /\ thread[t].step = "success" \/ Blocked(t)
    BY <1>1 DEF Ends
  <2>2. ~WritesKernel(t, l)
    <3>1. Here(t) # NULL
      BY <1>0, NamesAssumption
    <3>2. \/ thread[t].step = "success"
          \/ thread[t].step = "remove" /\ v.kernel = "none"
          \/ thread[t].step = "open_boot" /\ ~v.dir
          \/ thread[t].step = "write_boot" /\ (drive[l] # thread[t].found \/ v.efi = "none")
          \/ thread[t].step = "write_kernel" /\ (drive[l] # thread[t].found \/ v.kernel = "none")
      BY <1>0, <2>1, <3>1 DEF Blocked
    <3>3. QED BY <3>2 DEF WritesKernel, WritesEfi, MakesDir
  <2>3. Attended(l)
    BY <2>1 DEF Copying
  <2>4. QED BY <1>0, <2>1, <2>2, <2>3, StillAttended
\* Its drive is still to be written to from the start.
<1>2. CASE \/ thread'[t].step \in {"check", "makedirs"}
           \/ thread'[t].step = "remove" /\ w.kernel # "none"
  <2>1. thread'[t].target = l
    BY <1>2, <1>a DEF Copying
  <2>2. QED BY <1>2, <2>1, NewcomerAttends
<1>3. CASE Makes(t, "makedirs", "open_boot", TRUE, v.efi, v.kernel)
  <2>1. t \in At(l)' /\ w.dir
    BY <1>3, <1>0, <1>a DEF Makes, At, Copying
  <2>2. WritesEfi(t, l)'
    BY <1>3, <2>1 DEF Makes, WritesEfi
  <2>3. QED BY <2>1, <2>2 DEF Attended, WritesKernel
<1>4. CASE /\ v.dir /\ Makes(t, "open_boot", "write_boot", v.dir, "empty", v.kernel)
           /\ thread'[t].found = Here(t)
  <2>1. t \in At(l)' /\ w.dir
    BY <1>4, <1>0, <1>a DEF Makes, At, Copying
  <2>2. WritesEfi(t, l)'
    BY <1>4, <1>0 DEF Makes, WritesEfi
  <2>3. QED BY <2>1, <2>2 DEF Attended, WritesKernel
<1>5. CASE v.efi # "none" /\ Makes(t, "write_boot", "open_kernel", v.dir, "new", v.kernel)
  <2>1. t \in At(l)' /\ WritesKernel(t, l)'
    BY <1>5, <1>a DEF Makes, At, Copying, WritesKernel
  <2>2. ~MakesDir(t, l) /\ Attended(l)
    BY <1>5 DEF Makes, MakesDir
  <2>3. w.dir = v.dir /\ w.efi = "new" /\ w.kernel = v.kernel
    BY <1>0, <1>5 DEF Makes
  <2>4. ~w.dir => \E u \in At(l)' : MakesDir(u, l)'
    BY <1>b, <2>2, <2>3 DEF Attended
  <2>5. QED BY <2>1, <2>3, <2>4 DEF Attended
<1>6. CASE /\ Makes(t, "open_kernel", "write_kernel", v.dir, v.efi, "empty")
           /\ thread'[t].found = Here(t)
  <2>1. w.dir = v.dir /\ w.efi = v.efi /\ w.kernel = "empty"
    BY <1>0, <1>6 DEF Makes
  <2>2. t \in At(l)' /\ WritesKernel(t, l)'
    BY <1>0, <1>6, <1>a, <2>1 DEF Makes, At, Copying, WritesKernel
  <2>3. ~WritesEfi(t, l) /\ ~MakesDir(t, l) /\ Attended(l)
    BY <1>6 DEF Makes, MakesDir, WritesEfi
  <2>4. ~w.dir => \E u \in At(l)' : MakesDir(u, l)'
    BY <1>b, <2>1, <2>3 DEF Attended
  <2>5. w.efi # "new" => \E u \in At(l)' : WritesEfi(u, l)'
    BY <1>b, <2>1, <2>3 DEF Attended
  <2>6. QED BY <2>2, <2>4, <2>5 DEF Attended
<1>7. CASE v.kernel # "none" /\ Makes(t, "write_kernel", "success", v.dir, v.efi, "new")
  <2>1. w.dir = v.dir /\ w.efi = v.efi /\ w.kernel = "new"
    BY <1>0, <1>7 DEF Makes
  <2>2. ~WritesEfi(t, l) /\ ~MakesDir(t, l) /\ Attended(l)
    BY <1>7 DEF Makes, MakesDir, WritesEfi
  <2>3. ~w.dir => \E u \in At(l)' : MakesDir(u, l)'
    BY <1>b, <2>1, <2>2 DEF Attended
  <2>4. w.efi # "new" => \E u \in At(l)' : WritesEfi(u, l)'
    BY <1>b, <2>1, <2>2 DEF Attended
  <2>5. QED BY <2>1, <2>3, <2>4 DEF Attended
<1>8. CASE Checks(t)
  <2>1. volume' = volume
    BY <1>8 DEF Checks
  <2>2. CASE On(t).kernel # "none" /\ thread'[t].step = "remove"
    BY <1>0, <1>2, <2>1, <2>2
  <2>3. CASE thread'[t].step = "makedirs"
    BY <1>2, <2>3
  <2>4. QED BY <1>8, <2>2, <2>3 DEF Checks
<1>9. CASE v.kernel # "none" /\ Makes(t, "remove", "makedirs", v.dir, v.efi, "none")
  BY <1>2, <1>9 DEF Makes
<1>10. CASE Writes(t)
  BY <1>0, <1>3, <1>4, <1>5, <1>6, <1>7, <1>9, <1>10 DEF Writes
<1>11. QED
  BY <1>1, <1>8, <1>10 DEF Copies

(* A thread that has a file open, or had, wrote to its drive. *)
LEMMA WritersTouched ==
  ASSUME TypeOK, KindInv, QuietInv, Effect,
         NEW u \in Threads,
         thread'[u].step \in {"write_boot", "open_kernel", "write_kernel", "success"}
  PROVE  Here(u)' \in touched' \union late' \union {NULL}
<1> DEFINE writers == {"write_boot", "open_kernel", "write_kernel", "success"}
<1>0. /\ \A t \in Threads : thread[t].step \in writers =>
             Here(t) \in touched \union late \union {NULL} /\ thread[t].target \in Letters
      /\ writers \subseteq Copying /\ "check" \notin writers
      /\ touched \subseteq Drives
  BY DEF QuietInv, KindInv, Copying
<1>. HIDE DEF writers
<1>w. thread'[u].step \in writers
  BY DEF writers
<1>a. ASSUME thread'[u] = thread[u], touched \subseteq touched', late \subseteq late',
             \A k \in Letters : \/ drive'[k] = drive[k]
                                \/ drive'[k] \in touched' \union late' \union {NULL}
      PROVE  Here(u)' \in touched' \union late' \union {NULL}
  BY <1>0, <1>a, <1>w DEF Here
<1>1. CASE Rest
  BY <1>1, <1>a DEF Rest
<1>2. ASSUME NEW t \in Threads, Elsewhere(t)
      PROVE  Here(u)' \in touched' \union late' \union {NULL}
  BY <1>0, <1>2, <1>a, <1>w DEF Elsewhere, Others
<1>3. ASSUME NEW t \in Threads, NEW l \in Letters, Starts(t, l)
      PROVE  Here(u)' \in touched' \union late' \union {NULL}
  BY <1>0, <1>3, <1>a, <1>w DEF Starts, Others
<1>4. ASSUME NEW t \in Threads, NEW d \in Drives, NEW l \in Letters \union {NULL}, Formats(t, d, l)
      PROVE  Here(u)' \in touched' \union late' \union {NULL}
  <2>1. u # t
    BY <1>0, <1>4, <1>w DEF Formats
  <2>2. \A k \in Letters : drive'[k] = drive[k] \/ drive'[k] \in {d, NULL}
    BY <1>4 DEF Formats, Moves
  <2>3. QED BY <1>4, <1>a, <2>1, <2>2 DEF Formats, Others
<1>5. ASSUME NEW d \in Drives \union {NULL}, NEW l \in Letters \union {NULL},
             NEW out \in Drives \union {NULL}, Plugs(d, l, out)
      PROVE  Here(u)' \in touched' \union late' \union {NULL}
  <2>1. \A k \in Letters : drive'[k] = drive[k] \/ drive'[k] \in {d, NULL}
    BY <1>5 DEF Plugs, Moves
  <2>2. d \in late' \union {NULL}
    BY <1>5 DEF Plugs
  <2>3. QED BY <1>5, <1>a, <2>1, <2>2 DEF Plugs
<1>6. ASSUME NEW t \in Threads, Copies(t)
      PROVE  Here(u)' \in touched' \union late' \union {NULL}
  <2>1. /\ drive' = drive /\ late' = late /\ Others(t)
        /\ (GoesOn(t) /\ (Checks(t) \/ Writes(t))) \/ Ends(t)
    BY <1>6 DEF Copies
  <2>2. CASE u = t
    <3>1. thread'[t].step \in Copying /\ thread'[t].step \notin {"remove", "makedirs"}
      BY <1>0, <1>w, <2>2 DEF writers
    <3>2. ~Ends(t) /\ ~Checks(t)
      BY <3>1 DEF Ends, Checks
    <3>3. Writes(t) /\ GoesOn(t)
      BY <2>1, <3>2
    <3>4. Here(t) \in touched' /\ Here(t)' = Here(t)
      BY <2>1, <3>3 DEF Writes, Makes, GoesOn, Here
    <3>5. QED BY <2>2, <3>4
  <2>3. CASE u # t
    <3>1. touched \subseteq touched'
      BY <2>1 DEF Ends, Checks, Writes, Makes
    <3>2. QED BY <1>a, <2>1, <2>3, <3>1 DEF Others
  <2>4. QED BY <2>2, <2>3
<1>7. QED BY <1>1, <1>2, <1>3, <1>4, <1>5, <1>6 DEF Effect

(* Without exceptions out of the blue, what was written to is attended to. *)
LEMMA LettersAttended ==
  ASSUME TypeOK, KindInv, QuietInv, Effect, faults' = 0,
         NEW k \in Letters, drive'[k] \in touched' \ late'
  PROVE  Attended(k)'
<1>0. /\ faults \in Nat /\ touched \subseteq Drives /\ NULL \notin Drives
      /\ drive \in [Letters -> Drives \union {NULL}]
      /\ \A m, n \in Letters : drive[m] = drive[n] /\ drive[m] # NULL => m = n
      /\ faults = 0 /\ drive[k] \in touched \ late => Attended(k)
  BY NamesAssumption DEF QuietInv, KindInv, TypeOK, OneEach
<1>1. CASE Rest
  <2>1. faults = 0 /\ drive[k] \in touched \ late
    BY <1>1 DEF Rest
  <2>2. QED BY <1>0, <1>1, <2>1, StillAttended DEF Rest
<1>2. ASSUME NEW t \in Threads, Elsewhere(t) PROVE Attended(k)'
  <2>1. faults = 0 /\ drive[k] \in touched \ late
    BY <1>0, <1>2 DEF Elsewhere
  <2>2. \A u \in At(k) : thread'[u] = thread[u]
    BY <1>2 DEF Elsewhere, Others, At, Working
  <2>3. volume' = volume /\ drive' = drive
    BY <1>2 DEF Elsewhere
  <2>4. QED BY <1>0, <2>1, <2>2, <2>3, StillAttended
<1>3. ASSUME NEW t \in Threads, NEW l \in Letters, Starts(t, l) PROVE Attended(k)'
  <2>1. CASE k = l
    BY <1>3, <2>1, NewcomerAttends DEF Starts
  <2>2. CASE k # l
    <3>1. faults = 0 /\ drive[k] \in touched \ late
      BY <1>3 DEF Starts
    <3>2. \A u \in At(k) : thread'[u] = thread[u]
      BY <1>3 DEF Starts, Others, At, Working
    <3>3. volume' = volume /\ drive' = drive
      BY <1>3 DEF Starts
    <3>4. QED BY <1>0, <3>1, <3>2, <3>3, StillAttended
  <2>3. QED BY <2>1, <2>2
<1>4. ASSUME NEW t \in Threads, NEW d \in Drives, NEW l \in Letters \union {NULL}, Formats(t, d, l)
      PROVE  Attended(k)'
  <2>1. /\ l \in Letters /\ thread'[t].step = "check" /\ thread'[t].target = l
        /\ faults' = faults
    BY <1>0, <1>4 DEF Formats
  <2>2. CASE k = l
    BY <2>1, <2>2, NewcomerAttends
  <2>3. CASE k # l
    <3>1. drive'[k] = drive[k] /\ drive[k] # d
      BY <1>0, <1>4, <2>3 DEF Formats, Moves
    <3>2. faults = 0 /\ drive[k] \in touched \ late
      BY <1>4, <2>1, <3>1 DEF Formats
    <3>3. \A u \in At(k) : thread'[u] = thread[u]
      BY <1>4 DEF Formats, Others, At, Working
    <3>4. volume'[drive[k]] = volume[drive[k]]
      BY <1>0, <1>4, <3>1, <3>2 DEF Formats
    <3>5. QED BY <1>0, <3>1, <3>2, <3>3, <3>4, StillAttended
  <2>4. QED BY <2>2, <2>3
<1>5. ASSUME NEW d \in Drives \union {NULL}, NEW l \in Letters \union {NULL},
             NEW out \in Drives \union {NULL}, Plugs(d, l, out)
      PROVE  Attended(k)'
  <2>1. UNCHANGED <<volume, thread, touched, faults>> /\ late \subseteq late'
        /\ d \in late' \union {NULL}
    BY <1>5 DEF Plugs
  <2>2. drive'[k] = drive[k]
    BY <1>0, <1>5, <2>1 DEF Plugs, Moves
  <2>3. faults = 0 /\ drive[k] \in touched \ late
    BY <2>1, <2>2
  <2>4. QED BY <1>0, <2>1, <2>2, <2>3, StillAttended
<1>6. ASSUME NEW t \in Threads, Copies(t) PROVE Attended(k)'
  <2> DEFINE l == thread[t].target
  <2>0. /\ drive' = drive /\ late' = late /\ Others(t) /\ l \in Letters /\ Working(t)
        /\ \A x \in Drives : x # Here(t) => volume'[x] = volume[x]
        /\ (GoesOn(t) /\ (Checks(t) \/ Writes(t))) \/ Ends(t)
    BY <1>6 DEF Copies
  <2>1. faults' = faults /\ faults = 0
    BY <1>0, <2>0 DEF GoesOn, Ends
  <2>2. CASE k = l
    <3>1. drive[k] \in Drives \ late
      BY <1>0, <2>0 DEF Ends, Checks, Writes, Makes
    <3>2. CASE drive[k] \in touched
      BY <1>0, <1>6, <2>1, <2>2, <3>1, <3>2, CopyAttends
    <3>3. CASE drive[k] \notin touched
      <4>1. Writes(t)
        BY <2>0, <3>3 DEF Ends, Checks
      <4>2. thread[t].step \notin {"write_boot", "open_kernel", "write_kernel", "success"}
        BY <1>0, <2>2, <3>1, <3>3 DEF QuietInv, Here
      <4>3. thread'[t].step \in {"makedirs", "open_boot", "write_boot"}
        BY <4>1, <4>2 DEF Writes, Makes
      <4>4. QED BY <1>0, <1>6, <2>1, <2>2, <3>1, <4>3, CopyAttends
    <3>4. QED BY <3>2, <3>3
  <2>3. CASE k # l
    <3>1. drive[k] \in Drives
      BY <1>0, <2>0 DEF Ends, Checks, Writes, Makes
    <3>2. drive[k] # Here(t)
      BY <1>0, <2>0, <2>3, <3>1 DEF Here
    <3>3. drive[k] \in touched \ late /\ volume'[drive[k]] = volume[drive[k]]
      BY <2>0, <3>1, <3>2 DEF Ends, Checks, Writes, Makes
    <3>4. \A u \in At(k) : thread'[u] = thread[u]
      BY <2>0, <2>3 DEF Others, At
    <3>5. QED BY <1>0, <2>0, <2>1, <3>3, <3>4, StillAttended
  <2>4. QED BY <2>2, <2>3
<1>7. QED BY <1>1, <1>2, <1>3, <1>4, <1>5, <1>6 DEF Effect

LEMMA QuietStep == TypeOK /\ KindInv /\ QuietInv /\ Effect => QuietInv'
<1>. SUFFICES ASSUME TypeOK, KindInv, QuietInv, Effect PROVE QuietInv'
  OBVIOUS
<1>1. faults' \in Nat
  <2>1. faults \in Nat
    BY DEF QuietInv
  <2>2. faults' = faults \/ faults' = faults + 1
    BY DEF Effect, Rest, Elsewhere, Starts, Formats, Plugs, Copies, GoesOn, Ends
  <2>3. QED BY <2>1, <2>2
<1>2. QED BY <1>1, WritersTouched, LettersAttended DEF QuietInv

-----------------------------------------------------------------------------
LEMMA InitSafe == Init => TypeOK /\ KindInv /\ OldIsGone /\ NeverMixed /\ SharedInv /\ WrittenInv
                          /\ MeantInv /\ QuietInv /\ intact
<1>. SUFFICES ASSUME Init
              PROVE  TypeOK /\ KindInv /\ OldIsGone /\ NeverMixed /\ SharedInv /\ WrittenInv
                     /\ MeantInv /\ QuietInv /\ intact
  OBVIOUS
<1>1. /\ volume \in [Drives -> Volume]
      /\ disk \in [Numbers -> Drives \union {NULL}]
      /\ drive \in [Letters -> Drives \union {NULL}] /\ OneEach(drive)
  BY DEF Init, Drives
<1>2. \A t \in Threads : thread[t].step = "none" /\ thread[t].volumes = {}
  BY DEF Init, NoThread
<1>3. /\ rows = {} /\ diskRows = {} /\ selection = NULL /\ question = NULL /\ update_btn
      /\ thread \in [Threads -> Thread] /\ touched = {} /\ faults = 0 /\ intact
  BY NoThreadType DEF Init
<1>4. TypeOK
  BY <1>1, <1>3 DEF TypeOK
<1>5. NeverMixed
  BY DEF Init, NeverMixed
<1>6. KindInv /\ OldIsGone /\ SharedInv /\ WrittenInv
  BY <1>1, <1>2, <1>3, StepNames DEF KindInv, OldIsGone, SharedInv, WrittenInv
<1>7. MeantInv
  BY <1>2, <1>3, StepNames DEF Init, MeantInv, Fair
<1>8. QuietInv
  BY <1>2, <1>3 DEF QuietInv
<1>9. QED BY <1>3, <1>4, <1>5, <1>6, <1>7, <1>8

LEMMA WellFormed == Spec => [](TypeOK /\ KindInv)
<1>1. Init => TypeOK /\ KindInv
  BY InitSafe
<1>2. QED BY <1>1, TypeStep, PTL DEF Spec

(***************************************************************************)
(* Whatever threads run at the same time and fail, and whatever is pulled  *)
(* out and plugged in: no drive that was in from the start has a mixed     *)
(* system (flasher 256-260), a thread that had its drive to itself reports *)
(* success only if it boots, and a disk that is not removable is not       *)
(* formatted (flasher 356).                                                *)
(***************************************************************************)
THEOREM FlasherCorrect == Spec => []Inv
<1> DEFINE Safe == OldIsGone /\ NeverMixed /\ SharedInv /\ WrittenInv /\ intact
<1>1. Init => Safe
  BY InitSafe
<1>2. TypeOK /\ KindInv /\ Safe /\ [Next]_vars => Safe'
  BY NextEffect, OldIsGoneStep, SharedStep, DrivesStep
<1>3. TypeOK /\ Safe => Inv
  BY DEF Inv, InternalDiskSafe, SuccessIsBootable, WrittenInv, Bootable
<1>. HIDE DEF Safe
<1>4. QED BY <1>1, <1>2, <1>3, WellFormed, PTL DEF Spec

(***************************************************************************)
(* Whatever letters and numbers go to other drives between the listing,    *)
(* the click, the question and the answer, and although the label is       *)
(* compared in two ways (flasher 234 and 290): a drive is written to or    *)
(* formatted only if the user picked it, if it has or had a label with     *)
(* TINY64 in it, or if it was plugged in late.                             *)
(***************************************************************************)
THEOREM CopiesWhereMeant == Spec => []OnlyChosenOrTiny
<1>1. Init => MeantInv
  BY InitSafe
<1>2. MeantInv => OnlyChosenOrTiny
  BY DEF MeantInv, OnlyChosenOrTiny
<1>3. QED BY <1>1, <1>2, MeantStep, WellFormed, PTL DEF Spec

(***************************************************************************)
(* Threads that get in each other's way on a drive (flasher 313) leave it  *)
(* bootable when they are done: whoever destroys something is one of those *)
(* who will yet write it.                                                  *)
(***************************************************************************)
THEOREM DoneMeansBootable == Spec => []QuietMeansBootable
<1>1. Init => QuietInv
  BY InitSafe
<1>2. TypeOK /\ KindInv /\ QuietInv /\ [Next]_vars => QuietInv'
  BY NextEffect, QuietStep
<1>3. QuietInv => QuietMeansBootable
  BY DEF QuietInv, Attended, QuietMeansBootable, Bootable
<1>4. QED BY <1>1, <1>2, <1>3, WellFormed, PTL DEF Spec
=============================================================================
