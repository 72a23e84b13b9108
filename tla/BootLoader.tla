----------------------------- MODULE BootLoader -----------------------------
(***************************************************************************)
(* The UEFI boot loader (src/boot/main.c) up to the jump into the kernel.  *)
(* It looks for memory the kernel may have in a copy of the firmware's     *)
(* memory map, and leaves the boot services with the key of that copy.     *)
(* The status of most calls is not looked at.                              *)
(*                                                                         *)
(* Memory is a function from frame numbers to who has the frame.  The      *)
(* firmware is external: it gives out pool from some frames (Spots) and,   *)
(* while boot services last, may take one for itself.                      *)
(***************************************************************************)
EXTENDS Integers, FiniteSets

CONSTANT
  MaxFirmware   \* bound on the frames the firmware takes for itself

VARIABLES
  machine,    \* what the program finds; never changes
  step,       \* where efi_main is
  memory,     \* the firmware's memory map
  version,    \* its key
  room,       \* MemoryMapSize when the buffer was allocated, in descriptors
  map,        \* the copy of the memory map ...
  key,        \* ... and MapKey
  region,     \* bootInfo.LargestFreeRegion
  segments,   \* history: the segments' frames were allocated
  exited,     \* history: ExitBootServices did what it should
  firmware    \* history: frames the firmware took for itself

loader == <<step, memory, version, room, map, key, region, segments, exited, firmware>>

Free(m) == {f \in DOMAIN m : m[f] = "conventional"}

(* The first frames of the runs of equal frames: one descriptor each. *)
Descriptors(m) ==
  Cardinality({f \in DOMAIN m : f - 1 \in DOMAIN m => m[f - 1] # m[f]})

(* The runs of conventional memory. *)
Runs(m) ==
  LET RunFrom(b) == {e \in Free(m) : b <= e /\ (b .. e) \subseteq Free(m)}
  IN  {[base |-> b, size |-> Cardinality(RunFrom(b))] :
         b \in {f \in Free(m) : f - 1 \notin Free(m)}}

LoaderInit ==
  /\ step = "open"
  /\ memory = machine.memory
  /\ version = 0 /\ room = 0 /\ map = machine.memory /\ key = 0
  /\ region = [base |-> 0, size |-> 0]
  /\ segments = FALSE /\ exited = FALSE /\ firmware = 0

-----------------------------------------------------------------------------
(* A frame changes hands, and so does the key of the map. *)
Take(frames, owner) ==
  /\ memory' = [f \in DOMAIN memory |-> IF f \in frames THEN owner ELSE memory[f]]
  /\ version' = version + 1

(* AllocatePool takes a new frame, or has room in one it took before. *)
AllocatePool ==
  \/ \E f \in machine.spots \intersect Free(memory) : Take({f}, "loader")
  \/ UNCHANGED <<memory, version>>

Step(from, to) == step = from /\ step' = to

LoadFile ==
  /\ step = "open"
  /\ step' = IF machine.file = "missing" THEN "returned" ELSE "file_info"
  /\ UNCHANGED <<memory, version, room, map, key, region, segments, exited, firmware>>

(* Pool for the file information, and for the file, which is then read. *)
ReadKernel ==
  /\ \/ Step("file_info", "buffer")
     \/ step = "buffer" /\ step' = IF machine.file = "bad" THEN "returned" ELSE "segments"
  /\ AllocatePool
  /\ UNCHANGED <<room, map, key, region, segments, exited, firmware>>

(* The frames the segments are linked to are asked for, and written to     *)
(* whether they were granted or not.                                       *)
LoadSegments ==
  /\ Step("segments", "graphics")
  /\ segments' = (machine.image \subseteq Free(memory))
  /\ IF segments' THEN Take(machine.image, "loader") ELSE UNCHANGED <<memory, version>>
  /\ UNCHANGED <<room, map, key, region, exited, firmware>>

LocateGraphics ==
  /\ step = "graphics"
  /\ step' = IF machine.gop THEN "map_size" ELSE "returned"
  /\ UNCHANGED <<memory, version, room, map, key, region, segments, exited, firmware>>

(* Faulty variant: room for one descriptor more. *)
GetMapSizeTight ==
  /\ Step("map_size", "map_pool")
  /\ room' = Descriptors(memory) + 1
  /\ UNCHANGED <<memory, version, map, key, region, segments, exited, firmware>>

(* GetMemoryMap without a buffer, to learn the size; two descriptors are   *)
(* added.                                                                  *)
GetMapSize ==
  /\ Step("map_size", "map_pool")
  /\ room' = Descriptors(memory) + 2
  /\ UNCHANGED <<memory, version, map, key, region, segments, exited, firmware>>

AllocateMap ==
  /\ Step("map_pool", "map")
  /\ AllocatePool
  /\ UNCHANGED <<room, map, key, region, segments, exited, firmware>>

(* If the map has outgrown the buffer, what is in the buffer is undefined, *)
(* and with it everything that follows: "garbage" is the end of the model. *)
GetMap ==
  /\ step = "map"
  /\ IF Descriptors(memory) <= room
     THEN step' = "choose" /\ map' = memory /\ key' = version
     ELSE step' = "garbage" /\ UNCHANGED <<map, key>>
  /\ UNCHANGED <<memory, version, room, region, segments, exited, firmware>>

(* Faulty variant: the type of a descriptor is not looked at. *)
ChooseAnyRegion ==
  /\ Step("choose", "exit")
  /\ region' = [base |-> 0, size |-> Cardinality(DOMAIN map)]
  /\ UNCHANGED <<memory, version, room, map, key, segments, exited, firmware>>

(* The first of the largest conventional regions; then a Print. *)
ChooseRegion ==
  /\ Step("choose", "exit")
  /\ \/ /\ Runs(map) = {}
        /\ region' = [base |-> 0, size |-> 0]
     \/ \E r \in Runs(map) :
          /\ \A q \in Runs(map) :
               q.size < r.size \/ (q.size = r.size /\ q.base >= r.base)
          /\ region' = r
  /\ UNCHANGED <<memory, version, room, map, key, segments, exited, firmware>>

(* The firmware refuses an old key; the kernel is started all the same. *)
ExitBootServices ==
  /\ Step("exit", "entry")
  /\ exited' = (key = version)
  /\ UNCHANGED <<memory, version, room, map, key, region, segments, firmware>>

LoaderStep ==
  /\ \/ LoadFile \/ ReadKernel \/ LoadSegments \/ LocateGraphics
     \/ GetMapSize \/ AllocateMap \/ GetMap \/ ChooseRegion \/ ExitBootServices
  /\ UNCHANGED machine

(* Inside a service, Print for one, or in an event of a timer. *)
FirmwareTakes ==
  /\ ~exited
  /\ firmware < MaxFirmware /\ firmware' = firmware + 1
  /\ \E f \in machine.spots \intersect Free(memory) : Take({f}, "firmware")
  /\ UNCHANGED <<machine, step, room, map, key, region, segments, exited>>

-----------------------------------------------------------------------------
(***************************************************************************)
(* The buffer for the memory map is allocated before the map is copied     *)
(* into it, which makes the map longer (boot/main.c:92-94): what was added *)
(* to the size is enough for that, and only the firmware can outgrow it.   *)
(***************************************************************************)
MapFits == step = "garbage" => firmware > 0
=============================================================================
