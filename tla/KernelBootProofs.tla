-------------------------- MODULE KernelBootProofs --------------------------
(***************************************************************************)
(* The boot sequence on every machine: what the loader hands over, whose   *)
(* the kernel's pages are, what the page tables say, and how often a       *)
(* controller is set up and with what.                                     *)
(***************************************************************************)
EXTENDS KernelBoot, FiniteSetTheorems, WellFoundedInduction, TLAPS

-----------------------------------------------------------------------------
(* The loader.                                                             *)

Owners == {"conventional", "used", "loader", "firmware"}

(* A memory map: a finite number of frames, from 0 on. *)
Maps == UNION {[0 .. (size - 1) -> Owners] : size \in Nat}

LEMMA MachineMemory ==
  ASSUME NEW m \in Machines
  PROVE  \E size \in Nat \ {0} :
           size < Width /\ DOMAIN m.memory = 0 .. (size - 1) /\ m.memory \in [0 .. (size - 1) -> Owners]
<1>1. PICK size \in 1 .. (Width - 1) : m.memory \in [0 .. (size - 1) -> {"conventional", "used"}]
  BY MemoryAssumption
<1>2. Width \in Nat
  BY PagesAssumption
<1>3. size \in Nat \ {0} /\ size < Width
  BY <1>1, <1>2
<1>4. m.memory \in [0 .. (size - 1) -> Owners] /\ DOMAIN m.memory = 0 .. (size - 1)
  BY <1>1 DEF Owners
<1>5. QED BY <1>3, <1>4

(* Numbers that are not empty have a largest one below a bound. *)
LEMMA Greatest ==
  ASSUME NEW S \in SUBSET Int, NEW bound \in Int, S # {}, \A e \in S : e <= bound
  PROVE  \E e \in S : \A x \in S : x <= e
<1> DEFINE T == {bound - e : e \in S}
<1>1. T \in SUBSET Nat /\ T # {}
  <2>1. \A e \in S : bound - e \in Nat
    OBVIOUS
  <2>2. QED BY <2>1
<1> HIDE DEF T
<1>2. PICK x \in T : \A y \in T : ~ (<<y, x>> \in OpToRel(<, Nat))
  BY <1>1, WFMin, NatLessThanWellFounded, Zenon
<1>3. \A y \in T : ~ (y < x)
  BY <1>1, <1>2, Zenon DEF OpToRel
<1>4. PICK e \in S : x = bound - e
  BY DEF T
<1>5. ASSUME NEW y \in S PROVE y <= e
  <2>1. bound - y \in T /\ bound - y \in Int /\ x \in Int
    BY <1>1 DEF T
  <2>2. ~(bound - y < x)
    BY <1>3, <2>1
  <2>3. QED BY <1>4, <2>1, <2>2
<1>6. QED BY <1>5

(* A run of conventional memory is conventional from its base on, for its  *)
(* size.                                                                   *)
LEMMA RunsAreFree ==
  ASSUME NEW m \in Maps, NEW r \in Runs(m)
  PROVE  /\ r.base \in DOMAIN m /\ r.size \in Nat /\ r = [base |-> r.base, size |-> r.size]
         /\ \A p \in 0 .. (r.size - 1) : r.base + p \in Free(m)
<1>0. PICK size \in Nat : m \in [0 .. (size - 1) -> Owners]
  BY DEF Maps
<1>1. PICK b \in Free(m) :
        r = [base |-> b, size |-> Cardinality({e \in Free(m) : b <= e /\ (b .. e) \subseteq Free(m)})]
  BY Zenon DEF Runs
<1> DEFINE Run == {e \in Free(m) : b <= e /\ (b .. e) \subseteq Free(m)}
<1>2. b \in Nat /\ b \in DOMAIN m /\ Free(m) \in SUBSET Int /\ \A e \in Free(m) : e <= size
  BY <1>0, <1>1 DEF Free
<1>3. b \in Run
  BY <1>1, <1>2
<1>4. PICK e \in Run : \A x \in Run : x <= e
  <2>1. Run \in SUBSET Int /\ Run # {} /\ \A x \in Run : x <= size
    BY <1>2, <1>3
  <2> HIDE DEF Run
  <2>2. size \in Int
    BY <1>0
  <2>3. QED BY <2>1, <2>2, Greatest
<1>5. Run = b .. e
  <2>1. ASSUME NEW x \in Run PROVE x \in b .. e
    BY <1>2, <1>4
  <2>2. ASSUME NEW x \in b .. e PROVE x \in Run
    <3>1. (b .. e) \subseteq Free(m) /\ e \in Int
      BY <1>2, <1>4
    <3>2. (b .. x) \subseteq (b .. e)
      BY <1>2, <3>1
    <3>3. QED BY <1>2, <3>1, <3>2
  <2>3. QED BY <2>1, <2>2
<1>6. Cardinality(Run) = e - b + 1 /\ e \in Int /\ b <= e
  <2>1. e \in Int /\ b <= e
    BY <1>2, <1>4
  <2>2. Cardinality(b .. e) = e - b + 1
    BY <1>2, <2>1, FS_Interval
  <2>3. QED BY <1>5, <2>1, <2>2
<1>7. r.base = b /\ r.size = e - b + 1
  BY <1>1, <1>6
<1>8. ASSUME NEW p \in 0 .. (r.size - 1) PROVE b + p \in Free(m)
  <2>1. b + p \in b .. e
    BY <1>2, <1>6, <1>7, <1>8
  <2>2. QED BY <1>5, <2>1
<1>9. r = [base |-> r.base, size |-> r.size]
  BY <1>1
<1>10. QED BY <1>2, <1>6, <1>7, <1>8, <1>9

LEMMA OneMore ==
  ASSUME NEW S, IsFiniteSet(S), NEW x
  PROVE  /\ IsFiniteSet(S \cup {x}) /\ Cardinality(S) \in Nat /\ Cardinality(S \cup {x}) \in Nat
         /\ Cardinality(S \cup {x}) <= Cardinality(S) + 1
<1>1. Cardinality(S) \in Nat
  BY FS_CardinalityType
<1>2. IsFiniteSet(S \cup {x})
      /\ Cardinality(S \cup {x}) = IF x \in S THEN Cardinality(S) ELSE Cardinality(S) + 1
  BY FS_AddElement
<1>3. QED BY <1>1, <1>2

(* A frame that changes hands adds at most two descriptors: its own, and   *)
(* that of the frame behind it.                                            *)
LEMMA TwoMoreDescriptors ==
  ASSUME NEW m \in Maps, NEW g \in Int, NEW owner,
         NEW n, n = [f \in DOMAIN m |-> IF f \in {g} THEN owner ELSE m[f]]
  PROVE  Descriptors(m) \in Nat /\ Descriptors(n) \in Nat /\ Descriptors(n) <= Descriptors(m) + 2
<1> DEFINE Starts(a) == {f \in DOMAIN a : f - 1 \in DOMAIN a => a[f - 1] # a[f]}
<1>0. PICK size \in Nat : m \in [0 .. (size - 1) -> Owners]
  BY DEF Maps
<1>1. DOMAIN m = 0 .. (size - 1) /\ DOMAIN n = DOMAIN m
  BY <1>0
<1>2. IsFiniteSet(DOMAIN m)
  BY <1>1, FS_Interval
<1>3. IsFiniteSet(Starts(m)) /\ IsFiniteSet(Starts(n))
  <2>1. Starts(m) \in SUBSET (DOMAIN m) /\ Starts(n) \in SUBSET (DOMAIN m)
    BY <1>1
  <2>2. QED BY <1>2, <2>1, FS_Subset
<1>4. Starts(n) \subseteq Starts(m) \cup {g} \cup {g + 1}
  <2>1. ASSUME NEW f \in Starts(n), f # g, f # g + 1 PROVE f \in Starts(m)
    <3>1. f \in DOMAIN m /\ f \in Int /\ f - 1 # g
      BY <1>1, <2>1
    <3>2. n[f] = m[f] /\ (f - 1 \in DOMAIN m => n[f - 1] = m[f - 1])
      BY <2>1, <3>1
    <3>3. f - 1 \in DOMAIN m => n[f - 1] # n[f]
      BY <1>1, <2>1
    <3>4. QED BY <3>1, <3>2, <3>3
  <2>2. QED BY <2>1
<1>5. /\ Cardinality(Starts(m)) \in Nat /\ Cardinality(Starts(n)) \in Nat
      /\ Cardinality(Starts(n)) <= Cardinality(Starts(m)) + 2
  <2> HIDE DEF Starts
  <2>1. /\ IsFiniteSet(Starts(m) \cup {g})
        /\ Cardinality(Starts(m)) \in Nat /\ Cardinality(Starts(m) \cup {g}) \in Nat
        /\ Cardinality(Starts(m) \cup {g}) <= Cardinality(Starts(m)) + 1
    BY <1>3, OneMore
  <2>2. /\ IsFiniteSet(Starts(m) \cup {g} \cup {g + 1})
        /\ Cardinality(Starts(m) \cup {g} \cup {g + 1}) \in Nat
        /\ Cardinality(Starts(m) \cup {g} \cup {g + 1}) <= Cardinality(Starts(m) \cup {g}) + 1
    BY <2>1, OneMore
  <2>3. Cardinality(Starts(n)) <= Cardinality(Starts(m) \cup {g} \cup {g + 1})
        /\ Cardinality(Starts(n)) \in Nat
    BY <1>3, <1>4, <2>2, FS_Subset, FS_CardinalityType
  <2>4. QED BY <2>1, <2>2, <2>3
<1>6. Descriptors(m) = Cardinality(Starts(m)) /\ Descriptors(n) = Cardinality(Starts(n))
  BY DEF Descriptors
<1>7. QED BY <1>5, <1>6

Pages(r) == {r.base + p : p \in 0 .. (r.size - 1)}

LoaderType ==
  /\ machine \in Machines
  /\ step \in LoaderSteps \union Stopped
  /\ memory \in [DOMAIN machine.memory -> Owners] /\ map \in [DOMAIN machine.memory -> Owners]
  /\ version \in Nat /\ key \in Nat /\ room \in Nat
  /\ firmware \in 0 .. MaxFirmware
  /\ region.base \in DOMAIN machine.memory /\ region.size \in Nat

(* What the firmware has not disturbed: the buffer is large enough for the *)
(* map, with a descriptor or two to spare until it has been allocated.     *)
RoomInv ==
  firmware = 0 =>
    /\ step # "garbage"
    /\ step = "map_pool" => room = Descriptors(memory) + 2
    /\ step = "map" => Descriptors(memory) <= room

(* The map is the memory's as long as its key is; the region is free in    *)
(* the map.                                                                *)
RegionInv ==
  /\ exited => step = "entry" /\ key = version
  /\ step \in {"choose", "exit", "entry"} => key <= version /\ (key = version => map = memory)
  /\ step \in {"exit", "entry"} \/ region.size = 0
  /\ Pages(region) \subseteq Free(map)

LoaderInv == LoaderType /\ RoomInv /\ RegionInv

LEMMA MapsOfMachines ==
  ASSUME NEW m \in Machines, NEW a \in [DOMAIN m.memory -> Owners]
  PROVE  /\ a \in Maps /\ DOMAIN a = DOMAIN m.memory
         /\ Free(a) \subseteq Int /\ 0 \in DOMAIN m.memory /\ DOMAIN m.memory \subseteq Nat
<1>1. PICK size \in Nat \ {0} : DOMAIN m.memory = 0 .. (size - 1)
  BY MachineMemory
<1>2. QED BY <1>1 DEF Maps, Free

LEMMA LoaderInit_Inv == Init => LoaderInv
<1>. SUFFICES ASSUME Init PROVE LoaderInv
  OBVIOUS
<1>1. machine \in Machines /\ machine.memory \in [DOMAIN machine.memory -> Owners]
  BY MachineMemory DEF Init
<1>2. 0 \in DOMAIN machine.memory
  BY <1>1, MapsOfMachines
<1>3. LoaderType
  BY <1>1, <1>2, EntriesAssumption DEF Init, LoaderInit, LoaderType, LoaderSteps
<1>4. RoomInv
  BY DEF Init, LoaderInit, RoomInv
<1>5. RegionInv
  BY DEF Init, LoaderInit, RegionInv, Pages
<1>6. QED BY <1>3, <1>4, <1>5 DEF LoaderInv

(* A frame that is taken. *)
LEMMA Taken ==
  ASSUME LoaderType, NEW f \in Free(memory), NEW owner \in Owners, Take({f}, owner)
  PROVE  /\ memory' \in [DOMAIN machine.memory -> Owners] /\ version' = version + 1
         /\ Descriptors(memory) \in Nat /\ Descriptors(memory') \in Nat
         /\ Descriptors(memory') <= Descriptors(memory) + 2
<1>1. memory \in Maps /\ f \in Int
  BY MapsOfMachines DEF LoaderType
<1>2. memory' = [g \in DOMAIN memory |-> IF g \in {f} THEN owner ELSE memory[g]]
      /\ version' = version + 1
  BY DEF Take
<1>3. memory' \in [DOMAIN machine.memory -> Owners]
  BY <1>2 DEF LoaderType
<1>4. /\ Descriptors(memory) \in Nat /\ Descriptors(memory') \in Nat
      /\ Descriptors(memory') <= Descriptors(memory) + 2
  BY <1>1, <1>2, TwoMoreDescriptors
<1>5. QED BY <1>2, <1>3, <1>4

LEMMA CountOfMemory ==
  ASSUME LoaderType PROVE Descriptors(memory) \in Nat
<1>1. memory \in Maps
  BY MapsOfMachines DEF LoaderType
<1>2. PICK size \in Nat : DOMAIN memory = 0 .. (size - 1)
  BY <1>1 DEF Maps
<1>3. IsFiniteSet(DOMAIN memory)
  BY <1>2, FS_Interval
<1>4. {f \in DOMAIN memory : f - 1 \in DOMAIN memory => memory[f - 1] # memory[f]}
        \in SUBSET (DOMAIN memory)
  OBVIOUS
<1>5. QED BY <1>3, <1>4, FS_Subset, FS_CardinalityType, Zenon DEF Descriptors

LEMMA Pooled ==
  ASSUME LoaderType, AllocatePool
  PROVE  /\ memory' \in [DOMAIN machine.memory -> Owners] /\ version' \in Nat
         /\ Descriptors(memory) \in Nat /\ Descriptors(memory') \in Nat
         /\ Descriptors(memory') <= Descriptors(memory) + 2
<1>1. ASSUME NEW f \in Free(memory), Take({f}, "loader")
      PROVE  /\ memory' \in [DOMAIN machine.memory -> Owners] /\ version' = version + 1
             /\ Descriptors(memory) \in Nat /\ Descriptors(memory') \in Nat
             /\ Descriptors(memory') <= Descriptors(memory) + 2
  BY <1>1, Taken DEF Owners
<1>2. CASE UNCHANGED <<memory, version>>
  BY <1>2, CountOfMemory DEF LoaderType
<1>3. version \in Nat
  BY DEF LoaderType
<1>4. CASE \E f \in machine.spots \intersect Free(memory) : Take({f}, "loader")
  <2>1. PICK f \in Free(memory) : Take({f}, "loader")
    BY <1>4
  <2>2. QED BY <1>1, <1>3, <2>1
<1>5. QED BY <1>2, <1>3, <1>4 DEF AllocatePool

LEMMA LoaderMoves == LoaderInv /\ LoaderStep => LoaderInv'
<1>. SUFFICES ASSUME LoaderInv, LoaderStep PROVE LoaderInv'
  OBVIOUS
<1>0. LoaderType /\ RoomInv /\ RegionInv /\ machine' = machine
  BY DEF LoaderInv, LoaderStep
<1>. USE DEF LoaderSteps, Stopped
\* Until the map is copied there is no region.
<1>a. ASSUME step' \notin {"map_pool", "map", "garbage", "choose", "exit", "entry"},
             step \notin {"exit", "entry"}, step' \in LoaderSteps \union Stopped,
             UNCHANGED <<room, map, key, region, exited, firmware>>,
             memory' \in [DOMAIN machine.memory -> Owners], version' \in Nat
      PROVE  LoaderInv'
  <2>1. LoaderType'
    BY <1>0, <1>a DEF LoaderType
  <2>2. RoomInv'
    BY <1>a DEF RoomInv
  <2>3. RegionInv'
    BY <1>0, <1>a DEF RegionInv, Pages, Free
  <2>4. QED BY <2>1, <2>2, <2>3 DEF LoaderInv
<1>1. CASE LoadFile
  BY <1>0, <1>1, <1>a DEF LoadFile, LoaderType
<1>2. CASE ReadKernel
  <2>1. memory' \in [DOMAIN machine.memory -> Owners] /\ version' \in Nat
    BY <1>0, <1>2, Pooled DEF ReadKernel
  <2>2. QED BY <1>2, <1>a, <2>1 DEF ReadKernel, Step
<1>3. CASE LoadSegments
  <2>1. memory' \in [DOMAIN machine.memory -> Owners] /\ version' \in Nat
    BY <1>0, <1>3 DEF LoadSegments, Take, LoaderType, Owners
  <2>2. QED BY <1>3, <1>a, <2>1 DEF LoadSegments, Step
<1>4. CASE LocateGraphics
  BY <1>0, <1>4, <1>a DEF LocateGraphics, LoaderType
<1>5. CASE GetMapSize
  <2>1. Descriptors(memory) + 2 \in Nat
    BY <1>0, CountOfMemory
  <2>2. LoaderType'
    BY <1>0, <1>5, <2>1 DEF GetMapSize, Step, LoaderType
  <2>3. RoomInv'
    BY <1>0, <1>5 DEF GetMapSize, Step, RoomInv, Descriptors
  <2>4. RegionInv'
    BY <1>0, <1>5 DEF GetMapSize, Step, RegionInv, Pages, Free
  <2>5. QED BY <2>2, <2>3, <2>4 DEF LoaderInv
<1>6. CASE AllocateMap
  <2>1. /\ memory' \in [DOMAIN machine.memory -> Owners] /\ version' \in Nat
        /\ Descriptors(memory') <= Descriptors(memory) + 2
    BY <1>0, <1>6, Pooled DEF AllocateMap
  <2>2. LoaderType'
    BY <1>0, <1>6, <2>1 DEF AllocateMap, Step, LoaderType
  <2>3. RoomInv'
    <3>1. firmware = 0 => room = Descriptors(memory) + 2
      BY <1>0, <1>6 DEF AllocateMap, Step, RoomInv
    <3>2. step' = "map" /\ firmware' = firmware /\ room' = room
      BY <1>6 DEF AllocateMap, Step
    <3>3. QED BY <2>1, <3>1, <3>2 DEF RoomInv
  <2>4. RegionInv'
    BY <1>0, <1>6 DEF AllocateMap, Step, RegionInv, Pages, Free
  <2>5. QED BY <2>2, <2>3, <2>4 DEF LoaderInv
<1>7. CASE GetMap
  <2>2. LoaderType'
    BY <1>0, <1>7 DEF GetMap, LoaderType
  <2>3. RoomInv'
    BY <1>0, <1>7 DEF GetMap, RoomInv
  <2>4. RegionInv'
    <3>1. region.size = 0 /\ region' = region /\ ~exited /\ exited' = exited
      BY <1>0, <1>7 DEF GetMap, RegionInv
    <3>2. Pages(region') = {}
      BY <3>1 DEF Pages
    <3>3. step' = "choose" => key' <= version' /\ map' = memory'
      BY <1>0, <1>7 DEF GetMap, LoaderType
    <3>4. step' \in {"choose", "garbage"}
      BY <1>7 DEF GetMap
    <3>5. QED BY <3>1, <3>2, <3>3, <3>4 DEF RegionInv
  <2>5. QED BY <2>2, <2>3, <2>4 DEF LoaderInv
<1>8. CASE ChooseRegion
  <2>1. region'.base \in DOMAIN machine.memory /\ region'.size \in Nat
        /\ Pages(region') \subseteq Free(map)
    <3>1. CASE region' = [base |-> 0, size |-> 0]
      BY <1>0, <3>1, MapsOfMachines DEF Pages, LoaderType
    <3>2. CASE region' \in Runs(map)
      <4>1. map \in Maps /\ DOMAIN map = DOMAIN machine.memory
        BY <1>0, MapsOfMachines DEF LoaderType
      <4>2. QED BY <3>2, <4>1, RunsAreFree DEF Pages
    <3>3. QED BY <1>8, <3>1, <3>2 DEF ChooseRegion
  <2>2. LoaderType'
    BY <1>0, <1>8, <2>1 DEF ChooseRegion, Step, LoaderType
  <2>3. RoomInv'
    BY <1>0, <1>8 DEF ChooseRegion, Step, RoomInv
  <2>4. RegionInv'
    <3>1. step = "choose" /\ step' = "exit" /\ UNCHANGED <<memory, version, map, key, exited>>
      BY <1>8 DEF ChooseRegion, Step
    <3>2. Pages(region)' \subseteq Free(map)'
      BY <2>1, <3>1 DEF Pages, Free
    <3>3. QED BY <1>0, <3>1, <3>2 DEF RegionInv
  <2>5. QED BY <2>2, <2>3, <2>4 DEF LoaderInv
<1>9. CASE ExitBootServices
  <2>1. /\ step = "exit" /\ step' = "entry" /\ exited' = (key = version)
        /\ UNCHANGED <<memory, version, room, map, key, region, firmware>>
    BY <1>9 DEF ExitBootServices, Step
  <2>2. LoaderType'
    BY <1>0, <2>1 DEF LoaderType
  <2>3. RoomInv'
    BY <1>0, <2>1 DEF RoomInv
  <2>4. RegionInv'
    BY <1>0, <2>1 DEF RegionInv, Pages, Free
  <2>5. QED BY <2>2, <2>3, <2>4 DEF LoaderInv
<1>10. QED
  BY <1>1, <1>2, <1>3, <1>4, <1>5, <1>6, <1>7, <1>8, <1>9 DEF LoaderStep

LEMMA FirmwareMoves == LoaderInv /\ FirmwareTakes => LoaderInv'
<1>. SUFFICES ASSUME LoaderInv, FirmwareTakes PROVE LoaderInv'
  OBVIOUS
<1>1. /\ LoaderType /\ RegionInv /\ ~exited /\ firmware < MaxFirmware /\ firmware' = firmware + 1
      /\ UNCHANGED <<machine, step, room, map, key, region, exited>>
  BY DEF LoaderInv, FirmwareTakes
<1>2. PICK f \in Free(memory) : Take({f}, "firmware")
  BY DEF FirmwareTakes
<1>3. memory' \in [DOMAIN machine.memory -> Owners] /\ version' = version + 1
  BY <1>1, <1>2, Taken DEF Owners
<1>4. LoaderType'
  BY <1>1, <1>3, EntriesAssumption DEF LoaderType
<1>5. RoomInv'
  BY <1>1 DEF RoomInv, LoaderType
<1>6. RegionInv'
  <2>1. step \in {"choose", "exit", "entry"} => key <= version' /\ key # version'
    BY <1>1, <1>3 DEF RegionInv, LoaderType
  <2>2. Pages(region)' \subseteq Free(map)'
    BY <1>1 DEF RegionInv, Pages, Free
  <2>3. QED BY <1>1, <2>1, <2>2 DEF RegionInv
<1>7. QED BY <1>4, <1>5, <1>6 DEF LoaderInv

LEMMA LoaderRests == LoaderInv /\ UNCHANGED <<machine, loader>> => LoaderInv'
BY DEF LoaderInv, LoaderType, RoomInv, RegionInv, loader, Pages, Free, Descriptors

(* The kernel leaves the loader's variables alone. *)
LEMMA KernelOrLoader ==
  [Next]_vars =>
    \/ LoaderStep /\ UNCHANGED <<pmm, vmm, pc, xhci>>
    \/ FirmwareTakes /\ UNCHANGED <<pmm, vmm, pc, xhci>>
    \/ UNCHANGED <<machine, loader>> /\ ([Kernel]_vars \/ \E c \in Controllers : HcStep(c))
<1>1. Kernel => UNCHANGED <<machine, loader>>
  BY DEF Kernel, EnterKernel, SetUpMemory, SetUpTables, MapPage, Activate, GoAstray, AllocateHeap,
         HeapMapped, ReadFunction, ScanDone, StopController, ResetController, ControllerReset,
         AllocateTables, StartController
<1>2. ASSUME NEW c \in Controllers, HcStep(c) PROVE UNCHANGED <<machine, loader>>
  BY <1>2 DEF HcStep
<1>3. QED BY <1>1, <1>2 DEF Next, Program, vars

LEMMA LoaderStays == LoaderInv /\ [Next]_vars => LoaderInv'
BY KernelOrLoader, LoaderMoves, FirmwareMoves, LoaderRests, Zenon

(***************************************************************************)
(* On every machine, whatever the firmware gives out: the buffer that      *)
(* efi_main allocates for the memory map has room for it, although the     *)
(* allocation makes the map longer, unless the firmware took memory for    *)
(* itself in between (boot/main.c:92-94).                                  *)
(***************************************************************************)
THEOREM MapCorrect == Spec => []MapFits
<1>1. LoaderInv => MapFits
  BY EntriesAssumption DEF LoaderInv, LoaderType, RoomInv, MapFits
<1>2. QED BY <1>1, LoaderInit_Inv, LoaderStays, PTL DEF Spec

-----------------------------------------------------------------------------
(* The kernel's pages.                                                     *)

Early == {"loader", "pmm_init", "pmm_free", "vmm_init"}
Labels == Early \union {"map", "heap"} \union PastHeap \union Ended

(* The manager has the region that was chosen; nothing is given out before *)
(* it runs.                                                                *)
HandedInv ==
  /\ pc \in Labels
  /\ pc = "loader" => max_pages = 0 /\ base = 0
  /\ pc # "loader" => step = "entry" /\ base = region.base /\ max_pages = region.size
  /\ pc \in {"loader", "pmm_init", "pmm_free"} => free = {}
  /\ pc \in Early => /\ held = {} /\ ~exhausted /\ cr3 = NULL
                     /\ tables = << >> /\ mapped = {} /\ kernel_pml4 = NULL /\ todo = << >>
  /\ pc \in {"loader", "pmm_init"} => stage = "PMM_Init"
  /\ pc = "pmm_free" => stage = "PMM_FreePages"

(* Pages are given out in order, from the first behind the bitmap on, and  *)
(* when there is none left there never is again.                           *)
ManagerInv ==
  /\ free \subseteq Pmm!Page /\ held \subseteq Pmm!Page
  /\ \A p \in free \union held : Pmm!Reserved(max_pages) <= p
  /\ \A p \in held, q \in free : p < q
  /\ pc \notin {"loader", "pmm_init", "pmm_free"} =>
       \A p \in Pmm!Page : Pmm!Reserved(max_pages) <= p => p \in free \union held
  /\ exhausted \in BOOLEAN /\ (exhausted => free = {})

MemoryInv == LoaderInv /\ HandedInv /\ ManagerInv

LEMMA Sizes ==
  ASSUME LoaderInv, HandedInv
  PROVE  /\ max_pages \in Nat /\ max_pages < Width /\ base \in Nat /\ Width \in Nat \ {0}
         /\ Pmm!Reserved(max_pages) \in Nat \ {0}
         /\ \A p \in Pmm!Page : p \in Nat /\ base + p \in DOMAIN machine.memory
<1>0. machine \in Machines /\ map \in [DOMAIN machine.memory -> Owners]
      /\ region.base \in DOMAIN machine.memory /\ region.size \in Nat
      /\ Pages(region) \subseteq Free(map)
  BY DEF LoaderInv, LoaderType, RegionInv
<1>1. PICK size \in Nat \ {0} : size < Width /\ DOMAIN machine.memory = 0 .. (size - 1)
  BY <1>0, MachineMemory
<1>2. Width \in Nat \ {0} /\ PageSize \in Nat \ {0} /\ Bits \in Nat \ {0}
  BY PagesAssumption
<1>3. \A p \in 0 .. (region.size - 1) : region.base + p \in DOMAIN machine.memory
  BY <1>0 DEF Pages, Free
<1>4. region.size < Width
  <2>1. CASE region.size = 0
    BY <1>1, <1>2, <2>1
  <2>2. CASE region.size # 0
    <3>1. region.size - 1 \in 0 .. (region.size - 1)
      BY <1>0, <2>2
    <3>2. region.base + (region.size - 1) \in 0 .. (size - 1) /\ region.base \in 0 .. (size - 1)
      BY <1>0, <1>1, <1>3, <3>1
    <3>3. QED BY <1>0, <1>1, <1>2, <3>2
  <2>3. QED BY <2>1, <2>2
<1>5. max_pages \in Nat /\ max_pages < Width /\ base \in Nat
  BY <1>0, <1>1, <1>2, <1>4 DEF HandedInv
<1>6. Pmm!Reserved(max_pages) \in Nat \ {0}
  <2>1. max_pages \div Bits \in Nat
    BY <1>2, <1>5
  <2>2. ((max_pages \div Bits) + (PageSize - 1)) \div PageSize \in Nat
    <3>1. (max_pages \div Bits) + (PageSize - 1) \in Nat
      BY <1>2, <2>1
    <3>2. QED BY <1>2, <3>1
  <2>3. QED BY <2>2 DEF Pmm!Reserved
<1>7. ASSUME NEW p \in Pmm!Page PROVE p \in Nat /\ base + p \in DOMAIN machine.memory
  BY <1>3, <1>5, <1>7 DEF Pmm!Page, HandedInv
<1>8. QED BY <1>2, <1>5, <1>6, <1>7

(* A request: the lowest page, or none.                                     *)
GivenPage(p) ==
  /\ p \in free /\ \A q \in free : p <= q
  /\ free' = free \ {p} /\ held' = held \union {p} /\ result' = p /\ exhausted' = exhausted
NoneGiven ==
  free = {} /\ free' = {} /\ held' = held /\ result' = NULL /\ exhausted'

LEMMA Requested ==
  ASSUME ManagerInv, LoaderInv, HandedInv, AllocatePage
  PROVE  /\ (\E p \in free : GivenPage(p)) \/ NoneGiven
         /\ UNCHANGED <<stage, max_pages>> /\ stage = "running"
<1>1. UNCHANGED <<stage, max_pages>> /\ stage = "running"
  BY DEF AllocatePage, Pmm!PMM_AllocatePage
<1>2. ASSUME NEW p \in free, \A q \in free : p <= q,
             free' = free \ {p}, held' = held \union {p}, result' = p
      PROVE  GivenPage(p)
  <2>1. p \in Int /\ NULL \notin Int
    BY Sizes, PagesAssumption DEF ManagerInv
  <2>2. exhausted' = exhausted
    BY <1>2, <2>1 DEF AllocatePage, ManagerInv
  <2>3. QED BY <1>2, <2>2 DEF GivenPage
<1>3. CASE free = {} /\ result' = NULL /\ UNCHANGED <<free, held>>
  <2>1. exhausted' = (exhausted \/ result' = NULL)
    BY DEF AllocatePage
  <2>2. exhausted'
    BY <1>3, <2>1, Zenon
  <2>3. free' = {} /\ held' = held /\ free = {} /\ result' = NULL
    BY <1>3
  <2>4. QED BY <1>1, <2>2, <2>3, Zenon DEF NoneGiven
<1>4. QED BY <1>1, <1>2, <1>3, Zenon DEF AllocatePage, Pmm!PMM_AllocatePage

LEMMA ManagerGives ==
  ASSUME ManagerInv, LoaderInv, HandedInv, AllocatePage,
         pc \notin {"loader", "pmm_init", "pmm_free"}
  PROVE  ManagerInv'
<1>0. UNCHANGED max_pages /\ stage = "running"
  BY Requested
<1>1. ASSUME NEW p \in free, GivenPage(p) PROVE ManagerInv'
  <2>1. p \in Pmm!Page /\ p \in Int /\ free \subseteq Int /\ held \subseteq Int
    BY Sizes DEF ManagerInv
  <2>2. \A q \in free' : q \in free /\ q # p /\ p < q
    BY <1>1, <2>1 DEF GivenPage
  <2>3. Pmm!Page' = Pmm!Page /\ Pmm!Reserved(max_pages)' = Pmm!Reserved(max_pages)
    BY <1>0 DEF Pmm!Page, Pmm!Reserved
  <2>4. \A a \in held', b \in free' : a < b
    BY <1>1, <2>2 DEF GivenPage, ManagerInv
  <2>5. free' \union held' = free \union held /\ exhausted' = exhausted
    BY <1>1 DEF GivenPage
  <2>6. exhausted' => free' = {}
    BY <1>1 DEF GivenPage, ManagerInv
  <2>7. free' \subseteq Pmm!Page /\ held' \subseteq Pmm!Page
    BY <1>1, <2>1 DEF GivenPage, ManagerInv
  <2>8. QED BY <1>0, <2>3, <2>4, <2>5, <2>6, <2>7 DEF ManagerInv, Pmm!Page, Pmm!Reserved
<1>2. CASE NoneGiven
  <2>1. exhausted' \in BOOLEAN
    <3>1. exhausted' = (exhausted \/ result' = NULL)
      BY DEF AllocatePage
    <3>2. QED BY <3>1
  <2>2. QED BY <1>0, <1>2, <2>1 DEF NoneGiven, ManagerInv, Pmm!Page, Pmm!Reserved
<1>3. QED BY Requested, <1>1, <1>2

Late == Labels \ Early

(* What each action of the kernel does to the pages.                       *)
GivesPage ==
  /\ pc \notin {"loader", "pmm_init", "pmm_free"} /\ pc' \in Late
  /\ AllocatePage /\ UNCHANGED <<machine, loader, base>>
LeavesPages ==
  /\ pc \in Late /\ pc' \in Late
  /\ UNCHANGED <<machine, loader, pmm, base, exhausted>>

LEMMA NextUses == \A use \in Uses : NextUse(use) \in Uses \union {"start"}
BY DEF NextUse, Uses

LEMMA KernelPages ==
  ASSUME Kernel, MemoryInv
  PROVE  \/ EnterKernel \/ SetUpMemory
         \/ GivesPage
         \/ LeavesPages
<1>. USE DEF Labels, Late, Early, PastHeap, Ended, Uses
<1>1. CASE SetUpTables
  BY <1>1 DEF SetUpTables, At, VMM_Init, GivesPage
<1>2. CASE MapPage
  <2>1. CASE AddTable
    BY <1>2, <2>1 DEF MapPage, AddTable, GivesPage
  <2>2. CASE SetEntry
    BY <1>2, <2>2 DEF MapPage, SetEntry, LeavesPages
  <2>3. QED BY <1>2, <2>1, <2>2 DEF MapPage, VMM_MapPage
<1>3. CASE AllocateHeap
  BY <1>3 DEF AllocateHeap, GivesPage
<1>4. CASE AllocateTables
  BY <1>4, NextUses DEF AllocateTables, GivesPage
<1>5. CASE Activate \/ GoAstray
  BY <1>5 DEF Activate, VMM_Activate, GoAstray, vmm, LeavesPages
<1>6. CASE HeapMapped \/ ReadFunction \/ ScanDone
  BY <1>6 DEF HeapMapped, ReadFunction, ScanDone, At, vmm, LeavesPages
<1>7. CASE StopController \/ ResetController \/ ControllerReset \/ StartController
  BY <1>7 DEF StopController, ResetController, ControllerReset, StartController, At, vmm, LeavesPages
<1>8. QED BY <1>1, <1>2, <1>3, <1>4, <1>5, <1>6, <1>7 DEF Kernel

LEMMA InitMemory == Init => MemoryInv
<1>. SUFFICES ASSUME Init PROVE MemoryInv
  OBVIOUS
<1>1. LoaderInv
  BY LoaderInit_Inv
<1>2. HandedInv
  BY DEF Init, HandedInv, Labels, Early
<1>3. ManagerInv
  BY DEF Init, ManagerInv
<1>4. QED BY <1>1, <1>2, <1>3 DEF MemoryInv

(* All pages behind the bitmap are freed at once, in order. *)
LEMMA ManagerFrees ==
  ASSUME MemoryInv, pc = "pmm_free", Pmm!PMM_FreePages,
         UNCHANGED <<base, exhausted>>, pc' \in Labels
  PROVE  ManagerInv'
<1>0. LoaderInv /\ HandedInv /\ ManagerInv
  BY DEF MemoryInv
<1>. DEFINE R == Pmm!Reserved(max_pages)
            Count == (max_pages + Width - R) % Width
<1>1. /\ free' = free \union Pmm!Freed(R, Count) /\ free = {}
      /\ UNCHANGED <<max_pages, held, result>> /\ held = {} /\ ~exhausted
  BY <1>0 DEF Pmm!PMM_FreePages, HandedInv, Early
<1>2. /\ max_pages \in Nat /\ max_pages < Width /\ Width \in Nat \ {0} /\ R \in Nat \ {0}
  BY <1>0, Sizes
<1>3. max_pages >= R => Count = max_pages - R
  <2>1. ASSUME max_pages >= R PROVE Count = max_pages - R
    <3>1. PICK d \in 0 .. (Width - 1) : d = max_pages - R
      BY <1>2, <2>1
    <3>2. max_pages + Width - R = d + Width
      BY <1>2, <3>1
    <3>3. (d + Width) % Width = d
      BY <1>2, <3>1
    <3>4. QED BY <3>1, <3>2, <3>3
  <2>2. QED BY <2>1
<1>4. free' = {p \in Pmm!Page : R <= p}
  <2>1. free' = {p \in R .. (R + Count - 1) : p < max_pages}
    BY <1>1 DEF Pmm!Freed
  <2>2. CASE max_pages >= R
    <3>1. R + Count - 1 = max_pages - 1
      BY <1>2, <1>3, <2>2
    <3> HIDE DEF R, Count
    <3>2. free' = {p \in R .. (max_pages - 1) : p < max_pages}
      BY <2>1, <3>1
    <3>3. QED BY <1>2, <3>2 DEF Pmm!Page
  <2>3. CASE max_pages < R
    <3> HIDE DEF R, Count
    <3>1. \A p \in free' : FALSE
      BY <1>2, <2>1, <2>3
    <3>2. \A p \in Pmm!Page : ~(R <= p)
      BY <1>2, <2>3 DEF Pmm!Page
    <3>3. QED BY <3>1, <3>2
  <2>4. QED BY <1>2, <2>2, <2>3
<1>5. Pmm!Page' = Pmm!Page /\ Pmm!Reserved(max_pages)' = R
  BY <1>1 DEF Pmm!Page, Pmm!Reserved
<1> HIDE DEF R, Count
<1>6. /\ free' \subseteq Pmm!Page' /\ held' \subseteq Pmm!Page' /\ ~exhausted'
      /\ \A p \in free' \union held' : R <= p
      /\ \A p \in Pmm!Page' : R <= p => p \in free' \union held'
  BY <1>1, <1>4, <1>5
<1>7. \A p \in held', q \in free' : p < q
  BY <1>1
<1>8. exhausted' \in BOOLEAN
  BY <1>0 DEF ManagerInv
<1>9. QED BY <1>5, <1>6, <1>7, <1>8 DEF ManagerInv

LEMMA MemoryStep == MemoryInv /\ [Next]_vars => MemoryInv'
<1>. SUFFICES ASSUME MemoryInv, [Next]_vars PROVE MemoryInv'
  OBVIOUS
<1>0. LoaderInv /\ HandedInv /\ ManagerInv /\ LoaderInv'
  BY LoaderStays DEF MemoryInv
<1>. USE DEF Labels, Late, Early
\* The kernel's memory does not change.
<1>a. ASSUME UNCHANGED <<pmm, vmm, pc>>, step = "entry" => step' = "entry",
             pc # "loader" => UNCHANGED region
      PROVE  MemoryInv'
  <2>1. HandedInv'
    BY <1>0, <1>a DEF HandedInv, pmm, vmm
  <2>2. ManagerInv'
    BY <1>0, <1>a DEF ManagerInv, pmm, vmm, Pmm!Page, Pmm!Reserved
  <2>3. QED BY <1>0, <2>1, <2>2 DEF MemoryInv
<1>1. CASE LoaderStep /\ UNCHANGED <<pmm, vmm, pc, xhci>>
  <2>1. step # "entry"
    BY <1>1 DEF LoaderStep, LoadFile, ReadKernel, LoadSegments, LocateGraphics, GetMapSize,
                AllocateMap, GetMap, ChooseRegion, ExitBootServices, Step
  <2>2. pc = "loader"
    BY <1>0, <2>1 DEF HandedInv
  <2>3. QED BY <1>1, <1>a, <2>1, <2>2
<1>2. CASE FirmwareTakes /\ UNCHANGED <<pmm, vmm, pc, xhci>>
  BY <1>2, <1>a DEF FirmwareTakes
<1>3. ASSUME NEW c \in Controllers, HcStep(c) PROVE MemoryInv'
  BY <1>3, <1>a DEF HcStep, loader
<1>4. CASE UNCHANGED vars
  BY <1>4, <1>a DEF vars, loader
<1>5. CASE Kernel
  <2>1. CASE EnterKernel
    <3>1. HandedInv'
      BY <1>0, <2>1 DEF EnterKernel, At, loader, HandedInv
    <3>2. ManagerInv'
      <4>1. free = {} /\ held = {} /\ free' = {} /\ held' = {} /\ ~exhausted
        BY <1>0, <2>1 DEF EnterKernel, At, HandedInv
      <4>2. pc' = "pmm_init" /\ exhausted' = exhausted
        BY <2>1 DEF EnterKernel, At
      <4>3. QED BY <1>0, <4>1, <4>2 DEF ManagerInv
    <3>3. QED BY <1>0, <3>1, <3>2 DEF MemoryInv
  <2>2. CASE At("pmm_init", "pmm_free") /\ Pmm!PMM_Init /\ UNCHANGED <<machine, loader, vmm, xhci>>
    <3>1. HandedInv'
      BY <1>0, <2>2 DEF At, Pmm!PMM_Init, loader, vmm, HandedInv
    <3>2. ManagerInv'
      <4>1. held = {} /\ free' = {} /\ held' = {} /\ ~exhausted /\ exhausted' = exhausted
        BY <1>0, <2>2 DEF At, Pmm!PMM_Init, vmm, HandedInv
      <4>2. pc' = "pmm_free"
        BY <2>2 DEF At
      <4>3. QED BY <1>0, <4>1, <4>2 DEF ManagerInv
    <3>3. QED BY <1>0, <3>1, <3>2 DEF MemoryInv
  <2>3. CASE At("pmm_free", "vmm_init") /\ Pmm!PMM_FreePages /\ UNCHANGED <<machine, loader, vmm, xhci>>
    <3>1. HandedInv'
      BY <1>0, <2>3 DEF At, Pmm!PMM_FreePages, loader, vmm, HandedInv
    <3>2. ManagerInv'
      BY <2>3, ManagerFrees DEF At, vmm
    <3>3. QED BY <1>0, <3>1, <3>2 DEF MemoryInv
  <2>4. CASE GivesPage
    <3>1. UNCHANGED max_pages
      BY <1>0, <2>4, Requested DEF GivesPage
    <3>2. HandedInv'
      BY <1>0, <2>4, <3>1 DEF GivesPage, HandedInv, loader
    <3>3. ManagerInv'
      BY <1>0, <2>4, ManagerGives DEF GivesPage
    <3>4. QED BY <1>0, <3>2, <3>3 DEF MemoryInv
  <2>5. CASE LeavesPages
    <3>1. HandedInv'
      BY <1>0, <2>5 DEF LeavesPages, HandedInv, loader, pmm
    <3>2. ManagerInv'
      BY <1>0, <2>5 DEF LeavesPages, ManagerInv, pmm, Pmm!Page, Pmm!Reserved
    <3>3. QED BY <1>0, <3>1, <3>2 DEF MemoryInv
  <2>6. QED BY <1>5, <2>1, <2>2, <2>3, <2>4, <2>5, KernelPages DEF SetUpMemory
<1>6. QED BY <1>1, <1>2, <1>3, <1>4, <1>5, KernelOrLoader

LEMMA MemoryHolds == Spec => []MemoryInv
BY InitMemory, MemoryStep, PTL DEF Spec

(***************************************************************************)
(* On every machine, if boot services ended as they should, the region the *)
(* loader hands over is memory nobody has (boot/main.c:98-114): however    *)
(* the firmware took memory before that, the key would have told.          *)
(***************************************************************************)
THEOREM RegionCorrect == Spec => []OnlyFreeMemory
<1>1. MemoryInv => OnlyFreeMemory
  <2>. SUFFICES ASSUME MemoryInv, pc # "loader", exited, NEW p \in Pmm!Page
                PROVE  base + p \in Free(memory)
    BY DEF OnlyFreeMemory
  <2>1. step = "entry" /\ base = region.base /\ max_pages = region.size
    BY DEF MemoryInv, HandedInv
  <2>2. map = memory /\ Pages(region) \subseteq Free(map)
    BY <2>1 DEF MemoryInv, LoaderInv, RegionInv
  <2>3. base + p \in Pages(region)
    BY <2>1 DEF Pages, Pmm!Page
  <2>4. QED BY <2>2, <2>3
<1>2. QED BY <1>1, MemoryHolds, PTL

-----------------------------------------------------------------------------
(* The controllers.                                                        *)

Waiting == {"mmio", "wait_halt", "wait_reset", "wait_ready"}
States == {"running", "halting", "halted", "resetting", "not_ready", "ready", "started"}

ControllerInv ==
  /\ ctrl \in {0} \union Controllers
  /\ pc \in Waiting \union Uses \union {"start"} => ctrl \in Controllers
  /\ hc \in [Controllers -> States]
  /\ DOMAIN pages = Controllers
  /\ pc \in Waiting => pages[ctrl] = << >>
  /\ pc \in Uses \union {"start"} => hc[ctrl] = "ready"
  /\ TablesWhenReady

(* The scan has come to an existing function; behind function 0 it only    *)
(* comes if the device has more of them, or if there is no function 0.     *)
ScanInv ==
  /\ at \in (Nat \ {0}) \X (Nat \ {0}) /\ at[1] <= Len(machine.pci) + 1
  /\ at[1] <= Len(machine.pci) => at[2] \in DOMAIN machine.pci[at[1]].functions
  /\ at[1] <= Len(machine.pci) /\ at[2] # 1 =>
       machine.pci[at[1]].multi \/ machine.pci[at[1]].functions[1].kind = "none"
  /\ pc = "main_loop" => at[1] > Len(machine.pci)

(* Function f of slot s answers for itself, and the scan is past it.       *)
Answers(s, f) == f = 1 \/ machine.pci[s].multi
Passed(s, f) == s < at[1] \/ (s = at[1] /\ f < at[2])
Functions(c) ==
  {sf \in (DOMAIN machine.pci) \X Nat :
     /\ sf[2] \in DOMAIN machine.pci[sf[1]].functions
     /\ machine.pci[sf[1]].functions[sf[2]].ctrl = c
     /\ Answers(sf[1], sf[2])}

(* A controller has been set up once if the scan is past its function.     *)
OnceInv ==
  /\ inits \in [Controllers -> Nat]
  /\ \A c \in Controllers :
       inits[c] = IF \E sf \in Functions(c) : Passed(sf[1], sf[2]) THEN 1 ELSE 0

LEMMA MachineControllers ==
  ASSUME NEW m \in Machines
  PROVE  /\ \E n \in Nat : DOMAIN m.controllers = 1 .. n
         /\ 0 \notin DOMAIN m.controllers
         /\ \A c \in DOMAIN m.controllers :
              /\ m.controllers[c].mmio \in Seq(Addresses \ DOMAIN m.memory)
              /\ m.controllers[c].scratchpads \in Nat
              /\ m.controllers[c].state \in {"running", "halted"}
<1> DEFINE C == [state : {"running", "halted"}, scratchpads : Nat,
                 mmio : Seq(Addresses \ DOMAIN m.memory)]
<1>1. m.controllers \in Seq(C)
  BY MemoryAssumption
<1> HIDE DEF C
<1>2. /\ Len(m.controllers) \in Nat /\ DOMAIN m.controllers = 1 .. Len(m.controllers)
      /\ \A c \in DOMAIN m.controllers : m.controllers[c] \in C
  BY <1>1
<1>3. \A c \in DOMAIN m.controllers :
        /\ m.controllers[c].mmio \in Seq(Addresses \ DOMAIN m.memory)
        /\ m.controllers[c].scratchpads \in Nat
        /\ m.controllers[c].state \in {"running", "halted"}
  BY <1>2 DEF C
<1>4. QED BY <1>2, <1>3

LEMMA MachinePci ==
  ASSUME NEW m \in Machines
  PROVE  /\ Len(m.pci) \in Nat /\ DOMAIN m.pci = 1 .. Len(m.pci)
         /\ \A s \in DOMAIN m.pci :
              /\ m.pci[s].multi \in BOOLEAN
              /\ Len(m.pci[s].functions) \in Nat \ {0}
              /\ DOMAIN m.pci[s].functions = 1 .. Len(m.pci[s].functions)
              /\ \A f \in DOMAIN m.pci[s].functions :
                   /\ m.pci[s].functions[f].ctrl \in {0} \union DOMAIN m.controllers
                   /\ m.pci[s].functions[f].kind = "xhci" <=> m.pci[s].functions[f].ctrl # 0
<1> DEFINE F == [kind : {"none", "other", "xhci"}, ctrl : {0} \union DOMAIN m.controllers]
           S == [multi : BOOLEAN, alias : BOOLEAN, functions : Seq(F)]
<1>1. m.pci \in Seq(S)
  BY PciAssumption
<1> HIDE DEF S
<1>2. /\ Len(m.pci) \in Nat /\ DOMAIN m.pci = 1 .. Len(m.pci)
      /\ \A s \in DOMAIN m.pci : m.pci[s] \in S
  BY <1>1
<1>3. ASSUME NEW s \in DOMAIN m.pci
      PROVE  /\ m.pci[s].multi \in BOOLEAN /\ m.pci[s].functions \in Seq(F)
             /\ m.pci[s].functions # << >>
             /\ \A f \in DOMAIN m.pci[s].functions :
                  m.pci[s].functions[f].kind = "xhci" <=> m.pci[s].functions[f].ctrl # 0
  <2>1. m.pci[s] \in S
    BY <1>2, <1>3
  <2>2. m.pci[s].multi \in BOOLEAN /\ m.pci[s].functions \in Seq(F)
    BY <2>1 DEF S
  <2>3. QED BY <1>3, <2>2, PciAssumption
<1> HIDE DEF F
<1>4. ASSUME NEW s \in DOMAIN m.pci
      PROVE  /\ Len(m.pci[s].functions) \in Nat \ {0}
             /\ DOMAIN m.pci[s].functions = 1 .. Len(m.pci[s].functions)
             /\ \A f \in DOMAIN m.pci[s].functions : m.pci[s].functions[f] \in F
  BY <1>3, <1>4
<1>5. ASSUME NEW s \in DOMAIN m.pci, NEW f \in DOMAIN m.pci[s].functions
      PROVE  m.pci[s].functions[f].ctrl \in {0} \union DOMAIN m.controllers
  <2>1. m.pci[s].functions[f] \in F
    BY <1>4, <1>5
  <2>2. QED BY <2>1 DEF F
<1>6. QED BY <1>2, <1>3, <1>4, <1>5

(* No two functions are the same controller.                               *)
LEMMA MachineUnique ==
  ASSUME NEW m \in Machines,
         NEW s \in DOMAIN m.pci, NEW f \in DOMAIN m.pci[s].functions,
         NEW t \in DOMAIN m.pci, NEW g \in DOMAIN m.pci[t].functions,
         m.pci[s].functions[f].ctrl = m.pci[t].functions[g].ctrl, m.pci[s].functions[f].ctrl # 0
  PROVE  s = t /\ f = g
BY PciAssumption

LEMMA InitControllers == Init => ControllerInv /\ ScanInv /\ OnceInv
<1>. SUFFICES ASSUME Init PROVE ControllerInv /\ ScanInv /\ OnceInv
  OBVIOUS
<1>0. machine \in Machines
  BY DEF Init
<1>1. ControllerInv
  <2>1. \A c \in Controllers : machine.controllers[c].state \in {"running", "halted"}
    BY <1>0, MachineControllers DEF Controllers
  <2>2. /\ ctrl = 0 /\ pc = "loader" /\ DOMAIN pages = Controllers
        /\ hc = [c \in Controllers |-> machine.controllers[c].state]
        /\ \A c \in Controllers : pages[c] = << >>
    BY DEF Init
  <2>3. hc \in [Controllers -> States]
    BY <2>1, <2>2 DEF States
  <2>4. QED BY <2>2, <2>3 DEF ControllerInv, TablesWhenReady, Waiting, Uses
<1>2. ScanInv
  <2>1. at = <<1, 1>> /\ pc = "loader"
    BY DEF Init
  <2>2. /\ Len(machine.pci) \in Nat
        /\ 1 <= Len(machine.pci) => 1 \in DOMAIN machine.pci[1].functions
    BY <1>0, MachinePci
  <2>3. QED BY <2>1, <2>2 DEF ScanInv
<1>3. OnceInv
  <2>1. at = <<1, 1>> /\ inits = [c \in Controllers |-> 0]
    BY DEF Init
  <2>2. ASSUME NEW c \in Controllers, NEW sf \in Functions(c) PROVE ~Passed(sf[1], sf[2])
    <3>1. sf[1] \in DOMAIN machine.pci /\ sf[2] \in DOMAIN machine.pci[sf[1]].functions
      BY <2>2 DEF Functions
    <3>2. sf[1] \in Nat \ {0} /\ sf[2] \in Nat \ {0}
      BY <1>0, <3>1, MachinePci
    <3>3. QED BY <2>1, <3>2 DEF Passed
  <2>3. QED BY <2>1, <2>2 DEF OnceInv
<1>4. QED BY <1>1, <1>2, <1>3

(* What the scan reads: a function that answers for itself. *)
LEMMA Found ==
  ASSUME machine \in Machines, ScanInv, at[1] <= Len(machine.pci)
  PROVE  /\ at[1] \in DOMAIN machine.pci /\ at[2] \in DOMAIN machine.pci[at[1]].functions
         /\ Answers(at[1], at[2]) => Function(at[1], at[2]) = machine.pci[at[1]].functions[at[2]]
         /\ Function(at[1], at[2]).kind = "xhci" =>
              /\ Answers(at[1], at[2])
              /\ Function(at[1], at[2]).ctrl \in Controllers
<1>0. /\ at[1] \in DOMAIN machine.pci /\ at[2] \in DOMAIN machine.pci[at[1]].functions
      /\ machine.pci[at[1]].multi \in BOOLEAN
  BY MachinePci DEF ScanInv
<1>1. Answers(at[1], at[2]) => Function(at[1], at[2]) = machine.pci[at[1]].functions[at[2]]
  BY DEF Answers, Function
<1>2. ASSUME ~Answers(at[1], at[2]) PROVE Function(at[1], at[2]).kind # "xhci"
  <2>1. at[2] # 1 /\ ~machine.pci[at[1]].multi
    BY <1>2 DEF Answers
  <2>2. machine.pci[at[1]].functions[1].kind = "none"
    BY <2>1 DEF ScanInv
  <2>3. Function(at[1], at[2]) \in {machine.pci[at[1]].functions[1], Nothing}
    BY <2>1 DEF Function
  <2>4. QED BY <2>2, <2>3 DEF Nothing
<1>3. machine.pci[at[1]].functions[at[2]].kind = "xhci" =>
        machine.pci[at[1]].functions[at[2]].ctrl \in Controllers
  BY <1>0, MachinePci DEF Controllers
<1>4. QED BY <1>0, <1>1, <1>2, <1>3

(* Actions that have nothing to do with the controllers. *)
Elsewhere ==
  /\ UNCHANGED <<machine, xhci>>
  /\ pc' = pc \/ pc' \notin Waiting \union Uses \union {"start", "main_loop"}
  /\ pc \in Uses => UNCHANGED <<pmm, vmm>>
  /\ ~exhausted' => ~exhausted

LEMMA KernelControllers ==
  ASSUME [Next]_vars
  PROVE  \/ Elsewhere
         \/ ReadFunction \/ ScanDone
         \/ StopController \/ ResetController \/ ControllerReset
         \/ AllocateTables \/ StartController
         \/ \E c \in Controllers : HcStep(c)
<1>. USE DEF Elsewhere, Waiting, Uses
<1>1. CASE LoaderStep /\ UNCHANGED <<pmm, vmm, pc, xhci>>
  BY <1>1 DEF LoaderStep, vmm
<1>2. CASE FirmwareTakes /\ UNCHANGED <<pmm, vmm, pc, xhci>>
  BY <1>2 DEF FirmwareTakes, vmm
<1>3. CASE EnterKernel \/ SetUpMemory
  BY <1>3 DEF EnterKernel, SetUpMemory, At, vmm
<1>4. CASE MapPage
  <2>1. ~exhausted' => ~exhausted
    BY <1>4 DEF MapPage, VMM_MapPage, AddTable, SetEntry, AllocatePage
  <2>2. QED BY <1>4, <2>1 DEF MapPage
<1>5. CASE SetUpTables
  BY <1>5 DEF SetUpTables, At, VMM_Init, AllocatePage
<1>6. CASE Activate \/ GoAstray
  BY <1>6 DEF Activate, VMM_Activate, GoAstray, vmm
<1>7. CASE AllocateHeap
  BY <1>7 DEF AllocateHeap, AllocatePage
<1>8. CASE HeapMapped
  BY <1>8 DEF HeapMapped, At, vmm
<1>9. CASE UNCHANGED vars
  BY <1>9 DEF vars, vmm
<1>10. QED BY <1>1, <1>2, <1>3, <1>4, <1>5, <1>6, <1>7, <1>8, <1>9 DEF Next, Program, Kernel

LEMMA ControllerStep ==
  ASSUME machine \in Machines, ControllerInv, ScanInv, [Next]_vars
  PROVE  ControllerInv'
<1>0. machine' = machine /\ Controllers' = Controllers /\ 0 \notin Controllers
  <2>1. machine' = machine
    BY KernelControllers DEF Elsewhere, ReadFunction, ScanDone, StopController, ResetController,
         ControllerReset, AllocateTables, StartController, HcStep
  <2>2. QED BY <2>1, MachineControllers DEF Controllers
<1>. USE DEF Waiting, Uses
<1>1. CASE Elsewhere
  BY <1>0, <1>1 DEF Elsewhere, ControllerInv, TablesWhenReady, xhci
<1>2. CASE ReadFunction
  <2>0. at[1] <= Len(machine.pci) /\ pc = "pci" /\ hc' = hc
    BY <1>2 DEF ReadFunction
  <2>1. CASE Function(at[1], at[2]).kind = "xhci"
    <3>1. /\ pc' = "mmio" /\ ctrl' = Function(at[1], at[2]).ctrl
          /\ pages' = [pages EXCEPT ![Function(at[1], at[2]).ctrl] = << >>]
      BY <1>2, <2>1 DEF ReadFunction
    <3>2. ctrl' \in Controllers
      BY <2>0, <2>1, <3>1, Found
    <3>3. DOMAIN pages' = Controllers /\ pages'[ctrl'] = << >>
          /\ \A c \in Controllers : pages'[c] # << >> => pages[c] # << >>
      BY <3>1, <3>2 DEF ControllerInv
    <3>4. QED BY <1>0, <2>0, <3>1, <3>2, <3>3 DEF ControllerInv, TablesWhenReady
  <2>2. CASE Function(at[1], at[2]).kind # "xhci"
    BY <1>0, <1>2, <2>0, <2>2 DEF ReadFunction, ControllerInv, TablesWhenReady
  <2>3. QED BY <2>1, <2>2
<1>3. CASE ScanDone
  BY <1>0, <1>3 DEF ScanDone, ControllerInv, TablesWhenReady, xhci
<1>4. CASE StopController
  <2>1. /\ pc = "mmio" /\ pc' = "wait_halt" /\ UNCHANGED <<ctrl, pages>>
        /\ hc' = [hc EXCEPT ![ctrl] = IF @ = "halted" THEN @ ELSE "halting"]
    BY <1>4 DEF StopController, At
  <2>2. hc' \in [Controllers -> States] /\ \A c \in Controllers : c # ctrl => hc'[c] = hc[c]
    BY <2>1 DEF ControllerInv, States
  <2>3. QED BY <1>0, <2>1, <2>2 DEF ControllerInv, TablesWhenReady
<1>5. CASE ResetController
  <2>1. /\ pc = "wait_halt" /\ pc' = "wait_reset" /\ UNCHANGED <<ctrl, pages>>
        /\ hc' = [hc EXCEPT ![ctrl] = "resetting"]
    BY <1>5 DEF ResetController, At, Hc
  <2>2. hc' \in [Controllers -> States] /\ \A c \in Controllers : c # ctrl => hc'[c] = hc[c]
    BY <2>1 DEF ControllerInv, States
  <2>3. QED BY <1>0, <2>1, <2>2 DEF ControllerInv, TablesWhenReady
<1>6. CASE ControllerReset
  BY <1>0, <1>6 DEF ControllerReset, At, ControllerInv, TablesWhenReady, xhci
<1>7. CASE AllocateTables
  <2>1. /\ pc \in Uses /\ pc' \in Uses \union {"start"} /\ UNCHANGED <<ctrl, hc>>
        /\ DOMAIN pages' = DOMAIN pages /\ \A c \in Controllers : c # ctrl => pages'[c] = pages[c]
    BY <1>7, NextUses DEF AllocateTables, ControllerInv
  <2>2. QED BY <1>0, <2>1 DEF ControllerInv, TablesWhenReady
<1>8. CASE StartController
  <2>1. /\ pc = "start" /\ pc' = "pci" /\ UNCHANGED <<ctrl, pages>>
        /\ hc' = [hc EXCEPT ![ctrl] = "started"]
    BY <1>8 DEF StartController, At
  <2>2. hc' \in [Controllers -> States] /\ \A c \in Controllers : c # ctrl => hc'[c] = hc[c]
    BY <2>1 DEF ControllerInv, States
  <2>3. hc'[ctrl] = "started"
    BY <2>1 DEF ControllerInv
  <2>4. QED BY <1>0, <2>1, <2>2, <2>3 DEF ControllerInv, TablesWhenReady
<1>9. ASSUME NEW c \in Controllers, HcStep(c) PROVE ControllerInv'
  <2>1. PICK s \in States : hc' = [hc EXCEPT ![c] = s]
    BY <1>9 DEF HcStep, States
  <2>2. hc[c] \notin {"ready", "started"} /\ UNCHANGED <<pc, ctrl, pages>>
    BY <1>9 DEF HcStep
  <2>3. hc' \in [Controllers -> States] /\ \A d \in Controllers : d # c => hc'[d] = hc[d]
    BY <2>1 DEF ControllerInv
  <2>4. QED BY <1>0, <2>2, <2>3 DEF ControllerInv, TablesWhenReady
<1>10. QED
  BY <1>1, <1>2, <1>3, <1>4, <1>5, <1>6, <1>7, <1>8, <1>9, KernelControllers

(* The scan goes on to the next function, or to the next slot, and passes  *)
(* no other function that answers for itself.                              *)
LEMMA ScanMoves ==
  ASSUME machine \in Machines, ScanInv, at[1] <= Len(machine.pci),
         machine' = machine, at' = Following(at[1], at[2]), pc' # "main_loop"
  PROVE  /\ ScanInv'
         /\ \A s \in DOMAIN machine.pci : \A f \in DOMAIN machine.pci[s].functions :
              Answers(s, f) =>
                (Passed(s, f)' <=> Passed(s, f) \/ (s = at[1] /\ f = at[2]))
<1>0. PICK s0 \in Nat \ {0}, f0 \in Nat \ {0} :
        /\ at = <<s0, f0>> /\ s0 \in DOMAIN machine.pci /\ f0 \in DOMAIN machine.pci[s0].functions
        /\ at[1] = s0 /\ at[2] = f0
  BY Found DEF ScanInv
<1>1. /\ Len(machine.pci) \in Nat /\ DOMAIN machine.pci = 1 .. Len(machine.pci)
      /\ \A s \in DOMAIN machine.pci :
           /\ Len(machine.pci[s].functions) \in Nat \ {0}
           /\ DOMAIN machine.pci[s].functions = 1 .. Len(machine.pci[s].functions)
           /\ machine.pci[s].multi \in BOOLEAN
  BY MachinePci
<1>2. CASE f0 = Len(machine.pci[s0].functions) \/
           (f0 = 1 /\ Function(s0, f0).kind # "none" /\ ~machine.pci[s0].multi)
  <2>1. at' = <<s0 + 1, 1>> /\ at'[1] = s0 + 1 /\ at'[2] = 1
    BY <1>0, <1>2 DEF Following
  <2>2. s0 + 1 <= Len(machine.pci) + 1 /\ s0 + 1 \in Nat \ {0}
    BY <1>0, <1>1
  <2>3. s0 + 1 <= Len(machine.pci) => 1 \in DOMAIN machine.pci[s0 + 1].functions
    BY <1>0, <1>1
  <2>4. ScanInv'
    BY <2>1, <2>2, <2>3 DEF ScanInv
  <2>5. ASSUME NEW s \in DOMAIN machine.pci, NEW f \in DOMAIN machine.pci[s].functions,
               Answers(s, f)
        PROVE  Passed(s, f)' <=> Passed(s, f) \/ (s = at[1] /\ f = at[2])
    <3>1. s \in Nat /\ f \in Nat /\ f >= 1 /\ f <= Len(machine.pci[s].functions)
      BY <1>1
    <3>2. Passed(s, f)' <=> s <= s0
      BY <1>0, <2>1, <3>1 DEF Passed
    <3>3. s = s0 => f <= f0
      BY <1>0, <1>1, <1>2, <2>5, <3>1 DEF Answers
    <3>4. Passed(s, f) <=> s < s0 \/ (s = s0 /\ f < f0)
      BY <1>0 DEF Passed
    <3>5. QED BY <1>0, <3>1, <3>2, <3>3, <3>4
  <2>6. QED BY <2>4, <2>5
<1>3. CASE ~(f0 = Len(machine.pci[s0].functions) \/
             (f0 = 1 /\ Function(s0, f0).kind # "none" /\ ~machine.pci[s0].multi))
  <2>1. at' = <<s0, f0 + 1>> /\ at'[1] = s0 /\ at'[2] = f0 + 1
    BY <1>0, <1>3 DEF Following
  <2>2. f0 + 1 \in DOMAIN machine.pci[s0].functions /\ f0 + 1 \in Nat \ {0}
    BY <1>0, <1>1, <1>3
  <2>3. machine.pci[s0].multi \/ machine.pci[s0].functions[1].kind = "none"
    <3>1. CASE f0 = 1
      BY <1>1, <1>0, <1>3, <3>1 DEF Function
    <3>2. CASE f0 # 1
      BY <1>0, <3>2 DEF ScanInv
    <3>3. QED BY <3>1, <3>2
  <2>4. ScanInv'
    BY <1>0, <1>1, <2>1, <2>2, <2>3 DEF ScanInv
  <2>5. ASSUME NEW s \in DOMAIN machine.pci, NEW f \in DOMAIN machine.pci[s].functions
        PROVE  Passed(s, f)' <=> Passed(s, f) \/ (s = at[1] /\ f = at[2])
    <3>1. s \in Nat /\ f \in Nat
      BY <1>1
    <3>2. Passed(s, f)' <=> s < s0 \/ (s = s0 /\ f < f0 + 1)
      BY <2>1 DEF Passed
    <3>3. Passed(s, f) <=> s < s0 \/ (s = s0 /\ f < f0)
      BY <1>0 DEF Passed
    <3>4. QED BY <1>0, <3>1, <3>2, <3>3
  <2>6. QED BY <2>4, <2>5
<1>4. QED BY <1>2, <1>3

LEMMA ScanStep ==
  ASSUME machine \in Machines, ControllerInv, ScanInv, [Next]_vars
  PROVE  ScanInv'
<1>0. machine' = machine
  BY KernelControllers DEF Elsewhere, ReadFunction, ScanDone, StopController, ResetController,
       ControllerReset, AllocateTables, StartController, HcStep
<1>1. CASE UNCHANGED at /\ (pc' = pc \/ pc' # "main_loop")
  BY <1>0, <1>1 DEF ScanInv
<1>2. CASE Elsewhere
  BY <1>1, <1>2 DEF Elsewhere, xhci
<1>3. CASE ReadFunction
  <2>1. at[1] <= Len(machine.pci) /\ at' = Following(at[1], at[2]) /\ pc' \in {"pci", "mmio"}
    BY <1>3 DEF ReadFunction
  <2>2. QED BY <1>0, <2>1, ScanMoves
<1>4. CASE ScanDone
  BY <1>0, <1>4 DEF ScanDone, xhci, ScanInv
<1>5. CASE StopController \/ ResetController \/ ControllerReset \/ StartController
  BY <1>1, <1>5 DEF StopController, ResetController, ControllerReset, StartController, At, xhci
<1>6. CASE AllocateTables
  <2>1. pc' # "main_loop"
    BY <1>6, NextUses DEF AllocateTables, Uses
  <2>2. QED BY <1>1, <1>6, <2>1 DEF AllocateTables
<1>7. CASE \E c \in Controllers : HcStep(c)
  BY <1>1, <1>7 DEF HcStep
<1>8. QED BY <1>2, <1>3, <1>4, <1>5, <1>6, <1>7, KernelControllers

LEMMA OnceStep ==
  ASSUME machine \in Machines, ControllerInv, ScanInv, OnceInv, [Next]_vars
  PROVE  OnceInv'
<1>0. machine' = machine /\ Controllers' = Controllers /\ 0 \notin Controllers
  <2>1. machine' = machine
    BY KernelControllers DEF Elsewhere, ReadFunction, ScanDone, StopController, ResetController,
         ControllerReset, AllocateTables, StartController, HcStep
  <2>2. QED BY <2>1, MachineControllers DEF Controllers
<1>1. ASSUME NEW c \in Controllers PROVE Functions(c)' = Functions(c)
  BY <1>0 DEF Functions, Answers
<1>2. CASE UNCHANGED <<at, inits>>
  <2>1. ASSUME NEW s, NEW f PROVE Passed(s, f)' <=> Passed(s, f)
    BY <1>2 DEF Passed
  <2>2. ASSUME NEW c \in Controllers
        PROVE  inits'[c] = IF \E sf \in Functions(c)' : Passed(sf[1], sf[2])' THEN 1 ELSE 0
    BY <1>1, <1>2, <2>1 DEF OnceInv
  <2>3. QED BY <1>0, <1>2, <2>2 DEF OnceInv
<1>3. CASE ReadFunction
  <2>0. at[1] <= Len(machine.pci) /\ at' = Following(at[1], at[2]) /\ pc' # "main_loop"
    BY <1>3 DEF ReadFunction
  <2> DEFINE found == Function(at[1], at[2])
  <2>1. /\ at[1] \in DOMAIN machine.pci /\ at[2] \in DOMAIN machine.pci[at[1]].functions
        /\ Answers(at[1], at[2]) => found = machine.pci[at[1]].functions[at[2]]
        /\ found.kind = "xhci" => Answers(at[1], at[2]) /\ found.ctrl \in Controllers
    BY <2>0, Found
  <2>2. ASSUME NEW s \in DOMAIN machine.pci, NEW f \in DOMAIN machine.pci[s].functions,
               Answers(s, f)
        PROVE  Passed(s, f)' <=> Passed(s, f) \/ (s = at[1] /\ f = at[2])
    BY <1>0, <2>0, <2>2, ScanMoves
  <2>3. ASSUME NEW c \in Controllers, NEW sf \in Functions(c)
        PROVE  /\ sf[1] \in DOMAIN machine.pci /\ sf[2] \in DOMAIN machine.pci[sf[1]].functions
               /\ machine.pci[sf[1]].functions[sf[2]].ctrl = c /\ c # 0
               /\ Answers(sf[1], sf[2])
               /\ Passed(sf[1], sf[2])' <=> Passed(sf[1], sf[2]) \/ (sf[1] = at[1] /\ sf[2] = at[2])
    BY <1>0, <2>2, <2>3 DEF Functions
  <2>4. at[1] \in Nat /\ at[2] \in Nat /\ ~Passed(at[1], at[2])
    BY DEF ScanInv, Passed
  <2>5. CASE found.kind = "xhci"
    <3>1. PICK d \in Controllers :
            found.ctrl = d /\ inits' = [inits EXCEPT ![d] = @ + 1]
            /\ machine.pci[at[1]].functions[at[2]].ctrl = d
      BY <1>3, <2>1, <2>5 DEF ReadFunction
    <3>2. <<at[1], at[2]>> \in Functions(d)
      BY <2>1, <2>4, <2>5, <3>1 DEF Functions
    <3>3. \A sf \in Functions(d) : sf[1] = at[1] /\ sf[2] = at[2]
      <4>1. ASSUME NEW sf \in Functions(d) PROVE sf[1] = at[1] /\ sf[2] = at[2]
        BY <2>1, <2>3, <3>1, MachineUnique
      <4>2. QED BY <4>1
    <3>4. inits[d] = 0
      <4>1. \A sf \in Functions(d) : ~Passed(sf[1], sf[2])
        BY <2>4, <3>3
      <4>2. QED BY <4>1 DEF OnceInv
    <3>5. inits' \in [Controllers -> Nat] /\ inits'[d] = 1
          /\ \A c \in Controllers : c # d => inits'[c] = inits[c]
      BY <3>1, <3>4 DEF OnceInv
    <3>6. \E sf \in Functions(d) : Passed(sf[1], sf[2])'
      <4>2. PICK sf \in Functions(d) : sf = <<at[1], at[2]>>
        BY <3>2
      <4>3. Passed(sf[1], sf[2])'
        BY <2>3, <4>2
      <4>4. QED BY <4>3
    <3>7. ASSUME NEW c \in Controllers, c # d
          PROVE  (\E sf \in Functions(c) : Passed(sf[1], sf[2])')
                   <=> (\E sf \in Functions(c) : Passed(sf[1], sf[2]))
      <4>1. ASSUME NEW sf \in Functions(c) PROVE Passed(sf[1], sf[2])' <=> Passed(sf[1], sf[2])
        BY <2>3, <3>1, <3>7
      <4>2. QED BY <4>1
    <3>8. ASSUME NEW c \in Controllers
          PROVE  inits'[c] = IF \E sf \in Functions(c)' : Passed(sf[1], sf[2])' THEN 1 ELSE 0
      <4>1. CASE c = d
        BY <1>1, <3>5, <3>6, <4>1
      <4>2. CASE c # d
        BY <1>1, <3>5, <3>7, <4>2 DEF OnceInv
      <4>3. QED BY <4>1, <4>2
    <3>9. QED BY <1>0, <3>5, <3>8 DEF OnceInv
  <2>6. CASE found.kind # "xhci"
    <3>1. inits' = inits
      BY <1>3, <2>6 DEF ReadFunction
    <3>2. ASSUME NEW c \in Controllers, NEW sf \in Functions(c)
          PROVE  Passed(sf[1], sf[2])' <=> Passed(sf[1], sf[2])
      <4>1. ASSUME sf[1] = at[1], sf[2] = at[2] PROVE FALSE
        <5>1. machine.pci[at[1]].functions[at[2]].kind = "xhci"
          BY <2>1, <2>3, <3>2, <4>1, MachinePci
        <5>2. QED BY <2>1, <2>3, <2>6, <3>2, <4>1, <5>1
      <4>2. QED BY <2>3, <3>2, <4>1
    <3>3. ASSUME NEW c \in Controllers
          PROVE  inits'[c] = IF \E sf \in Functions(c)' : Passed(sf[1], sf[2])' THEN 1 ELSE 0
      BY <1>1, <3>1, <3>2 DEF OnceInv
    <3>4. QED BY <1>0, <3>1, <3>3 DEF OnceInv
  <2>7. QED BY <2>5, <2>6
<1>4. QED
  BY <1>2, <1>3, KernelControllers
  DEF Elsewhere, ScanDone, StopController, ResetController, ControllerReset, AllocateTables,
      StartController, HcStep, xhci

BootInv == MemoryInv /\ ControllerInv /\ ScanInv /\ OnceInv

LEMMA BootHolds == Spec => []BootInv
<1>1. Init => BootInv
  BY InitMemory, InitControllers DEF BootInv
<1>2. MemoryInv => machine \in Machines
  BY DEF MemoryInv, LoaderInv, LoaderType
<1>3. BootInv /\ [Next]_vars => BootInv'
  BY <1>2, MemoryStep, ControllerStep, ScanStep, OnceStep DEF BootInv
<1>4. QED BY <1>1, <1>3, PTL DEF Spec

(***************************************************************************)
(* On every machine, whatever is in its slots: the scan sets up no xHCI    *)
(* controller twice and, when it is done, has set up every one that a      *)
(* function of its own answers for (pci.c:121-124).                        *)
(***************************************************************************)
THEOREM ScanCorrect == Spec => []OncePerController
<1>1. BootInv => OncePerController
  <2>. SUFFICES ASSUME BootInv, NEW c \in Controllers
                PROVE  /\ inits[c] <= 1
                       /\ pc = "main_loop" =>
                            inits[c] = Cardinality({s \in DOMAIN machine.pci :
                                         \E f \in DOMAIN machine.pci[s].functions :
                                           /\ machine.pci[s].functions[f].ctrl = c
                                           /\ f = 1 \/ machine.pci[s].multi})
    BY DEF OncePerController
  <2>0. machine \in Machines /\ ScanInv /\ OnceInv
    BY DEF BootInv, MemoryInv, LoaderInv, LoaderType
  <2>1. inits[c] = IF \E sf \in Functions(c) : Passed(sf[1], sf[2]) THEN 1 ELSE 0
    BY <2>0 DEF OnceInv
  <2> DEFINE T == {s \in DOMAIN machine.pci :
                     \E f \in DOMAIN machine.pci[s].functions :
                       /\ machine.pci[s].functions[f].ctrl = c
                       /\ f = 1 \/ machine.pci[s].multi}
  <2>2. ASSUME pc = "main_loop" PROVE inits[c] = Cardinality(T)
    <3>1. \A s \in DOMAIN machine.pci : s < at[1]
      BY <2>0, <2>2, MachinePci DEF ScanInv
    <3>2. CASE T = {}
      <4>1. Functions(c) = {}
        BY <3>2 DEF Functions, Answers
      <4>2. QED BY <2>1, <3>2, <4>1, FS_EmptySet
    <3>3. CASE T # {}
      <4>1. PICK s \in T : TRUE
        BY <3>3
      <4>2. PICK f \in DOMAIN machine.pci[s].functions :
               machine.pci[s].functions[f].ctrl = c /\ Answers(s, f)
        BY <4>1 DEF Answers
      <4>3. s \in DOMAIN machine.pci /\ f \in Nat /\ c # 0
        <5>1. s \in DOMAIN machine.pci
          BY <4>1
        <5>2. DOMAIN machine.pci[s].functions = 1 .. Len(machine.pci[s].functions)
          BY <2>0, <5>1, MachinePci
        <5>3. c # 0
          BY <2>0, MachineControllers DEF Controllers
        <5>4. QED BY <5>1, <5>2, <5>3
      <4>4. <<s, f>> \in Functions(c)
        BY <4>2, <4>3 DEF Functions
      <4>5. inits[c] = 1
        <5>1. PICK sf \in Functions(c) : sf = <<s, f>>
          BY <4>4
        <5>2. Passed(sf[1], sf[2])
          BY <3>1, <4>3, <5>1 DEF Passed
        <5>3. QED BY <2>1, <5>2
      <4>6. T = {s}
        <5>1. ASSUME NEW t \in T PROVE t = s
          <6>1. PICK g \in DOMAIN machine.pci[t].functions : machine.pci[t].functions[g].ctrl = c
            OBVIOUS
          <6>2. QED BY <2>0, <4>2, <4>3, <6>1, MachineUnique
        <5>2. QED BY <4>1, <5>1
      <4>7. QED BY <4>5, <4>6, FS_Singleton
    <3>4. QED BY <3>2, <3>3
  <2>3. QED BY <2>1, <2>2
<1>2. QED BY <1>1, BootHolds, PTL

-----------------------------------------------------------------------------
(* Addresses.                                                              *)

LEMMA Halves ==
  ASSUME NEW n \in Nat, NEW d \in Nat \ {0}
  PROVE  /\ n \div d \in Nat /\ n % d \in 0 .. (d - 1)
         /\ n = d * (n \div d) + (n % d)
OBVIOUS

LEMMA Multiples ==
  ASSUME NEW a \in Nat, NEW b \in Nat, NEW d \in Nat, b <= a
  PROVE  d * b <= d * a
OBVIOUS

LEMMA Remains ==
  ASSUME NEW x \in Nat, NEW y \in Nat, NEW z \in Nat, NEW d \in Nat,
         NEW r \in 0 .. (d - 1), x = y + r, z <= y
  PROVE  z <= x
OBVIOUS

(* The quotients of an address: the last is below the size of a table.     *)
LEMMA Quotients ==
  ASSUME NEW v \in Addresses, NEW E, E = Entries, NEW q1, q1 = v \div E,
         NEW q2, q2 = q1 \div E, NEW q3, q3 = q2 \div E
  PROVE  /\ v \in Nat /\ q1 \in Nat /\ q2 \in Nat /\ q3 \in 0 .. (E - 1)
         /\ E \in Nat \ {0} /\ q3 % E = q3
         /\ v = E * q1 + (v % E) /\ q1 = E * q2 + (q1 % E) /\ q2 = E * q3 + (q2 % E)
         /\ v % E \in 0 .. (E - 1) /\ q1 % E \in 0 .. (E - 1) /\ q2 % E \in 0 .. (E - 1)
<1>1. E \in Nat \ {0}
  BY EntriesAssumption
<1>2. v \in Nat /\ v < E * E * E * E
  <2>1. E * E * E * E \in Nat
    BY <1>1
  <2>2. QED BY <1>1, <2>1 DEF Addresses
<1>3. q1 \in Nat /\ v = E * q1 + (v % E) /\ v % E \in 0 .. (E - 1)
  BY <1>1, <1>2, Halves
<1>4. q2 \in Nat /\ q1 = E * q2 + (q1 % E) /\ q1 % E \in 0 .. (E - 1)
  BY <1>1, <1>3, Halves
<1>5. q3 \in Nat /\ q2 = E * q3 + (q2 % E) /\ q2 % E \in 0 .. (E - 1)
  BY <1>1, <1>4, Halves
<1>6. ASSUME q3 >= E PROVE FALSE
  <2>1. PICK e2 \in Nat, e3 \in Nat, e4 \in Nat, b1 \in Nat, b2 \in Nat, b3 \in Nat :
          /\ e2 = E * E /\ e3 = E * e2 /\ e4 = E * e3
          /\ b1 = E * q1 /\ b2 = E * q2 /\ b3 = E * q3
    <3>1. PICK b1 \in Nat, b2 \in Nat, b3 \in Nat : b1 = E * q1 /\ b2 = E * q2 /\ b3 = E * q3
      BY <1>1, <1>3, <1>4, <1>5
    <3>2. PICK e2 \in Nat : e2 = E * E
      BY <1>1
    <3>3. PICK e3 \in Nat : e3 = E * e2
      BY <1>1
    <3>4. PICK e4 \in Nat : e4 = E * e3
      BY <1>1
    <3>5. QED BY <3>1, <3>2, <3>3, <3>4, Zenon
  <2>2. e2 <= b3 /\ (e2 <= q2 => e3 <= b2) /\ (e3 <= q1 => e4 <= b1)
    BY <1>1, <1>3, <1>4, <1>5, <1>6, <2>1, Multiples
  <2>3. e4 = E * E * E * E
    BY <1>1, <2>1
  <2>4. e2 <= q2
    BY <1>1, <1>4, <1>5, <2>1, <2>2, Remains
  <2>5. e3 <= q1
    BY <1>1, <1>3, <1>4, <2>1, <2>2, <2>4, Remains
  <2>6. e4 <= v
    BY <1>1, <1>2, <1>3, <2>1, <2>2, <2>5, Remains
  <2>7. QED BY <1>2, <2>1, <2>3, <2>6
<1>7. q3 \in 0 .. (E - 1)
  BY <1>1, <1>5, <1>6
<1>8. q3 % E = q3
  BY <1>1, <1>7
<1>9. QED BY <1>1, <1>2, <1>3, <1>4, <1>5, <1>7, <1>8

LEMMA IndicesFit ==
  ASSUME NEW v \in Addresses, NEW k \in 1 .. 4
  PROVE  Indices(v)[k] \in 0 .. (Entries - 1)
<1> DEFINE q1 == v \div Entries
           q2 == q1 \div Entries
           q3 == q2 \div Entries
<1>1. Indices(v) = <<q3 % Entries, q2 % Entries, q1 % Entries, v % Entries>>
  BY DEF Indices
<1>2. /\ q3 % Entries \in 0 .. (Entries - 1) /\ q2 % Entries \in 0 .. (Entries - 1)
      /\ q1 % Entries \in 0 .. (Entries - 1) /\ v % Entries \in 0 .. (Entries - 1)
  BY Quotients
<1> HIDE DEF q1, q2, q3
<1>3. k = 1 \/ k = 2 \/ k = 3 \/ k = 4
  OBVIOUS
<1>4. QED BY <1>1, <1>2, <1>3

(* The four indices tell the addresses apart.                              *)
LEMMA IndicesDiffer ==
  ASSUME NEW v \in Addresses, NEW w \in Addresses,
         \A k \in 1 .. 4 : Indices(v)[k] = Indices(w)[k]
  PROVE  v = w
<1> DEFINE v1 == v \div Entries
           v2 == v1 \div Entries
           v3 == v2 \div Entries
           w1 == w \div Entries
           w2 == w1 \div Entries
           w3 == w2 \div Entries
<1>1. /\ v3 % Entries = w3 % Entries /\ v2 % Entries = w2 % Entries
      /\ v1 % Entries = w1 % Entries /\ v % Entries = w % Entries
  <2>1. /\ Indices(v) = <<v3 % Entries, v2 % Entries, v1 % Entries, v % Entries>>
        /\ Indices(w) = <<w3 % Entries, w2 % Entries, w1 % Entries, w % Entries>>
    BY DEF Indices
  <2> HIDE DEF v1, v2, v3, w1, w2, w3
  <2>2. QED BY <2>1
<1>2. /\ v3 % Entries = v3 /\ v2 = Entries * v3 + (v2 % Entries)
      /\ v1 = Entries * v2 + (v1 % Entries) /\ v = Entries * v1 + (v % Entries)
  BY Quotients
<1>3. /\ w3 % Entries = w3 /\ w2 = Entries * w3 + (w2 % Entries)
      /\ w1 = Entries * w2 + (w1 % Entries) /\ w = Entries * w1 + (w % Entries)
  BY Quotients
<1> HIDE DEF v1, v2, v3, w1, w2, w3
<1>4. v3 = w3
  BY <1>1, <1>2, <1>3
<1>5. v2 = w2
  BY <1>1, <1>2, <1>3, <1>4
<1>6. v1 = w1
  BY <1>1, <1>2, <1>3, <1>5
<1>7. QED BY <1>1, <1>2, <1>3, <1>6

-----------------------------------------------------------------------------
(* Walks.  T is what the tables contain, r the top table, m what has been  *)
(* mapped and W the walks of all addresses.                                *)

Walks == [v \in Addresses |-> Walk(v)]

IsWalk(T, r, W) ==
  \A v \in Addresses :
    /\ W[v][1] = r
    /\ \A k \in 1 .. 4 :
         W[v][k + 1] = IF W[v][k] \in DOMAIN T THEN T[W[v][k]][Indices(v)[k]] ELSE NULL

(* The first k - 1 indices are the same.                                   *)
Shares(v, w, k) == \A j \in 1 .. (k - 1) : Indices(v)[j] = Indices(w)[j]

(* A table is on the way only to addresses that begin alike, and on one    *)
(* level; all walks end where they should.                                 *)
Exact(T, r, m, W) ==
  /\ r \in DOMAIN T
  /\ \A v \in Addresses, k \in 1 .. 4 : W[v][k] \in DOMAIN T \union {NULL}
  /\ \A v, w \in Addresses, j, k \in 1 .. 4 :
       W[v][j] = W[w][k] /\ W[v][j] # NULL => j = k /\ Shares(v, w, k)
  /\ \A v \in Addresses : W[v][5] = IF v \in m THEN v ELSE NULL

(* The walks to the frames of F go on ending there, through tables of      *)
(* their own other than frame 0.                                           *)
Holds(T, F, W) ==
  \A f \in F :
    /\ W[f][5] = f
    /\ \A k \in 1 .. 4 :
         /\ W[f][k] \in DOMAIN T \ {0}
         /\ \A v \in Addresses, j \in 1 .. 4 :
              W[v][j] = W[f][k] => j = k /\ Shares(v, f, k)

(* Frame 0, if it is a table, leads to no other table.                     *)
ZeroLeadsNowhere(T) ==
  0 \in DOMAIN T =>
    \A i \in 0 .. (Entries - 1) : T[0][i] = 0 \/ T[0][i] \notin DOMAIN T

LEMMA WalksWalk == IsWalk(tables, kernel_pml4, Walks)
<1>1. ASSUME NEW v \in Addresses
      PROVE  /\ Walks[v][1] = kernel_pml4
             /\ \A k \in 1 .. 4 :
                  Walks[v][k + 1] = IF Walks[v][k] \in DOMAIN tables
                                    THEN tables[Walks[v][k]][Indices(v)[k]] ELSE NULL
  <2> DEFINE a == Entry(kernel_pml4, Indices(v)[1])
             b == Entry(a, Indices(v)[2])
             c == Entry(b, Indices(v)[3])
  <2>1. Walks[v] = <<kernel_pml4, a, b, c, Entry(c, Indices(v)[4])>>
    BY DEF Walks, Walk
  <2>2. \A t, i : Entry(t, i) = IF t \in DOMAIN tables THEN tables[t][i] ELSE NULL
    BY DEF Entry
  <2>3. /\ a = IF kernel_pml4 \in DOMAIN tables THEN tables[kernel_pml4][Indices(v)[1]] ELSE NULL
        /\ b = IF a \in DOMAIN tables THEN tables[a][Indices(v)[2]] ELSE NULL
        /\ c = IF b \in DOMAIN tables THEN tables[b][Indices(v)[3]] ELSE NULL
    BY <2>2
  <2> HIDE DEF a, b, c
  <2>4. /\ Walks[v][1] = kernel_pml4 /\ Walks[v][2] = a /\ Walks[v][3] = b /\ Walks[v][4] = c
        /\ Walks[v][5] = IF c \in DOMAIN tables THEN tables[c][Indices(v)[4]] ELSE NULL
    BY <2>1, <2>2
  <2>5. \A k \in 1 .. 4 : k = 1 \/ k = 2 \/ k = 3 \/ k = 4
    OBVIOUS
  <2>6. QED BY <2>3, <2>4, <2>5
<1>2. QED BY <1>1 DEF IsWalk

LEMMA WalksWalkOn == IsWalk(tables', kernel_pml4', Walks')
<1>1. ASSUME NEW v \in Addresses
      PROVE  /\ Walks'[v][1] = kernel_pml4'
             /\ \A k \in 1 .. 4 :
                  Walks'[v][k + 1] = IF Walks'[v][k] \in DOMAIN tables'
                                     THEN tables'[Walks'[v][k]][Indices(v)[k]] ELSE NULL
  <2> DEFINE E(t, i) == IF t \in DOMAIN tables' THEN tables'[t][i] ELSE NULL
             a == E(kernel_pml4', Indices(v)[1])
             b == E(a, Indices(v)[2])
             c == E(b, Indices(v)[3])
  <2>1. Walks'[v] = <<kernel_pml4', a, b, c, E(c, Indices(v)[4])>>
    BY DEF Walks, Walk, Entry
  <2>2. \A t, i : E(t, i) = IF t \in DOMAIN tables' THEN tables'[t][i] ELSE NULL
    OBVIOUS
  <2>3. /\ a = IF kernel_pml4' \in DOMAIN tables' THEN tables'[kernel_pml4'][Indices(v)[1]] ELSE NULL
        /\ b = IF a \in DOMAIN tables' THEN tables'[a][Indices(v)[2]] ELSE NULL
        /\ c = IF b \in DOMAIN tables' THEN tables'[b][Indices(v)[3]] ELSE NULL
    BY <2>2
  <2> HIDE DEF a, b, c, E
  <2>4. /\ Walks'[v][1] = kernel_pml4' /\ Walks'[v][2] = a /\ Walks'[v][3] = b /\ Walks'[v][4] = c
        /\ Walks'[v][5] = IF c \in DOMAIN tables' THEN tables'[c][Indices(v)[4]] ELSE NULL
    BY <2>1, <2>2
  <2>5. \A k \in 1 .. 4 : k = 1 \/ k = 2 \/ k = 3 \/ k = 4
    OBVIOUS
  <2>6. QED BY <2>3, <2>4, <2>5
<1>2. QED BY <1>1 DEF IsWalk

LEMMA SharesFacts ==
  /\ \A v, w : Shares(v, w, 1)
  /\ \A v, w : \A k \in 1 .. 4 :
       Shares(v, w, k + 1) <=> Shares(v, w, k) /\ Indices(v)[k] = Indices(w)[k]
  /\ \A v, w, u : \A k \in 1 .. 5 : Shares(v, u, k) /\ Shares(w, u, k) => Shares(v, w, k)
  /\ \A v, w \in Addresses : Shares(v, w, 5) => v = w
<1>1. \A v, w : Shares(v, w, 1)
  BY DEF Shares
<1>2. ASSUME NEW v, NEW w, NEW k \in 1 .. 4
      PROVE  Shares(v, w, k + 1) <=> Shares(v, w, k) /\ Indices(v)[k] = Indices(w)[k]
  <2>1. 1 .. ((k + 1) - 1) = (1 .. (k - 1)) \union {k}
    OBVIOUS
  <2>2. QED BY <2>1 DEF Shares
<1>3. \A v, w, u : \A k \in 1 .. 5 : Shares(v, u, k) /\ Shares(w, u, k) => Shares(v, w, k)
  BY DEF Shares
<1>4. ASSUME NEW v \in Addresses, NEW w \in Addresses, Shares(v, w, 5) PROVE v = w
  <2>1. \A k \in 1 .. 4 : Indices(v)[k] = Indices(w)[k]
    BY <1>4 DEF Shares
  <2>2. QED BY <2>1, IndicesDiffer
<1>5. QED BY <1>1, <1>2, <1>3, <1>4

(* What holds at the top and goes from each level to the next, holds on    *)
(* all of them.                                                            *)
LEMMA Levels ==
  ASSUME NEW S, 1 \in S, \A j \in 1 .. 4 : j \in S => j + 1 \in S
  PROVE  1 .. 5 \subseteq S
<1>1. 2 \in S
  OBVIOUS
<1>2. 3 \in S
  BY <1>1
<1>3. 4 \in S
  BY <1>2
<1>4. 5 \in S
  BY <1>3
<1>5. \A j \in 1 .. 5 : j = 1 \/ j = 2 \/ j = 3 \/ j = 4 \/ j = 5
  OBVIOUS
<1>6. QED BY <1>1, <1>2, <1>3, <1>4, <1>5

(* Addresses that begin alike begin their ways alike. *)
LEMMA SameWay ==
  ASSUME NEW T, NEW r, NEW W, IsWalk(T, r, W),
         NEW v \in Addresses, NEW w \in Addresses, NEW k \in 1 .. 5, Shares(v, w, k)
  PROVE  \A j \in 1 .. k : W[v][j] = W[w][j]
<1> DEFINE S == {j \in 1 .. 5 : j <= k => W[v][j] = W[w][j]}
<1>1. 1 \in S
  BY DEF IsWalk
<1>2. ASSUME NEW j \in 1 .. 4, j \in S PROVE j + 1 \in S
  <2>1. CASE j + 1 <= k
    <3>1. Indices(v)[j] = Indices(w)[j]
      BY <2>1 DEF Shares
    <3>2. W[v][j] = W[w][j]
      BY <1>2, <2>1
    <3>3. W[v][j + 1] = W[w][j + 1]
      BY <3>1, <3>2 DEF IsWalk
    <3>4. QED BY <3>3
  <2>2. CASE ~(j + 1 <= k)
    BY <2>2
  <2>3. QED BY <2>1, <2>2
<1>3. 1 .. 5 \subseteq S
  <2> HIDE DEF S
  <2>1. QED BY <1>1, <1>2, Levels
<1>4. QED BY <1>3

(* A way that has ended goes nowhere. *)
LEMMA NoFurther ==
  ASSUME NEW T, NEW r, NEW W, IsWalk(T, r, W), NULL \notin DOMAIN T,
         NEW v \in Addresses, NEW k \in 1 .. 5, W[v][k] = NULL
  PROVE  \A j \in k .. 5 : W[v][j] = NULL
<1> DEFINE S == {j \in 1 .. 5 : k <= j => W[v][j] = NULL}
<1>1. 1 \in S
  OBVIOUS
<1>2. ASSUME NEW j \in 1 .. 4, j \in S PROVE j + 1 \in S
  <2>1. CASE k <= j
    <3>1. W[v][j] = NULL
      BY <1>2, <2>1
    <3>2. W[v][j + 1] = NULL
      BY <3>1 DEF IsWalk
    <3>3. QED BY <3>2
  <2>2. CASE ~(k <= j)
    BY <2>2
  <2>3. QED BY <2>1, <2>2
<1>3. 1 .. 5 \subseteq S
  <2> HIDE DEF S
  <2>1. QED BY <1>1, <1>2, Levels
<1>4. QED BY <1>3

(* The top table alone maps nothing. *)
LEMMA TopTable ==
  ASSUME NEW T, NEW r, NEW W, IsWalk(T, r, W), r # NULL, DOMAIN T = {r}, T[r] = EmptyTable
  PROVE  Exact(T, r, {}, W)
<1>1. ASSUME NEW v \in Addresses PROVE W[v][1] = r /\ \A j \in 2 .. 5 : W[v][j] = NULL
  <2>1. W[v][1] = r
    BY DEF IsWalk
  <2>2. W[v][1 + 1] = T[r][Indices(v)[1]]
    BY <2>1 DEF IsWalk
  <2>3. Indices(v)[1] \in 0 .. (Entries - 1)
    BY IndicesFit
  <2>4. W[v][2] = NULL
    BY <2>2, <2>3 DEF EmptyTable
  <2>5. QED BY <2>1, <2>4, NoFurther
<1>2. \A v \in Addresses, k \in 1 .. 4 : (k = 1 /\ W[v][k] = r) \/ W[v][k] = NULL
  BY <1>1
<1>3. \A v, w \in Addresses, j, k \in 1 .. 4 :
         W[v][j] = W[w][k] /\ W[v][j] # NULL => j = k /\ Shares(v, w, k)
  BY <1>1, <1>2, SharesFacts
<1>4. \A v \in Addresses : W[v][5] = NULL
  BY <1>1
<1>5. QED BY <1>2, <1>3, <1>4 DEF Exact

(* VMM_MapPage puts a new table n where the way to h ended.                *)
LEMMA NewTable ==
  ASSUME NEW T, NEW r, NEW m, NEW W, Exact(T, r, m, W), IsWalk(T, r, W), NULL \notin DOMAIN T,
         NEW h \in Addresses, NEW k \in 1 .. 3, W[h][k] \in DOMAIN T, W[h][k + 1] = NULL,
         NEW n, n \notin DOMAIN T, n # NULL,
         NEW U, NEW X, IsWalk(U, r, X), DOMAIN U = DOMAIN T \union {n}, U[n] = EmptyTable,
         \A t \in DOMAIN T, i \in 0 .. (Entries - 1) :
           U[t][i] = IF t = W[h][k] /\ i = Indices(h)[k] THEN n ELSE T[t][i]
  PROVE  Exact(U, r, m, X)
<1> DEFINE New(v, j) == j = k + 1 /\ Shares(v, h, k + 1)
<1>1. \A v \in Addresses, j \in 1 .. 4 : W[v][j] \in DOMAIN T \union {NULL}
  BY DEF Exact
<1>2. \A v, w \in Addresses, i, j \in 1 .. 4 :
        W[v][i] = W[w][j] /\ W[v][i] # NULL => i = j /\ Shares(v, w, j)
  BY DEF Exact
<1>3. ASSUME NEW v \in Addresses, Shares(v, h, k + 1)
      PROVE  W[v][k] = W[h][k] /\ \A j \in (k + 1) .. 5 : W[v][j] = NULL
  <2>1. W[v][k + 1] = NULL /\ W[v][k] = W[h][k]
    BY <1>3, SameWay
  <2>2. QED BY <2>1, NoFurther
<1>4. ASSUME NEW v \in Addresses
      PROVE  \A j \in 1 .. 5 : X[v][j] = IF New(v, j) THEN n ELSE W[v][j]
  <2> DEFINE S == {j \in 1 .. 5 : X[v][j] = IF New(v, j) THEN n ELSE W[v][j]}
  <2>1. 1 \in S
    BY DEF IsWalk
  <2>2. ASSUME NEW j \in 1 .. 4, j \in S PROVE j + 1 \in S
    <3>0. /\ X[v][j + 1] = IF X[v][j] \in DOMAIN U THEN U[X[v][j]][Indices(v)[j]] ELSE NULL
          /\ W[v][j + 1] = IF W[v][j] \in DOMAIN T THEN T[W[v][j]][Indices(v)[j]] ELSE NULL
          /\ Indices(v)[j] \in 0 .. (Entries - 1) /\ j + 1 \in 1 .. 5
          /\ X[v][j] = IF New(v, j) THEN n ELSE W[v][j]
      BY <2>2, IndicesFit DEF IsWalk
    <3>1. CASE New(v, j)
      <4>1. X[v][j + 1] = NULL
        BY <3>0, <3>1 DEF EmptyTable
      <4>2. W[v][j + 1] = NULL /\ ~New(v, j + 1)
        BY <1>3, <3>1
      <4>3. QED BY <3>0, <4>1, <4>2
    <3>2. CASE ~New(v, j) /\ W[v][j] = NULL
      <4>1. X[v][j + 1] = NULL /\ W[v][j + 1] = NULL
        BY <3>0, <3>2
      <4>2. ~New(v, j + 1)
        BY <1>3, <3>2
      <4>3. QED BY <3>0, <4>1, <4>2
    <3>3. CASE ~New(v, j) /\ W[v][j] \in DOMAIN T
      <4>1. X[v][j + 1] = IF W[v][j] = W[h][k] /\ Indices(v)[j] = Indices(h)[k]
                          THEN n ELSE W[v][j + 1]
        BY <3>0, <3>3
      <4>2. New(v, j + 1) <=> W[v][j] = W[h][k] /\ Indices(v)[j] = Indices(h)[k]
        <5>1. ASSUME New(v, j + 1) PROVE W[v][j] = W[h][k] /\ Indices(v)[j] = Indices(h)[k]
          <6>1. j = k /\ Shares(v, h, k + 1)
            BY <5>1
          <6>2. QED BY <1>3, <6>1, SharesFacts
        <5>2. ASSUME W[v][j] = W[h][k], Indices(v)[j] = Indices(h)[k] PROVE New(v, j + 1)
          <6>1. j = k /\ Shares(v, h, k)
            BY <1>2, <5>2
          <6>2. QED BY <5>2, <6>1, SharesFacts
        <5>3. QED BY <5>1, <5>2
      <4>3. QED BY <3>0, <4>1, <4>2
    <3>4. QED BY <1>1, <3>1, <3>2, <3>3
  <2>3. 1 .. 5 \subseteq S
    <3> HIDE DEF S
    <3>1. QED BY <2>1, <2>2, Levels
  <2>4. QED BY <2>3
<1> HIDE DEF New
<1>5. \A v \in Addresses, j \in 1 .. 4 : X[v][j] \in DOMAIN U \union {NULL}
  BY <1>1, <1>4
<1>6. ASSUME NEW v \in Addresses, NEW w \in Addresses, NEW i \in 1 .. 4, NEW j \in 1 .. 4,
             X[v][i] = X[w][j], X[v][i] # NULL
      PROVE  i = j /\ Shares(v, w, j)
  <2>1. CASE New(v, i) /\ New(w, j)
    BY <2>1, SharesFacts DEF New
  <2>2. CASE ~New(v, i) /\ ~New(w, j)
    BY <1>2, <1>4, <1>6, <2>2
  <2>3. CASE ~(New(v, i) <=> New(w, j))
    BY <1>1, <1>4, <1>6, <2>3
  <2>4. QED BY <2>1, <2>2, <2>3
<1>7. \A v \in Addresses : X[v][5] = IF v \in m THEN v ELSE NULL
  BY <1>4 DEF Exact, New
<1>8. r \in DOMAIN U
  BY DEF Exact
<1>9. QED BY <1>5, <1>6, <1>7, <1>8 DEF Exact

(* ... and the entry of h in the table where the way ended.                *)
LEMMA NewEntry ==
  ASSUME NEW T, NEW r, NEW m, NEW W, Exact(T, r, m, W), IsWalk(T, r, W), NULL \notin DOMAIN T,
         NEW h \in Addresses, W[h][4] \in DOMAIN T,
         NEW U, NEW X, IsWalk(U, r, X), DOMAIN U = DOMAIN T,
         \A t \in DOMAIN T, i \in 0 .. (Entries - 1) :
           U[t][i] = IF t = W[h][4] /\ i = Indices(h)[4] THEN h ELSE T[t][i]
  PROVE  Exact(U, r, m \union {h}, X)
<1>1. \A v \in Addresses, j \in 1 .. 4 : W[v][j] \in DOMAIN T \union {NULL}
  BY DEF Exact
<1>2. \A v, w \in Addresses, i, j \in 1 .. 4 :
        W[v][i] = W[w][j] /\ W[v][i] # NULL => i = j /\ Shares(v, w, j)
  BY DEF Exact
<1>3. ASSUME NEW v \in Addresses
      PROVE  \A j \in 1 .. 5 : X[v][j] = IF j = 5 /\ v = h THEN h ELSE W[v][j]
  <2> DEFINE S == {j \in 1 .. 5 : X[v][j] = IF j = 5 /\ v = h THEN h ELSE W[v][j]}
  <2>1. 1 \in S
    BY DEF IsWalk
  <2>2. ASSUME NEW j \in 1 .. 4, j \in S PROVE j + 1 \in S
    <3>0. /\ X[v][j + 1] = IF X[v][j] \in DOMAIN U THEN U[X[v][j]][Indices(v)[j]] ELSE NULL
          /\ W[v][j + 1] = IF W[v][j] \in DOMAIN T THEN T[W[v][j]][Indices(v)[j]] ELSE NULL
          /\ Indices(v)[j] \in 0 .. (Entries - 1) /\ j + 1 \in 1 .. 5
          /\ X[v][j] = W[v][j]
      BY <2>2, IndicesFit DEF IsWalk
    <3>1. W[v][j] = W[h][4] => j = 4 /\ Shares(v, h, 4)
      BY <1>2
    <3>2. W[v][j] = W[h][4] /\ Indices(v)[j] = Indices(h)[4] <=> j = 4 /\ v = h
      <4>1. ASSUME W[v][j] = W[h][4], Indices(v)[j] = Indices(h)[4] PROVE j = 4 /\ v = h
        <5>1. j = 4 /\ Shares(v, h, 4 + 1)
          BY <3>1, <4>1, SharesFacts
        <5>2. QED BY <5>1, SharesFacts
      <4>2. QED BY <4>1
    <3>3. X[v][j + 1] = IF W[v][j] = W[h][4] /\ Indices(v)[j] = Indices(h)[4]
                        THEN h ELSE W[v][j + 1]
      BY <3>0
    <3>4. X[v][j + 1] = IF j + 1 = 5 /\ v = h THEN h ELSE W[v][j + 1]
      BY <3>2, <3>3
    <3>5. QED BY <3>0, <3>4
  <2>3. 1 .. 5 \subseteq S
    <3> HIDE DEF S
    <3>1. QED BY <2>1, <2>2, Levels
  <2>4. QED BY <2>3
<1>4. \A v \in Addresses, j \in 1 .. 4 : X[v][j] = W[v][j]
  BY <1>3
<1>5. \A v \in Addresses : X[v][5] = IF v = h THEN h ELSE W[v][5]
  BY <1>3
<1>6. QED BY <1>4, <1>5 DEF Exact

(* What is mapped is held, as long as there was a page for every table.    *)
LEMMA ExactHolds ==
  ASSUME NEW T, NEW r, NEW m, NEW W, Exact(T, r, m, W), IsWalk(T, r, W), NULL \notin DOMAIN T,
         0 \notin DOMAIN T, NEW F, F \subseteq Addresses, F \subseteq m, NULL \notin Addresses
  PROVE  Holds(T, F, W)
<1>1. ASSUME NEW f \in F, NEW k \in 1 .. 4 PROVE W[f][k] \in DOMAIN T \ {0} /\ W[f][k] # NULL
  <2>1. W[f][5] = f /\ f # NULL /\ f \in Addresses
    BY DEF Exact
  <2>2. W[f][k] # NULL
    <3>1. ASSUME W[f][k] = NULL PROVE FALSE
      <4>1. W[f][5] = NULL
        BY <2>1, <3>1, NoFurther
      <4>2. QED BY <2>1, <4>1
    <3>2. QED BY <3>1
  <2>3. QED BY <2>1, <2>2 DEF Exact
<1>2. \A f \in F : W[f][5] = f
  BY DEF Exact
<1>3. \A f \in F, k \in 1 .. 4 : \A v \in Addresses, j \in 1 .. 4 :
        W[v][j] = W[f][k] => j = k /\ Shares(v, f, k)
  BY <1>1 DEF Exact
<1>4. QED BY <1>1, <1>2, <1>3 DEF Holds

LEMMA HoldsMapped ==
  ASSUME NEW T, NEW r, NEW m, NEW W, Exact(T, r, m, W), NEW F, F \subseteq Addresses,
         NULL \notin Addresses, Holds(T, F, W)
  PROVE  F \subseteq m
BY DEF Holds, Exact

(* What is held stays held when the tables change only elsewhere, and no   *)
(* new way leads into the tables.                                          *)
LEMMA StillHolds ==
  ASSUME NEW T, NEW r, NEW W, IsWalk(T, r, W), NULL \notin DOMAIN T, NULL \notin Addresses,
         NEW F, F \subseteq Addresses, Holds(T, F, W),
         NEW U, NEW X, IsWalk(U, r, X), DOMAIN U \ {0} = DOMAIN T \ {0}, NULL \notin DOMAIN U,
         ZeroLeadsNowhere(U),
         \A t \in DOMAIN T \ {0}, i \in 0 .. (Entries - 1) :
           U[t][i] = T[t][i] \/ U[t][i] \notin DOMAIN T \ {0},
         \A f \in F, k \in 1 .. 4 : U[W[f][k]][Indices(f)[k]] = T[W[f][k]][Indices(f)[k]]
  PROVE  Holds(U, F, X)
<1>1. ASSUME NEW f \in F PROVE \A k \in 1 .. 5 : X[f][k] = W[f][k]
  <2> DEFINE S == {k \in 1 .. 5 : X[f][k] = W[f][k]}
  <2>0. f \in Addresses
    OBVIOUS
  <2>1. 1 \in S
    BY <2>0 DEF IsWalk
  <2>2. ASSUME NEW k \in 1 .. 4, k \in S PROVE k + 1 \in S
    <3>1. X[f][k] = W[f][k] /\ W[f][k] \in DOMAIN T \ {0} /\ W[f][k] \in DOMAIN U
      BY <2>2 DEF Holds
    <3>2. X[f][k + 1] = U[W[f][k]][Indices(f)[k]] /\ W[f][k + 1] = T[W[f][k]][Indices(f)[k]]
      BY <2>0, <3>1 DEF IsWalk
    <3>3. QED BY <3>2
  <2>3. 1 .. 5 \subseteq S
    <3> HIDE DEF S
    <3>1. QED BY <2>1, <2>2, Levels
  <2>4. QED BY <2>3
<1>2. ASSUME NEW v \in Addresses
      PROVE  \A j \in 1 .. 5 : X[v][j] \in DOMAIN T \ {0} => X[v][j] = W[v][j]
  <2> DEFINE S == {j \in 1 .. 5 : X[v][j] \in DOMAIN T \ {0} => X[v][j] = W[v][j]}
  <2>1. 1 \in S
    BY DEF IsWalk
  <2>2. ASSUME NEW j \in 1 .. 4, j \in S PROVE j + 1 \in S
    <3>0. /\ X[v][j + 1] = IF X[v][j] \in DOMAIN U THEN U[X[v][j]][Indices(v)[j]] ELSE NULL
          /\ W[v][j + 1] = IF W[v][j] \in DOMAIN T THEN T[W[v][j]][Indices(v)[j]] ELSE NULL
          /\ Indices(v)[j] \in 0 .. (Entries - 1) /\ j + 1 \in 1 .. 5
      BY <2>2, IndicesFit DEF IsWalk
    <3>1. CASE X[v][j] \notin DOMAIN U
      BY <3>0, <3>1
    <3>2. CASE X[v][j] = 0 /\ 0 \in DOMAIN U
      <4>1. X[v][j + 1] \notin DOMAIN U \ {0}
        BY <3>0, <3>2 DEF ZeroLeadsNowhere
      <4>2. QED BY <3>0, <4>1
    <3>3. CASE X[v][j] \in DOMAIN U \ {0}
      <4>1. X[v][j] = W[v][j] /\ X[v][j] \in DOMAIN T \ {0}
        BY <2>2, <3>3
      <4>2. QED BY <3>0, <4>1
    <3>4. QED BY <3>1, <3>2, <3>3
  <2>3. 1 .. 5 \subseteq S
    <3> HIDE DEF S
    <3>1. QED BY <2>1, <2>2, Levels
  <2>4. QED BY <2>3
<1>3. ASSUME NEW f \in F, NEW k \in 1 .. 4
      PROVE  /\ X[f][k] \in DOMAIN U \ {0}
             /\ \A v \in Addresses, j \in 1 .. 4 : X[v][j] = X[f][k] => j = k /\ Shares(v, f, k)
  <2>1. X[f][k] = W[f][k] /\ W[f][k] \in DOMAIN T \ {0}
    BY <1>1 DEF Holds
  <2>2. ASSUME NEW v \in Addresses, NEW j \in 1 .. 4, X[v][j] = X[f][k]
        PROVE  j = k /\ Shares(v, f, k)
    <3>1. W[v][j] = W[f][k]
      BY <1>2, <2>1, <2>2
    <3>2. QED BY <3>1 DEF Holds
  <2>3. QED BY <2>1, <2>2
<1>4. \A f \in F : X[f][5] = f
  BY <1>1 DEF Holds
<1>5. QED BY <1>3, <1>4 DEF Holds

-----------------------------------------------------------------------------
(* The page tables of the kernel.                                          *)

FramesIn(s) == {s[i] : i \in DOMAIN s}

(* What the processor needs to go on.                                      *)
Kept == machine.image \union {machine.stack} \union FramesIn(machine.fb)

(* Tables are pages that were given out, or frame 0 if there was none.     *)
TablesInv ==
  /\ DOMAIN tables \subseteq {0} \union {base + p : p \in held}
  /\ todo \in Seq(Addresses)
  /\ pc \notin Early => tables \in [DOMAIN tables -> [0 .. (Entries - 1) -> Int \union {NULL}]]
  /\ ~exhausted => 0 \notin DOMAIN tables

ExactInv == pc \notin Early /\ ~exhausted => Exact(tables, kernel_pml4, mapped, Walks)

(* Past the heap's page, what is kept stays mapped: frame 0 leads to no    *)
(* table, and what is mapped from here on is none and becomes none.        *)
KeptInv ==
  /\ pc = "map" => FramesIn(machine.fb) \subseteq mapped \union FramesIn(todo)
  /\ pc = "heap" /\ ~exhausted => Kept \subseteq mapped
  /\ pc \in PastHeap =>
       /\ \A h \in FramesIn(todo) : h # 0 /\ h \notin DOMAIN tables /\ \A p \in free : h # base + p
       /\ ZeroLeadsNowhere(tables)
       /\ Holds(tables, Kept, Walks)

AddressInv == TablesInv /\ ExactInv /\ KeptInv

LEMMA NullIsNoFrame == NULL \notin Int /\ NULL \notin Addresses /\ Addresses \subseteq Nat
<1>1. Entries * Entries * Entries * Entries \in Nat
  BY EntriesAssumption
<1>2. Addresses \subseteq Nat
  BY <1>1 DEF Addresses
<1>3. NULL \notin Int
  BY PagesAssumption
<1>4. Nat \subseteq Int
  OBVIOUS
<1>5. QED BY <1>2, <1>3, <1>4, Zenon

LEMMA MachineFrames ==
  ASSUME NEW m \in Machines
  PROVE  /\ m.image \subseteq Addresses /\ m.stack \in Addresses
         /\ FramesIn(m.fb) \subseteq Addresses /\ m.fb \in Seq(Addresses)
<1>1. /\ m.stack \in Nat /\ m.stack + StackSpan \in Addresses
      /\ m.image \subseteq Addresses /\ m.fb \in Seq(Addresses)
  BY AddressesAssumption
<1>2. m.stack \in Addresses
  <2>1. StackSpan \in Nat
    BY SpansAssumption
  <2>2. Entries * Entries * Entries * Entries \in Nat
    BY EntriesAssumption
  <2>3. QED BY <1>1, <2>1, <2>2 DEF Addresses
<1>3. FramesIn(m.fb) \subseteq Addresses
  BY <1>1 DEF FramesIn
<1>4. QED BY <1>1, <1>2, <1>3

LEMMA KeptFrames == ASSUME machine \in Machines PROVE Kept \subseteq Addresses
BY MachineFrames DEF Kept

(* Frames that are not tables, and no tables.                              *)
LEMMA TableFrames ==
  ASSUME MemoryInv, TablesInv
  PROVE  /\ DOMAIN tables \subseteq Nat /\ NULL \notin DOMAIN tables
         /\ \A p \in free \union held : p \in Nat \ {0} /\ base + p \in Nat \ {0}
         /\ \A p \in free : base + p \notin DOMAIN tables
<1>1. LoaderInv /\ HandedInv /\ ManagerInv
  BY DEF MemoryInv
<1>2. base \in Nat /\ Pmm!Reserved(max_pages) \in Nat \ {0} /\ \A p \in Pmm!Page : p \in Nat
  BY <1>1, Sizes
<1>3. \A p \in free \union held : p \in Nat \ {0} /\ base + p \in Nat \ {0}
  BY <1>1, <1>2 DEF ManagerInv
<1>4. DOMAIN tables \subseteq Nat
  BY <1>2, <1>3 DEF TablesInv
<1>5. ASSUME NEW p \in free PROVE base + p \notin DOMAIN tables
  <2>1. \A q \in held : q < p /\ q \in Nat /\ p \in Nat \ {0}
    BY <1>1, <1>3 DEF ManagerInv
  <2>2. QED BY <1>2, <1>3, <2>1 DEF TablesInv
<1>6. QED BY <1>3, <1>4, <1>5, NullIsNoFrame

LEMMA EarlyAddresses == HandedInv /\ pc \in Early => AddressInv
<1>. SUFFICES ASSUME HandedInv, pc \in Early PROVE AddressInv
  OBVIOUS
<1>1. tables = << >> /\ todo = << >> /\ DOMAIN tables = {}
  BY DEF HandedInv
<1>2. pc \notin PastHeap \union {"map", "heap"}
  BY DEF Early, PastHeap, Uses
<1>3. QED BY <1>1, <1>2 DEF AddressInv, TablesInv, ExactInv, KeptInv

LEMMA EarlyAddressesOn == HandedInv' /\ pc' \in Early => AddressInv'
<1>. SUFFICES ASSUME HandedInv', pc' \in Early PROVE AddressInv'
  OBVIOUS
<1>1. tables' = << >> /\ todo' = << >> /\ DOMAIN tables' = {}
  BY DEF HandedInv
<1>2. pc' \notin PastHeap \union {"map", "heap"}
  BY DEF Early, PastHeap, Uses
<1>3. QED BY <1>1, <1>2 DEF AddressInv, TablesInv, ExactInv, KeptInv

(* The tables do not change.                                               *)
LEMMA TablesStay ==
  ASSUME MemoryInv, AddressInv, pc \notin Early, pc' \notin Early,
         UNCHANGED <<machine, tables, kernel_pml4, mapped, base>>,
         held \subseteq held', free' \subseteq free, ~exhausted' => ~exhausted,
         todo' \in Seq(Addresses), pc' # "map",
         pc' = "heap" /\ ~exhausted' => Kept \subseteq mapped,
         pc' \in PastHeap =>
           /\ pc \in PastHeap \/ (Kept \subseteq mapped /\ ~exhausted)
           /\ \A h \in FramesIn(todo') : h # 0 /\ h \notin DOMAIN tables
                                         /\ \A p \in free' : h # base + p
  PROVE  AddressInv'
<1>1. TablesInv /\ ExactInv /\ KeptInv
  BY DEF AddressInv
<1>2. Walks' = Walks /\ Kept' = Kept
  BY DEF Walks, Walk, Entry, Kept, FramesIn
<1>3. TablesInv'
  BY <1>1 DEF TablesInv
<1>4. ExactInv'
  BY <1>1, <1>2 DEF ExactInv
<1>5. ASSUME pc' \in PastHeap PROVE ZeroLeadsNowhere(tables) /\ Holds(tables, Kept, Walks)
  <2>1. CASE pc \in PastHeap
    BY <1>1, <2>1 DEF KeptInv
  <2>2. CASE pc \notin PastHeap
    <3>1. Kept \subseteq mapped /\ ~exhausted /\ 0 \notin DOMAIN tables
      BY <1>1, <1>5, <2>2 DEF TablesInv
    <3>2. Exact(tables, kernel_pml4, mapped, Walks)
      BY <1>1, <3>1 DEF ExactInv
    <3>3. Kept \subseteq Addresses /\ NULL \notin DOMAIN tables /\ NULL \notin Addresses
      BY <1>1, KeptFrames, TableFrames, NullIsNoFrame DEF MemoryInv, LoaderInv, LoaderType
    <3>4. Holds(tables, Kept, Walks)
      BY <3>1, <3>2, <3>3, ExactHolds, WalksWalk
    <3>5. QED BY <3>1, <3>4 DEF ZeroLeadsNowhere
  <2>3. QED BY <2>1, <2>2
<1>6. FramesIn(todo)' = FramesIn(todo')
  BY DEF FramesIn
<1>7. KeptInv'
  BY <1>1, <1>2, <1>5, <1>6 DEF KeptInv
<1>8. QED BY <1>3, <1>4, <1>7 DEF AddressInv

(* The frame to map next.                                                  *)
LEMMA NextFrame ==
  ASSUME TablesInv, todo # << >>
  PROVE  /\ Head(todo) \in Addresses /\ Tail(todo) \in Seq(Addresses)
         /\ FramesIn(todo) = {Head(todo)} \union FramesIn(Tail(todo))
<1>1. todo \in Seq(Addresses) /\ Len(todo) \in Nat \ {0} /\ DOMAIN todo = 1 .. Len(todo)
  BY DEF TablesInv
<1>2. /\ Head(todo) = todo[1] /\ Head(todo) \in Addresses /\ Tail(todo) \in Seq(Addresses)
      /\ DOMAIN Tail(todo) = 1 .. (Len(todo) - 1)
      /\ \A i \in 1 .. (Len(todo) - 1) : Tail(todo)[i] = todo[i + 1]
  BY <1>1
<1>3. ASSUME NEW f \in FramesIn(todo) PROVE f \in {Head(todo)} \union FramesIn(Tail(todo))
  <2>1. PICK i \in 1 .. Len(todo) : f = todo[i]
    BY <1>1 DEF FramesIn
  <2>2. CASE i = 1
    BY <1>2, <2>1, <2>2
  <2>3. CASE i # 1
    <3>1. i - 1 \in 1 .. (Len(todo) - 1) /\ (i - 1) + 1 = i
      BY <1>1, <2>1, <2>3
    <3>2. Tail(todo)[i - 1] = todo[i]
      BY <1>2, <3>1
    <3>3. QED BY <1>2, <2>1, <3>1, <3>2 DEF FramesIn
  <2>4. QED BY <2>2, <2>3
<1>4. ASSUME NEW f \in FramesIn(Tail(todo)) PROVE f \in FramesIn(todo)
  <2>1. PICK i \in 1 .. (Len(todo) - 1) : f = Tail(todo)[i]
    BY <1>2 DEF FramesIn
  <2>2. i + 1 \in 1 .. Len(todo)
    BY <1>1
  <2>3. QED BY <1>1, <1>2, <2>1, <2>2 DEF FramesIn
<1>5. Head(todo) \in FramesIn(todo)
  BY <1>1, <1>2 DEF FramesIn
<1>6. QED BY <1>2, <1>3, <1>4, <1>5

(* A page for a table, or frame 0.                                         *)
LEMMA TablePage ==
  ASSUME MemoryInv, TablesInv, AllocatePage, UNCHANGED base
  PROVE  /\ Frame(result') \in Nat
         /\ \/ /\ exhausted' /\ Frame(result') = 0 /\ UNCHANGED held /\ free' = {} /\ free = {}
            \/ /\ ~exhausted /\ ~exhausted' /\ Frame(result') # 0 /\ 0 \notin DOMAIN tables
               /\ Frame(result') \notin DOMAIN tables
               /\ \E p \in free : Frame(result') = base + p /\ held' = held \union {p}
               /\ free' \subseteq free
<1>1. LoaderInv /\ HandedInv /\ ManagerInv
  BY DEF MemoryInv
<1>2. CASE NoneGiven
  BY <1>2 DEF NoneGiven, Frame
<1>3. ASSUME NEW p \in free, GivenPage(p)
      PROVE  /\ Frame(result') \in Nat
             /\ ~exhausted /\ ~exhausted' /\ Frame(result') # 0 /\ 0 \notin DOMAIN tables
             /\ Frame(result') \notin DOMAIN tables
             /\ Frame(result') = base + p /\ held' = held \union {p}
             /\ free' \subseteq free
  <2>1. ~exhausted /\ 0 \notin DOMAIN tables
    BY <1>1, <1>3 DEF ManagerInv, TablesInv
  <2>2. p \in Nat \ {0} /\ base + p \in Nat \ {0} /\ base + p \notin DOMAIN tables
    BY <1>3, TableFrames
  <2>3. result' = p /\ result' # NULL /\ exhausted' = exhausted
        /\ held' = held \union {p} /\ free' \subseteq free
    BY <1>3, <2>2, NullIsNoFrame DEF GivenPage
  <2>4. Frame(result') = base + p
    BY <2>3 DEF Frame
  <2>5. QED BY <2>1, <2>2, <2>3, <2>4
<1>4. CASE \E p \in free : GivenPage(p)
  <2>1. PICK p \in free : GivenPage(p)
    BY <1>4
  <2>2. QED BY <1>3, <2>1
<1>5. QED BY <1>1, <1>2, <1>4, Requested

(* The tables get a new one, or frame 0 is cleared and used as one.        *)
LEMMA TableAdded ==
  ASSUME MemoryInv, AddressInv, pc \notin Early, AddTable, UNCHANGED <<machine, pc>>
  PROVE  AddressInv'
<1>0. TablesInv /\ ExactInv /\ KeptInv /\ machine \in Machines
  BY DEF AddressInv, MemoryInv, LoaderInv, LoaderType
<1> DEFINE h == Head(todo)
           n == Frame(result')
<1>1. h \in Addresses /\ FramesIn(todo) = {h} \union FramesIn(Tail(todo))
  BY <1>0, NextFrame DEF AddTable
<1>2. PICK k \in 1 .. 3 :
        /\ Missing(h, k)
        /\ tables' = [Cleared(n) EXCEPT ![Walk(h)[k]][Indices(h)[k]] = n]
  BY DEF AddTable
<1> DEFINE t == Walk(h)[k]
           i0 == Indices(h)[k]
           D == DOMAIN tables \union {n}
<1>3. /\ Walks[h][k] = t /\ t \in DOMAIN tables /\ Walks[h][k + 1] = NULL
      /\ i0 \in 0 .. (Entries - 1)
  BY <1>1, <1>2, IndicesFit DEF Walks, Missing
<1>4. UNCHANGED <<base, kernel_pml4, todo, mapped, pc, machine>> /\ AllocatePage
  BY DEF AddTable
<1>5. /\ n \in Nat
      /\ \/ /\ exhausted' /\ n = 0 /\ UNCHANGED held /\ free' = {} /\ free = {}
         \/ /\ ~exhausted /\ ~exhausted' /\ n # 0 /\ 0 \notin DOMAIN tables
            /\ n \notin DOMAIN tables
            /\ \E p \in free : n = base + p /\ held' = held \union {p}
            /\ free' \subseteq free
  BY <1>0, <1>4, TablePage
<1>6. /\ DOMAIN tables \subseteq Nat /\ NULL \notin DOMAIN tables /\ NULL \notin D
      /\ NULL \notin Addresses /\ Kept \subseteq Addresses
  <2>1. DOMAIN tables \subseteq Nat /\ NULL \notin DOMAIN tables
    BY <1>0, TableFrames
  <2>2. NULL \notin Addresses /\ n # NULL
    BY <1>5, NullIsNoFrame
  <2>3. QED BY <1>0, <2>1, <2>2, KeptFrames
<1> HIDE DEF h, n, t, i0
<1>7. /\ tables' \in [D -> [0 .. (Entries - 1) -> Int \union {NULL}]] /\ DOMAIN tables' = D
      /\ \A x \in D, i \in 0 .. (Entries - 1) :
           tables'[x][i] = IF x = t /\ i = i0 THEN n
                           ELSE IF x = n THEN NULL ELSE tables[x][i]
      /\ t # n => tables'[n] = EmptyTable
  <2> DEFINE C == Cleared(n)
             X == 0 .. (Entries - 1)
  <2>1. tables \in [DOMAIN tables -> [X -> Int \union {NULL}]]
    BY <1>0 DEF TablesInv
  <2>2. EmptyTable \in [X -> Int \union {NULL}] /\ \A i \in X : EmptyTable[i] = NULL
    BY DEF EmptyTable
  <2>3. C = [f \in D |-> IF f = n THEN EmptyTable ELSE tables[f]]
    BY DEF Cleared
  <2> HIDE DEF C, X
  <2>4. C \in [D -> [X -> Int \union {NULL}]]
    BY <2>1, <2>2, <2>3
  <2>5. tables' = [C EXCEPT ![t][i0] = n] /\ t \in D /\ i0 \in X /\ n \in Int
    BY <1>2, <1>3, <1>5 DEF C, X, t, i0
  <2>6. tables' = [f \in D |-> IF f = t THEN [C[t] EXCEPT ![i0] = n] ELSE C[f]]
    BY <2>4, <2>5
  <2>7. C[t] \in [X -> Int \union {NULL}]
    BY <2>4, <2>5
  <2>8. [C[t] EXCEPT ![i0] = n] \in [X -> Int \union {NULL}]
        /\ \A i \in X : [C[t] EXCEPT ![i0] = n][i] = IF i = i0 THEN n ELSE C[t][i]
    BY <2>5, <2>7
  <2>9. tables' \in [D -> [X -> Int \union {NULL}]] /\ DOMAIN tables' = D
    BY <2>4, <2>6, <2>8
  <2>10. ASSUME NEW x \in D, NEW i \in X
         PROVE  tables'[x][i] = IF x = t /\ i = i0 THEN n
                                ELSE IF x = n THEN NULL ELSE tables[x][i]
    <3>1. C[x][i] = IF x = n THEN NULL ELSE tables[x][i]
      BY <2>2, <2>3
    <3>2. QED BY <2>6, <2>8, <3>1
  <2>11. t # n => tables'[n] = EmptyTable
    BY <2>3, <2>6
  <2>12. QED BY <2>9, <2>10, <2>11 DEF X
<1>8. TablesInv'
  <2>1. DOMAIN tables' \subseteq {0} \union {base' + p : p \in held'}
    BY <1>0, <1>4, <1>5, <1>7 DEF TablesInv
  <2>2. ~exhausted' => 0 \notin DOMAIN tables'
    BY <1>5, <1>7
  <2>3. QED BY <1>0, <1>4, <1>7, <2>1, <2>2 DEF TablesInv
<1>9. ASSUME ~exhausted'
      PROVE  /\ Exact(tables, kernel_pml4, mapped, Walks) /\ Exact(tables', kernel_pml4, mapped, Walks')
             /\ 0 \notin DOMAIN tables'
  <2>1. Exact(tables, kernel_pml4, mapped, Walks) /\ n \notin DOMAIN tables /\ n # NULL
    BY <1>0, <1>5, <1>6, <1>9 DEF ExactInv
  <2>2. IsWalk(tables', kernel_pml4, Walks')
    BY <1>4, WalksWalkOn
  <2>3. tables'[n] = EmptyTable
    BY <1>3, <1>7, <2>1
  <2>4. \A x \in DOMAIN tables, i \in 0 .. (Entries - 1) :
          tables'[x][i] = IF x = Walks[h][k] /\ i = Indices(h)[k] THEN n ELSE tables[x][i]
    BY <1>3, <1>7, <2>1 DEF i0
  <2>5. Exact(tables', kernel_pml4, mapped, Walks')
    <3>1. Walks[h][k] \in DOMAIN tables /\ Walks[h][k + 1] = NULL
      BY <1>3
    <3>2. DOMAIN tables' = DOMAIN tables \union {n}
      BY <1>7
    <3>3. k \in 1 .. 3 /\ h \in Addresses /\ NULL \notin DOMAIN tables
      BY <1>1, <1>2, <1>6
    <3>4. n # NULL /\ n \notin DOMAIN tables /\ Exact(tables, kernel_pml4, mapped, Walks)
      BY <2>1
    <3>5. IsWalk(tables, kernel_pml4, Walks)
      BY WalksWalk
    <3>6. QED
      BY <2>2, <2>3, <2>4, <3>1, <3>2, <3>3, <3>4, <3>5, NewTable
  <2>6. QED BY <1>5, <1>7, <1>9, <2>1, <2>5
<1>10. ExactInv'
  BY <1>4, <1>9 DEF ExactInv
<1>11. Kept' = Kept /\ FramesIn(todo)' = FramesIn(todo) /\ FramesIn(machine.fb)' = FramesIn(machine.fb)
  BY <1>4 DEF Kept, FramesIn
<1>12. ASSUME pc \in PastHeap PROVE ZeroLeadsNowhere(tables')
  BY <1>5, <1>6, <1>7 DEF ZeroLeadsNowhere
<1>13. ASSUME pc \in PastHeap PROVE Holds(tables', Kept, Walks')
  <2>0. Holds(tables, Kept, Walks) /\ ZeroLeadsNowhere(tables)
    BY <1>0, <1>13 DEF KeptInv
  <2>1. CASE ~exhausted'
    <3>1. Kept \subseteq mapped
      BY <1>6, <1>9, <2>0, <2>1, HoldsMapped
    <3>2. IsWalk(tables', kernel_pml4, Walks')
      BY <1>4, WalksWalkOn
    <3>3. NULL \notin DOMAIN tables'
      BY <1>6, <1>7
    <3>4. QED BY <1>6, <1>9, <2>1, <3>1, <3>2, <3>3, ExactHolds
  <2>2. CASE exhausted'
    <3>1. n = 0 /\ DOMAIN tables' \ {0} = DOMAIN tables \ {0} /\ NULL \notin DOMAIN tables'
      BY <1>5, <1>6, <1>7, <2>2
    <3>2. \A x \in DOMAIN tables \ {0}, i \in 0 .. (Entries - 1) :
            tables'[x][i] = tables[x][i] \/ tables'[x][i] \notin DOMAIN tables \ {0}
      BY <1>7, <3>1
    <3>3. ASSUME NEW f \in Kept, NEW j \in 1 .. 4
          PROVE  tables'[Walks[f][j]][Indices(f)[j]] = tables[Walks[f][j]][Indices(f)[j]]
      <4>1. Walks[f][j] \in DOMAIN tables \ {0} /\ Indices(f)[j] \in 0 .. (Entries - 1)
            /\ f \in Addresses /\ f # NULL
        BY <1>6, <2>0, IndicesFit DEF Holds
      <4>2. Walks[f][j + 1] = tables[Walks[f][j]][Indices(f)[j]]
        BY <4>1, WalksWalk DEF IsWalk
      <4>3. Walks[f][j + 1] # NULL
        <5>1. CASE j = 4
          BY <2>0, <4>1, <5>1 DEF Holds
        <5>2. CASE j # 4
          <6>1. j + 1 \in 1 .. 4
            BY <5>2
          <6>2. QED BY <1>6, <2>0, <6>1 DEF Holds
        <5>3. QED BY <5>1, <5>2
      <4>4. tables[t][i0] = NULL
        <5>1. Walks[h][k + 1] = IF Walks[h][k] \in DOMAIN tables
                                THEN tables[Walks[h][k]][Indices(h)[k]] ELSE NULL
          BY <1>1, WalksWalk DEF IsWalk
        <5>2. QED BY <1>3, <5>1 DEF i0
      <4>5. ~(Walks[f][j] = t /\ Indices(f)[j] = i0)
        BY <4>2, <4>3, <4>4
      <4>6. QED BY <1>7, <3>1, <4>1, <4>5
    <3>4. IsWalk(tables', kernel_pml4, Walks')
      BY <1>4, WalksWalkOn
    <3>5. QED BY <1>6, <1>12, <1>13, <2>0, <3>1, <3>2, <3>3, <3>4, StillHolds, WalksWalk
  <2>3. QED BY <2>1, <2>2
<1>14. ASSUME pc \in PastHeap, NEW f \in FramesIn(todo)
       PROVE  f # 0 /\ f \notin DOMAIN tables' /\ \A p \in free' : f # base + p
  <2>1. f # 0 /\ f \notin DOMAIN tables /\ \A p \in free : f # base + p
    BY <1>0, <1>14 DEF KeptInv
  <2>2. f # n /\ free' \subseteq free
    BY <1>5, <2>1
  <2>3. QED BY <1>7, <2>1, <2>2
<1>15. KeptInv'
  <2>1. pc' = "map" => FramesIn(machine.fb)' \subseteq mapped' \union FramesIn(todo)'
    BY <1>0, <1>4, <1>11 DEF KeptInv
  <2>2. pc' = "heap" /\ ~exhausted' => Kept' \subseteq mapped'
    BY <1>0, <1>4, <1>5, <1>11 DEF KeptInv
  <2>3. ASSUME pc' \in PastHeap
        PROVE  /\ \A f \in FramesIn(todo)' : f # 0 /\ f \notin DOMAIN tables'
                                               /\ \A p \in free' : f # base' + p
               /\ ZeroLeadsNowhere(tables') /\ Holds(tables', Kept', Walks')
    BY <1>4, <1>11, <1>12, <1>13, <1>14, <2>3
  <2>4. QED BY <2>1, <2>2, <2>3 DEF KeptInv
<1>16. QED BY <1>8, <1>10, <1>15 DEF AddressInv

(* A frame is mapped.                                                      *)
LEMMA FrameMapped ==
  ASSUME MemoryInv, AddressInv, pc \notin Early, SetEntry, UNCHANGED <<machine, pc>>
  PROVE  AddressInv'
<1>0. TablesInv /\ ExactInv /\ KeptInv /\ machine \in Machines
  BY DEF AddressInv, MemoryInv, LoaderInv, LoaderType
<1> DEFINE h == Head(todo)
           t == Walk(h)[4]
           i0 == Indices(h)[4]
           D == DOMAIN tables
<1>1. h \in Addresses /\ FramesIn(todo) = {h} \union FramesIn(Tail(todo))
      /\ Tail(todo) \in Seq(Addresses)
  BY <1>0, NextFrame DEF SetEntry
<1>2. /\ tables' = [tables EXCEPT ![t][i0] = h] /\ t \in DOMAIN tables
      /\ todo' = Tail(todo) /\ mapped' = mapped \union {h}
      /\ UNCHANGED <<pmm, base, kernel_pml4, exhausted, machine, pc>>
  BY DEF SetEntry
<1>3. /\ Walks[h][4] = t /\ i0 \in 0 .. (Entries - 1)
  BY <1>1, IndicesFit DEF Walks
<1>6. /\ DOMAIN tables \subseteq Nat /\ NULL \notin DOMAIN tables
      /\ NULL \notin Addresses /\ Kept \subseteq Addresses /\ h \in Int
  <2>1. DOMAIN tables \subseteq Nat /\ NULL \notin DOMAIN tables /\ Kept \subseteq Addresses
    BY <1>0, TableFrames, KeptFrames
  <2> HIDE DEF h
  <2>2. NULL \notin Addresses /\ h \in Nat
    BY <1>1, NullIsNoFrame, Zenon
  <2>3. QED BY <2>1, <2>2
<1> HIDE DEF h, t, i0
<1>7. /\ tables' \in [D -> [0 .. (Entries - 1) -> Int \union {NULL}]] /\ DOMAIN tables' = D
      /\ \A x \in D, i \in 0 .. (Entries - 1) :
           tables'[x][i] = IF x = t /\ i = i0 THEN h ELSE tables[x][i]
  <2> DEFINE X == 0 .. (Entries - 1)
  <2>1. tables \in [D -> [X -> Int \union {NULL}]]
    BY <1>0, <1>2 DEF TablesInv
  <2> HIDE DEF X, D
  <2>2. t \in D /\ i0 \in X /\ tables[t] \in [X -> Int \union {NULL}]
    BY <1>2, <1>3, <2>1 DEF X, D
  <2>3. tables' = [x \in D |-> IF x = t THEN [tables[t] EXCEPT ![i0] = h] ELSE tables[x]]
    BY <1>2, <2>1
  <2>4. [tables[t] EXCEPT ![i0] = h] \in [X -> Int \union {NULL}]
        /\ \A i \in X : [tables[t] EXCEPT ![i0] = h][i] = IF i = i0 THEN h ELSE tables[t][i]
    BY <1>6, <2>2
  <2>5. tables' \in [D -> [X -> Int \union {NULL}]] /\ DOMAIN tables' = D
    BY <2>1, <2>3, <2>4
  <2>6. \A x \in D, i \in X : tables'[x][i] = IF x = t /\ i = i0 THEN h ELSE tables[x][i]
    BY <2>3, <2>4
  <2>7. QED BY <2>5, <2>6 DEF X
<1>8. TablesInv'
  BY <1>0, <1>1, <1>2, <1>7 DEF TablesInv, pmm
<1>9. ASSUME ~exhausted
      PROVE  /\ Exact(tables, kernel_pml4, mapped, Walks) /\ Exact(tables', kernel_pml4, mapped', Walks')
             /\ 0 \notin DOMAIN tables'
  <2>1. Exact(tables, kernel_pml4, mapped, Walks) /\ NULL \notin DOMAIN tables
    BY <1>0, <1>6, <1>9 DEF ExactInv
  <2>2. IsWalk(tables', kernel_pml4, Walks') /\ IsWalk(tables, kernel_pml4, Walks)
    BY <1>2, WalksWalk, WalksWalkOn
  <2>3. \A x \in DOMAIN tables, i \in 0 .. (Entries - 1) :
          tables'[x][i] = IF x = Walks[h][4] /\ i = Indices(h)[4] THEN h ELSE tables[x][i]
    BY <1>3, <1>7 DEF i0
  <2>4. Walks[h][4] \in DOMAIN tables /\ DOMAIN tables' = DOMAIN tables /\ h \in Addresses
    BY <1>1, <1>2, <1>3, <1>7
  <2>5. Exact(tables', kernel_pml4, mapped \union {h}, Walks')
    BY <2>1, <2>2, <2>3, <2>4, NewEntry
  <2>6. 0 \notin DOMAIN tables'
    BY <1>0, <1>7, <1>9 DEF TablesInv
  <2>7. QED BY <1>2, <2>1, <2>5, <2>6
<1>10. ExactInv'
  BY <1>2, <1>9 DEF ExactInv
<1>11. Kept' = Kept /\ FramesIn(todo)' = FramesIn(Tail(todo))
       /\ FramesIn(machine.fb)' = FramesIn(machine.fb)
  BY <1>2 DEF Kept, FramesIn
<1>12. ASSUME pc \in PastHeap PROVE h # 0 /\ h \notin DOMAIN tables
  BY <1>0, <1>1, <1>12 DEF KeptInv
<1>13. ASSUME pc \in PastHeap PROVE ZeroLeadsNowhere(tables')
  BY <1>0, <1>7, <1>12, <1>13 DEF ZeroLeadsNowhere, KeptInv
<1>14. ASSUME pc \in PastHeap PROVE Holds(tables', Kept, Walks')
  <2>0. Holds(tables, Kept, Walks)
    BY <1>0, <1>14 DEF KeptInv
  <2>1. DOMAIN tables' \ {0} = DOMAIN tables \ {0} /\ NULL \notin DOMAIN tables'
    BY <1>6, <1>7
  <2>2. \A x \in DOMAIN tables \ {0}, i \in 0 .. (Entries - 1) :
          tables'[x][i] = tables[x][i] \/ tables'[x][i] \notin DOMAIN tables \ {0}
    BY <1>7, <1>12, <1>14
  <2>3. ASSUME NEW f \in Kept, NEW j \in 1 .. 4
        PROVE  tables'[Walks[f][j]][Indices(f)[j]] = tables[Walks[f][j]][Indices(f)[j]]
    <3>1. Walks[f][j] \in DOMAIN tables /\ Indices(f)[j] \in 0 .. (Entries - 1)
          /\ f \in Addresses /\ Walks[f][5] = f
      BY <1>6, <2>0, IndicesFit DEF Holds
    <3>2. CASE Walks[f][j] = t /\ Indices(f)[j] = i0
      <4>1. 4 = j /\ Shares(h, f, j)
        BY <1>1, <1>3, <2>0, <3>2 DEF Holds
      <4>2. Shares(h, f, 4 + 1)
        BY <3>2, <4>1, SharesFacts DEF i0
      <4>3. h = f
        BY <1>1, <3>1, <4>2, SharesFacts
      <4>4. tables[Walks[f][4]][Indices(f)[4]] = Walks[f][4 + 1]
        BY <3>1, <4>1, WalksWalk DEF IsWalk
      <4>5. tables[Walks[f][j]][Indices(f)[j]] = h
        BY <3>1, <4>1, <4>3, <4>4
      <4>6. QED BY <1>7, <3>1, <3>2, <4>5
    <3>3. CASE ~(Walks[f][j] = t /\ Indices(f)[j] = i0)
      BY <1>7, <3>1, <3>3
    <3>4. QED BY <3>2, <3>3
  <2>4. IsWalk(tables', kernel_pml4, Walks')
    BY <1>2, WalksWalkOn
  <2>5. QED BY <1>6, <1>13, <1>14, <2>0, <2>1, <2>2, <2>3, <2>4, StillHolds, WalksWalk
<1>15. KeptInv'
  <2>1. pc' = "map" => FramesIn(machine.fb)' \subseteq mapped' \union FramesIn(todo)'
    BY <1>0, <1>1, <1>2, <1>11 DEF KeptInv
  <2>2. pc' = "heap" /\ ~exhausted' => Kept' \subseteq mapped'
    BY <1>0, <1>2, <1>11 DEF KeptInv
  <2>3. ASSUME pc' \in PastHeap
        PROVE  /\ \A f \in FramesIn(todo)' : f # 0 /\ f \notin DOMAIN tables'
                                               /\ \A p \in free' : f # base' + p
               /\ ZeroLeadsNowhere(tables') /\ Holds(tables', Kept', Walks')
    <3>1. pc \in PastHeap /\ free' = free /\ base' = base
      BY <1>2, <2>3 DEF pmm
    <3>2. \A f \in FramesIn(todo) : f # 0 /\ f \notin DOMAIN tables /\ \A p \in free : f # base + p
      BY <1>0, <3>1 DEF KeptInv
    <3>3. FramesIn(todo)' \subseteq FramesIn(todo)
      BY <1>1, <1>11
    <3>4. \A f \in FramesIn(todo)' : f # 0 /\ f \notin DOMAIN tables' /\ \A p \in free' : f # base' + p
      BY <1>7, <3>1, <3>2, <3>3
    <3>5. QED BY <1>11, <1>13, <1>14, <3>1, <3>4
  <2>4. QED BY <2>1, <2>2, <2>3 DEF KeptInv
<1>16. QED BY <1>8, <1>10, <1>15 DEF AddressInv

LEMMA ConsecutiveFrames ==
  ASSUME NEW from \in Nat, NEW size \in Int, \A i \in 0 .. (size - 1) : from + i \in Addresses
  PROVE  Consecutive(from, size) \in Seq(Addresses)
<1>1. CASE size <= 0
  BY <1>1 DEF Consecutive
<1>2. CASE size > 0
  <2>1. ASSUME NEW i \in 1 .. size PROVE from + i - 1 \in Addresses
    <3>1. i - 1 \in 0 .. (size - 1) /\ from + i - 1 = from + (i - 1)
      OBVIOUS
    <3>2. QED BY <3>1
  <2>2. Consecutive(from, size) \in [1 .. size -> Addresses] /\ size \in Nat
    BY <1>2, <2>1 DEF Consecutive
  <2>3. QED BY <2>2
<1>3. QED BY <1>1, <1>2

LEMMA Below ==
  ASSUME NEW a \in Addresses, NEW f \in Nat, f <= a PROVE f \in Addresses
<1>1. Entries * Entries * Entries * Entries \in Nat
  BY EntriesAssumption
<1>2. QED BY <1>1 DEF Addresses

LEMMA AroundFrames ==
  ASSUME NEW f \in Nat, NEW span \in Nat, f + span \in Addresses
  PROVE  Around(f, span) \in Seq(Addresses)
<1> DEFINE from == IF f > span THEN f - span ELSE 0
<1>1. from \in Nat /\ from <= f /\ f + span + 1 - from \in Int
  OBVIOUS
<1>2. ASSUME NEW i \in 0 .. ((f + span + 1 - from) - 1) PROVE from + i \in Addresses
  <2> HIDE DEF from
  <2>1. from + i \in Nat /\ from + i <= f + span
    BY <1>1
  <2>2. QED BY <2>1, Below
<1>3. Around(f, span) = Consecutive(from, f + span + 1 - from)
  BY DEF Around
<1> HIDE DEF from
<1>4. QED BY <1>1, <1>2, <1>3, ConsecutiveFrames

LEMMA IdentityMapFrames ==
  ASSUME MemoryInv
  PROVE  /\ IdentityMap \in Seq(Addresses) /\ FramesIn(machine.fb) \subseteq FramesIn(IdentityMap)
         /\ {region.base + p : p \in 0 .. (Window - 1)} \subseteq FramesIn(IdentityMap)
<1>1. machine \in Machines /\ region.base \in DOMAIN machine.memory
  BY DEF MemoryInv, LoaderInv, LoaderType
<1>2. {Low, Window, CodeSpan, StackSpan} \subseteq Nat /\ region.base \in Nat
  BY <1>1, SpansAssumption, MapsOfMachines, MachineMemory
<1>3. /\ machine.rip \in Nat /\ machine.rip + CodeSpan \in Addresses
      /\ machine.stack \in Nat /\ machine.stack + StackSpan \in Addresses
      /\ machine.fb \in Seq(Addresses)
      /\ Low \in Addresses /\ region.base + Window \in Addresses
  <2>1. 0 .. Low \subseteq Addresses /\ Low \in 0 .. Low
    BY <1>1, <1>2, AddressesAssumption
  <2>2. QED BY <1>1, <2>1, AddressesAssumption
<1>4. Consecutive(0, Low) \in Seq(Addresses)
  <2>1. ASSUME NEW i \in 0 .. (Low - 1) PROVE 0 + i \in Addresses
    BY <1>2, <1>3, Below
  <2>2. QED BY <1>2, <2>1, ConsecutiveFrames
<1>5. Consecutive(region.base, Window) \in Seq(Addresses)
  <2>1. ASSUME NEW i \in 0 .. (Window - 1) PROVE region.base + i \in Addresses
    <3>1. region.base + i \in Nat /\ region.base + i <= region.base + Window
      BY <1>2
    <3>2. QED BY <1>3, <3>1, Below
  <2>2. region.base \in Nat /\ Window \in Int
    BY <1>2
  <2>3. QED BY <2>1, <2>2, ConsecutiveFrames, Zenon
<1>6. Around(machine.rip, CodeSpan) \in Seq(Addresses)
      /\ Around(machine.stack, StackSpan) \in Seq(Addresses)
  BY <1>2, <1>3, AroundFrames
<1> DEFINE a == Consecutive(0, Low) \o Consecutive(region.base, Window)
           b == Around(machine.rip, CodeSpan)
           c == Around(machine.stack, StackSpan)
<1>7. a \in Seq(Addresses)
  BY <1>4, <1>5
<1>8. IdentityMap = ((a \o machine.fb) \o b) \o c
  BY DEF IdentityMap
<1>9. b \in Seq(Addresses) /\ c \in Seq(Addresses)
  BY <1>6
<1> HIDE DEF a, b, c
<1>10. ASSUME NEW s \in Seq(Addresses), NEW u \in Seq(Addresses)
       PROVE  /\ s \o u \in Seq(Addresses)
              /\ FramesIn(s) \subseteq FramesIn(s \o u) /\ FramesIn(u) \subseteq FramesIn(s \o u)
  <2>1. /\ s \o u \in Seq(Addresses) /\ DOMAIN (s \o u) = 1 .. (Len(s) + Len(u))
        /\ DOMAIN s = 1 .. Len(s) /\ DOMAIN u = 1 .. Len(u) /\ Len(s) \in Nat /\ Len(u) \in Nat
        /\ \A i \in 1 .. Len(s) : (s \o u)[i] = s[i]
        /\ \A i \in 1 .. Len(u) : (s \o u)[Len(s) + i] = u[i]
    OBVIOUS
  <2>2. ASSUME NEW f \in FramesIn(s) PROVE f \in FramesIn(s \o u)
    <3>1. PICK i \in 1 .. Len(s) : f = s[i]
      BY <2>1 DEF FramesIn
    <3>2. i \in DOMAIN (s \o u) /\ (s \o u)[i] = f
      BY <2>1, <3>1
    <3>3. QED BY <3>2 DEF FramesIn
  <2>3. ASSUME NEW f \in FramesIn(u) PROVE f \in FramesIn(s \o u)
    <3>1. PICK i \in 1 .. Len(u) : f = u[i]
      BY <2>1 DEF FramesIn
    <3>2. Len(s) + i \in DOMAIN (s \o u) /\ (s \o u)[Len(s) + i] = f
      BY <2>1, <3>1
    <3>3. QED BY <3>2 DEF FramesIn
  <2>4. QED BY <2>1, <2>2, <2>3
<1>11. {region.base + p : p \in 0 .. (Window - 1)} \subseteq FramesIn(a)
  <2> DEFINE w == Consecutive(region.base, Window)
             l == Consecutive(0, Low)
  <2>1. ASSUME NEW p \in 0 .. (Window - 1) PROVE region.base + p \in FramesIn(w)
    <3>1. p + 1 \in 1 .. Window /\ region.base + (p + 1) - 1 = region.base + p
      BY <1>2
    <3>2. p + 1 \in DOMAIN w /\ w[p + 1] = region.base + p
      BY <3>1 DEF Consecutive
    <3>3. QED BY <3>2 DEF FramesIn
  <2>2. l \in Seq(Addresses) /\ w \in Seq(Addresses) /\ a = l \o w
    BY <1>4, <1>5 DEF a
  <2> HIDE DEF l, w
  <2>3. FramesIn(w) \subseteq FramesIn(l \o w)
    BY <1>10, <2>2
  <2>4. QED BY <2>1, <2>2, <2>3
<1>12. a \o machine.fb \in Seq(Addresses) /\ FramesIn(machine.fb) \subseteq FramesIn(a \o machine.fb)
       /\ FramesIn(a) \subseteq FramesIn(a \o machine.fb)
  BY <1>3, <1>7, <1>10
<1> DEFINE d == a \o machine.fb
<1> HIDE DEF d
<1>13. d \o b \in Seq(Addresses) /\ FramesIn(d) \subseteq FramesIn(d \o b)
  BY <1>9, <1>10, <1>12 DEF d
<1> DEFINE e == d \o b
<1> HIDE DEF e
<1>14. e \o c \in Seq(Addresses) /\ FramesIn(e) \subseteq FramesIn(e \o c)
  BY <1>9, <1>10, <1>13 DEF e
<1>15. IdentityMap = e \o c
  BY <1>8 DEF d, e
<1>16. FramesIn(machine.fb) \subseteq FramesIn(IdentityMap) /\ FramesIn(a) \subseteq FramesIn(IdentityMap)
  BY <1>12, <1>13, <1>14, <1>15 DEF d, e
<1>17. QED BY <1>11, <1>14, <1>15, <1>16

LEMMA TablesSetUp == MemoryInv /\ MemoryInv' /\ SetUpTables => AddressInv'
<1>. SUFFICES ASSUME MemoryInv, MemoryInv', SetUpTables PROVE AddressInv'
  OBVIOUS
<1> DEFINE n == Frame(result')
<1>1. /\ pc = "vmm_init" /\ pc' = "map" /\ AllocatePage /\ todo' = IdentityMap
      /\ kernel_pml4' = n /\ tables' = Cleared(n)
      /\ UNCHANGED <<base, mapped, cr3, machine, loader>>
  BY DEF SetUpTables, At, VMM_Init
<1>2. pc \in Early /\ pc' \notin Early /\ pc' \notin PastHeap
  BY <1>1 DEF Early, PastHeap, Uses
<1>3. tables = << >> /\ mapped = {} /\ AddressInv /\ TablesInv
  BY <1>2, EarlyAddresses DEF MemoryInv, HandedInv, AddressInv
<1>4. /\ n \in Nat
      /\ \/ exhausted' /\ n = 0 /\ UNCHANGED held
         \/ ~exhausted' /\ n # 0 /\ \E p \in free : n = base + p /\ held' = held \union {p}
  BY <1>1, <1>3, TablePage
<1> HIDE DEF n
<1>5. tables' = [f \in {n} |-> EmptyTable] /\ DOMAIN tables' = {n} /\ tables'[n] = EmptyTable
  <2>1. DOMAIN tables = {}
    BY <1>3
  <2>2. tables' = [f \in {n} |-> IF f = n THEN EmptyTable ELSE tables[f]]
    BY <1>1, <2>1 DEF Cleared
  <2>3. QED BY <2>2
<1>6. TablesInv'
  <2>1. EmptyTable \in [0 .. (Entries - 1) -> Int \union {NULL}]
    BY DEF EmptyTable
  <2>2. tables' \in [DOMAIN tables' -> [0 .. (Entries - 1) -> Int \union {NULL}]]
    BY <1>5, <2>1
  <2>3. todo' \in Seq(Addresses)
    BY <1>1, IdentityMapFrames
  <2>4. DOMAIN tables' \subseteq {0} \union {base' + p : p \in held'}
    BY <1>1, <1>4, <1>5
  <2>5. ~exhausted' => 0 \notin DOMAIN tables'
    BY <1>4, <1>5
  <2>6. QED BY <2>2, <2>3, <2>4, <2>5 DEF TablesInv
<1>7. ExactInv'
  <2>1. ASSUME ~exhausted' PROVE Exact(tables', kernel_pml4', mapped', Walks')
    <3>1. IsWalk(tables', n, Walks') /\ n # NULL /\ mapped' = {}
      BY <1>1, <1>3, <1>4, NullIsNoFrame, WalksWalkOn
    <3>2. Exact(tables', n, {}, Walks')
      BY <1>5, <3>1, TopTable
    <3>3. QED BY <1>1, <3>1, <3>2
  <2>2. QED BY <2>1 DEF ExactInv
<1>8. KeptInv'
  <2>1. FramesIn(machine.fb)' \subseteq FramesIn(todo)'
    BY <1>1, IdentityMapFrames DEF FramesIn
  <2>2. QED BY <1>1, <1>2, <2>1 DEF KeptInv
<1>9. QED BY <1>6, <1>7, <1>8 DEF AddressInv

LEMMA AddressStep ==
  ASSUME BootInv, MemoryInv', AddressInv, [Next]_vars
  PROVE  AddressInv'
<1>0. /\ MemoryInv /\ LoaderInv /\ HandedInv /\ ManagerInv /\ ScanInv /\ machine \in Machines
      /\ TablesInv /\ ExactInv /\ KeptInv /\ HandedInv'
  BY DEF BootInv, MemoryInv, AddressInv, LoaderInv, LoaderType
<1>1. CASE pc' \in Early
  BY <1>0, <1>1, EarlyAddressesOn
<1>2. CASE UNCHANGED <<machine, pmm, vmm, pc>>
  <2>1. Walks' = Walks /\ Kept' = Kept /\ FramesIn(todo)' = FramesIn(todo)
        /\ FramesIn(machine.fb)' = FramesIn(machine.fb)
    BY <1>2 DEF Walks, Walk, Entry, Kept, FramesIn, vmm
  <2>2. TablesInv' /\ ExactInv' /\ KeptInv'
    BY <1>0, <1>2, <2>1 DEF TablesInv, ExactInv, KeptInv, pmm, vmm
  <2>3. QED BY <2>2 DEF AddressInv
<1>3. CASE LoaderStep /\ UNCHANGED <<pmm, vmm, pc, xhci>>
  BY <1>2, <1>3 DEF LoaderStep
<1>4. CASE FirmwareTakes /\ UNCHANGED <<pmm, vmm, pc, xhci>>
  BY <1>2, <1>4 DEF FirmwareTakes
<1>5. ASSUME NEW c \in Controllers, HcStep(c) PROVE AddressInv'
  BY <1>2, <1>5 DEF HcStep
<1>6. CASE UNCHANGED vars
  BY <1>2, <1>6 DEF vars
<1>7. CASE Kernel /\ pc' \notin Early
  <2>1. CASE EnterKernel \/ SetUpMemory
    BY <1>1, <2>1 DEF EnterKernel, SetUpMemory, At, Early
  <2>2. CASE SetUpTables
    BY <1>0, <2>2, TablesSetUp
  \* Where the tables are kept, or filled.
  <2>a. ASSUME pc \in {"map", "heap"} \union PastHeap PROVE pc \notin Early
    BY <2>a DEF Early, PastHeap, Uses
  <2>3. CASE MapPage
    <3>1. pc \notin Early /\ UNCHANGED <<machine, pc>>
      BY <2>3, <2>a DEF MapPage, PastHeap
    <3>2. QED BY <1>0, <2>3, <3>1, TableAdded, FrameMapped DEF MapPage, VMM_MapPage
  <2>4. CASE Activate
    <3>1. /\ pc = "map" /\ todo = << >> /\ pc' \in {"heap", "crashed"} /\ todo' = todo
          /\ pc' = "heap" => \A f \in machine.image \union {machine.stack} : Translate(f) = f
          /\ UNCHANGED <<machine, tables, kernel_pml4, mapped, base, held, free, exhausted>>
      BY <2>4 DEF Activate, VMM_Activate, pmm
    <3>2. pc \notin Early /\ pc' \notin PastHeap /\ todo' \in Seq(Addresses)
      BY <1>0, <2>a, <3>1 DEF PastHeap, Uses, TablesInv
    <3>3. ASSUME pc' = "heap", ~exhausted' PROVE Kept \subseteq mapped
      <4>1. FramesIn(machine.fb) \subseteq mapped
        BY <1>0, <3>1 DEF KeptInv, FramesIn
      <4>2. ASSUME NEW f \in machine.image \union {machine.stack} PROVE f \in mapped
        <5>1. f \in Addresses /\ f # NULL
          BY <1>0, MachineFrames, NullIsNoFrame
        <5>2. Walks[f][5] = f
          BY <3>1, <3>3, <5>1 DEF Walks, Translate
        <5>3. Exact(tables, kernel_pml4, mapped, Walks)
          BY <1>0, <3>1, <3>2, <3>3 DEF ExactInv
        <5>4. QED BY <5>1, <5>2, <5>3 DEF Exact
      <4>3. QED BY <4>1, <4>2 DEF Kept
    <3>4. pc' # "map"
      BY <3>1
    <3>5. QED BY <1>0, <1>7, <3>1, <3>2, <3>3, <3>4, TablesStay
  <2>5. CASE GoAstray
    <3>1. /\ pc \in {"map", "heap"} \union PastHeap /\ pc' = "crashed" /\ todo' = todo
          /\ UNCHANGED <<machine, tables, kernel_pml4, mapped, base, held, free, exhausted>>
      BY <2>5 DEF GoAstray, pmm, vmm, PastHeap
    <3>2. pc' \notin PastHeap /\ todo' \in Seq(Addresses)
      BY <1>0, <3>1 DEF PastHeap, Uses, TablesInv
    <3>3. QED BY <1>0, <1>7, <2>a, <3>1, <3>2, TablesStay
  <2>6. CASE AllocateHeap
    <3>1. /\ pc = "heap" /\ AllocatePage
          /\ UNCHANGED <<machine, base, kernel_pml4, tables, mapped>>
          /\ \/ result' = NULL /\ pc' = "fatal" /\ todo' = todo
             \/ result' # NULL /\ pc' = "heap_map" /\ todo' = <<Frame(result')>>
      BY <2>6 DEF AllocateHeap
    <3>2. pc \notin Early /\ pc' # "map" /\ pc' # "heap" /\ "fatal" \notin PastHeap
      BY <2>a, <3>1 DEF PastHeap, Uses
    <3>3. CASE NoneGiven
      <4>1. pc' = "fatal" /\ todo' = todo /\ held' = held /\ free' \subseteq free /\ exhausted'
        BY <3>1, <3>3 DEF NoneGiven
      <4>2. todo' \in Seq(Addresses)
        BY <1>0, <4>1 DEF TablesInv
      <4>3. QED BY <1>0, <1>7, <3>1, <3>2, <4>1, <4>2, TablesStay
    <3>4. ASSUME NEW p \in free, GivenPage(p) PROVE AddressInv'
      <4>1. p \in Nat \ {0} /\ base + p \in Nat \ {0} /\ base + p \notin DOMAIN tables
            /\ \A q \in free : q \in Nat
        BY <1>0, <3>4, TableFrames
      <4>2. result' = p /\ p # NULL /\ exhausted' = exhausted /\ ~exhausted
            /\ held' = held \union {p} /\ free' = free \ {p}
        BY <1>0, <3>4, <4>1, NullIsNoFrame DEF GivenPage, ManagerInv
      <4>3. Frame(result') = base + p /\ todo' = <<base + p>> /\ pc' = "heap_map"
        BY <3>1, <4>2 DEF Frame
      <4>4. base + p \in Addresses
        <5>1. base + p \in DOMAIN machine.memory
          BY <1>0, <3>4, Sizes DEF ManagerInv
        <5>2. base + p + Window \in Addresses /\ Window \in Nat
          BY <1>0, <5>1, AddressesAssumption, SpansAssumption
        <5>3. base + p <= base + p + Window
          BY <4>1, <5>2
        <5>4. QED BY <4>1, <5>2, <5>3, Below
      <4>5. todo' \in Seq(Addresses) /\ FramesIn(todo') = {base + p}
        BY <4>3, <4>4 DEF FramesIn
      <4>6. \A h \in FramesIn(todo') : h # 0 /\ h \notin DOMAIN tables
                                         /\ \A q \in free' : h # base + q
        <5>1. ASSUME NEW q \in free' PROVE base + p # base + q
          <6>1. base \in Nat /\ q \in Nat /\ q # p
            BY <1>0, <4>1, <4>2, Sizes
          <6>2. QED BY <4>1, <6>1
        <5>2. QED BY <4>1, <4>5, <5>1
      <4>7. Kept \subseteq mapped
        BY <1>0, <3>1, <4>2 DEF KeptInv
      <4>8. held \subseteq held' /\ free' \subseteq free
        BY <4>2
      <4>9. QED BY <1>0, <1>7, <3>1, <3>2, <4>2, <4>5, <4>6, <4>7, <4>8, TablesStay
    <3>5. QED BY <1>0, <3>1, <3>3, <3>4, Requested
  <2>7. CASE ReadFunction
    <3>1. /\ pc = "pci" /\ at[1] <= Len(machine.pci) /\ pc' \in {"pci", "mmio"}
          /\ UNCHANGED <<machine, base, kernel_pml4, tables, mapped, held, free, exhausted>>
          /\ \/ todo' = todo
             \/ /\ Function(at[1], at[2]).kind = "xhci"
                /\ todo' = machine.controllers[Function(at[1], at[2]).ctrl].mmio
      BY <2>7 DEF ReadFunction, pmm
    <3>2. pc \in PastHeap /\ pc \notin Early /\ pc' # "map" /\ pc' # "heap"
      BY <3>1 DEF PastHeap, Early
    <3>3. CASE todo' = todo
      <4>1. todo' \in Seq(Addresses)
            /\ \A h \in FramesIn(todo') : h # 0 /\ h \notin DOMAIN tables /\ \A p \in free' : h # base + p
        BY <1>0, <3>1, <3>2, <3>3 DEF KeptInv, TablesInv
      <4>2. QED BY <1>0, <1>7, <3>1, <3>2, <4>1, TablesStay
    <3>4. ASSUME NEW c \in Controllers, todo' = machine.controllers[c].mmio PROVE AddressInv'
      <4>1. todo' \in Seq(Addresses \ DOMAIN machine.memory)
        BY <1>0, <3>4, MachineControllers DEF Controllers
      <4>2. todo' \in Seq(Addresses)
            /\ \A h \in FramesIn(todo') : h \notin DOMAIN machine.memory
        BY <4>1 DEF FramesIn
      <4>3. 0 \in DOMAIN machine.memory
        BY <1>0, MapsOfMachines, MachineMemory
      <4>4. \A p \in free \union held : base + p \in DOMAIN machine.memory
        BY <1>0, Sizes DEF ManagerInv
      <4>5. DOMAIN tables \subseteq DOMAIN machine.memory
        BY <1>0, <4>3, <4>4 DEF TablesInv
      <4>6. \A h \in FramesIn(todo') : h # 0 /\ h \notin DOMAIN tables /\ \A p \in free' : h # base + p
        BY <3>1, <4>2, <4>3, <4>4, <4>5
      <4>7. QED BY <1>0, <1>7, <3>1, <3>2, <4>2, <4>6, TablesStay
    <3>5. QED BY <1>0, <3>1, <3>3, <3>4, Found
  <2>8. CASE AllocateTables
    <3>1. /\ pc \in Uses /\ pc' \in Uses \union {"start"} /\ AllocatePage /\ todo' = todo
          /\ UNCHANGED <<machine, base, kernel_pml4, tables, mapped>>
      BY <2>8, NextUses DEF AllocateTables
    <3>2. pc \in PastHeap /\ pc \notin Early /\ pc' # "map" /\ pc' # "heap"
      BY <3>1 DEF PastHeap, Early, Uses
    <3>3. /\ held \subseteq held' /\ free' \subseteq free /\ (~exhausted' => ~exhausted)
      BY <1>0, <3>1, TablePage
    <3>4. todo' \in Seq(Addresses)
          /\ \A h \in FramesIn(todo') : h # 0 /\ h \notin DOMAIN tables /\ \A p \in free' : h # base + p
      BY <1>0, <3>1, <3>2, <3>3 DEF KeptInv, TablesInv
    <3>5. QED BY <1>0, <1>7, <3>1, <3>2, <3>3, <3>4, TablesStay
  <2>9. CASE HeapMapped \/ ScanDone \/ StopController \/ ResetController \/ ControllerReset
             \/ StartController
    <3>1. /\ pc \in PastHeap /\ pc' # "map" /\ pc' # "heap" /\ todo' = todo
          /\ UNCHANGED <<machine, base, kernel_pml4, tables, mapped, held, free, exhausted>>
      BY <2>9 DEF HeapMapped, ScanDone, StopController, ResetController, ControllerReset,
                  StartController, At, pmm, vmm, PastHeap, Uses
    <3>2. pc \notin Early
      BY <2>a, <3>1
    <3>3. todo' \in Seq(Addresses)
          /\ \A h \in FramesIn(todo') : h # 0 /\ h \notin DOMAIN tables /\ \A p \in free' : h # base + p
      BY <1>0, <3>1 DEF KeptInv, TablesInv
    <3>4. QED BY <1>0, <1>7, <3>1, <3>2, <3>3, TablesStay
  <2>10. QED BY <1>7, <2>1, <2>2, <2>3, <2>4, <2>5, <2>6, <2>7, <2>8, <2>9 DEF Kernel
<1>8. QED BY <1>1, <1>3, <1>4, <1>5, <1>6, <1>7 DEF Next, Program

-----------------------------------------------------------------------------
(* The pages of the controllers.                                           *)

(* What the i-th page of a controller is for.                              *)
UseOf(c, i) ==
  LET count == machine.controllers[c].scratchpads
      rest == IF count = 0 THEN i - 1 ELSE i - (count + 2)
  IN  IF i = 1 THEN "dcbaa"
      ELSE IF count # 0 /\ i = 2 THEN "array"
      ELSE IF rest <= 0 THEN "buffer"
      ELSE IF rest = 1 THEN "command"
      ELSE IF rest = 2 THEN "event"
      ELSE IF rest = 3 THEN "erst"
      ELSE "start"

(* A controller's pages are in the order of their uses and, as long as     *)
(* there are some, one behind the other: the last is the last given out.   *)
PagesInv ==
  /\ pages \in [Controllers -> Seq([use : Uses, frame : Int])]
  /\ \A c \in Controllers : \A i \in DOMAIN pages[c] :
       /\ pages[c][i].use = UseOf(c, i)
       /\ ~exhausted => pages[c][i].frame = pages[c][1].frame + (i - 1)
  /\ pc \in Uses \union {"start"} => pc = UseOf(ctrl, Len(pages[ctrl]) + 1)
  /\ pc \in Uses /\ pages[ctrl] # << >> /\ ~exhausted =>
       \E p \in held : /\ \A q \in held : q <= p
                       /\ pages[ctrl][Len(pages[ctrl])].frame = base + p

LEMMA UsesInOrder ==
  ASSUME NEW c, NEW count \in Nat, count = machine.controllers[c].scratchpads, NEW i \in Nat \ {0}
  PROVE  /\ UseOf(c, i) = "buffer" <=> 3 <= i /\ i <= count + 2 /\ count # 0
         /\ UseOf(c, i) = "array" <=> count # 0 /\ i = 2
         /\ UseOf(c, i) = "dcbaa" <=> i = 1
         /\ UseOf(c, i) = "dcbaa" => UseOf(c, i + 1) = IF count > 0 THEN "array" ELSE "command"
         /\ UseOf(c, i) = "array" => UseOf(c, i + 1) = "buffer"
         /\ UseOf(c, i) = "buffer" => UseOf(c, i + 1) = IF i < count + 2 THEN "buffer" ELSE "command"
         /\ UseOf(c, i) = "command" => UseOf(c, i + 1) = "event"
         /\ UseOf(c, i) = "event" => UseOf(c, i + 1) = "erst"
         /\ UseOf(c, i) = "erst" => UseOf(c, i + 1) = "start"
BY DEF UseOf

LEMMA PagesOf ==
  ASSUME PagesInv, machine \in Machines, NEW c \in Controllers
  PROVE  /\ Len(pages[c]) \in Nat /\ DOMAIN pages[c] = 1 .. Len(pages[c])
         /\ machine.controllers[c].scratchpads \in Nat
         /\ \A i \in DOMAIN pages[c] : pages[c][i].frame \in Int
<1> DEFINE R == [use : Uses, frame : Int]
<1>1. pages[c] \in Seq(R)
  BY DEF PagesInv
<1>2. \A r \in R : r.frame \in Int
  OBVIOUS
<1> HIDE DEF R
<1>3. /\ Len(pages[c]) \in Nat /\ DOMAIN pages[c] = 1 .. Len(pages[c])
      /\ \A i \in DOMAIN pages[c] : pages[c][i] \in R
  BY <1>1
<1>4. machine.controllers[c].scratchpads \in Nat
  BY MachineControllers DEF Controllers
<1>5. QED BY <1>2, <1>3, <1>4

LEMMA CardinalityFromThree ==
  ASSUME NEW n \in Nat, 2 <= n PROVE Cardinality(3 .. n) = n - 2
<1>1. CASE n = 2
  <2>1. 3 .. n = {}
    BY <1>1
  <2>2. QED BY <1>1, <2>1, FS_EmptySet
<1>2. CASE n # 2
  <2>1. 3 \in Int /\ n \in Int /\ ~(3 > n)
    BY <1>2
  <2>2. Cardinality(3 .. n) = n - 3 + 1
    BY <2>1, FS_Interval
  <2>3. QED BY <2>2
<1>3. QED BY <1>1, <1>2

(* The scratchpad buffers a controller has been given.                     *)
LEMMA Buffers ==
  ASSUME PagesInv, machine \in Machines, NEW c \in Controllers,
         NEW n \in Nat, n = Len(pages[c]),
         NEW count \in Nat, count = machine.controllers[c].scratchpads
  PROVE  /\ Given(c, "buffer") = {i \in 3 .. n : i <= count + 2 /\ count # 0}
         /\ count # 0 /\ 2 <= n /\ n <= count + 2 => Cardinality(Given(c, "buffer")) = n - 2
         /\ count # 0 /\ count + 2 < n => Cardinality(Given(c, "buffer")) = count
<1>1. DOMAIN pages[c] = 1 .. n
  BY PagesOf
<1>2. Given(c, "buffer") = {i \in 3 .. n : i <= count + 2 /\ count # 0}
  <2>1. ASSUME NEW i \in 1 .. n
        PROVE  pages[c][i].use = "buffer" <=> 3 <= i /\ i <= count + 2 /\ count # 0
    <3>1. pages[c][i].use = UseOf(c, i)
      BY <1>1 DEF PagesInv
    <3>2. i \in Nat \ {0}
      OBVIOUS
    <3>3. UseOf(c, i) = "buffer" <=> 3 <= i /\ i <= count + 2 /\ count # 0
      BY <3>2, UsesInOrder
    <3>4. QED BY <3>1, <3>3
  <2>2. Given(c, "buffer") = {i \in 1 .. n : pages[c][i].use = "buffer"}
    BY <1>1 DEF Given
  <2>3. QED BY <2>1, <2>2
<1>3. ASSUME count # 0, 2 <= n, n <= count + 2 PROVE Cardinality(Given(c, "buffer")) = n - 2
  <2>1. {i \in 3 .. n : i <= count + 2 /\ count # 0} = 3 .. n
    BY <1>3
  <2>2. QED BY <1>2, <1>3, <2>1, CardinalityFromThree
<1>4. ASSUME count # 0, count + 2 < n PROVE Cardinality(Given(c, "buffer")) = count
  <2>1. {i \in 3 .. n : i <= count + 2 /\ count # 0} = 3 .. (count + 2)
    BY <1>4
  <2>2. count + 2 \in Nat /\ 2 <= count + 2 /\ (count + 2) - 2 = count
    OBVIOUS
  <2>3. Cardinality(3 .. (count + 2)) = count
    BY <2>2, CardinalityFromThree
  <2>4. Given(c, "buffer") = 3 .. (count + 2)
    BY <1>2, <2>1
  <2>5. QED BY <2>3, <2>4
<1>5. QED BY <1>2, <1>3, <1>4

LEMMA InOrder ==
  ASSUME PagesInv, ControllerInv, machine \in Machines, pc \in Uses
  PROVE  NextUse(pc) = UseOf(ctrl, Len(pages[ctrl]) + 2)
<1> DEFINE n == Len(pages[ctrl])
           count == machine.controllers[ctrl].scratchpads
           i == n + 1
<1>1. ctrl \in Controllers /\ pc = UseOf(ctrl, n + 1)
  BY DEF ControllerInv, PagesInv
<1>2. /\ n \in Nat /\ count \in Nat
      /\ count # 0 /\ 2 <= n /\ n <= count + 2 => Cardinality(Given(ctrl, "buffer")) = n - 2
  BY <1>1, Buffers, PagesOf
<1>3. Scratchpads = count
  BY DEF Scratchpads
<1> HIDE DEF n, count
<1>4. i \in Nat \ {0} /\ i + 1 = n + 2
  BY <1>2
<1> HIDE DEF i
<1>5. count = machine.controllers[ctrl].scratchpads /\ pc = UseOf(ctrl, i)
  BY <1>1 DEF count, i
<1>6. CASE pc = "buffer"
  <2>1. 3 <= i /\ i <= count + 2 /\ count # 0
        /\ UseOf(ctrl, i + 1) = IF i < count + 2 THEN "buffer" ELSE "command"
    <3>1. count \in Nat /\ i \in Nat \ {0} /\ count = machine.controllers[ctrl].scratchpads
      BY <1>2, <1>4, <1>5
    <3>2. UseOf(ctrl, i) = "buffer"
      BY <1>5, <1>6
    <3>3. 3 <= i /\ i <= count + 2 /\ count # 0
      BY <3>1, <3>2, UsesInOrder
    <3>4. UseOf(ctrl, i + 1) = IF i < count + 2 THEN "buffer" ELSE "command"
      BY <3>1, <3>2, UsesInOrder
    <3>5. QED BY <3>3, <3>4
  <2>2. Cardinality(Given(ctrl, "buffer")) = n - 2
    BY <1>2, <2>1 DEF i
  <2>3. NextUse(pc) = IF (n - 2) + 1 < count THEN "buffer" ELSE "command"
    BY <1>3, <1>6, <2>2 DEF NextUse
  <2>4. (n - 2) + 1 < count <=> i < count + 2
    BY <1>2 DEF i
  <2>5. QED BY <1>4, <2>1, <2>3, <2>4 DEF n
<1>7. CASE pc # "buffer"
  <2>1. NextUse(pc) = UseOf(ctrl, i + 1)
    <3>1. pc \in {"dcbaa", "array", "command", "event", "erst"}
      BY <1>7 DEF Uses
    <3>2. NextUse(pc) = CASE pc = "dcbaa" -> IF count > 0 THEN "array" ELSE "command"
                          [] pc = "array" -> "buffer"
                          [] pc = "command" -> "event"
                          [] pc = "event" -> "erst"
                          [] pc = "erst" -> "start"
      BY <1>3, <3>1 DEF NextUse
    <3>3. /\ pc = "dcbaa" => UseOf(ctrl, i + 1) = IF count > 0 THEN "array" ELSE "command"
          /\ pc = "array" => UseOf(ctrl, i + 1) = "buffer"
          /\ pc = "command" => UseOf(ctrl, i + 1) = "event"
          /\ pc = "event" => UseOf(ctrl, i + 1) = "erst"
          /\ pc = "erst" => UseOf(ctrl, i + 1) = "start"
      BY <1>2, <1>4, <1>5, UsesInOrder
    <3>4. QED BY <3>1, <3>2, <3>3
  <2>2. QED BY <1>4, <2>1 DEF n
<1>8. QED BY <1>6, <1>7

(* Pages are given out one behind the other.                               *)
LEMMA OneBehindTheOther ==
  ASSUME MemoryInv, pc \in Uses, NEW q \in held, \A r \in held : r <= q,
         NEW p \in free, GivenPage(p)
  PROVE  p = q + 1 /\ \A r \in held' : r <= p
<1>0. LoaderInv /\ HandedInv /\ ManagerInv
  BY DEF MemoryInv
<1>1. /\ p \in Nat /\ q \in Nat /\ q < p /\ Pmm!Reserved(max_pages) \in Nat /\ max_pages \in Nat
      /\ Pmm!Reserved(max_pages) <= q /\ p \in Pmm!Page
      /\ \A r \in held : r \in Nat
  BY <1>0, Sizes DEF ManagerInv
<1>2. q + 1 \in Pmm!Page
  BY <1>1 DEF Pmm!Page
<1>3. q + 1 \in free \union held
  <2>1. pc \notin {"loader", "pmm_init", "pmm_free"}
    BY DEF Uses
  <2>2. Pmm!Reserved(max_pages) <= q + 1
    BY <1>1
  <2>3. QED BY <1>0, <1>2, <2>1, <2>2 DEF ManagerInv
<1>4. q + 1 \notin held
  BY <1>1
<1>5. p <= q + 1
  BY <1>3, <1>4 DEF GivenPage
<1>6. p = q + 1
  BY <1>1, <1>5
<1>7. \A r \in held' : r <= p
  BY <1>1, <1>6 DEF GivenPage
<1>8. QED BY <1>6, <1>7

LEMMA PagesStep ==
  ASSUME BootInv, PagesInv, [Next]_vars
  PROVE  PagesInv'
<1>0. machine \in Machines /\ MemoryInv /\ ControllerInv /\ ScanInv /\ ManagerInv /\ LoaderInv /\ HandedInv
  BY DEF BootInv, MemoryInv, LoaderInv, LoaderType
<1>1. machine' = machine /\ Controllers' = Controllers
  <2>1. machine' = machine
    BY KernelControllers DEF Elsewhere, ReadFunction, ScanDone, StopController, ResetController,
         ControllerReset, AllocateTables, StartController, HcStep
  <2>2. QED BY <2>1 DEF Controllers
<1>2. /\ \A c, i : UseOf(c, i)' = UseOf(c, i)
      /\ UseOf(ctrl, Len(pages[ctrl]) + 1)' = UseOf(ctrl', Len(pages'[ctrl']) + 1)
  BY <1>1 DEF UseOf
<1>3. ASSUME pages' = pages, ~exhausted' => ~exhausted,
             pc' \in Uses \union {"start"} => pc' = UseOf(ctrl', Len(pages[ctrl']) + 1),
             pc' \in Uses /\ pages[ctrl'] # << >> =>
               pc' = pc /\ ctrl' = ctrl /\ UNCHANGED <<held, base, exhausted>>
      PROVE  PagesInv'
  <2>1. pages' \in [Controllers' -> Seq([use : Uses, frame : Int])]
    BY <1>1, <1>3 DEF PagesInv
  <2>2. ASSUME NEW c \in Controllers', NEW i \in DOMAIN pages'[c]
        PROVE  /\ pages'[c][i].use = UseOf(c, i)'
               /\ ~exhausted' => pages'[c][i].frame = pages'[c][1].frame + (i - 1)
    BY <1>1, <1>2, <1>3 DEF PagesInv
  <2>3. pc' \in Uses \union {"start"} => pc' = UseOf(ctrl, Len(pages[ctrl]) + 1)'
    BY <1>2, <1>3
  <2>4. pc' \in Uses /\ pages'[ctrl'] # << >> /\ ~exhausted' =>
          \E p \in held' : /\ \A q \in held' : q <= p
                           /\ pages'[ctrl'][Len(pages'[ctrl'])].frame = base' + p
    BY <1>3 DEF PagesInv
  <2>5. QED BY <2>1, <2>2, <2>3, <2>4 DEF PagesInv
<1>4. CASE Elsewhere
  <2>1. pages' = pages /\ ctrl' = ctrl /\ (~exhausted' => ~exhausted)
        /\ (pc' \in Uses \union {"start"} => pc' = pc)
        /\ (pc \in Uses => UNCHANGED <<held, base, exhausted>>)
    BY <1>4 DEF Elsewhere, xhci, pmm, vmm
  <2>2. QED BY <1>3, <2>1 DEF PagesInv
<1>5. CASE ReadFunction
  <2>0. at[1] <= Len(machine.pci) /\ pc' \in {"pci", "mmio"} /\ pc = "pci" /\ exhausted' = exhausted
    BY <1>5 DEF ReadFunction
  <2>1. CASE Function(at[1], at[2]).kind = "xhci"
    <3>1. PICK d \in Controllers : pages' = [pages EXCEPT ![d] = << >>]
      BY <1>0, <1>5, <2>0, <2>1, Found DEF ReadFunction
    <3>2. /\ pages' \in [Controllers -> Seq([use : Uses, frame : Int])]
          /\ pages'[d] = << >> /\ \A c \in Controllers : c # d => pages'[c] = pages[c]
      <4> DEFINE R == [use : Uses, frame : Int]
      <4>1. pages \in [Controllers -> Seq(R)]
        BY DEF PagesInv
      <4> HIDE DEF R
      <4>2. << >> \in Seq(R)
        OBVIOUS
      <4>3. pages' \in [Controllers -> Seq(R)]
        BY <3>1, <4>1, <4>2
      <4>4. pages'[d] = << >> /\ \A c \in Controllers : c # d => pages'[c] = pages[c]
        BY <3>1, <4>1
      <4>5. QED BY <4>3, <4>4 DEF R
    <3>3. ASSUME NEW c \in Controllers', NEW i \in DOMAIN pages'[c]
          PROVE  /\ pages'[c][i].use = UseOf(c, i)'
                 /\ ~exhausted' => pages'[c][i].frame = pages'[c][1].frame + (i - 1)
      <4>1. c # d
        BY <3>2, <3>3
      <4>2. QED BY <1>1, <1>2, <2>0, <3>2, <3>3, <4>1 DEF PagesInv
    <3>4. pc' \notin Uses \union {"start"}
      BY <2>0 DEF Uses
    <3>5. QED BY <1>1, <3>2, <3>3, <3>4 DEF PagesInv, Uses
  <2>2. CASE Function(at[1], at[2]).kind # "xhci"
    <3>1. pages' = pages /\ pc' = pc
      BY <1>5, <2>2 DEF ReadFunction
    <3>2. QED BY <1>3, <2>0, <3>1 DEF Uses
  <2>3. QED BY <2>1, <2>2
<1>6. CASE ScanDone \/ StopController \/ ResetController \/ StartController
  <2>1. pages' = pages /\ exhausted' = exhausted /\ pc' \notin Uses \union {"start"}
    BY <1>6 DEF ScanDone, StopController, ResetController, StartController, At, xhci, vmm, Uses
  <2>2. QED BY <1>3, <2>1
<1>7. CASE ControllerReset
  <2>1. pages' = pages /\ exhausted' = exhausted /\ ctrl' = ctrl /\ pc \in Waiting
        /\ pc' \in {"wait_ready", "dcbaa"}
    BY <1>7 DEF ControllerReset, At, xhci, vmm, Waiting
  <2>2. pages[ctrl'] = << >>
    BY <1>0, <2>1 DEF ControllerInv
  <2>3. UseOf(ctrl', Len(pages[ctrl']) + 1) = "dcbaa"
    BY <2>2 DEF UseOf
  <2>4. QED BY <1>3, <2>1, <2>2, <2>3 DEF Uses
<1>8. ASSUME NEW c \in Controllers, HcStep(c) PROVE PagesInv'
  <2>1. UNCHANGED <<pages, pc, ctrl, held, base, exhausted>>
    BY <1>8 DEF HcStep, pmm, vmm
  <2>2. QED BY <1>3, <2>1 DEF PagesInv
<1>9. CASE AllocateTables
  <2> DEFINE s == pages[ctrl]
             n == Len(s)
             new == [use |-> pc, frame |-> Frame(result')]
  <2>1. /\ pc \in Uses /\ AllocatePage /\ pages' = [pages EXCEPT ![ctrl] = Append(s, new)]
        /\ pc' = NextUse(pc) /\ UNCHANGED <<ctrl, base>>
    BY <1>9 DEF AllocateTables
  <2>2. ctrl \in Controllers /\ pages \in [Controllers -> Seq([use : Uses, frame : Int])]
        /\ n \in Nat /\ DOMAIN s = 1 .. n
    BY <1>0, <2>1, PagesOf DEF ControllerInv, PagesInv
  <2>3. Frame(result') \in Int /\ (~exhausted' => \E p \in free : GivenPage(p) /\ Frame(result') = base + p)
        /\ (~exhausted' => ~exhausted)
    <3>1. \A p \in free : p \in Int /\ p # NULL /\ base \in Int
      BY <1>0, Sizes, NullIsNoFrame DEF ManagerInv
    <3>2. CASE NoneGiven
      BY <3>2 DEF NoneGiven, Frame
    <3>3. ASSUME NEW p \in free, GivenPage(p) PROVE Frame(result') = base + p /\ base + p \in Int
      BY <3>1, <3>3 DEF GivenPage, Frame
    <3>4. ~exhausted' => ~exhausted
      BY <2>1 DEF AllocatePage
    <3>5. (\E p \in free : GivenPage(p)) \/ NoneGiven
      BY <1>0, <2>1, Requested
    <3>6. NoneGiven => exhausted'
      BY DEF NoneGiven
    <3>7. QED BY <3>2, <3>3, <3>4, <3>5, <3>6
  <2>4. new \in [use : Uses, frame : Int] /\ new.use = pc /\ new.frame = Frame(result')
    BY <2>1, <2>3
  <2> HIDE DEF new
  <2>5. /\ pages' \in [Controllers -> Seq([use : Uses, frame : Int])]
        /\ pages'[ctrl] = Append(s, new)
        /\ \A c \in Controllers : c # ctrl => pages'[c] = pages[c]
    <3>1. s \in Seq([use : Uses, frame : Int])
      BY <2>2
    <3> HIDE DEF s
    <3>2. Append(s, new) \in Seq([use : Uses, frame : Int])
      BY <2>4, <3>1
    <3>3. QED BY <2>1, <2>2, <3>2
  <2>6. /\ Len(pages'[ctrl]) = n + 1 /\ DOMAIN pages'[ctrl] = 1 .. (n + 1)
        /\ pages'[ctrl][n + 1] = new /\ \A i \in 1 .. n : pages'[ctrl][i] = s[i]
    <3>1. s \in Seq([use : Uses, frame : Int])
      BY <2>2
    <3> HIDE DEF s
    <3>2. QED BY <2>2, <2>5, <3>1
  <2>7. /\ pc = UseOf(ctrl, n + 1) /\ pc' = UseOf(ctrl, n + 2)
        /\ \A i \in 1 .. n : s[i].use = UseOf(ctrl, i)
        /\ ~exhausted => \A i \in 1 .. n : s[i].frame = s[1].frame + (i - 1)
        /\ n # 0 /\ ~exhausted => \E p \in held : /\ \A q \in held : q <= p
                                                  /\ s[n].frame = base + p
    <3>1. pc' = UseOf(ctrl, n + 2)
      BY <1>0, <2>1, InOrder
    <3>2. n # 0 => s # << >>
      OBVIOUS
    <3>3. QED BY <2>1, <2>2, <3>1, <3>2 DEF PagesInv
  <2>8. \A i \in 1 .. n : s[i].frame \in Int
    BY <1>0, <2>2, PagesOf
  <2> HIDE DEF s, n
  <2>9. ASSUME ~exhausted'
        PROVE  /\ \A i \in 1 .. (n + 1) : pages'[ctrl][i].frame = pages'[ctrl][1].frame + (i - 1)
               /\ \E p \in held' : /\ \A q \in held' : q <= p
                                   /\ pages'[ctrl][n + 1].frame = base + p
    <3>1. PICK p \in free : GivenPage(p) /\ Frame(result') = base + p
      BY <2>3, <2>9
    <3>2. ~exhausted /\ base \in Int /\ p \in Int /\ p \in held' /\ new.frame = base + p
          /\ new.frame \in Int
      BY <1>0, <2>3, <2>4, <2>9, <3>1, Sizes DEF GivenPage, ManagerInv
    <3>3. CASE n = 0
      <4>1. pages'[ctrl][1] = new /\ \A i \in 1 .. (n + 1) : i = 1
        BY <2>6, <3>3
      <4>2. \A i \in 1 .. (n + 1) : pages'[ctrl][i].frame = pages'[ctrl][1].frame + (i - 1)
        BY <3>2, <4>1
      <4>3. \A q \in held' : q <= p
        <5>1. \A q \in held : q < p /\ q \in Int
          BY <1>0, <3>1, Sizes DEF ManagerInv
        <5>2. QED BY <3>1, <3>2, <5>1 DEF GivenPage
      <4>4. QED BY <2>6, <3>2, <4>2, <4>3
    <3>4. CASE n # 0
      <4>1. PICK q \in held : (\A r \in held : r <= q) /\ s[n].frame = base + q
        BY <2>7, <3>2, <3>4
      <4>2. p = q + 1 /\ \A r \in held' : r <= p
        BY <1>0, <2>1, <3>1, <4>1, OneBehindTheOther
      <4>3. q \in Int
        BY <1>0, Sizes DEF ManagerInv
      <4>4. n \in 1 .. n /\ 1 \in 1 .. n /\ n \in Nat
        BY <2>2, <3>4
      <4>5. s[n].frame = s[1].frame + (n - 1) /\ s[1].frame \in Int
        BY <2>7, <2>8, <3>2, <4>4
      <4>6. pages'[ctrl][1] = s[1]
        BY <2>6, <4>4
      <4>7. new.frame = s[1].frame + n
        BY <3>2, <4>1, <4>2, <4>3, <4>4, <4>5
      <4>8. ASSUME NEW i \in 1 .. (n + 1)
            PROVE  pages'[ctrl][i].frame = pages'[ctrl][1].frame + (i - 1)
        <5>1. CASE i = n + 1
          BY <2>6, <4>4, <4>6, <4>7, <5>1
        <5>2. CASE i # n + 1
          <6>1. i \in 1 .. n
            BY <4>4, <5>2
          <6>2. QED BY <2>6, <2>7, <3>2, <4>6, <6>1
        <5>3. QED BY <5>1, <5>2
      <4>9. QED BY <2>6, <3>2, <4>2, <4>8
    <3>5. QED BY <3>3, <3>4
  <2>10. ASSUME NEW c \in Controllers', NEW i \in DOMAIN pages'[c]
         PROVE  /\ pages'[c][i].use = UseOf(c, i)'
                /\ ~exhausted' => pages'[c][i].frame = pages'[c][1].frame + (i - 1)
    <3>1. UseOf(c, i)' = UseOf(c, i)
      BY <1>2
    <3>2. CASE c = ctrl
      <4>1. i \in 1 .. (n + 1)
        BY <2>6, <3>2
      <4>2. pages'[c][i].use = UseOf(c, i)
        <5>1. CASE i = n + 1
          BY <2>4, <2>6, <2>7, <3>2, <5>1
        <5>2. CASE i # n + 1
          <6>1. i \in 1 .. n
            BY <2>2, <4>1, <5>2 DEF n
          <6>2. QED BY <2>6, <2>7, <3>2, <6>1
        <5>3. QED BY <5>1, <5>2
      <4>3. QED BY <2>9, <3>1, <3>2, <4>1, <4>2
    <3>3. CASE c # ctrl
      <4>1. pages'[c] = pages[c] /\ c \in Controllers
        BY <1>1, <2>5, <3>3
      <4>2. QED BY <2>3, <2>10, <3>1, <4>1 DEF PagesInv
    <3>4. QED BY <3>2, <3>3
  <2>11. pc' = UseOf(ctrl, Len(pages[ctrl]) + 1)'
    <3>1. Len(pages'[ctrl']) + 1 = n + 2 /\ ctrl' = ctrl
      BY <2>1, <2>2, <2>6 DEF n
    <3>2. UseOf(ctrl, Len(pages[ctrl]) + 1)' = UseOf(ctrl, n + 2)
      BY <1>2, <3>1
    <3>3. QED BY <2>7, <3>2
  <2>12. pc' \in Uses /\ pages'[ctrl'] # << >> /\ ~exhausted' =>
           \E p \in held' : /\ \A q \in held' : q <= p
                            /\ pages'[ctrl'][Len(pages'[ctrl'])].frame = base' + p
    BY <2>1, <2>6, <2>9
  <2>13. QED BY <1>1, <2>5, <2>10, <2>11, <2>12 DEF PagesInv
<1>10. QED BY <1>4, <1>5, <1>6, <1>7, <1>8, <1>9, KernelControllers

(* All of it together is inductive. *)
KernelInv == BootInv /\ AddressInv /\ PagesInv

LEMMA InitKernel == Init => KernelInv
<1>. SUFFICES ASSUME Init PROVE KernelInv
  OBVIOUS
<1>1. BootInv
  BY InitMemory, InitControllers DEF BootInv
<1>2. AddressInv
  <2>1. pc \in Early /\ HandedInv
    BY <1>1 DEF Init, Early, BootInv, MemoryInv
  <2>2. QED BY <2>1, EarlyAddresses
<1>3. PagesInv
  <2>1. pages = [c \in Controllers |-> << >>] /\ pc = "loader"
    BY DEF Init
  <2>2. pages \in [Controllers -> Seq([use : Uses, frame : Int])]
    <3> DEFINE R == [use : Uses, frame : Int]
    <3> HIDE DEF R
    <3>1. << >> \in Seq(R)
      OBVIOUS
    <3>2. pages \in [Controllers -> Seq(R)]
      BY <2>1, <3>1
    <3>3. QED BY <3>2 DEF R
  <2>3. \A c \in Controllers : DOMAIN pages[c] = {}
    BY <2>1
  <2>4. pc \notin Uses \union {"start"}
    BY <2>1 DEF Uses
  <2>5. QED BY <2>2, <2>3, <2>4 DEF PagesInv
<1>4. QED BY <1>1, <1>2, <1>3 DEF KernelInv

LEMMA KernelHolds == Spec => []KernelInv
<1>1. KernelInv /\ [Next]_vars => KernelInv'
  <2>. SUFFICES ASSUME KernelInv, [Next]_vars PROVE KernelInv'
    OBVIOUS
  <2>1. /\ BootInv /\ AddressInv /\ PagesInv /\ machine \in Machines
        /\ MemoryInv /\ ControllerInv /\ ScanInv /\ OnceInv
    BY DEF KernelInv, BootInv, MemoryInv, LoaderInv, LoaderType
  <2>2. BootInv' /\ MemoryInv'
    BY <2>1, MemoryStep, ControllerStep, ScanStep, OnceStep DEF BootInv
  <2>3. AddressInv'
    BY <2>1, <2>2, AddressStep
  <2>4. PagesInv'
    BY <2>1, PagesStep
  <2>5. QED BY <2>2, <2>3, <2>4 DEF KernelInv
<1>2. QED BY <1>1, InitKernel, PTL DEF Spec

LEMMA KernelFacts ==
  ASSUME KernelInv
  PROVE  /\ machine \in Machines /\ LoaderInv /\ LoaderType /\ HandedInv /\ ManagerInv /\ MemoryInv
         /\ ControllerInv /\ TablesInv /\ ExactInv /\ KeptInv /\ PagesInv
BY DEF KernelInv, BootInv, MemoryInv, AddressInv, LoaderInv, LoaderType

(***************************************************************************)
(* On every machine the state is well formed, controllers are given their  *)
(* tables only when they are ready (xhci.c 1198-1207) and, as long as      *)
(* there was a page for every table, the page tables translate the frames  *)
(* that were mapped to themselves and no other address to anything         *)
(* (vmm.c:25-57), however large tables are.                                *)
(***************************************************************************)
THEOREM KernelCorrect == Spec => []Inv
<1>1. KernelInv => TypeOK
  <2>. SUFFICES ASSUME KernelInv PROVE TypeOK
    OBVIOUS
  <2>1. machine \in Machines /\ LoaderType /\ HandedInv /\ ManagerInv /\ ControllerInv /\ TablesInv
    BY KernelFacts
  <2>2. /\ step \in LoaderSteps \union Stopped /\ firmware \in 0 .. MaxFirmware
        /\ memory \in [DOMAIN machine.memory -> {"conventional", "used", "loader", "firmware"}]
    BY <2>1 DEF LoaderType, Owners
  <2>3. pc \in {"loader", "pmm_init", "pmm_free", "vmm_init", "map", "heap"}
                 \union PastHeap \union Ended
    BY <2>1 DEF HandedInv, Labels, Early
  <2>4. free \union held \subseteq Pmm!Page
    BY <2>1 DEF ManagerInv
  <2>5. DOMAIN tables \subseteq {0} \union {base + p : p \in held}
    BY <2>1 DEF TablesInv
  <2>6. /\ ctrl \in {0} \union Controllers
        /\ hc \in [Controllers -> {"running", "halting", "halted", "resetting", "not_ready",
                                   "ready", "started"}]
    BY <2>1 DEF ControllerInv, States
  <2>7. QED BY <2>1, <2>2, <2>3, <2>4, <2>5, <2>6 DEF TypeOK
<1>2. KernelInv => TranslationExact
  <2>. SUFFICES ASSUME KernelInv, ~exhausted, NEW v \in Addresses
                PROVE  Translate(v) = IF v \in mapped THEN v ELSE NULL
    BY DEF TranslationExact
  <2>1. HandedInv /\ ExactInv
    BY KernelFacts
  <2>2. Walks[v][5] = Translate(v)
    BY DEF Walks, Translate
  <2>3. CASE pc \in Early
    <3>1. tables = << >> /\ mapped = {}
      BY <2>1, <2>3 DEF HandedInv
    <3>2. DOMAIN tables = {}
      BY <3>1
    <3>3. Translate(v) = NULL
      BY <3>2 DEF Translate, Walk, Entry
    <3>4. QED BY <3>1, <3>3
  <2>4. CASE pc \notin Early
    BY <2>1, <2>2, <2>4 DEF ExactInv, Exact
  <2>5. QED BY <2>3, <2>4
<1>3. KernelInv => TablesWhenReady
  BY KernelFacts DEF ControllerInv
<1>4. QED BY <1>1, <1>2, <1>3, KernelHolds, PTL DEF Inv

(***************************************************************************)
(* Past the check of the heap's page (main.c:195) the code, the stack and  *)
(* the frame buffer are mapped and stay so, also when memory runs out and  *)
(* frame 0 is used as a table because VMM_MapPage does not look at what it *)
(* is given (vmm.c:31), on every machine whose registers are not memory.   *)
(***************************************************************************)
THEOREM FatalCorrect == Spec => []NullTableIsFatal
<1>1. KernelInv => NullTableIsFatal
  <2>. SUFFICES ASSUME KernelInv, pc \in PastHeap,
                       NEW f \in machine.image \union {machine.stack}
                                   \union {machine.fb[i] : i \in DOMAIN machine.fb}
                PROVE  Translate(f) = f
    BY DEF NullTableIsFatal
  <2>1. f \in Kept
    BY DEF Kept, FramesIn
  <2>2. f \in Addresses
    BY <2>1, KernelFacts, KeptFrames
  <2>3. Holds(tables, Kept, Walks)
    BY KernelFacts DEF KeptInv
  <2>4. Walks[f][5] = f
    BY <2>1, <2>3 DEF Holds
  <2>5. Walks[f][5] = Translate(f)
    BY <2>2 DEF Walks, Translate
  <2>6. QED BY <2>4, <2>5
<1>2. QED BY <1>1, KernelHolds, PTL

LEMMA Quotient ==
  ASSUME NEW n \in Nat, NEW e \in Nat \ {0}, n \div e # 0
  PROVE  n \div e \in 1 .. n
<1>1. PICK q \in Nat, r \in Nat : q = n \div e /\ n = e * q + r
  BY Halves
<1>2. PICK b \in Nat : b = e * q
  BY <1>1
<1>3. q <= b
  BY <1>1, <1>2, Multiples
<1>4. QED BY <1>1, <1>2, <1>3

(***************************************************************************)
(* For every number of scratchpads and every size of the array's page: the *)
(* addresses that do not fit into that page go to the controller's own     *)
(* buffers (xhci.c:1262), since its pages follow one another.              *)
(***************************************************************************)
THEOREM OverflowCorrect == Spec => []OverflowStaysInBuffer
<1>1. KernelInv => OverflowStaysInBuffer
  <2>. SUFFICES ASSUME KernelInv, ~exhausted, NEW c \in Controllers, NEW a \in Given(c, "array"),
                       NEW n \in 0 .. (Cardinality(Given(c, "buffer")) - 1), n \div Entries # 0
                PROVE  pages[c][a].frame + n \div Entries
                         \in {pages[c][i].frame : i \in Given(c, "buffer")}
    BY DEF OverflowStaysInBuffer
  <2> DEFINE size == Len(pages[c])
             count == machine.controllers[c].scratchpads
             q == n \div Entries
  <2>1. machine \in Machines /\ PagesInv
    BY KernelFacts
  <2>2. /\ size \in Nat /\ DOMAIN pages[c] = 1 .. size /\ count \in Nat
        /\ \A i \in DOMAIN pages[c] : pages[c][i].frame \in Int
    BY <2>1, PagesOf
  <2>3. a \in 1 .. size /\ pages[c][a].use = "array"
    BY <2>2 DEF Given
  <2>4. count # 0 /\ a = 2
    <3>1. UseOf(c, a) = "array"
      BY <2>1, <2>2, <2>3 DEF PagesInv
    <3>2. a \in Nat \ {0}
      BY <2>2, <2>3
    <3> HIDE DEF size
    <3>3. count \in Nat /\ count = machine.controllers[c].scratchpads
      BY <2>2
    <3>4. UseOf(c, a) = "array" <=> count # 0 /\ a = 2
      BY <3>2, <3>3, UsesInOrder
    <3>5. QED BY <3>1, <3>4
  <2>5. /\ Given(c, "buffer") = {i \in 3 .. size : i <= count + 2 /\ count # 0}
        /\ count # 0 /\ 2 <= size /\ size <= count + 2 => Cardinality(Given(c, "buffer")) = size - 2
        /\ count # 0 /\ count + 2 < size => Cardinality(Given(c, "buffer")) = count
    <3>1. size = Len(pages[c]) /\ count = machine.controllers[c].scratchpads
      OBVIOUS
    <3> HIDE DEF size, count
    <3>2. QED BY <2>1, <2>2, <3>1, Buffers
  <2> HIDE DEF size, count
  <2>6. n \in Nat /\ n + 2 < size /\ n < count
    <3>1. 2 <= size
      BY <2>2, <2>3, <2>4
    <3>2. CASE size <= count + 2
      BY <2>2, <2>4, <2>5, <3>1, <3>2
    <3>3. CASE count + 2 < size
      BY <2>2, <2>4, <2>5, <3>3
    <3>4. QED BY <2>2, <3>2, <3>3
  <2>7. q \in 1 .. n
    <3>1. Entries \in Nat \ {0}
      BY EntriesAssumption
    <3>2. QED BY <2>6, <3>1, Quotient
  <2> HIDE DEF q
  <2>8. 2 + q \in Given(c, "buffer") /\ 2 + q \in 1 .. size /\ 2 \in 1 .. size
    BY <2>2, <2>4, <2>5, <2>6, <2>7
  <2>9. pages[c][2 + q].frame = pages[c][2].frame + q
    <3>1. pages[c][2 + q].frame = pages[c][1].frame + ((2 + q) - 1)
      BY <2>1, <2>2, <2>8 DEF PagesInv
    <3>2. pages[c][2].frame = pages[c][1].frame + (2 - 1)
      BY <2>1, <2>2, <2>8 DEF PagesInv
    <3>3. pages[c][1].frame \in Int /\ q \in Int
      BY <2>2, <2>7, <2>8
    <3>4. QED BY <3>1, <3>2, <3>3
  <2>10. pages[c][a].frame + q = pages[c][2 + q].frame
    BY <2>4, <2>9
  <2>11. QED BY <2>8, <2>10 DEF q
<1>2. QED BY <1>1, KernelHolds, PTL

-----------------------------------------------------------------------------
(* What the kernel uses is mapped.                                         *)

(* The frames mapped of the region, and a controller's registers.          *)
WindowFrames == {base + p : p \in 0 .. (Window - 1)}
Registers(c) == FramesIn(machine.controllers[c].mmio)

(* Everything given out so far, and the bitmap, is in the part of the      *)
(* region that is mapped.                                                  *)
InWindow == held \union (0 .. (Pmm!Reserved(max_pages) - 1)) \subseteq 0 .. (Window - 1)

WindowInv ==
  /\ pc = "map" => WindowFrames \subseteq mapped \union FramesIn(todo)
  /\ cr3 # NULL /\ pc # "crashed" /\ ~exhausted => Kept \union WindowFrames \subseteq mapped
  /\ pc = "mmio" => Registers(ctrl) \subseteq mapped \union FramesIn(todo)
  /\ pc \in (Waiting \ {"mmio"}) \union Uses \union {"start"} => Registers(ctrl) \subseteq mapped
  /\ \A c \in Controllers : pages[c] # << >> => Registers(c) \subseteq mapped

(* Where only pc moves on.                                                 *)
LEMMA WindowStays ==
  ASSUME WindowInv, UNCHANGED <<machine, base, mapped, cr3, ctrl, pages>>,
         ~exhausted' => ~exhausted,
         pc' \notin {"map", "mmio"} \/ (pc' = pc /\ todo' = todo),
         pc = "crashed" => pc' = "crashed",
         pc' \in (Waiting \ {"mmio"}) \union Uses \union {"start"} => Registers(ctrl) \subseteq mapped
  PROVE  WindowInv'
<1>1. Kept' = Kept /\ WindowFrames' = WindowFrames /\ Controllers' = Controllers
      /\ Registers(ctrl)' = Registers(ctrl) /\ \A c : Registers(c)' = Registers(c)
  BY DEF Kept, FramesIn, WindowFrames, Registers, Controllers
<1>2. todo' = todo => FramesIn(todo)' = FramesIn(todo)
  BY DEF FramesIn
<1>3. pc' = "map" => WindowFrames' \subseteq mapped' \union FramesIn(todo)'
  BY <1>1, <1>2 DEF WindowInv
<1>4. cr3' # NULL /\ pc' # "crashed" /\ ~exhausted' => Kept' \union WindowFrames' \subseteq mapped'
  BY <1>1 DEF WindowInv
<1>5. pc' = "mmio" => Registers(ctrl)' \subseteq mapped' \union FramesIn(todo)'
  BY <1>1, <1>2 DEF WindowInv
<1>6. \A c \in Controllers' : pages'[c] # << >> => Registers(c)' \subseteq mapped'
  BY <1>1 DEF WindowInv
<1>7. pc' \in ((Waiting \ {"mmio"}) \union Uses \union {"start"})' => Registers(ctrl)' \subseteq mapped'
  BY <1>1 DEF Waiting, Uses
<1>8. QED BY <1>3, <1>4, <1>5, <1>6, <1>7 DEF WindowInv

LEMMA WindowStep ==
  ASSUME KernelInv, KernelInv', WindowInv, [Next]_vars
  PROVE  WindowInv'
<1>0. /\ MemoryInv /\ HandedInv /\ ControllerInv /\ TablesInv /\ PagesInv /\ machine \in Machines
      /\ KeptInv' /\ machine' = machine
  <2>1. KeptInv'
    BY DEF KernelInv, AddressInv
  <2>2. machine' = machine
    BY KernelControllers DEF Elsewhere, ReadFunction, ScanDone, StopController, ResetController,
         ControllerReset, AllocateTables, StartController, HcStep
  <2>3. QED BY <2>1, <2>2, KernelFacts
<1>1. CASE UNCHANGED <<machine, vmm, pc, ctrl, pages>>
  BY <1>1, WindowStays DEF vmm, WindowInv
<1>2. CASE \/ LoaderStep /\ UNCHANGED <<pmm, vmm, pc, xhci>>
           \/ FirmwareTakes /\ UNCHANGED <<pmm, vmm, pc, xhci>>
           \/ \E c \in Controllers : HcStep(c)
           \/ UNCHANGED vars
  BY <1>1, <1>2 DEF LoaderStep, FirmwareTakes, HcStep, vars, xhci
<1>3. CASE EnterKernel \/ SetUpMemory
  <2>1. /\ pc \in {"loader", "pmm_init", "pmm_free"} /\ pc' \in {"pmm_init", "pmm_free", "vmm_init"}
        /\ UNCHANGED <<machine, mapped, cr3, pages>>
    BY <1>3 DEF EnterKernel, SetUpMemory, At, vmm, xhci
  <2>2. cr3' = NULL
    BY <1>0, <2>1 DEF HandedInv, Early
  <2>3. \A c \in Controllers' : pages'[c] # << >> => Registers(c)' \subseteq mapped'
    BY <2>1 DEF WindowInv, Controllers, Registers, FramesIn
  <2>4. pc' \notin {"map", "mmio", "start"} \union Waiting \union Uses
    BY <2>1 DEF Waiting, Uses
  <2>5. QED BY <2>2, <2>3, <2>4 DEF WindowInv
<1>4. CASE SetUpTables
  <2>1. /\ pc = "vmm_init" /\ pc' = "map" /\ todo' = IdentityMap
        /\ UNCHANGED <<machine, base, mapped, cr3, pages>>
    BY <1>4 DEF SetUpTables, At, VMM_Init, xhci
  <2>2. cr3' = NULL /\ base = region.base
    BY <1>0, <2>1 DEF HandedInv, Early
  <2>3. WindowFrames' \subseteq FramesIn(todo)'
    <3>1. FramesIn(todo)' = FramesIn(IdentityMap)
      BY <2>1 DEF FramesIn
    <3>2. WindowFrames' = {region.base + p : p \in 0 .. (Window - 1)}
      BY <2>1, <2>2 DEF WindowFrames
    <3>3. QED BY <1>0, <3>1, <3>2, IdentityMapFrames
  <2>4. \A c \in Controllers' : pages'[c] # << >> => Registers(c)' \subseteq mapped'
    BY <2>1 DEF WindowInv, Controllers, Registers, FramesIn
  <2>5. QED BY <2>1, <2>2, <2>3, <2>4 DEF WindowInv, Waiting, Uses
<1>5. CASE MapPage
  <2>1. UNCHANGED <<machine, pc, cr3, base, ctrl, pages>> /\ (~exhausted' => ~exhausted)
    <3>1. UNCHANGED <<machine, pc, ctrl, pages>> /\ (AddTable \/ SetEntry)
      BY <1>5 DEF MapPage, VMM_MapPage, xhci
    <3>2. UNCHANGED <<cr3, base>> /\ (~exhausted' => ~exhausted)
      <4>1. UNCHANGED <<cr3, base>> /\ (AllocatePage \/ exhausted' = exhausted)
        BY <3>1 DEF AddTable, SetEntry
      <4>2. AllocatePage => (~exhausted' => ~exhausted)
        BY DEF AllocatePage
      <4>3. QED BY <4>1, <4>2
    <3>3. QED BY <3>1, <3>2
  <2>2. CASE AddTable
    BY <2>1, <2>2, WindowStays DEF AddTable, WindowInv
  <2>3. CASE SetEntry
    <3>1. mapped' = mapped \union {Head(todo)} /\ todo' = Tail(todo) /\ todo # << >>
      BY <2>3 DEF SetEntry
    <3>2. FramesIn(todo) = {Head(todo)} \union FramesIn(todo)'
      BY <1>0, <3>1, NextFrame DEF FramesIn
    <3>3. mapped \union FramesIn(todo) = mapped' \union FramesIn(todo)' /\ mapped \subseteq mapped'
      BY <3>1, <3>2
    <3>4. Kept' = Kept /\ WindowFrames' = WindowFrames /\ Controllers' = Controllers
          /\ Registers(ctrl)' = Registers(ctrl) /\ \A c : Registers(c)' = Registers(c)
      BY <2>1 DEF Kept, FramesIn, WindowFrames, Registers, Controllers
    <3>5. cr3' # NULL /\ pc' # "crashed" /\ ~exhausted' => Kept' \union WindowFrames' \subseteq mapped'
      BY <2>1, <3>3, <3>4 DEF WindowInv
    <3>6. \A c \in Controllers' : pages'[c] # << >> => Registers(c)' \subseteq mapped'
      BY <2>1, <3>3, <3>4 DEF WindowInv
    <3>7. /\ pc' = "map" => WindowFrames' \subseteq mapped' \union FramesIn(todo)'
          /\ pc' = "mmio" => Registers(ctrl)' \subseteq mapped' \union FramesIn(todo)'
      BY <2>1, <3>3, <3>4 DEF WindowInv
    <3>8. pc' \notin (Waiting \ {"mmio"}) \union Uses \union {"start"}
      BY <1>5, <2>1 DEF MapPage, Waiting, Uses
    <3>9. QED BY <3>5, <3>6, <3>7, <3>8 DEF WindowInv, Waiting, Uses
  <2>4. QED BY <1>5, <2>2, <2>3 DEF MapPage, VMM_MapPage
<1>6. CASE Activate
  <2>1. /\ pc = "map" /\ todo = << >> /\ pc' \in {"heap", "crashed"}
        /\ UNCHANGED <<machine, mapped, base, exhausted, ctrl, pages>>
    BY <1>6 DEF Activate, VMM_Activate, xhci
  <2>2. Kept' = Kept /\ WindowFrames' = WindowFrames
    BY <2>1 DEF Kept, FramesIn, WindowFrames
  <2>3. cr3' # NULL /\ pc' # "crashed" /\ ~exhausted' => Kept' \union WindowFrames' \subseteq mapped'
    <3>1. FramesIn(todo) = {}
      BY <2>1 DEF FramesIn
    <3>2. WindowFrames \subseteq mapped
      BY <2>1, <3>1 DEF WindowInv
    <3>3. pc' = "heap" /\ ~exhausted' => Kept' \subseteq mapped'
      BY <1>0 DEF KeptInv
    <3>4. QED BY <2>1, <2>2, <3>2, <3>3
  <2>4. \A c \in Controllers' : pages'[c] # << >> => Registers(c)' \subseteq mapped'
    BY <2>1 DEF WindowInv, Controllers, Registers, FramesIn
  <2>5. QED BY <2>1, <2>3, <2>4 DEF WindowInv, Waiting, Uses
<1>7. CASE GoAstray \/ AllocateHeap \/ HeapMapped
  <2>1. /\ UNCHANGED <<machine, base, mapped, cr3, ctrl, pages>> /\ (~exhausted' => ~exhausted)
        /\ pc' \in {"crashed", "fatal", "heap_map", "pci"} /\ (pc = "crashed" => pc' = "crashed")
    <3>1. CASE GoAstray \/ HeapMapped
      BY <3>1 DEF GoAstray, HeapMapped, At, xhci, vmm
    <3>2. CASE AllocateHeap
      <4>1. UNCHANGED <<machine, base, mapped, cr3, ctrl, pages>> /\ pc = "heap"
            /\ pc' \in {"fatal", "heap_map"}
        BY <3>2 DEF AllocateHeap, xhci
      <4>2. ~exhausted' => ~exhausted
        BY <3>2 DEF AllocateHeap, AllocatePage
      <4>3. QED BY <4>1, <4>2
    <3>3. QED BY <1>7, <3>1, <3>2
  <2>2. QED BY <2>1, WindowStays DEF Waiting, Uses
<1>8. CASE ReadFunction
  <2>1. /\ pc = "pci" /\ at[1] <= Len(machine.pci)
        /\ UNCHANGED <<machine, base, mapped, cr3, exhausted>>
    BY <1>8 DEF ReadFunction
  <2>2. CASE Function(at[1], at[2]).kind # "xhci"
    <3>1. UNCHANGED <<pc, ctrl, todo, pages>>
      BY <1>8, <2>2 DEF ReadFunction
    <3>2. QED BY <2>1, <3>1, WindowStays DEF Waiting, Uses
  <2>3. CASE Function(at[1], at[2]).kind = "xhci"
    <3>1. PICK d \in Controllers :
             /\ pc' = "mmio" /\ ctrl' = d /\ todo' = machine.controllers[d].mmio
             /\ pages' = [pages EXCEPT ![d] = << >>]
      BY <1>0, <1>8, <2>1, <2>3, Found DEF ReadFunction, KernelInv, BootInv
    <3>2. /\ Kept' = Kept /\ WindowFrames' = WindowFrames /\ Controllers' = Controllers
          /\ \A c : Registers(c)' = Registers(c)
      BY <2>1 DEF Kept, FramesIn, WindowFrames, Registers, Controllers
    <3>3. Registers(ctrl)' \subseteq FramesIn(todo)'
      BY <2>1, <3>1 DEF Registers, FramesIn
    <3>4. \A c \in Controllers' : pages'[c] # << >> => Registers(c)' \subseteq mapped'
      BY <1>0, <2>1, <3>1, <3>2 DEF WindowInv, ControllerInv
    <3>5. cr3' # NULL /\ pc' # "crashed" /\ ~exhausted' => Kept' \union WindowFrames' \subseteq mapped'
      BY <2>1, <3>2 DEF WindowInv
    <3>6. QED BY <3>1, <3>3, <3>4, <3>5 DEF WindowInv, Uses
  <2>4. QED BY <2>2, <2>3
<1>9. CASE ScanDone \/ StopController \/ ResetController \/ ControllerReset \/ StartController
  <2>1. /\ UNCHANGED <<machine, base, mapped, cr3, exhausted, ctrl, pages, todo>>
        /\ \/ pc = "mmio" /\ todo = << >> /\ pc' = "wait_halt"
           \/ pc \in Waiting \ {"mmio"} /\ pc' \in {"wait_reset", "wait_ready", "dcbaa"}
           \/ pc' \in {"pci", "main_loop"} /\ pc # "crashed"
    BY <1>9 DEF ScanDone, StopController, ResetController, ControllerReset, StartController,
                At, xhci, vmm, Waiting
  <2>2. todo = << >> => FramesIn(todo) = {}
    BY DEF FramesIn
  <2>3. pc' \in (Waiting \ {"mmio"}) \union Uses \union {"start"} => Registers(ctrl) \subseteq mapped
    BY <2>1, <2>2 DEF WindowInv, Waiting, Uses
  <2>4. pc' \notin {"map", "mmio"} /\ pc # "crashed"
    BY <2>1 DEF Waiting
  <2>5. QED BY <2>1, <2>3, <2>4, WindowStays
<1>10. CASE AllocateTables
  <2>1. /\ pc \in Uses /\ pc' \in Uses \union {"start"} /\ (~exhausted' => ~exhausted)
        /\ UNCHANGED <<machine, base, mapped, cr3, ctrl>>
        /\ \A c \in Controllers : c # ctrl => pages'[c] = pages[c]
    BY <1>0, <1>10, NextUses DEF AllocateTables, AllocatePage, ControllerInv
  <2>2. /\ Kept' = Kept /\ WindowFrames' = WindowFrames /\ Controllers' = Controllers
        /\ Registers(ctrl)' = Registers(ctrl) /\ \A c : Registers(c)' = Registers(c)
    BY <2>1 DEF Kept, FramesIn, WindowFrames, Registers, Controllers
  <2>3. Registers(ctrl) \subseteq mapped
    BY <2>1 DEF WindowInv
  <2>4. \A c \in Controllers' : pages'[c] # << >> => Registers(c)' \subseteq mapped'
    BY <2>1, <2>2, <2>3 DEF WindowInv
  <2>5. cr3' # NULL /\ pc' # "crashed" /\ ~exhausted' => Kept' \union WindowFrames' \subseteq mapped'
    BY <2>1, <2>2 DEF WindowInv, Uses
  <2>6. pc' \notin {"map", "mmio"}
    BY <2>1 DEF Uses
  <2>7. QED BY <2>1, <2>2, <2>3, <2>4, <2>5, <2>6 DEF WindowInv
<1>11. QED
  BY <1>2, <1>3, <1>4, <1>5, <1>6, <1>7, <1>8, <1>9, <1>10 DEF Next, Program, Kernel

(***************************************************************************)
(* "Identity map the PMM region itself so we can access it" (main.c:137):  *)
(* on every machine, everything the kernel uses is mapped to itself for as *)
(* long as the pages given out are among those the loop maps, 16 MB from   *)
(* the region's start, and no request failed.  Nothing in the code keeps   *)
(* them there; what is asked for later decides.                            *)
(***************************************************************************)
THEOREM WindowCorrect == Spec => [](InWindow => EverythingMapped)
<1>1. Init => KernelInv /\ WindowInv
  <2>. SUFFICES ASSUME Init PROVE WindowInv
    BY InitKernel
  <2>1. pc = "loader" /\ cr3 = NULL /\ \A c \in Controllers : pages[c] = << >>
    BY DEF Init
  <2>2. QED BY <2>1 DEF WindowInv, Waiting, Uses
<1>2. (KernelInv /\ WindowInv) /\ (KernelInv)' /\ [Next]_vars => (WindowInv)'
  BY WindowStep
<1>3. KernelInv /\ WindowInv /\ InWindow => EverythingMapped
  <2>. SUFFICES ASSUME KernelInv, WindowInv, InWindow, cr3 # NULL, ~exhausted, pc # "crashed"
                PROVE  /\ \A f \in InUse : Translate(f) = f
                       /\ \A c \in Controllers : pages[c] # << >> =>
                            \A i \in DOMAIN machine.controllers[c].mmio :
                              Translate(machine.controllers[c].mmio[i]) = machine.controllers[c].mmio[i]
    BY DEF EverythingMapped
  <2>1. machine \in Machines /\ MemoryInv /\ LoaderInv /\ HandedInv /\ ManagerInv /\ ExactInv
    BY KernelFacts
  <2>2. pc \notin Early /\ Exact(tables, kernel_pml4, mapped, Walks)
    BY <2>1 DEF HandedInv, ExactInv
  <2>3. ASSUME NEW f \in Addresses, f \in mapped PROVE Translate(f) = f
    <3>1. Walks[f][5] = f
      BY <2>2, <2>3 DEF Exact
    <3>2. QED BY <2>3, <3>1 DEF Walks, Translate
  <2>4. ASSUME NEW f \in InUse PROVE f \in Addresses /\ f \in mapped
    <3>1. Kept \union WindowFrames \subseteq mapped /\ Kept \subseteq Addresses
      BY <2>1, KeptFrames DEF WindowInv
    <3>2. CASE f \in Kept
      BY <3>1, <3>2
    <3>3. CASE f \notin Kept
      <4>1. PICK p \in held \union (0 .. (Pmm!Reserved(max_pages) - 1)) : f = base + p
        BY <3>3 DEF InUse, Kept, FramesIn
      <4>2. p \in 0 .. (Window - 1)
        BY <4>1 DEF InWindow
      <4>3. f \in WindowFrames
        BY <4>1, <4>2 DEF WindowFrames
      <4>4. f \in Addresses
        <5>1. base \in DOMAIN machine.memory /\ base \in Nat /\ Window \in Nat
          <6>1. base = region.base /\ region.base \in DOMAIN machine.memory
            BY <2>1, <2>2 DEF HandedInv, Early, LoaderInv, LoaderType
          <6>2. QED BY <2>1, <6>1, Sizes, SpansAssumption
        <5>2. base + Window \in Addresses
          BY <2>1, <5>1, AddressesAssumption
        <5>3. f \in Nat /\ f <= base + Window
          BY <4>1, <4>2, <5>1
        <5>4. QED BY <5>2, <5>3, Below
      <4>5. QED BY <3>1, <4>3, <4>4
    <3>4. QED BY <3>2, <3>3
  <2>5. ASSUME NEW c \in Controllers, pages[c] # << >>,
               NEW i \in DOMAIN machine.controllers[c].mmio
        PROVE  machine.controllers[c].mmio[i] \in Addresses /\ machine.controllers[c].mmio[i] \in mapped
    <3>1. machine.controllers[c].mmio \in Seq(Addresses \ DOMAIN machine.memory)
      BY <2>1, MachineControllers DEF Controllers
    <3>2. machine.controllers[c].mmio[i] \in Addresses
      BY <2>5, <3>1
    <3>3. machine.controllers[c].mmio[i] \in Registers(c)
      BY <2>5 DEF Registers, FramesIn
    <3>4. QED BY <2>5, <3>2, <3>3 DEF WindowInv
  <2>6. QED BY <2>3, <2>4, <2>5
<1>4. Spec => [](KernelInv /\ WindowInv)
  BY <1>1, <1>2, KernelHolds, PTL DEF Spec
<1>5. QED BY <1>3, <1>4, PTL
=============================================================================
