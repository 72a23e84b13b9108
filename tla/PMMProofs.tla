----------------------------- MODULE PMMProofs -----------------------------
(***************************************************************************)
(* Proofs about PMM: in regions whose bitmap fits the pages reserved for   *)
(* it, the bitmap is out of the owners' reach, so a page has one owner at  *)
(* a time and the manager implements PageAllocator.                        *)
(***************************************************************************)
EXTENDS PMM, TLAPS

(* Pages below the reserved ones are never free, so never owned. *)
BehindBitmap == \A p \in free \union held : Reserved(max_pages) <= p

(* Nothing is free or owned before the manager runs. *)
NoneYet == stage # "running" => free = {} /\ held = {}

IInv == TypeOK /\ BehindBitmap /\ NoneYet /\ Disjoint

(***************************************************************************)
(* With pages of 4096 bytes of 8 bits, the sizes that do not fit are those *)
(* 1 to 7 pages above a multiple of 128 MB.                                *)
(***************************************************************************)
LEMMA FittingSizes ==
  ASSUME PageSize = 4096, Bits = 8, NEW m \in Nat, m % 32768 \notin 1 .. 7
  PROVE  Fits(m)
<1>1. SUFFICES ASSUME NEW q \in 0 .. (m - 1)
               PROVE  BitmapPage(q) < Reserved(m)
  BY DEF Fits
<1> DEFINE k == m \div 32768
           r == m % 32768
<1>2. k \in Nat /\ r \in 0 .. 32767 /\ m = 32768 * k + r /\ (r = 0 \/ r >= 8)
  OBVIOUS
<1> HIDE DEF k, r
<1>3. CASE r = 0
  <2>1. Reserved(m) = k
    BY <1>1, <1>2, <1>3 DEF Reserved
  <2>2. QED BY <1>1, <1>2, <1>3, <2>1 DEF BitmapPage
<1>4. CASE r >= 8
  <2>1. Reserved(m) = k + 1
    BY <1>2, <1>4 DEF Reserved
  <2>2. QED BY <1>1, <1>2, <1>4, <2>1 DEF BitmapPage
<1>5. QED BY <1>2, <1>3, <1>4

(* In a region that fits, what an owner writes changes no bit. *)
LEMMA OwnersAreHarmless ==
  ASSUME Fits(max_pages), IInv, NEW p \in held, OwnerWrites(p)
  PROVE  UNCHANGED vars
<1>1. \A q \in Page : BitmapPage(q) # p
  <2>1. SUFFICES ASSUME NEW q \in Page, BitmapPage(q) = p PROVE FALSE
    OBVIOUS
  <2>2. BitmapPage(q) < Reserved(max_pages) /\ Reserved(max_pages) <= p
    BY <2>1 DEF Fits, Page, IInv, BehindBitmap
  <2>3. p \in Nat /\ Reserved(max_pages) \in Int
    BY PageSizeAssumption, BitsAssumption, SizesAssumption, WidthAssumption
    DEF IInv, TypeOK, Page, Reserved
  <2>4. QED BY <2>1, <2>2, <2>3
<1>2. free \subseteq Page
  BY DEF IInv, TypeOK
<1>3. QED BY <1>1, <1>2 DEF OwnerWrites, vars

-----------------------------------------------------------------------------
ReservedIsInt == Reserved(max_pages) \in Int

LEMMA ReservedType == TypeOK => ReservedIsInt
BY PageSizeAssumption, BitsAssumption, SizesAssumption, WidthAssumption
DEF TypeOK, Reserved, ReservedIsInt

LEMMA PageNumbers ==
  ASSUME TypeOK PROVE max_pages \in Nat /\ Page \subseteq Nat
<1>1. max_pages \in 0 .. (Width - 1)
  BY SizesAssumption DEF TypeOK
<1>2. QED BY <1>1, WidthAssumption DEF Page

LEMMA InitInvariant == Init => IInv
BY DEF Init, IInv, TypeOK, BehindBitmap, NoneYet, Disjoint

(* Every operation keeps the invariant in a region that fits. *)
LEMMA StepInvariant ==
  ASSUME Fits(max_pages), IInv, [Next]_vars PROVE IInv'
<1>0. TypeOK /\ BehindBitmap /\ NoneYet /\ Disjoint /\ ReservedIsInt
  BY ReservedType DEF IInv
<1>1. CASE PMM_Init
  BY <1>0, <1>1 DEF PMM_Init, IInv, TypeOK, BehindBitmap, NoneYet, Disjoint, Page
<1>2. CASE PMM_FreePages
  <2> DEFINE count == (max_pages + Width - Reserved(max_pages)) % Width
  <2>1. count \in Int
    BY <1>0, WidthAssumption, SizesAssumption DEF ReservedIsInt, TypeOK
  <2> HIDE DEF count
  <2>2. free' = free \union {p \in Reserved(max_pages) .. (Reserved(max_pages) + count - 1) : p < max_pages}
    BY <1>2 DEF PMM_FreePages, Freed, count
  <2>3. UNCHANGED <<max_pages, held, result>> /\ stage = "PMM_FreePages" /\ stage' = "running"
    BY <1>2 DEF PMM_FreePages
  <2>4. \A p \in free' \ free : p \in Page /\ Reserved(max_pages) <= p
    <3>1. 0 < Reserved(max_pages) /\ max_pages \in Int
      BY <1>0, PageSizeAssumption, BitsAssumption, SizesAssumption, WidthAssumption DEF Reserved, TypeOK, ReservedIsInt
    <3>2. QED BY <2>1, <2>2, <3>1, <1>0 DEF Page, ReservedIsInt
  <2>5. QED
    BY <1>0, <2>3, <2>4 DEF IInv, TypeOK, BehindBitmap, NoneYet, Disjoint, Page
<1>3. CASE PMM_AllocatePage
  BY <1>0, <1>3 DEF PMM_AllocatePage, IInv, TypeOK, BehindBitmap, NoneYet, Disjoint, Page
<1>4. ASSUME NEW p \in held, PMM_FreePage(p) PROVE IInv'
  BY <1>0, <1>4 DEF PMM_FreePage, IInv, TypeOK, BehindBitmap, NoneYet, Disjoint, Page
<1>5. ASSUME NEW p \in held, OwnerWrites(p) PROVE IInv'
  <2>1. UNCHANGED vars
    BY <1>5, OwnersAreHarmless
  <2>2. QED BY <1>0, <2>1 DEF vars, IInv, TypeOK, BehindBitmap, NoneYet, Disjoint, Page
<1>6. CASE UNCHANGED vars
  BY <1>0, <1>6 DEF vars, IInv, TypeOK, BehindBitmap, NoneYet, Disjoint, Page
<1>7. QED BY <1>1, <1>2, <1>3, <1>4, <1>5, <1>6 DEF Next

-----------------------------------------------------------------------------
(* The region the boot loader reports is of a size that fits. *)
AllFit == \A m \in Sizes : Fits(m)

THEOREM InvariantHolds ==
  ASSUME AllFit PROVE Spec => []IInv
<1>1. IInv => Fits(max_pages)
  BY AllFit DEF AllFit, IInv, TypeOK
<1>2. IInv /\ [Next]_vars => IInv'
  BY <1>1, StepInvariant
<1>3. QED BY InitInvariant, <1>2, PTL DEF Spec

LEMMA DisjointFromInv == IInv => Disjoint
BY DEF IInv

(* The bitmap stays out of the owners' pages. *)
LEMMA ReservedFromInv ==
  ASSUME AllFit PROVE IInv => BitmapReserved
<1>1. SUFFICES ASSUME IInv, NEW q \in Page, BitmapPage(q) \in held PROVE FALSE
  BY DEF BitmapReserved
<1>2. Reserved(max_pages) <= BitmapPage(q)
  BY <1>1 DEF IInv, BehindBitmap
<1>3. BitmapPage(q) < Reserved(max_pages)
  BY <1>1, AllFit DEF AllFit, Fits, IInv, TypeOK, Page
<1>4. BitmapPage(q) \in Int /\ Reserved(max_pages) \in Int
  <2>1. TypeOK /\ q \in Nat
    BY <1>1, PageNumbers DEF IInv
  <2>2. QED
    BY <2>1, ReservedType, PageSizeAssumption, BitsAssumption DEF BitmapPage, ReservedIsInt
<1>5. QED BY <1>2, <1>3, <1>4

(* The count of pages wraps only if there are none. *)
LEMMA CountWraps ==
  ASSUME NEW d \in 0 .. (Width - 1) PROVE (d + Width) % Width = d
BY WidthAssumption

(* PMM_FreePages frees all there is, and from then on pages change hands.  *)
LEMMA NothingLostStep ==
  ASSUME IInv, IInv', Fits(max_pages), NothingLost, [Next]_vars PROVE NothingLost'
<1>0. TypeOK /\ TypeOK' /\ BehindBitmap /\ BehindBitmap' /\ NoneYet /\ ReservedIsInt
  BY ReservedType DEF IInv
<1>1. CASE PMM_Init
  BY <1>1 DEF PMM_Init, NothingLost
<1>2. CASE PMM_FreePages
  <2>1. ASSUME \A p \in Page : Reserved(max_pages) <= p => p \in free'
        PROVE  NothingLost'
    <3>1. max_pages' = max_pages /\ held' = {} /\ free' \subseteq Page /\ Page \subseteq Int
      BY <1>0, <1>2, PageNumbers DEF PMM_FreePages, NoneYet, TypeOK, Page
    <3>2. \A p \in free' : Reserved(max_pages) <= p
      BY <1>0, <3>1 DEF BehindBitmap
    <3>3. \A p \in Page : p \in Int /\ 0 <= p
      BY <3>1 DEF Page
    <3>4. \A p \in Page :
             p \notin 0 .. (Reserved(max_pages) - 1) <=> Reserved(max_pages) <= p
      BY <1>0, <3>3 DEF ReservedIsInt
    <3>5. free' = Page \ (0 .. (Reserved(max_pages) - 1))
      BY <2>1, <3>1, <3>2, <3>4
    <3>6. QED
      BY <3>1, <3>5 DEF NothingLost, Page
  <2>. SUFFICES ASSUME NEW p \in Page, Reserved(max_pages) <= p PROVE p \in free'
    BY <2>1
  <2>2. 0 < Reserved(max_pages) /\ max_pages \in 0 .. (Width - 1) /\ p \in 0 .. (max_pages - 1)
    BY <1>0, PageSizeAssumption, BitsAssumption, SizesAssumption, WidthAssumption
    DEF Reserved, TypeOK, Page, ReservedIsInt
  <2>3. max_pages - Reserved(max_pages) \in 0 .. (Width - 1)
    BY <1>0, <2>2, WidthAssumption DEF ReservedIsInt
  <2>4. (max_pages + Width - Reserved(max_pages)) % Width = max_pages - Reserved(max_pages)
    <3>1. max_pages + Width - Reserved(max_pages) = (max_pages - Reserved(max_pages)) + Width
      BY <1>0, <2>2, WidthAssumption DEF ReservedIsInt
    <3>2. QED BY <2>3, <3>1, CountWraps
  <2>5. QED
    BY <1>0, <1>2, <2>2, <2>4 DEF PMM_FreePages, Freed, ReservedIsInt
<1>3. CASE PMM_AllocatePage
  BY <1>3 DEF PMM_AllocatePage, NothingLost, Page
<1>4. ASSUME NEW p \in held, PMM_FreePage(p) PROVE NothingLost'
  <2>1. p \in 0 .. (max_pages - 1)
    BY <1>0, <1>4 DEF TypeOK, Page
  <2>2. p < max_pages
    BY <1>0, <2>1, PageNumbers
  <2>3. free' \union held' = free \union held /\ UNCHANGED <<stage, max_pages>>
    BY <1>4, <2>2 DEF PMM_FreePage
  <2>4. QED BY <2>3 DEF NothingLost, Page
<1>5. ASSUME NEW p \in held, OwnerWrites(p) PROVE NothingLost'
  <2>1. UNCHANGED vars
    BY <1>5, OwnersAreHarmless
  <2>2. QED BY <2>1 DEF vars, NothingLost, Page
<1>6. CASE UNCHANGED vars
  BY <1>6 DEF vars, NothingLost, Page
<1>7. QED
  BY <1>1, <1>2, <1>3, <1>4, <1>5, <1>6 DEF Next

(***************************************************************************)
(* A page has one owner, the bitmap is nobody's, and no page is lost, in   *)
(* every region that fits.                                                 *)
(***************************************************************************)
THEOREM ManagerCorrect ==
  ASSUME AllFit PROVE Spec => []Inv
<1>1. IInv => Fits(max_pages)
  BY AllFit DEF AllFit, IInv, TypeOK
<1>2. IInv /\ IInv' /\ NothingLost /\ [Next]_vars => NothingLost'
  BY <1>1, NothingLostStep
<1>3. Init => NothingLost
  BY DEF Init, NothingLost
<1>4. IInv /\ NothingLost => Inv
  BY ReservedFromInv, DisjointFromInv DEF IInv, Inv
<1>5. QED BY <1>2, <1>3, <1>4, InvariantHolds, PTL DEF Spec

(***************************************************************************)
(* The manager implements PageAllocator: PMM_FreePages provides pages,     *)
(* PMM_AllocatePage allocates or refuses, PMM_FreePage releases, and the   *)
(* owners' writes are invisible.                                           *)
(***************************************************************************)
THEOREM ManagerImplementsAllocator ==
  ASSUME AllFit PROVE Spec => ImplementsAllocator
<1>1. Init => Allocator!Init
  BY DEF Init, Allocator!Init
<1>2. ASSUME IInv, IInv', [Next]_vars PROVE [Allocator!Next]_(Allocator!vars)
  <2>0. TypeOK /\ NoneYet /\ Disjoint' /\ free' \subseteq Nat
    <3>1. TypeOK' /\ Page' \subseteq Nat
      <4>1. TypeOK'
        BY <1>2 DEF IInv
      <4>2. max_pages' \in 0 .. (Width - 1)
        BY <4>1, SizesAssumption DEF TypeOK
      <4>3. max_pages' \in Nat
        BY <4>2, WidthAssumption
      <4>4. \A p \in 0 .. (max_pages' - 1) : p \in Nat
        BY <4>3
      <4>5. Page' \subseteq Nat
        BY <4>4 DEF Page
      <4>6. QED BY <4>1, <4>5
    <3>2. QED BY <1>2, <3>1 DEF IInv, TypeOK
  <2>1. CASE PMM_Init
    BY <2>0, <2>1 DEF PMM_Init, NoneYet, Allocator!vars
  <2>2. CASE PMM_FreePages
    BY <2>0, <2>2
    DEF PMM_FreePages, Disjoint, Allocator!Next, Allocator!Provide
  <2>3. CASE PMM_AllocatePage
    BY <2>3 DEF PMM_AllocatePage, Allocator!Next, Allocator!Allocate, Allocator!Refuse
  <2>4. ASSUME NEW p \in held, PMM_FreePage(p) PROVE Allocator!Next
    BY <2>0, <2>4, SizesAssumption
    DEF PMM_FreePage, TypeOK, Page, Allocator!Next, Allocator!Release
  <2>5. ASSUME NEW p \in held, OwnerWrites(p) PROVE UNCHANGED Allocator!vars
    <3>1. Fits(max_pages)
      BY <2>0, AllFit DEF AllFit, TypeOK
    <3>2. QED BY <1>2, <2>5, <3>1, OwnersAreHarmless DEF vars, Allocator!vars
  <2>6. CASE UNCHANGED vars
    BY <2>6 DEF vars, Allocator!vars
  <2>7. QED BY <1>2, <2>1, <2>2, <2>3, <2>4, <2>5, <2>6 DEF Next
<1>3. QED BY <1>1, <1>2, InvariantHolds, PTL DEF Spec, ImplementsAllocator, Allocator!Spec
=============================================================================
