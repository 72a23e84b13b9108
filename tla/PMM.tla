-------------------------------- MODULE PMM --------------------------------
(***************************************************************************)
(* The physical memory manager (pmm.c) and the part of kernel_main that    *)
(* sets it up.  A bitmap at the start of the region has one bit for each   *)
(* page, set when the page is in use; the pages the bitmap lies in are     *)
(* "reserved" by never being freed.                                        *)
(*                                                                         *)
(* Pages are numbered from the base of the region.  Owners write to their  *)
(* pages, so a bit that lies in a page somebody owns is anybody's guess.   *)
(***************************************************************************)
EXTENDS Integers

CONSTANTS
  PageSize,   \* bytes of a page: 4096
  Bits,       \* bits of a byte: 8
  Width,      \* one more than the largest count of pages: 2^64
  Sizes,      \* sizes a region can have, in pages
  NULL        \* "no page"

ASSUME PageSizeAssumption == PageSize \in Nat \ {0}
ASSUME BitsAssumption == Bits \in Nat \ {0}
ASSUME WidthAssumption == Width \in Nat \ {0}
ASSUME SizesAssumption == Sizes \subseteq 0 .. (Width - 1)
ASSUME NullAssumption == NULL \notin Nat

VARIABLES
  stage,      \* how far kernel_main has come
  max_pages,  \* as in the code
  free,       \* the pages whose bit is clear
  held,       \* the pages PMM_AllocatePage gave out and PMM_FreePage did not take back
  result      \* what PMM_AllocatePage last returned

vars == <<stage, max_pages, free, held, result>>

Page == 0 .. (max_pages - 1)

TypeOK ==
  /\ stage \in {"PMM_Init", "PMM_FreePages", "running"}
  /\ max_pages \in Sizes
  /\ free \subseteq Page
  /\ held \subseteq Page
  /\ result \in Page \union {NULL}

Init ==
  /\ stage = "PMM_Init"
  /\ max_pages \in Sizes
  /\ free = {} /\ held = {} /\ result = NULL

-----------------------------------------------------------------------------

(* Faulty variant: the number of bytes is not rounded up to pages. *)
ReservedRoundedDown(m) ==
  LET pages == (m \div Bits) \div PageSize
  IN  IF pages = 0 THEN 1 ELSE pages

(* bitmap_pages in kernel_main, for a region of m pages. *)
Reserved(m) ==
  LET pages == ((m \div Bits) + (PageSize - 1)) \div PageSize
  IN  IF pages = 0 THEN 1 ELSE pages

(* The page that the bit of page q lies in. *)
BitmapPage(q) == (q \div Bits) \div PageSize

(* The whole bitmap is set to "in use". *)
PMM_Init ==
  /\ stage = "PMM_Init"
  /\ stage' = "PMM_FreePages"
  /\ free' = {}
  /\ UNCHANGED <<max_pages, held, result>>

(* The pages that PMM_FreePages(start, count) frees. *)
Freed(start, count) == {p \in start .. (start + count - 1) : p < max_pages}

(* All pages behind the bitmap.  The count is unsigned and wraps if there  *)
(* are no pages at all.                                                    *)
PMM_FreePages ==
  /\ stage = "PMM_FreePages"
  /\ stage' = "running"
  /\ free' = free \union
       Freed(Reserved(max_pages), (max_pages + Width - Reserved(max_pages)) % Width)
  /\ UNCHANGED <<max_pages, held, result>>

(* Faulty variant: the loop stops before the last page. *)
AllocateMissesLast ==
  /\ stage = "running"
  /\ LET seen == free \ {max_pages - 1}
     IN  \/ \E p \in seen :
              /\ \A q \in seen : p <= q
              /\ free' = free \ {p}
              /\ held' = held \union {p}
              /\ result' = p
         \/ seen = {} /\ result' = NULL /\ UNCHANGED <<free, held>>
  /\ UNCHANGED <<stage, max_pages>>

(* The lowest page whose bit is clear, or NULL. *)
PMM_AllocatePage ==
  /\ stage = "running"
  /\ \/ \E p \in free :
          /\ \A q \in free : p <= q
          /\ free' = free \ {p}
          /\ held' = held \union {p}
          /\ result' = p
     \/ free = {} /\ result' = NULL /\ UNCHANGED <<free, held>>
  /\ UNCHANGED <<stage, max_pages>>

(* An owner gives back a page. *)
PMM_FreePage(p) ==
  /\ stage = "running"
  /\ p \in held
  /\ free' = IF p < max_pages THEN free \union {p} ELSE free
  /\ held' = held \ {p}
  /\ UNCHANGED <<stage, max_pages, result>>

(* An owner writes to its page: the bits that lie there change at will. *)
OwnerWrites(p) ==
  /\ p \in held
  /\ \E bits \in SUBSET {q \in Page : BitmapPage(q) = p} :
       free' = {q \in free : BitmapPage(q) # p} \union bits
  /\ UNCHANGED <<stage, max_pages, held, result>>

Next ==
  \/ PMM_Init
  \/ PMM_FreePages
  \/ PMM_AllocatePage
  \/ \E p \in held : PMM_FreePage(p) \/ OwnerWrites(p)

Spec == Init /\ [][Next]_vars

-----------------------------------------------------------------------------
(* The reserved pages hold the whole bitmap of a region of m pages. *)
Fits(m) == \A q \in 0 .. (m - 1) : BitmapPage(q) < Reserved(m)

(***************************************************************************)
(* "[KERNEL] Reserving " n " pages for bitmap." (main.c:110, 125): no bit  *)
(* of the bitmap ever lies in a page that PMM_AllocatePage gave out.       *)
(***************************************************************************)
BitmapReserved == \A q \in Page : BitmapPage(q) \notin held

(***************************************************************************)
(* PMM_AllocatePage never gives out a page that has an owner already: no   *)
(* page with an owner is marked free, whatever the owners write.           *)
(***************************************************************************)
Disjoint == free \intersect held = {}

(***************************************************************************)
(* Once the manager runs, every page behind the bitmap is free or owned.   *)
(***************************************************************************)
NothingLost ==
  stage = "running" => free \union held = Page \ (0 .. (Reserved(max_pages) - 1))

(***************************************************************************)
(* Bitmap and pages: the bitmap is nobody's page, a page has one owner and *)
(* none is lost, although the bitmap lies in the memory it describes.      *)
(***************************************************************************)
Inv == TypeOK /\ BitmapReserved /\ Disjoint /\ NothingLost

(***************************************************************************)
(* The manager gives out and takes back pages as an allocator should.      *)
(***************************************************************************)
Allocator == INSTANCE PageAllocator WITH Page <- Nat
ImplementsAllocator == Allocator!Spec
=============================================================================
