-------------------------------- MODULE VMM --------------------------------
(***************************************************************************)
(* The page tables (vmm.c) on top of the physical memory manager.  A frame *)
(* is a page of physical memory; the manager numbers its pages from the    *)
(* first frame of its region.  The kernel maps frames to themselves, one   *)
(* after the other: todo is what the loop it is in has yet to map.         *)
(*                                                                         *)
(* PMM_AllocatePage can return NULL.  VMM_MapPage does not look, so frame  *)
(* 0 becomes a table, cleared again each time.                             *)
(***************************************************************************)
EXTENDS Integers, Sequences

CONSTANTS
  Entries,                 \* of a table: 512
  PageSize, Bits, Width,   \* see PMM
  NULL                     \* no page, and no entry

VARIABLES
  stage, max_pages, free, held, result,   \* the physical memory manager
  base,          \* base_paddr, as a frame
  kernel_pml4,   \* the frame of the top table
  tables,        \* the contents of the frames used as tables
  todo,          \* the frames the current loop has yet to map
  mapped,        \* history: the frames that have been mapped
  cr3,           \* the table the processor uses, NULL: the firmware's
  exhausted      \* history: a request for a page returned NULL

pmm == <<stage, max_pages, free, held, result>>
vmm == <<base, kernel_pml4, tables, todo, mapped, cr3, exhausted>>

Pmm == INSTANCE PMM WITH Sizes <- Nat

(* The frames that a walk of four tables tells apart. *)
Addresses == 0 .. (Entries * Entries * Entries * Entries - 1)

(* The address in the result of an allocation, as a frame. *)
Frame(page) == IF page = NULL THEN 0 ELSE base + page

(* Faulty variant: pd_idx is computed as pdp_idx is. *)
IndicesTwiceTheSame(v) ==
  LET pt == v \div Entries
      pd == pt \div Entries
      pdp == pd \div Entries
  IN  <<pdp % Entries, pd % Entries, pd % Entries, v % Entries>>

(* pml4_idx, pdp_idx, pd_idx and pt_idx of frame v. *)
Indices(v) ==
  LET pt == v \div Entries
      pd == pt \div Entries
      pdp == pd \div Entries
  IN  <<pdp % Entries, pd % Entries, pt % Entries, v % Entries>>

(* What entry i of table t has, if t is one. *)
Entry(t, i) == IF t \in DOMAIN tables THEN tables[t][i] ELSE NULL

(* The four tables on the way to v, from the top, and what v is mapped to; *)
(* NULL from the first entry on that is not present.                       *)
Walk(v) ==
  LET pdp == Entry(kernel_pml4, Indices(v)[1])
      pd == Entry(pdp, Indices(v)[2])
      pt == Entry(pd, Indices(v)[3])
  IN  <<kernel_pml4, pdp, pd, pt, Entry(pt, Indices(v)[4])>>

Translate(v) == Walk(v)[5]

EmptyTable == [i \in 0 .. (Entries - 1) |-> NULL]

(* clear_page *)
Cleared(t) ==
  [f \in DOMAIN tables \union {t} |-> IF f = t THEN EmptyTable ELSE tables[f]]

AllocatePage ==
  /\ Pmm!PMM_AllocatePage
  /\ exhausted' = (exhausted \/ result' = NULL)

VMM_Init ==
  /\ AllocatePage
  /\ kernel_pml4' = Frame(result')
  /\ tables' = Cleared(Frame(result'))
  /\ UNCHANGED <<base, mapped, cr3>>

(* The first entry on the way to v that is not present. *)
Missing(v, k) == Walk(v)[k] \in DOMAIN tables /\ Walk(v)[k + 1] = NULL

(* VMM_MapPage finds a table missing: a page is allocated, cleared and     *)
(* linked.                                                                 *)
AddTable ==
  /\ todo # <<>>
  /\ AllocatePage
  /\ \E k \in 1 .. 3 :
       /\ Missing(Head(todo), k)
       /\ tables' = [Cleared(Frame(result')) EXCEPT
                       ![Walk(Head(todo))[k]][Indices(Head(todo))[k]] = Frame(result')]
  /\ UNCHANGED <<base, kernel_pml4, todo, mapped, cr3>>

(* All four tables are there: the entry is set, and the loop goes on. *)
SetEntry ==
  /\ todo # <<>>
  /\ Walk(Head(todo))[4] \in DOMAIN tables
  /\ tables' = [tables EXCEPT ![Walk(Head(todo))[4]][Indices(Head(todo))[4]] = Head(todo)]
  /\ todo' = Tail(todo)
  /\ mapped' = mapped \union {Head(todo)}
  /\ UNCHANGED <<pmm, base, kernel_pml4, cr3, exhausted>>

VMM_MapPage == AddTable \/ SetEntry

(* A walk through frame 0, used as a table for two levels, can end up in a *)
(* frame that is no table.                                                 *)
Astray ==
  /\ todo # <<>>
  /\ \E k \in 2 .. 4 :
       Walk(Head(todo))[k] # NULL /\ Walk(Head(todo))[k] \notin DOMAIN tables

VMM_Activate ==
  /\ cr3' = kernel_pml4
  /\ UNCHANGED <<pmm, base, kernel_pml4, tables, todo, mapped, exhausted>>

-----------------------------------------------------------------------------
(***************************************************************************)
(* The tables say what the kernel mapped, no more and no less: no table    *)
(* serves two addresses, and mapping one page leaves the others mapped     *)
(* (vmm.c:25-57), as long as there was a page for every table.             *)
(***************************************************************************)
TranslationExact ==
  ~exhausted =>
    \A v \in Addresses : Translate(v) = IF v \in mapped THEN v ELSE NULL
=============================================================================
