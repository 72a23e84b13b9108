--------------------------- MODULE PageAllocator ---------------------------
(***************************************************************************)
(* What an allocator of physical pages promises: a page has one owner at a *)
(* time, a page that was given back can be given out again, and NULL comes *)
(* back only when there is no page left.                                   *)
(***************************************************************************)
CONSTANTS
  Page,   \* pages that may be managed
  NULL    \* "no page", not a Page

VARIABLES
  free,    \* pages that can be given out
  held,    \* pages the rest of the kernel owns
  result   \* what the last request for a page returned

vars == <<free, held, result>>

TypeOK == free \subseteq Page /\ held \subseteq Page /\ result \in Page \union {NULL}

Init == free = {} /\ held = {} /\ result = NULL

(* Pages nobody owns come under management. *)
Provide ==
  /\ free' \in SUBSET Page
  /\ free \subseteq free'
  /\ free' \intersect held = {}
  /\ UNCHANGED <<held, result>>

Allocate(p) ==
  /\ p \in free
  /\ free' = free \ {p}
  /\ held' = held \union {p}
  /\ result' = p

Refuse ==
  /\ free = {}
  /\ result' = NULL
  /\ UNCHANGED <<free, held>>

Release(p) ==
  /\ p \in held
  /\ free' = free \union {p}
  /\ held' = held \ {p}
  /\ UNCHANGED result

Next ==
  \/ Provide
  \/ \E p \in free : Allocate(p)
  \/ \E p \in held : Release(p)
  \/ Refuse

Spec == Init /\ [][Next]_vars
=============================================================================
