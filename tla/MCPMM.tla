------------------------------- MODULE MCPMM -------------------------------
(* A bitmap page tracks four pages.  These are regions whose bitmap ends   *)
(* within the pages reserved for it; those of 5 or 9 pages are not.        *)
EXTENDS PMM
Fitting == {0, 1, 2, 3, 4, 6, 7, 8}
=============================================================================
