----------------------------- MODULE MCFlasher -----------------------------
(* Two threads and one letter, so that only one stick can be written to at  *)
(* a time, or one thread and two letters: both at once is too much for TLC. *)
(* Sticks are all alike, and so are threads.                                *)
EXTENDS Flasher, FiniteSets, TLC

CONSTANT Spare  \* letters that Windows does not give out if two threads may be at work

VARIABLE alone  \* one thread at a time

Small ==
  IF alone
  THEN Cardinality({t \in Threads : ~Idle(t)}) <= 1
  ELSE \A l \in Spare : drive[l] = NULL

SmallInit == alone \in BOOLEAN /\ Init /\ Small
SmallNext == UNCHANGED alone /\ Next /\ Small'
SmallSpec == SmallInit /\ [][SmallNext]_<<vars, alone>>

Symmetric == Permutations(Sticks) \union Permutations(Threads)
=============================================================================
