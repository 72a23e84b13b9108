----------------------------- MODULE MCConsole -----------------------------
(* kernel_main and the two tasks, on screens of three lines, and of three  *)
(* lines and half of one.  The tasks run the same code.                    *)
EXTENDS Console, TLC
CONSTANTS main, taskA, taskB
Tasks == {main, taskA, taskB}
TaskSymmetry == Permutations(Tasks)
Screens == {6, 7}
=============================================================================
