--------------------------- MODULE MCMultitasking ---------------------------
(* Entry points of the tasks; the third finds the table full when MaxTasks *)
(* is three, because kernel_main is a task as well.                        *)
EXTENDS Multitasking
KernelTasks == <<"taskA", "taskB">>
ThreeTasks == <<"taskA", "taskB", "taskC">>
=============================================================================
