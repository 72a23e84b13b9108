------------------------------- MODULE MCHeap -------------------------------
(* A heap of 18 bytes: up to nine blocks of the smallest request.         *)
EXTENDS Heap
=============================================================================
