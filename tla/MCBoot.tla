------------------------------- MODULE MCBoot -------------------------------
(* Eleven frames: two for the kernel, three for the heap.                   *)
EXTENDS Boot
=============================================================================
