------------------------------- MODULE MCVMem -------------------------------
(* The virtual memory allocator on a region of four pages with three frames.*)
EXTENDS VMemTests

MCResidue == [w \in Region |-> 5]
MCPointers == {p \in Region : p - HEADER \in Region}
MCTests == {cmd_vtest(3, MAGIC_ALLOCATED), cmd_vtest(380, 7), cmd_vmalloc_test(380, 48)}
=============================================================================
