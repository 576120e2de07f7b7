------------------------------ MODULE MCKHeap ------------------------------
(* The kernel heap on a region that holds at most three blocks.            *)
EXTENDS HeapTests

MCResidue == [w \in Heap |-> 5]
MCPointers == {p \in KHEAP_START .. KHEAP_END : p % 8 = 0 /\ p - HEADER \in Heap}
MCTests == {cmd_ktest(3, MAGIC_ALLOCATED), cmd_ktest(78, 7),
            cmd_kmalloc_test(3, 3), cmd_panic_test(72)}
=============================================================================
