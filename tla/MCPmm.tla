------------------------------- MODULE MCPmm -------------------------------
(* The physical memory manager with eight frames, two of them the kernel's.*)
EXTENDS Pmm

(* Every frame's address, an unaligned one, one below and one above.       *)
MCAddresses ==
  {PMM_START + i * PAGE_SIZE : i \in Pages(KERNEL_BYTES) .. Pages(PMM_MAX_BYTES)}
    \cup {PMM_START - 1, PMM_START + KERNEL_BYTES + 1}
=============================================================================
