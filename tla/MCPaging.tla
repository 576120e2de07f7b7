------------------------------ MODULE MCPaging ------------------------------
(* Paging with one kernel frame and a pool of a few frames.                *)
EXTENDS AddressSpace
=============================================================================
