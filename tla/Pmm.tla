-------------------------------- MODULE Pmm --------------------------------
(***************************************************************************)
(* The physical memory manager of src/src/pmm.c: one bit per page frame    *)
(* above PMM_START, 1 for used and 0 for free, and two counters.           *)
(*                                                                         *)
(* Each function is one action.  A function that panics takes the action   *)
(* whose name says so, and nothing happens afterwards: kpanic_fatal halts  *)
(* with interrupts off.                                                    *)
(***************************************************************************)
EXTENDS Integers, FiniteSets

CONSTANTS
  PAGE_SIZE,       \* bytes of a page frame
  PMM_START,       \* address of the first frame that is managed
  PMM_MAX_BYTES,   \* end of the memory the kernel supports
  KERNEL_BYTES,    \* bytes reserved for the kernel image, 1 MB
  MemSizes,        \* arguments of pmm_init
  Addresses,       \* arguments of pmm_free_page
  Breaks           \* arguments of pmm_brk

VARIABLES
  bitmap,       \* the bits of the array of the same name
  total_pages,
  free_pages,
  current_brk,
  panic,        \* why the kernel has stopped, "none" while it runs
  owned         \* history: frames granted and not given back

vars == <<bitmap, total_pages, free_pages, current_brk, panic, owned>>

(***************************************************************************)
(* The caller of pmm_init, memory_init, passes PMM_MAX_BYTES; a size below *)
(* PMM_START would wrap and is not a possible argument.  Callers give back *)
(* frames that were granted to them, some of them perhaps twice, so never  *)
(* a frame of the kernel image.                                            *)
(***************************************************************************)
ASSUME PmmAssumption ==
  /\ PAGE_SIZE \in Nat \ {0}
  /\ PMM_START \in Nat /\ PMM_MAX_BYTES \in Nat /\ KERNEL_BYTES \in Nat
  /\ PMM_START < PMM_MAX_BYTES
  /\ MemSizes \subseteq {m \in Nat : m >= PMM_START}
  /\ Addresses \subseteq
       {a \in Nat : a < PMM_START \/ a >= PMM_START + KERNEL_BYTES}
  /\ Breaks \subseteq Nat

Pages(bytes) == bytes \div PAGE_SIZE

(* The number of bits of the array: 32 for each of its words.              *)
BITMAP_BITS == 32 * (Pages(PMM_MAX_BYTES) \div 32 + 1)

(* index 0 corresponds to PMM_START *)
PageIndex(addr) == Pages(addr - PMM_START)

Indices == {i \in 0 .. BITMAP_BITS - 1 : i < total_pages}

Clear == {i \in Indices : bitmap[i] = 0}

Init ==
  /\ bitmap = [i \in 0 .. BITMAP_BITS - 1 |-> 0]
  /\ total_pages = 0 /\ free_pages = 0
  /\ current_brk = 0
  /\ panic = "none"
  /\ owned = {}

Running == panic = "none"

Halt(reason) ==
  /\ panic' = reason
  /\ UNCHANGED <<bitmap, total_pages, free_pages, current_brk, owned>>

----------------------------------------------------------------------------
(* What is left of the memory after the cap and the first PMM_START bytes. *)
AvailablePages(mem) ==
  Pages((IF mem > PMM_MAX_BYTES THEN PMM_MAX_BYTES ELSE mem) - PMM_START)

ReservePages_bug(available) == 0

ReservePages(available) ==
  IF Pages(KERNEL_BYTES) > available THEN available ELSE Pages(KERNEL_BYTES)

(* The loop that reserves the kernel's frames runs once too often.         *)
pmm_init_bug(mem) ==
  LET available == AvailablePages(mem)
      reserve   == ReservePages(available)
  IN  /\ Running /\ total_pages = 0 /\ available # 0
      /\ total_pages' = available
      /\ bitmap' = [i \in 0 .. BITMAP_BITS - 1 |->
                      IF i >= available \/ i <= reserve THEN 1 ELSE 0]
      /\ free_pages' = available - reserve
      /\ UNCHANGED <<current_brk, panic, owned>>

(* pmm_init, which boot calls once.                                        *)
pmm_init(mem) ==
  LET available == AvailablePages(mem)
      reserve   == ReservePages(available)
  IN  /\ Running /\ total_pages = 0 /\ available # 0
      /\ total_pages' = available
      /\ bitmap' = [i \in 0 .. BITMAP_BITS - 1 |->
                      IF i >= available \/ i < reserve THEN 1 ELSE 0]
      /\ free_pages' = available - reserve
      /\ UNCHANGED <<current_brk, panic, owned>>

pmm_init_fails(mem) ==
  /\ Running /\ total_pages = 0 /\ AvailablePages(mem) = 0
  /\ Halt("no memory")

(* The counter is not updated.                                             *)
pmm_alloc_page_bug ==
  /\ Running
  /\ \E i \in Clear :
       /\ \A j \in Clear : i <= j
       /\ bitmap' = [bitmap EXCEPT ![i] = 1]
       /\ owned' = owned \cup {i}
  /\ UNCHANGED <<total_pages, free_pages, current_brk, panic>>

(* The scan takes the lowest clear bit.                                    *)
pmm_alloc_page ==
  /\ Running
  /\ \E i \in Clear :
       /\ \A j \in Clear : i <= j
       /\ bitmap' = [bitmap EXCEPT ![i] = 1]
       /\ owned' = owned \cup {i}
  /\ free_pages' = free_pages - 1
  /\ UNCHANGED <<total_pages, current_brk, panic>>

(* No bit below total_pages is clear, which is also so before pmm_init.    *)
pmm_alloc_page_fails ==
  /\ Running /\ Clear = {}
  /\ Halt("out of memory")

----------------------------------------------------------------------------
(* An address outside the managed frames is ignored.                       *)
Ignored(addr) == addr < PMM_START \/ PageIndex(addr) >= total_pages

pmm_free_page(addr) ==
  /\ Running /\ ~Ignored(addr) /\ bitmap[PageIndex(addr)] = 1
  /\ bitmap' = [bitmap EXCEPT ![PageIndex(addr)] = 0]
  /\ free_pages' = free_pages + 1
  /\ owned' = owned \ {PageIndex(addr)}
  /\ UNCHANGED <<total_pages, current_brk, panic>>

pmm_free_page_fails(addr) ==
  /\ Running /\ ~Ignored(addr) /\ bitmap[PageIndex(addr)] = 0
  /\ Halt("double free")

----------------------------------------------------------------------------
(* pmm_brk: a number that nothing else reads.  Argument 0 asks for it.     *)
pmm_brk(new_brk) ==
  /\ Running
  /\ \/ /\ new_brk = 0 /\ current_brk = 0
        /\ current_brk' = PMM_START
     \/ /\ new_brk # 0
        /\ new_brk >= PMM_START
        /\ new_brk <= PMM_START + total_pages * PAGE_SIZE
        /\ current_brk' = new_brk
  /\ UNCHANGED <<bitmap, total_pages, free_pages, panic, owned>>

kpanic_fatal == ~Running /\ UNCHANGED vars

Next ==
  \/ \E mem \in MemSizes : pmm_init(mem) \/ pmm_init_fails(mem)
  \/ pmm_alloc_page \/ pmm_alloc_page_fails
  \/ \E addr \in Addresses : pmm_free_page(addr) \/ pmm_free_page_fails(addr)
  \/ \E new_brk \in Breaks : pmm_brk(new_brk)
  \/ kpanic_fatal

Spec == Init /\ [][Next]_vars

----------------------------------------------------------------------------
(***************************************************************************)
(* Properties.                                                             *)
(***************************************************************************)
TypeOK ==
  /\ bitmap \in [0 .. BITMAP_BITS - 1 -> {0, 1}]
  /\ total_pages \in 0 .. BITMAP_BITS
  /\ free_pages \in 0 .. total_pages
  /\ current_brk \in Nat
  /\ panic \in {"none", "no memory", "out of memory", "double free"}
  /\ owned \subseteq 0 .. BITMAP_BITS - 1

Pool == {i \in Indices : i >= ReservePages(total_pages)}

(* The counter that meminfo prints is the number of free frames, after any *)
(* sequence of grants, releases and ignored releases.                      *)
CountExact == free_pages = Cardinality(Clear)

(* Every frame is in one of three places: the kernel image, an owner, or   *)
(* free.  No frame is lost, and the image is never given away.             *)
NoFrameLost == Clear = Pool \ owned /\ owned \subseteq Pool

(* All managed frames lie below the end of the supported memory, whatever  *)
(* size boot reports.                                                      *)
FramesBacked ==
  total_pages # 0 => PMM_START + total_pages * PAGE_SIZE <= PMM_MAX_BYTES

(* The bitmap implements the abstract frame allocator: one owner for each  *)
(* frame, and out-of-memory only with every frame of the pool owned.       *)
Abstract == INSTANCE FrameAllocator WITH
              Frames  <- {i \in 0 .. BITMAP_BITS - 1 : i >= Pages(KERNEL_BYTES)},
              ready   <- total_pages # 0,
              pool    <- Pool,
              granted <- owned

ImplementsFrameAllocator == Abstract!Spec
=============================================================================
