----------------------------- MODULE PmmProofs -----------------------------
(***************************************************************************)
(* Proofs about the physical memory manager, for any memory size, page     *)
(* size and kernel size, and any callers that respect PmmAssumption.       *)
(***************************************************************************)
EXTENDS Pmm, FiniteSetTheorems, TLAPS

(* Pages rounds down and is monotone.                                      *)
LEMMA PagesMonotone ==
  ASSUME NEW a \in Nat, NEW b \in Nat, a <= b
  PROVE  Pages(a) \in Nat /\ Pages(a) <= Pages(b)
BY PmmAssumption DEF Pages

(* The pages of a whole number of bytes fit in those bytes.                *)
LEMMA PagesFit ==
  ASSUME NEW a \in Nat
  PROVE  Pages(a) * PAGE_SIZE <= a
BY PmmAssumption DEF Pages

(* The array of pmm.c:13 has a bit for every page of the supported memory. *)
LEMMA BitmapBits == BITMAP_BITS \in Nat /\ Pages(PMM_MAX_BYTES) < BITMAP_BITS
<1>1. Pages(PMM_MAX_BYTES) \in Nat
  BY PagesMonotone, PmmAssumption
<1> DEFINE p == Pages(PMM_MAX_BYTES)
<1>2. \A n \in Nat : 32 * (n \div 32 + 1) \in Nat /\ n < 32 * (n \div 32 + 1)
  OBVIOUS
<1> QED
  BY <1>1, <1>2 DEF BITMAP_BITS

(* The cap of pmm_init keeps the pages it counts inside the array.         *)
LEMMA AvailableBound ==
  ASSUME NEW mem \in MemSizes
  PROVE  /\ AvailablePages(mem) \in 0 .. BITMAP_BITS - 1
         /\ PMM_START + AvailablePages(mem) * PAGE_SIZE <= PMM_MAX_BYTES
<1> DEFINE cap == (IF mem > PMM_MAX_BYTES THEN PMM_MAX_BYTES ELSE mem) - PMM_START
<1>1. cap \in Nat /\ PMM_START + cap <= PMM_MAX_BYTES
  BY PmmAssumption
<1>2. Pages(cap) \in Nat /\ Pages(cap) <= Pages(PMM_MAX_BYTES)
  BY <1>1, PagesMonotone, PmmAssumption
<1>3. Pages(cap) * PAGE_SIZE <= cap
  BY <1>1, PagesFit
<1>4. AvailablePages(mem) = Pages(cap)
  BY DEF AvailablePages
<1>5. Pages(PMM_MAX_BYTES) \in Nat
  BY PagesMonotone, PmmAssumption
<1>6. Pages(cap) * PAGE_SIZE \in Nat
  BY <1>2, PmmAssumption
<1> HIDE DEF cap
<1>7. AvailablePages(mem) \in 0 .. BITMAP_BITS - 1
  BY <1>2, <1>4, <1>5, BitmapBits
<1>8. PMM_START + AvailablePages(mem) * PAGE_SIZE <= PMM_MAX_BYTES
  BY <1>1, <1>3, <1>4, <1>6, PmmAssumption
<1> QED
  BY <1>7, <1>8

LEMMA ReserveBound ==
  ASSUME NEW n \in Nat
  PROVE  ReservePages(n) \in 0 .. n /\ ReservePages(n) <= Pages(KERNEL_BYTES)
BY PagesMonotone, PmmAssumption DEF ReservePages

(* A frame that a caller gives back is not one of the kernel's.            *)
LEMMA AddressIndex ==
  ASSUME NEW addr \in Addresses, addr >= PMM_START
  PROVE  PageIndex(addr) \in Nat /\ PageIndex(addr) >= Pages(KERNEL_BYTES)
<1>1. addr - PMM_START \in Nat /\ KERNEL_BYTES <= addr - PMM_START
  BY PmmAssumption
<1> QED
  BY <1>1, PagesMonotone, PmmAssumption DEF PageIndex

----------------------------------------------------------------------------
(***************************************************************************)
(* The inductive invariant.  CountExact alone is not inductive: a free     *)
(* adds one to the counter, and NoFrameLost with the types tells that the  *)
(* frame was not clear before and lies below total_pages.                  *)
(***************************************************************************)
Shape ==
  /\ bitmap \in [0 .. BITMAP_BITS - 1 -> {0, 1}]
  /\ total_pages \in 0 .. BITMAP_BITS
  /\ current_brk \in Nat
  /\ panic \in {"none", "no memory", "out of memory", "double free"}

IInv == Shape /\ CountExact /\ NoFrameLost /\ FramesBacked

LEMMA ShapeTypes ==
  ASSUME Shape
  PROVE  total_pages \in Nat /\ total_pages <= BITMAP_BITS /\ BITMAP_BITS \in Nat
<1>1. BITMAP_BITS \in Nat
  BY BitmapBits
<1>2. total_pages \in 0 .. BITMAP_BITS
  BY DEF Shape
<1> QED
  BY <1>1, <1>2

(* The clear bits are finitely many, and no more than the pages.           *)
LEMMA ClearFinite ==
  ASSUME Shape
  PROVE  /\ IsFiniteSet(Clear)
         /\ Cardinality(Clear) \in 0 .. total_pages
<1>1. Clear \subseteq 0 .. total_pages - 1
  BY ShapeTypes DEF Clear, Indices
<1>2. /\ IsFiniteSet(0 .. total_pages - 1)
      /\ Cardinality(0 .. total_pages - 1) = total_pages
  <2>1. 0 \in Int /\ total_pages - 1 \in Int /\ total_pages \in Nat
    BY ShapeTypes
  <2>2. /\ IsFiniteSet(0 .. total_pages - 1)
        /\ Cardinality(0 .. total_pages - 1) =
             IF 0 > total_pages - 1 THEN 0 ELSE (total_pages - 1) - 0 + 1
    BY <2>1, FS_Interval
  <2> QED
    BY <2>1, <2>2
<1>3. /\ IsFiniteSet(Clear)
      /\ Cardinality(Clear) <= Cardinality(0 .. total_pages - 1)
  BY <1>1, <1>2, FS_Subset
<1>4. Cardinality(Clear) \in Nat
  BY <1>3, FS_CardinalityType
<1> QED
  BY <1>2, <1>3, <1>4, ShapeTypes

LEMMA IInvImpliesTypeOK == IInv => TypeOK
<1> SUFFICES ASSUME IInv PROVE TypeOK
  OBVIOUS
<1>1. free_pages \in 0 .. total_pages
  BY ClearFinite DEF IInv, CountExact
<1>2. owned \subseteq 0 .. BITMAP_BITS - 1
  BY DEF IInv, NoFrameLost, Pool, Indices
<1> QED
  BY <1>1, <1>2 DEF IInv, Shape, TypeOK

LEMMA InitIInv == Init => IInv
<1> SUFFICES ASSUME Init PROVE IInv
  OBVIOUS
<1> USE DEF Init
<1>1. Shape
  BY BitmapBits DEF Shape
<1>2. Indices = {}
  BY BitmapBits DEF Indices
<1>3. CountExact
  BY <1>2, FS_EmptySet DEF CountExact, Clear
<1>4. NoFrameLost
  BY <1>2 DEF NoFrameLost, Clear, Pool
<1>5. FramesBacked
  BY DEF FramesBacked
<1> QED
  BY <1>1, <1>3, <1>4, <1>5 DEF IInv

LEMMA pmm_initIInv ==
  ASSUME IInv, NEW mem \in MemSizes, pmm_init(mem)
  PROVE  IInv'
<1> DEFINE available == AvailablePages(mem)
           reserve   == ReservePages(available)
<1>1. /\ available \in 0 .. BITMAP_BITS - 1
      /\ PMM_START + available * PAGE_SIZE <= PMM_MAX_BYTES
  BY AvailableBound
<1>2. reserve \in 0 .. available
  BY <1>1, BitmapBits, ReserveBound
<1>3. /\ total_pages' = available
      /\ bitmap' = [i \in 0 .. BITMAP_BITS - 1 |->
                      IF i >= available \/ i < reserve THEN 1 ELSE 0]
      /\ free_pages' = available - reserve
      /\ UNCHANGED <<current_brk, panic, owned>>
      /\ total_pages = 0
  BY DEF pmm_init
<1> HIDE DEF available, reserve
<1>4. owned = {}
  BY <1>3, BitmapBits DEF IInv, NoFrameLost, Pool, Indices
<1>5. Clear' = reserve .. available - 1
  BY <1>1, <1>2, <1>3, BitmapBits DEF Clear, Indices
<1>6. Pool' = reserve .. available - 1
  BY <1>1, <1>2, <1>3, BitmapBits DEF Pool, Indices, reserve
<1>7. Shape'
  <2>1. bitmap' \in [0 .. BITMAP_BITS - 1 -> {0, 1}]
    BY <1>3
  <2>2. total_pages' \in 0 .. BITMAP_BITS
    BY <1>1, <1>3, BitmapBits
  <2> QED
    BY <1>3, <2>1, <2>2 DEF IInv, Shape
<1>8. CountExact'
  <2>1. reserve \in Int /\ available - 1 \in Int
    BY <1>1, <1>2, BitmapBits
  <2>2. Cardinality(reserve .. available - 1) =
          IF reserve > available - 1 THEN 0 ELSE (available - 1) - reserve + 1
    BY <2>1, FS_Interval
  <2> QED
    BY <1>1, <1>2, <1>3, <1>5, <2>2, BitmapBits DEF CountExact
<1>9. NoFrameLost'
  BY <1>3, <1>4, <1>5, <1>6 DEF NoFrameLost
<1>10. FramesBacked'
  BY <1>1, <1>3 DEF FramesBacked
<1> QED
  BY <1>7, <1>8, <1>9, <1>10 DEF IInv

LEMMA pmm_alloc_pageIInv ==
  ASSUME IInv, pmm_alloc_page
  PROVE  IInv'
<1>1. PICK i \in Clear :
        /\ bitmap' = [bitmap EXCEPT ![i] = 1]
        /\ owned' = owned \cup {i}
  BY DEF pmm_alloc_page
<1>2. /\ free_pages' = free_pages - 1
      /\ UNCHANGED <<total_pages, current_brk, panic>>
  BY DEF pmm_alloc_page
<1>3. i \in 0 .. BITMAP_BITS - 1 /\ i \in Pool
  BY DEF Clear, Indices, IInv, NoFrameLost
<1>4. Shape'
  BY <1>1, <1>2, <1>3 DEF IInv, Shape
<1>5. Indices' = Indices /\ Pool' = Pool
  BY <1>2 DEF Indices, Pool
<1>6. Clear' = Clear \ {i}
  <2>1. \A j \in Indices : bitmap'[j] = IF j = i THEN 1 ELSE bitmap[j]
    BY <1>1 DEF IInv, Shape, Indices
  <2> QED
    BY <1>5, <2>1 DEF Clear
<1>7. CountExact'
  <2>1. Cardinality(Clear \ {i}) = Cardinality(Clear) - 1
    BY <1>1, ClearFinite, FS_RemoveElement DEF IInv
  <2> QED
    BY <1>2, <1>6, <2>1 DEF IInv, CountExact
<1>8. NoFrameLost'
  BY <1>1, <1>3, <1>5, <1>6 DEF IInv, NoFrameLost
<1>9. FramesBacked'
  BY <1>2 DEF IInv, FramesBacked
<1> QED
  BY <1>4, <1>7, <1>8, <1>9 DEF IInv

(* What a free that is not ignored does: the frame is one of the pool's.   *)
LEMMA FreedFrame ==
  ASSUME Shape, NEW addr \in Addresses, ~Ignored(addr)
  PROVE  PageIndex(addr) \in Pool
<1>1. addr >= PMM_START /\ ~(PageIndex(addr) >= total_pages)
  BY PmmAssumption DEF Ignored
<1>2. PageIndex(addr) \in Nat /\ PageIndex(addr) >= Pages(KERNEL_BYTES)
  BY <1>1, AddressIndex
<1>3. /\ ReservePages(total_pages) \in Nat
      /\ ReservePages(total_pages) <= Pages(KERNEL_BYTES)
  BY ShapeTypes, ReserveBound
<1>4. Pages(KERNEL_BYTES) \in Nat
  BY PagesMonotone, PmmAssumption
<1> QED
  BY <1>1, <1>2, <1>3, <1>4, ShapeTypes DEF Pool, Indices

LEMMA pmm_free_pageIInv ==
  ASSUME IInv, NEW addr \in Addresses, pmm_free_page(addr)
  PROVE  IInv'
<1> DEFINE i == PageIndex(addr)
<1>1. /\ ~Ignored(addr) /\ bitmap[i] = 1
      /\ bitmap' = [bitmap EXCEPT ![i] = 0]
      /\ owned' = owned \ {i}
      /\ free_pages' = free_pages + 1
      /\ UNCHANGED <<total_pages, current_brk, panic>>
  BY DEF pmm_free_page
<1>2. i \in Pool
  BY <1>1, FreedFrame DEF IInv
<1> HIDE DEF i
<1>3. i \in Indices /\ i \in 0 .. BITMAP_BITS - 1
  BY <1>2 DEF Pool, Indices
<1>4. Shape'
  BY <1>1, <1>3 DEF IInv, Shape
<1>5. Indices' = Indices /\ Pool' = Pool
  BY <1>1 DEF Indices, Pool
<1>6. Clear' = Clear \cup {i}
  BY <1>1, <1>3, <1>5 DEF Clear, IInv, Shape, Indices
<1>7. i \notin Clear
  BY <1>1 DEF Clear
<1>8. CountExact'
  <2>1. Cardinality(Clear \cup {i}) = Cardinality(Clear) + 1
    BY <1>7, ClearFinite, FS_AddElement DEF IInv
  <2> QED
    BY <1>1, <1>6, <2>1 DEF IInv, CountExact
<1>9. NoFrameLost'
  BY <1>1, <1>2, <1>5, <1>6 DEF IInv, NoFrameLost
<1>10. FramesBacked'
  BY <1>1 DEF IInv, FramesBacked
<1> QED
  BY <1>4, <1>8, <1>9, <1>10 DEF IInv

(* The steps that leave the bitmap, the counters and the owners alone.     *)
LEMMA OtherStepIInv ==
  ASSUME IInv, UNCHANGED <<bitmap, total_pages, free_pages, owned>>,
         current_brk' \in Nat,
         panic' \in {"none", "no memory", "out of memory", "double free"}
  PROVE  IInv'
<1>1. Shape'
  BY DEF IInv, Shape
<1>2. Clear' = Clear /\ Pool' = Pool
  BY DEF Clear, Pool, Indices
<1> QED
  BY <1>1, <1>2 DEF IInv, CountExact, NoFrameLost, FramesBacked

LEMMA NextIInv == IInv /\ [Next]_vars => IInv'
<1> SUFFICES ASSUME IInv, [Next]_vars PROVE IInv'
  OBVIOUS
<1>0. current_brk \in Nat /\ panic \in {"none", "no memory", "out of memory", "double free"}
  BY DEF IInv, Shape
<1>1. ASSUME NEW mem \in MemSizes, pmm_init(mem) PROVE IInv'
  BY <1>1, pmm_initIInv
<1>2. ASSUME NEW mem \in MemSizes, pmm_init_fails(mem) PROVE IInv'
  BY <1>0, <1>2, OtherStepIInv DEF pmm_init_fails, Halt
<1>3. CASE pmm_alloc_page
  BY <1>3, pmm_alloc_pageIInv
<1>4. CASE pmm_alloc_page_fails
  BY <1>0, <1>4, OtherStepIInv DEF pmm_alloc_page_fails, Halt
<1>5. ASSUME NEW addr \in Addresses, pmm_free_page(addr) PROVE IInv'
  BY <1>5, pmm_free_pageIInv
<1>6. ASSUME NEW addr \in Addresses, pmm_free_page_fails(addr) PROVE IInv'
  BY <1>0, <1>6, OtherStepIInv DEF pmm_free_page_fails, Halt
<1>7. ASSUME NEW new_brk \in Breaks, pmm_brk(new_brk) PROVE IInv'
  BY <1>0, <1>7, OtherStepIInv, PmmAssumption DEF pmm_brk
<1>8. CASE kpanic_fatal
  BY <1>0, <1>8, OtherStepIInv DEF kpanic_fatal, vars
<1>9. CASE UNCHANGED vars
  BY <1>0, <1>9, OtherStepIInv DEF vars
<1> QED
  BY <1>1, <1>2, <1>3, <1>4, <1>5, <1>6, <1>7, <1>8, <1>9 DEF Next

(* Every state of the manager satisfies the inductive invariant.           *)
THEOREM Invariance == Spec => []IInv
<1> QED
  BY InitIInv, NextIInv, PTL DEF Spec

(* Type correctness: the bitmap is never indexed outside its array, and    *)
(* the unsigned counter free_pages never wraps.                            *)
THEOREM TypeCorrect == Spec => []TypeOK
<1> QED
  BY Invariance, IInvImpliesTypeOK, PTL

(* The count of free frames that pmm_free_pages returns is exact.          *)
THEOREM CountCorrect == Spec => []CountExact
<1>1. IInv => CountExact
  BY DEF IInv
<1> QED
  BY <1>1, Invariance, PTL

(* No frame is lost and the kernel image is never given away.              *)
THEOREM FramesCorrect == Spec => [](NoFrameLost /\ FramesBacked)
<1>1. IInv => NoFrameLost /\ FramesBacked
  BY DEF IInv
<1> QED
  BY <1>1, Invariance, PTL

----------------------------------------------------------------------------
(***************************************************************************)
(* The refinement.  Each action of the manager is an action of the         *)
(* abstract allocator or a stuttering step of it.                          *)
(***************************************************************************)
LEMMA InitRefines == Init => Abstract!Init
BY BitmapBits DEF Init, Abstract!Init, Pool, Indices

LEMMA StepRefines ==
  ASSUME IInv, [Next]_vars
  PROVE  [Abstract!Next]_Abstract!vars
<1> USE DEF Abstract!vars
<1>0. Shape /\ NoFrameLost
  BY DEF IInv
<1>1. ASSUME NEW mem \in MemSizes, pmm_init(mem) PROVE Abstract!Start
  <2>1. total_pages' \in 0 .. BITMAP_BITS - 1 /\ total_pages' # 0
    BY <1>1, AvailableBound DEF pmm_init
  <2>2. ASSUME NEW i \in Pool' PROVE i >= Pages(KERNEL_BYTES)
    <3>1. /\ i >= ReservePages(total_pages') /\ i \in 0 .. BITMAP_BITS - 1
          /\ i < total_pages'
      BY <2>2 DEF Pool, Indices
    <3>2. Pages(KERNEL_BYTES) \in Nat
      BY PagesMonotone, PmmAssumption
    <3> QED
      BY <2>1, <3>1, <3>2, BitmapBits DEF ReservePages
  <2>3. Pool' \subseteq 0 .. BITMAP_BITS - 1
    BY DEF Pool, Indices
  <2> QED
    BY <1>1, <2>1, <2>2, <2>3 DEF pmm_init, Running, Abstract!Start
<1>2. ASSUME NEW mem \in MemSizes, pmm_init_fails(mem) PROVE Abstract!NoMemory
  BY <1>2 DEF pmm_init_fails, Halt, Running, Pool, Indices, Abstract!NoMemory, Abstract!Stop
<1>3. ASSUME pmm_alloc_page PROVE \E f \in Pool : Abstract!Grant(f)
  <2>1. PICK i \in Clear : owned' = owned \cup {i}
    BY <1>3 DEF pmm_alloc_page
  <2>2. i \in Pool \ owned
    BY <1>0 DEF NoFrameLost
  <2>3. total_pages # 0
    BY BitmapBits DEF Clear, Indices
  <2>4. UNCHANGED <<total_pages, Pool, panic>> /\ panic = "none"
    BY <1>3 DEF pmm_alloc_page, Pool, Indices, Running
  <2> QED
    BY <2>1, <2>2, <2>3, <2>4 DEF Abstract!Grant
<1>4. ASSUME pmm_alloc_page_fails PROVE Abstract!Exhausted
  BY <1>0, <1>4 DEF pmm_alloc_page_fails, Halt, Running, NoFrameLost, Pool, Indices,
                    Abstract!Exhausted, Abstract!Stop
<1>5. ASSUME NEW addr \in Addresses, pmm_free_page(addr)
      PROVE  \E f \in Pool : Abstract!Release(f)
  <2> DEFINE i == PageIndex(addr)
  <2>1. i \in Pool
    BY <1>0, <1>5, FreedFrame DEF pmm_free_page
  <2>2. i \in owned
    BY <1>0, <1>5, <2>1 DEF pmm_free_page, NoFrameLost, Clear
  <2>3. total_pages # 0
    BY <2>1, BitmapBits DEF Pool, Indices
  <2>4. UNCHANGED <<total_pages, Pool, panic>> /\ panic = "none"
    BY <1>5 DEF pmm_free_page, Pool, Indices, Running
  <2> QED
    BY <1>5, <2>1, <2>2, <2>3, <2>4 DEF pmm_free_page, Abstract!Release
<1>6. ASSUME NEW addr \in Addresses, pmm_free_page_fails(addr)
      PROVE  \E f \in Pool : Abstract!Misuse(f)
  <2> DEFINE i == PageIndex(addr)
  <2>1. i \in Pool
    BY <1>0, <1>6, FreedFrame DEF pmm_free_page_fails
  <2>2. i \in Pool \ owned
    BY <1>0, <1>6, <2>1 DEF pmm_free_page_fails, NoFrameLost, Clear, Pool
  <2>3. total_pages # 0
    BY <2>1, BitmapBits DEF Pool, Indices
  <2>4. UNCHANGED <<total_pages, Pool, owned>> /\ panic = "none" /\ panic' = "double free"
    BY <1>6 DEF pmm_free_page_fails, Halt, Pool, Indices, Running
  <2> QED
    BY <2>1, <2>2, <2>3, <2>4 DEF Abstract!Misuse, Abstract!Stop
<1>7. ASSUME NEW new_brk \in Breaks, pmm_brk(new_brk) PROVE UNCHANGED Abstract!vars
  BY <1>7 DEF pmm_brk, Pool, Indices
<1>8. CASE kpanic_fatal \/ UNCHANGED vars
  BY <1>8 DEF kpanic_fatal, vars, Pool, Indices
<1> QED
  BY <1>1, <1>2, <1>3, <1>4, <1>5, <1>6, <1>7, <1>8 DEF Next, Abstract!Next

(* The manager implements the abstract frame allocator, hence a frame has  *)
(* one owner and out-of-memory means that every frame is owned.            *)
THEOREM Refinement == Spec => ImplementsFrameAllocator
<1> QED
  BY InitRefines, StepRefines, Invariance, PTL
     DEF Spec, ImplementsFrameAllocator, Abstract!Spec
=============================================================================
