---------------------------- MODULE KHeapProofs ----------------------------
(***************************************************************************)
(* Proofs about the kernel heap, for a region of any size, whatever it     *)
(* held at boot, and any sequence of calls with any arguments.             *)
(***************************************************************************)
EXTENDS HeapTests, TLAPS

(* Every argument that can be given to kfree, kmalloc and the others, and  *)
(* a store through a live pointer at any time: the commands make only such *)
(* calls.                                                                  *)
AllPointers == {p \in KHEAP_START .. KHEAP_END : p - HEADER \in Heap}

Calls ==
  \/ \E n \in 1 .. Word - 1 : kmalloc(n)
  \/ \E ptr \in AllPointers : kfree_accept(ptr) \/ kfree_reject(ptr) \/ vfree(ptr)
  \/ \E capacity \in Nat : kfree_foreign(capacity)
  \/ \E ptr \in AllPointers, v \in Nat \ {MAGIC_ALLOCATED} : cmd_write(ptr, v)
  \/ \E ptr \in DOMAIN live, v \in Nat : store(ptr, v)
  \/ \E a \in Nat : kbrk(a)
  \/ Step
  \/ kpanic_fatal
  \/ lost

CallSpec == Init /\ [][Calls]_vars

----------------------------------------------------------------------------
(***************************************************************************)
(* The inductive invariant.  The magic number stands in front of the       *)
(* blocks in use, and elsewhere only where it was planted; the scan of     *)
(* kmalloc has found no block that fits so far; and the merge loop has     *)
(* left no two free neighbours behind.                                     *)
(***************************************************************************)
NoForgedMagic ==
  \A w \in Heap :
    /\ w - 8 \in blocks /\ Free(w - 8) = 0 => mem[w] = MAGIC_ALLOCATED
    /\ mem[w] = MAGIC_ALLOCATED =>
         (w - 8 \in blocks /\ Free(w - 8) = 0) \/ w \in planted

Neighbours(b) == Next(b) # NULL => Free(b) = 0 \/ Free(Next(b)) = 0

ScanInv ==
  pc = "scan" =>
    /\ cur \in blocks \cup {NULL}
    /\ arg \in 1 .. Word - 1
    /\ \A b \in blocks : cur = NULL \/ b < cur => ~Fits(b, RoundUp(arg))

MergeInv ==
  pc = "merge" =>
    /\ cur \in blocks
    /\ \A b \in blocks : b < cur => Neighbours(b)

IInv ==
  /\ TypeOK /\ Tiled /\ Owned /\ NoForgedMagic
  /\ ScanInv /\ MergeInv /\ OomJustified

----------------------------------------------------------------------------
(* Constants as numbers.                                                   *)
LEMMA Constants ==
  /\ KHEAP_START \in Nat /\ KHEAP_START > 0 /\ KHEAP_START % 8 = 0
  /\ KHEAP_SIZE \in Nat /\ KHEAP_SIZE % 8 = 0 /\ KHEAP_SIZE >= 24
  /\ KHEAP_END \in Nat /\ KHEAP_END = KHEAP_START + KHEAP_SIZE
  /\ KHEAP_END < Word /\ Word \in Nat /\ Word % 8 = 0
  /\ MAGIC_ALLOCATED \in Nat /\ KHEAP_END < MAGIC_ALLOCATED
  /\ MAGIC_FREED \in Nat /\ MAGIC_FREED # MAGIC_ALLOCATED
BY HeapAssumption DEF KHEAP_END, HEADER

LEMMA HeapWord ==
  ASSUME NEW w
  PROVE  w \in Heap <=> w \in Nat /\ KHEAP_START <= w /\ w < KHEAP_END /\ w % 4 = 0
BY Constants DEF Heap

(* A request is rounded to a multiple of 8, and never down if it does not  *)
(* wrap.                                                                   *)
LEMMA RoundUpMultiple ==
  ASSUME NEW n \in Nat
  PROVE  /\ RoundUp(n) \in Nat /\ RoundUp(n) % 8 = 0
         /\ n + 7 < Word => RoundUp(n) >= n
<1>1. CASE n % 8 = 0
  BY <1>1 DEF RoundUp
<1>2. CASE n % 8 # 0
  <2>1. (n + 7) % Word \in Nat
    BY Constants
  <2>2. \A k \in Nat : (k \div 8) * 8 \in Nat /\ ((k \div 8) * 8) % 8 = 0 /\ (k \div 8) * 8 > k - 8
    OBVIOUS
  <2>3. n + 7 < Word => (n + 7) % Word = n + 7
    BY Constants
  <2> QED
    BY <1>2, <2>1, <2>2, <2>3 DEF RoundUp
<1> QED
  BY <1>1, <1>2

(* What the tiling says of one block: its header lies in the heap.         *)
LEMMA BlockFacts ==
  ASSUME TypeOK, Tiled, NEW b \in blocks
  PROVE  /\ b \in Nat /\ b >= KHEAP_START /\ b % 8 = 0
         /\ b \in Heap /\ b + 4 \in Heap /\ b + 8 \in Heap /\ b + 12 \in Heap
         /\ Size(b) \in Nat /\ Size(b) % 8 = 0 /\ Free(b) \in {0, 1}
         /\ Magic(b) \in Nat /\ Next(b) \in Nat
         /\ End(b) = b + 16 + Size(b) /\ End(b) \in Nat
         /\ b + 16 <= End(b) /\ End(b) <= KHEAP_END
<1>1. /\ b \in Heap /\ b % 8 = 0 /\ Size(b) % 8 = 0 /\ Free(b) \in {0, 1}
      /\ b + 16 <= KHEAP_END /\ End(b) <= KHEAP_END
  BY DEF TypeOK, Tiled, HEADER
<1>2. b \in Nat /\ b >= KHEAP_START
  BY <1>1, HeapWord
<1>3. b + 4 \in Heap /\ b + 8 \in Heap /\ b + 12 \in Heap
  BY <1>1, <1>2, HeapWord, Constants
<1>4. Size(b) \in Nat /\ Magic(b) \in Nat /\ Next(b) \in Nat
  BY <1>1, <1>3 DEF TypeOK, Size, Magic, Next, SizeOf, MagicOf, NextOf
<1>5. End(b) = b + 16 + Size(b)
  BY DEF End, HEADER
<1> QED
  BY <1>1, <1>2, <1>3, <1>4, <1>5

LEMMA Apart ==
  ASSUME TypeOK, Tiled, NEW b \in blocks, NEW c \in blocks, b # c
  PROVE  End(b) <= c \/ End(c) <= b
<1>1. b \in Nat /\ c \in Nat
  BY BlockFacts
<1> QED
  BY <1>1 DEF Tiled

(* The link of a block, when there is one, leads to the block behind it.   *)
LEMMA Successor ==
  ASSUME TypeOK, Tiled, NEW b \in blocks, Next(b) # NULL
  PROVE  /\ Next(b) \in blocks /\ Next(b) = End(b) /\ b < Next(b)
         /\ \A c \in blocks : c < Next(b) => c <= b
<1>1. Next(b) \in blocks /\ Next(b) = End(b)
  BY DEF Tiled
<1>2. b < Next(b)
  BY <1>1, BlockFacts
<1>3. ASSUME NEW c \in blocks, c < Next(b) PROVE c <= b
  <2>1. c \in Nat /\ b \in Nat /\ End(b) \in Nat
    BY BlockFacts
  <2>2. b < c => End(b) <= c
    BY DEF Tiled
  <2> QED
    BY <1>1, <1>3, <2>1, <2>2
<1> QED
  BY <1>1, <1>2, <1>3

(* A block without a link is the last one.                                 *)
LEMMA LastBlock ==
  ASSUME TypeOK, Tiled, NEW b \in blocks, Next(b) = NULL
  PROVE  \A c \in blocks : c <= b
<1>1. End(b) = KHEAP_END
  BY DEF Tiled
<1>2. ASSUME NEW c \in blocks PROVE c <= b
  <2>1. c \in Nat /\ b \in Nat /\ c + 16 <= KHEAP_END
    BY BlockFacts, Constants
  <2>2. b < c => End(b) <= c
    BY DEF Tiled
  <2> QED
    BY <1>1, <2>1, <2>2, Constants
<1> QED
  BY <1>2

(* free_list is the block with the lowest address.                         *)
LEMMA FirstBlock ==
  ASSUME TypeOK, Tiled
  PROVE  free_list \in blocks /\ \A b \in blocks : free_list <= b
BY BlockFacts DEF Tiled, free_list

(* A live pointer and its block.                                           *)
LEMMA LiveBlock ==
  ASSUME TypeOK, Tiled, Owned, NEW p \in DOMAIN live
  PROVE  /\ p \in Nat /\ p - 16 \in blocks /\ Free(p - 16) = 0
         /\ End(p - 16) = p + Size(p - 16) /\ Size(p - 16) \in Nat
<1>1. PICK b \in blocks : Free(b) = 0 /\ p = b + 16
  BY DEF Owned, HEADER
<1>2. b \in Nat /\ Size(b) \in Nat /\ End(b) = b + 16 + Size(b)
  BY BlockFacts
<1>3. p - 16 = b /\ p \in Nat
  BY <1>1, <1>2
<1> QED
  BY <1>1, <1>2, <1>3

(* A header whose four words are not written keeps its fields.             *)
LEMMA SameHeader ==
  ASSUME NEW b, mem'[b] = mem[b], mem'[b + 4] = mem[b + 4],
         mem'[b + 8] = mem[b + 8], mem'[b + 12] = mem[b + 12]
  PROVE  /\ Size(b)' = Size(b) /\ Free(b)' = Free(b) /\ Magic(b)' = Magic(b)
         /\ Next(b)' = Next(b) /\ End(b)' = End(b)
BY DEF Size, Free, Magic, Next, End, SizeOf, FreeOf, MagicOf, NextOf

(* The steps that move the loops along without touching the heap.          *)
LEMMA SameHeap ==
  ASSUME IInv, UNCHANGED <<mem, blocks, live, planted>>
  PROVE  Tiled' /\ Owned' /\ NoForgedMagic'
BY DEF IInv, Tiled, Owned, NoForgedMagic, Size, Free, Next, End,
       SizeOf, FreeOf, NextOf

----------------------------------------------------------------------------
LEMMA InitIInv ==
  ASSUME Init
  PROVE  IInv
<1> DEFINE s == KHEAP_START
<1>1. s \in Heap /\ s + 4 \in Heap /\ s + 8 \in Heap /\ s + 12 \in Heap
  BY Constants, HeapWord
<1>2. mem = [Residue EXCEPT ![s] = KHEAP_SIZE - 16, ![s + 4] = 1, ![s + 12] = 0]
  BY DEF Init, NULL, HEADER
<1>3. Residue \in [Heap -> Nat]
  BY HeapAssumption
<1>4. s \in Nat /\ s # s + 4 /\ s # s + 12 /\ s + 4 # s + 12
  BY Constants
<1>5. mem \in [Heap -> Nat]
  <2>1. KHEAP_SIZE - 16 \in Nat /\ 1 \in Nat /\ 0 \in Nat
    BY Constants
  <2> QED
    BY <1>2, <1>3, <2>1
<1>6. /\ mem[s] = KHEAP_SIZE - 16 /\ mem[s + 4] = 1 /\ mem[s + 12] = 0
      /\ \A w \in Heap : w \notin {s, s + 4, s + 12} => mem[w] = Residue[w]
  BY <1>1, <1>2, <1>3, <1>4
<1>7. /\ Size(s) = KHEAP_SIZE - 16 /\ Free(s) = 1 /\ Next(s) = NULL
      /\ End(s) = KHEAP_END
  BY <1>6, Constants DEF Size, Free, Next, End, SizeOf, FreeOf, NextOf, HEADER, NULL
<1>8. blocks = {s} /\ pc = "idle" /\ cur = NULL /\ arg = 0 /\ heap_used = 0
      /\ DOMAIN live = {} /\ planted = {w \in Heap : Residue[w] = MAGIC_ALLOCATED}
  BY DEF Init
<1> HIDE DEF s
<1>9. planted \subseteq Nat
  BY <1>8, HeapWord
<1>10. TypeOK
  BY <1>1, <1>5, <1>8, Constants, <1>9 DEF TypeOK
<1>11. Tiled
  BY <1>4, <1>7, <1>8, Constants DEF Tiled, free_list, HEADER, s
<1>12. Owned
  BY <1>7, <1>8 DEF Owned
<1>13. NoForgedMagic
  <2>1. ASSUME NEW w \in Heap, mem[w] = MAGIC_ALLOCATED PROVE w \in planted
    BY <1>6, <1>8, <2>1, Constants
  <2>2. ASSUME NEW w \in Heap PROVE ~(w - 8 \in blocks /\ Free(w - 8) = 0)
    BY <1>7, <1>8
  <2> QED
    BY <2>1, <2>2 DEF NoForgedMagic
<1>14. ScanInv /\ MergeInv /\ OomJustified
  BY <1>8 DEF ScanInv, MergeInv, OomJustified
<1> QED
  BY <1>10, <1>11, <1>12, <1>13, <1>14 DEF IInv

----------------------------------------------------------------------------
(***************************************************************************)
(* The steps that leave the memory alone.                                  *)
(***************************************************************************)
LEMMA kmallocIInv ==
  ASSUME IInv, NEW n \in 1 .. Word - 1, kmalloc(n)
  PROVE  IInv'
<1> USE DEF kmalloc
<1>1. Tiled' /\ Owned' /\ NoForgedMagic'
  BY SameHeap
<1>2. TypeOK /\ Tiled
  BY DEF IInv
<1>3. n \in Nat
  OBVIOUS
<1>4. free_list \in blocks /\ free_list \in Heap
  BY <1>2, FirstBlock DEF TypeOK
<1>5. TypeOK'
  BY <1>2, <1>3, <1>4 DEF TypeOK
<1>6. ScanInv'
  <2>1. \A b \in blocks : ~(cur' = NULL \/ b < cur')
    <3>1. free_list # NULL
      BY Constants DEF free_list, NULL
    <3>2. \A b \in blocks : b \in Nat /\ free_list <= b
      BY <1>2, FirstBlock, BlockFacts
    <3>3. free_list \in Nat
      BY Constants DEF free_list
    <3> QED
      BY <3>1, <3>2, <3>3
  <2> QED
    BY <1>4, <2>1 DEF ScanInv
<1>7. MergeInv' /\ OomJustified'
  BY DEF MergeInv, OomJustified
<1> QED
  BY <1>1, <1>5, <1>6, <1>7 DEF IInv

LEMMA kmalloc_nextIInv ==
  ASSUME IInv, kmalloc_next
  PROVE  IInv'
<1> USE DEF kmalloc_next
<1>1. Tiled' /\ Owned' /\ NoForgedMagic'
  BY SameHeap
<1>2. TypeOK /\ Tiled
  BY DEF IInv
<1>3. cur \in blocks /\ arg \in 1 .. Word - 1
  BY DEF IInv, ScanInv
<1>4. Next(cur) \in blocks \cup {NULL} /\ (Next(cur) \in Heap \/ Next(cur) = NULL)
  BY <1>2, <1>3, Successor DEF TypeOK
<1>5. TypeOK'
  BY <1>2, <1>4 DEF TypeOK
<1>6. ScanInv'
  <2>1. ASSUME NEW b \in blocks, cur' = NULL \/ b < cur'
        PROVE  ~Fits(b, RoundUp(arg))
    <3>1. b \in Nat /\ cur \in Nat
      BY <1>2, <1>3, BlockFacts
    <3>2. b <= cur
      BY <1>2, <1>3, <2>1, Successor, LastBlock
    <3>3. CASE b = cur
      BY <3>3
    <3>4. CASE b < cur
      BY <3>4 DEF IInv, ScanInv
    <3> QED
      BY <3>1, <3>2, <3>3, <3>4
  <2>2. \A b \in blocks : Fits(b, RoundUp(arg))' <=> Fits(b, RoundUp(arg))
    BY DEF Fits, RoundUp, Free, Size, FreeOf, SizeOf
  <2> QED
    BY <1>3, <1>4, <2>1, <2>2 DEF ScanInv
<1>7. MergeInv' /\ OomJustified'
  BY DEF MergeInv, OomJustified
<1> QED
  BY <1>1, <1>5, <1>6, <1>7 DEF IInv

LEMMA kmalloc_failIInv ==
  ASSUME IInv, kmalloc_fail
  PROVE  IInv'
<1> USE DEF kmalloc_fail
<1>1. Tiled' /\ Owned' /\ NoForgedMagic'
  BY SameHeap
<1>2. TypeOK'
  BY DEF IInv, TypeOK
<1>3. ScanInv' /\ MergeInv'
  BY DEF ScanInv, MergeInv
<1>4. OomJustified'
  BY DEF IInv, ScanInv, OomJustified, Fits, RoundUp, Free, Size, FreeOf, SizeOf
<1> QED
  BY <1>1, <1>2, <1>3, <1>4 DEF IInv

LEMMA kfree_rejectIInv ==
  ASSUME IInv, NEW ptr, kfree_reject(ptr)
  PROVE  IInv'
<1> USE DEF kfree_reject
<1>1. Tiled' /\ Owned' /\ NoForgedMagic'
  BY SameHeap
<1>2. TypeOK'
  BY DEF IInv, TypeOK
<1>3. ScanInv' /\ MergeInv' /\ OomJustified'
  BY DEF ScanInv, MergeInv, OomJustified
<1> QED
  BY <1>1, <1>2, <1>3 DEF IInv

LEMMA kbrkIInv ==
  ASSUME IInv, NEW a \in Nat, kbrk(a)
  PROVE  IInv'
<1> USE DEF kbrk
<1>1. Tiled' /\ Owned' /\ NoForgedMagic'
  BY SameHeap
<1>2. heap_used' \in 0 .. Word - 1
  BY Constants
<1>3. TypeOK'
  BY <1>2 DEF IInv, TypeOK
<1>4. ScanInv' /\ MergeInv' /\ OomJustified'
  BY DEF ScanInv, MergeInv, OomJustified
<1> QED
  BY <1>1, <1>3, <1>4 DEF IInv

LEMMA kfree_foreignIInv ==
  ASSUME IInv, NEW capacity \in Nat, kfree_foreign(capacity)
  PROVE  IInv'
<1> USE DEF kfree_foreign
<1>1. Tiled' /\ Owned' /\ NoForgedMagic'
  BY SameHeap
<1>2. TypeOK /\ Tiled
  BY DEF IInv
<1>3. heap_used' \in 0 .. Word - 1
  BY <1>2, Constants DEF TypeOK, HEADER
<1>4. free_list \in blocks /\ \A b \in blocks : ~(b < free_list)
  BY <1>2, FirstBlock, BlockFacts
<1>5. TypeOK'
  BY <1>2, <1>3, <1>4 DEF TypeOK
<1>6. MergeInv'
  BY <1>4 DEF MergeInv, free_list
<1>7. ScanInv' /\ OomJustified'
  BY DEF ScanInv, OomJustified
<1> QED
  BY <1>1, <1>5, <1>6, <1>7 DEF IInv

LEMMA kfree_nextIInv ==
  ASSUME IInv, kfree_next
  PROVE  IInv'
<1> USE DEF kfree_next
<1>1. Tiled' /\ Owned' /\ NoForgedMagic'
  BY SameHeap
<1>2. TypeOK /\ Tiled
  BY DEF IInv
<1>3. cur \in blocks
  BY DEF IInv, MergeInv
<1>4. Next(cur) \in blocks /\ Next(cur) \in Heap /\ Next(cur) = End(cur)
  BY <1>2, <1>3, Successor DEF TypeOK
<1>5. TypeOK'
  BY <1>2, <1>4 DEF TypeOK
<1>6. MergeInv'
  <2>1. ASSUME NEW b \in blocks, b < cur' PROVE Neighbours(b)
    <3>1. b \in Nat /\ cur \in Nat /\ Free(b) \in {0, 1} /\ Free(Next(cur)) \in {0, 1}
      BY <1>2, <1>3, <1>4, BlockFacts
    <3>2. b <= cur
      BY <1>2, <1>3, <2>1, Successor
    <3>3. CASE b = cur
      BY <1>4, <3>3 DEF Neighbours, Mergeable
    <3>4. CASE b < cur
      BY <3>4 DEF IInv, MergeInv
    <3> QED
      BY <3>1, <3>2, <3>3, <3>4
  <2>2. \A b \in blocks : Neighbours(b)' <=> Neighbours(b)
    BY DEF Neighbours, Free, Next, FreeOf, NextOf
  <2> QED
    BY <1>4, <2>1, <2>2 DEF MergeInv
<1>7. ScanInv' /\ OomJustified'
  BY DEF ScanInv, OomJustified
<1> QED
  BY <1>1, <1>5, <1>6, <1>7 DEF IInv

LEMMA kfree_returnIInv ==
  ASSUME IInv, kfree_return
  PROVE  IInv'
<1> USE DEF kfree_return
<1>1. Tiled' /\ Owned' /\ NoForgedMagic'
  BY SameHeap
<1>2. TypeOK /\ Tiled
  BY DEF IInv
<1>3. TypeOK'
  BY <1>2 DEF TypeOK
<1>4. ScanInv' /\ MergeInv' /\ OomJustified'
  BY DEF ScanInv, MergeInv, OomJustified
<1> QED
  BY <1>1, <1>3, <1>4 DEF IInv

(* The loop of kfree has seen every block when it ends.                    *)
LEMMA kfree_returnTidy ==
  ASSUME IInv, kfree_return
  PROVE  Tidy'
<1>1. TypeOK /\ Tiled /\ cur \in blocks /\ Next(cur) = NULL
  BY DEF IInv, MergeInv, kfree_return
<1>2. ASSUME NEW b \in blocks PROVE Neighbours(b)
  <2>1. b \in Nat /\ cur \in Nat /\ b <= cur
    BY <1>1, LastBlock, BlockFacts
  <2>2. CASE b = cur
    BY <1>1, <2>2 DEF Neighbours
  <2>3. CASE b < cur
    BY <2>3 DEF IInv, MergeInv, kfree_return
  <2> QED
    BY <2>1, <2>2, <2>3
<1> QED
  BY <1>2 DEF Neighbours, Tidy, Free, Next, FreeOf, NextOf, kfree_return

----------------------------------------------------------------------------
(***************************************************************************)
(* The steps that write.                                                   *)
(***************************************************************************)
(* The words of a header belong to one block only, and a payload has none. *)
LEMMA HeaderWords ==
  ASSUME TypeOK, Tiled, NEW b \in blocks, NEW c \in blocks, b # c,
         NEW w \in Nat, c <= w, w < End(c)
  PROVE  b # w /\ b + 4 # w /\ b + 8 # w /\ b + 12 # w
<1>1. /\ b \in Nat /\ c \in Nat /\ End(b) \in Nat /\ End(c) \in Nat
      /\ b + 16 <= End(b) /\ c + 16 <= End(c)
  BY BlockFacts
<1>2. End(b) <= c \/ End(c) <= b
  BY Apart
<1> QED
  BY <1>1, <1>2

(* No header lies eight or sixteen bytes into a block.                     *)
LEMMA NoBlockInside ==
  ASSUME TypeOK, Tiled, NEW c \in blocks, NEW w \in Int, c < w, w < End(c)
  PROVE  w \notin blocks
<1> SUFFICES ASSUME w \in blocks PROVE FALSE
  OBVIOUS
<1>1. c \in Nat /\ w \in Nat /\ End(c) \in Nat
  BY BlockFacts
<1> QED
  BY <1>1 DEF Tiled

LEMMA LivePayload ==
  ASSUME IInv, NEW ptr \in DOMAIN live
  PROVE  \E c \in blocks : /\ Free(c) = 0 /\ ptr = c + 16 /\ c = ptr - HEADER
                           /\ Size(ptr - HEADER) = Size(c)
<1>1. TypeOK /\ Tiled /\ Owned
  BY DEF IInv
<1>2. ptr - 16 \in blocks /\ Free(ptr - 16) = 0 /\ ptr \in Nat
  BY <1>1, LiveBlock
<1> QED
  BY <1>2 DEF HEADER

(* A word stored through a live pointer into a block that has bytes, by    *)
(* cmd_write or by a test: no header changes.                              *)
LEMMA StoreFacts ==
  ASSUME IInv, NEW c \in blocks, NEW v \in Nat, Size(c) # 0,
         mem' = [mem EXCEPT ![c + 16] = v]
  PROVE  /\ c \in Nat /\ c + 16 \in Heap /\ c + 16 < End(c)
         /\ mem' \in [Heap -> Nat] /\ mem'[c + 16] = v
         /\ \A w \in Heap : w # c + 16 => mem'[w] = mem[w]
         /\ \A b \in blocks :
              /\ Size(b)' = Size(b) /\ Free(b)' = Free(b) /\ Magic(b)' = Magic(b)
              /\ Next(b)' = Next(b) /\ End(b)' = End(b)
<1>1. TypeOK /\ Tiled /\ mem \in [Heap -> Nat]
  BY DEF IInv, TypeOK
<1>2. /\ c \in Nat /\ c % 8 = 0 /\ c >= KHEAP_START /\ c + 16 <= End(c)
      /\ Size(c) \in Nat /\ End(c) = c + 16 + Size(c) /\ End(c) <= KHEAP_END
  BY <1>1, BlockFacts
<1>3. PICK ptr : ptr = c + 16
  OBVIOUS
<1>4. ptr \in Nat /\ c < ptr /\ ptr < End(c) /\ ptr \in Heap
  <2>1. ptr \in Nat /\ c < ptr /\ ptr < End(c) /\ ptr % 4 = 0
    BY <1>2, <1>3
  <2> QED
    BY <1>2, <1>3, <2>1, HeapWord, Constants
<1>5. /\ mem' \in [Heap -> Nat] /\ mem'[ptr] = v
      /\ \A w \in Heap : w # ptr => mem'[w] = mem[w]
  BY <1>1, <1>3, <1>4
<1>6. ASSUME NEW b \in blocks
      PROVE  /\ Size(b)' = Size(b) /\ Free(b)' = Free(b) /\ Magic(b)' = Magic(b)
             /\ Next(b)' = Next(b) /\ End(b)' = End(b)
  <2>1. b # ptr /\ b + 4 # ptr /\ b + 8 # ptr /\ b + 12 # ptr
    <3>1. CASE b = c
      BY <1>2, <1>3, <3>1
    <3>2. CASE b # c
      BY <1>1, <1>2, <1>4, <3>2, HeaderWords
    <3> QED
      BY <3>1, <3>2
  <2> QED
    BY <1>1, <1>5, <2>1, SameHeader, BlockFacts
<1> QED
  BY <1>2, <1>3, <1>4, <1>5, <1>6

LEMMA StoreIInv ==
  ASSUME IInv, NEW ptr \in DOMAIN live, NEW v \in Nat, Size(ptr - HEADER) # 0,
         pc = "idle", mem' = [mem EXCEPT ![ptr] = v],
         planted' = IF v = MAGIC_ALLOCATED THEN planted \cup {ptr} ELSE planted \ {ptr},
         UNCHANGED <<heap_used, pc, cur, arg, blocks, live>>
  PROVE  IInv'
<1>1. TypeOK /\ Tiled /\ NoForgedMagic
  BY DEF IInv
<1>2. PICK c \in blocks : Free(c) = 0 /\ ptr = c + 16 /\ Size(c) # 0
  BY LivePayload
<1>3. /\ c \in Nat /\ ptr \in Nat /\ ptr \in Heap /\ c < ptr /\ ptr < End(c)
      /\ mem' \in [Heap -> Nat] /\ mem'[ptr] = v
      /\ \A w \in Heap : w # ptr => mem'[w] = mem[w]
  <2>1. mem' = [mem EXCEPT ![c + 16] = v]
    BY <1>2
  <2>2. /\ c \in Nat /\ c + 16 \in Heap /\ c + 16 < End(c)
        /\ mem' \in [Heap -> Nat] /\ mem'[c + 16] = v
        /\ \A w \in Heap : w # c + 16 => mem'[w] = mem[w]
    BY <1>2, <2>1, StoreFacts
  <2> QED
    BY <1>2, <2>2
<1>4. \A b \in blocks :
        /\ Size(b)' = Size(b) /\ Free(b)' = Free(b) /\ Magic(b)' = Magic(b)
        /\ Next(b)' = Next(b) /\ End(b)' = End(b)
  BY <1>2, StoreFacts
<1>5. TypeOK'
  BY <1>1, <1>3 DEF TypeOK
<1>6. Tiled'
  BY <1>1, <1>4 DEF Tiled
<1>7. Owned'
  BY <1>4 DEF IInv, Owned
<1>8. NoForgedMagic'
  <2> SUFFICES ASSUME NEW w \in Heap
               PROVE  /\ w - 8 \in blocks /\ Free(w - 8)' = 0 => mem'[w] = MAGIC_ALLOCATED
                      /\ mem'[w] = MAGIC_ALLOCATED =>
                           (w - 8 \in blocks /\ Free(w - 8)' = 0) \/ w \in planted'
    BY DEF NoForgedMagic
  <2>1. CASE w = ptr
    <3>1. ptr - 8 \in Int /\ c < ptr - 8 /\ ptr - 8 < End(c)
      BY <1>1, <1>2, <1>3, BlockFacts
    <3> QED
      BY <1>1, <1>2, <1>3, <2>1, <3>1, NoBlockInside
  <2>2. CASE w # ptr
    BY <1>1, <1>3, <1>4, <2>2 DEF NoForgedMagic
  <2> QED
    BY <2>1, <2>2
<1>9. ScanInv' /\ MergeInv' /\ OomJustified'
  BY DEF ScanInv, MergeInv, OomJustified
<1> QED
  BY <1>5, <1>6, <1>7, <1>8, <1>9 DEF IInv

(* kfree and vfree mark the block of a live pointer free and change no     *)
(* other field.                                                            *)
LEMMA FreedFacts ==
  ASSUME IInv, NEW c \in blocks, mem' = Freed(c)
  PROVE  /\ \A b \in blocks :
              /\ Size(b)' = Size(b) /\ Next(b)' = Next(b) /\ End(b)' = End(b)
              /\ b # c => Free(b)' = Free(b) /\ Magic(b)' = Magic(b)
         /\ Free(c)' = 1
         /\ mem' \in [Heap -> Nat] /\ mem'[c + 4] = 1 /\ mem'[c + 8] = MAGIC_FREED
         /\ \A w \in Heap : w # c + 4 /\ w # c + 8 => mem'[w] = mem[w]
<1>1. TypeOK /\ Tiled /\ Owned
  BY DEF IInv
<1>2. mem' = [mem EXCEPT ![c + 4] = 1, ![c + 8] = MAGIC_FREED]
  BY DEF Freed
<1>3. c \in blocks
  OBVIOUS
<1>4. /\ c \in Nat /\ c % 8 = 0 /\ c + 4 \in Heap /\ c + 8 \in Heap /\ Size(c) \in Nat
      /\ c + 16 <= End(c)
  BY <1>1, <1>3, BlockFacts
<1>5. /\ mem' \in [Heap -> Nat] /\ mem'[c + 4] = 1 /\ mem'[c + 8] = MAGIC_FREED
      /\ \A w \in Heap : w # c + 4 /\ w # c + 8 => mem'[w] = mem[w]
  <2>1. mem \in [Heap -> Nat] /\ MAGIC_FREED \in Nat /\ c + 4 # c + 8
    BY <1>1, <1>4, Constants DEF TypeOK
  <2> QED
    BY <1>2, <1>4, <2>1
<1>6. ASSUME NEW b \in blocks, b # c
      PROVE  /\ Size(b)' = Size(b) /\ Free(b)' = Free(b) /\ Magic(b)' = Magic(b)
             /\ Next(b)' = Next(b) /\ End(b)' = End(b)
  <2>1. /\ c + 4 \in Nat /\ c <= c + 4 /\ c + 4 < End(c)
        /\ c + 8 \in Nat /\ c <= c + 8 /\ c + 8 < End(c)
    BY <1>1, <1>3, BlockFacts
  <2>2. b # c + 4 /\ b + 4 # c + 4 /\ b + 8 # c + 4 /\ b + 12 # c + 4
    BY <1>1, <1>3, <1>6, <2>1, HeaderWords
  <2>3. b # c + 8 /\ b + 4 # c + 8 /\ b + 8 # c + 8 /\ b + 12 # c + 8
    BY <1>1, <1>3, <1>6, <2>1, HeaderWords
  <2> QED
    BY <1>1, <1>5, <2>2, <2>3, SameHeader, BlockFacts
<1>7. Size(c)' = Size(c) /\ Free(c)' = 1 /\ Next(c)' = Next(c) /\ End(c)' = End(c)
  <2>1. c # c + 4 /\ c # c + 8 /\ c + 12 # c + 4 /\ c + 12 # c + 8
    BY <1>4
  <2> QED
    BY <1>1, <1>3, <1>5, <2>1, BlockFacts
       DEF Size, Free, Next, End, SizeOf, FreeOf, NextOf
<1> QED
  BY <1>5, <1>6, <1>7

(* What marking a block free keeps of the invariant.                       *)
LEMMA FreedIInv ==
  ASSUME IInv, NEW c \in blocks, Free(c) = 0,
         mem' = Freed(c), Drop(c + 16), planted' = planted \ {c + 8}, blocks' = blocks
  PROVE  /\ mem' \in [Heap -> Nat] /\ planted' \subseteq Nat
         /\ DOMAIN live' \subseteq KHEAP_START .. KHEAP_END
         /\ \A p \in DOMAIN live' : live'[p] \in Nat
         /\ Tiled' /\ Owned' /\ NoForgedMagic'
<1>1. TypeOK /\ Tiled /\ NoForgedMagic /\ Owned
  BY DEF IInv
<1>2. live' = [p \in DOMAIN live \ {c + 16} |-> live[p]]
  BY DEF Drop
<1>3. /\ Free(c)' = 1
      /\ mem' \in [Heap -> Nat] /\ mem'[c + 4] = 1 /\ mem'[c + 8] = MAGIC_FREED
      /\ \A w \in Heap : w # c + 4 /\ w # c + 8 => mem'[w] = mem[w]
  BY FreedFacts
<1>4. /\ \A b \in blocks :
           /\ Size(b)' = Size(b) /\ Next(b)' = Next(b) /\ End(b)' = End(b)
           /\ b # c => Free(b)' = Free(b)
  BY FreedFacts
<1>5. c \in Nat /\ c % 8 = 0
  BY <1>1, <1>3, BlockFacts
<1>6. /\ DOMAIN live' \subseteq KHEAP_START .. KHEAP_END /\ planted' \subseteq Nat
      /\ \A p \in DOMAIN live' : live'[p] \in Nat
  BY <1>1, <1>2 DEF TypeOK
<1>7. Tiled'
  BY <1>1, <1>3, <1>4 DEF Tiled
<1>8. Owned'
  <2>1. {b \in blocks' : Free(b)' = 0} = {b \in blocks : Free(b) = 0} \ {c}
    BY <1>3, <1>4
  <2>2. DOMAIN live' = DOMAIN live \ {c + 16}
    BY <1>2, <1>3
  <2>3. \A b \in blocks : b \in Nat
    BY <1>1, BlockFacts
  <2> QED
    BY <1>1, <1>5, <2>1, <2>2, <2>3 DEF Owned, HEADER
<1>9. NoForgedMagic'
  <2> SUFFICES ASSUME NEW w \in Heap
               PROVE  /\ w - 8 \in blocks /\ Free(w - 8)' = 0 => mem'[w] = MAGIC_ALLOCATED
                      /\ mem'[w] = MAGIC_ALLOCATED =>
                           (w - 8 \in blocks /\ Free(w - 8)' = 0) \/ w \in planted'
    BY DEF NoForgedMagic
  <2>1. w \in Nat
    BY HeapWord
  <2>2. CASE w = c + 4
    <3>1. w - 8 \notin blocks
      BY <1>1, <1>5, <2>2, BlockFacts
    <3> QED
      BY <1>3, <2>2, <3>1, Constants
  <2>3. CASE w = c + 8
    BY <1>3, <1>5, <2>3, Constants
  <2>4. CASE w # c + 4 /\ w # c + 8
    <3>1. w - 8 # c
      BY <1>5, <2>1, <2>4
    <3> QED
      BY <1>1, <1>3, <1>4, <2>4, <3>1 DEF NoForgedMagic
  <2> QED
    BY <2>2, <2>3, <2>4
<1> QED
  BY <1>3, <1>6, <1>7, <1>8, <1>9

LEMMA kfree_acceptIInv ==
  ASSUME IInv, NEW ptr \in DOMAIN live, kfree_accept(ptr)
  PROVE  IInv'
<1>1. TypeOK /\ Tiled /\ Owned
  BY DEF IInv
<1>2. PICK c \in blocks : Free(c) = 0 /\ ptr = c + 16 /\ c = ptr - HEADER
  BY LivePayload
<1>3. /\ mem' = Freed(c) /\ heap_used' = (heap_used - (Size(c) + 16)) % Word
      /\ Drop(ptr) /\ pc' = "merge" /\ cur' = free_list /\ planted' = planted \ {c + 8}
      /\ UNCHANGED <<arg, blocks>>
  BY <1>2 DEF kfree_accept, HEADER
<1>4. /\ mem' \in [Heap -> Nat] /\ planted' \subseteq Nat
      /\ DOMAIN live' \subseteq KHEAP_START .. KHEAP_END
      /\ \A p \in DOMAIN live' : live'[p] \in Nat
      /\ Tiled' /\ Owned' /\ NoForgedMagic'
  BY <1>2, <1>3, FreedIInv
<1>5. free_list \in blocks /\ \A b \in blocks : ~(b < free_list)
  BY <1>1, FirstBlock, BlockFacts
<1>6. TypeOK'
  <2>1. Size(c) \in Nat
    BY <1>1, BlockFacts
  <2>2. heap_used' \in 0 .. Word - 1
    BY <1>1, <1>3, <2>1, Constants DEF TypeOK
  <2> QED
    BY <1>1, <1>3, <1>4, <1>5, <2>2 DEF TypeOK
<1>7. MergeInv'
  BY <1>3, <1>5 DEF MergeInv, free_list
<1>8. ScanInv' /\ OomJustified'
  BY <1>3 DEF ScanInv, OomJustified
<1> QED
  BY <1>4, <1>6, <1>7, <1>8 DEF IInv

LEMMA vfreeIInv ==
  ASSUME IInv, NEW ptr \in DOMAIN live, vfree(ptr)
  PROVE  IInv'
<1>1. TypeOK /\ Tiled /\ Owned
  BY DEF IInv
<1>2. PICK c \in blocks : Free(c) = 0 /\ ptr = c + 16 /\ c = ptr - HEADER
  BY LivePayload
<1>3. ptr - 8 = c + 8
  <2>1. c \in Nat
    BY <1>1, BlockFacts
  <2> QED
    BY <1>2, <2>1
<1>4. /\ mem' = Freed(c) /\ Drop(ptr) /\ pc' = "idle" /\ planted' = planted \ {c + 8}
      /\ UNCHANGED <<heap_used, cur, arg, blocks>>
  BY <1>2, <1>3 DEF vfree
<1>5. /\ mem' \in [Heap -> Nat] /\ planted' \subseteq Nat
      /\ DOMAIN live' \subseteq KHEAP_START .. KHEAP_END
      /\ \A p \in DOMAIN live' : live'[p] \in Nat
      /\ Tiled' /\ Owned' /\ NoForgedMagic'
  BY <1>2, <1>4, FreedIInv
<1>6. TypeOK'
  BY <1>1, <1>4, <1>5 DEF TypeOK
<1>7. ScanInv' /\ MergeInv' /\ OomJustified'
  BY <1>4 DEF ScanInv, MergeInv, OomJustified
<1> QED
  BY <1>5, <1>6, <1>7 DEF IInv

(* A merge makes one block of the block at cur and the one behind it.      *)
LEMMA MergeFacts ==
  ASSUME IInv, kfree_merge, NEW c, c = cur, NEW d, d = Next(c)
  PROVE  /\ c \in blocks /\ d \in blocks /\ d = End(c) /\ c < d
         /\ Free(c) # 0 /\ Free(d) # 0 /\ d # NULL
         /\ blocks' = blocks \ {d}
         /\ \A b \in blocks : b # c =>
              /\ Size(b)' = Size(b) /\ Free(b)' = Free(b) /\ Magic(b)' = Magic(b)
              /\ Next(b)' = Next(b) /\ End(b)' = End(b)
         /\ Size(c)' = Size(c) + 16 + Size(d) /\ Free(c)' = Free(c)
         /\ Next(c)' = Next(d) /\ End(c)' = End(d)
<1>1. TypeOK /\ Tiled /\ NoForgedMagic /\ Owned
  BY DEF IInv
<1>2. /\ pc = "merge" /\ d # NULL /\ Mergeable(c)
      /\ mem' = [mem EXCEPT ![c] = mem[c] + HEADER + Size(d), ![c + 12] = Next(d)]
      /\ blocks' = blocks \ {d}
      /\ UNCHANGED <<heap_used, pc, cur, arg, live, planted>>
  BY DEF kfree_merge
<1>3. c \in blocks
  BY <1>2 DEF IInv, MergeInv
<1>4. d \in blocks /\ d = End(c) /\ c < d /\ Free(c) # 0 /\ Free(d) # 0
  BY <1>1, <1>2, <1>3, Successor DEF Mergeable
<1>5. /\ c \in Nat /\ c % 8 = 0 /\ c \in Heap /\ c + 4 \in Heap /\ c + 8 \in Heap
      /\ c + 12 \in Heap /\ Size(c) \in Nat /\ Size(c) % 8 = 0 /\ Free(c) \in {0, 1}
      /\ End(c) = c + 16 + Size(c) /\ mem[c] = Size(c)
  BY <1>1, <1>3, BlockFacts DEF Size, SizeOf
<1>6. /\ d \in Nat /\ Size(d) \in Nat /\ Size(d) % 8 = 0 /\ Next(d) \in Nat
      /\ End(d) = d + 16 + Size(d) /\ End(d) <= KHEAP_END
  BY <1>1, <1>4, BlockFacts
<1>7. /\ mem' \in [Heap -> Nat]
      /\ mem'[c] = Size(c) + 16 + Size(d) /\ mem'[c + 12] = Next(d)
      /\ \A w \in Heap : w # c /\ w # c + 12 => mem'[w] = mem[w]
  <2>1. mem \in [Heap -> Nat] /\ Size(c) + 16 + Size(d) \in Nat /\ c # c + 12
    BY <1>1, <1>5, <1>6 DEF TypeOK
  <2>2. mem' = [mem EXCEPT ![c] = Size(c) + 16 + Size(d), ![c + 12] = Next(d)]
    BY <1>2, <1>5 DEF HEADER
  <2> QED
    BY <1>5, <1>6, <2>1, <2>2
<1>8. ASSUME NEW b \in blocks, b # c
       PROVE  /\ Size(b)' = Size(b) /\ Free(b)' = Free(b) /\ Magic(b)' = Magic(b)
              /\ Next(b)' = Next(b) /\ End(b)' = End(b)
  <2>1. /\ c \in Nat /\ c <= c /\ c < End(c)
        /\ c + 12 \in Nat /\ c <= c + 12 /\ c + 12 < End(c)
    BY <1>5
  <2>2. b # c /\ b + 4 # c /\ b + 8 # c /\ b + 12 # c
    BY <1>1, <1>3, <1>8, <2>1, HeaderWords
  <2>3. b # c + 12 /\ b + 4 # c + 12 /\ b + 8 # c + 12 /\ b + 12 # c + 12
    BY <1>1, <1>3, <1>8, <2>1, HeaderWords
  <2> QED
    BY <1>1, <1>7, <2>2, <2>3, SameHeader, BlockFacts
<1>9. /\ Size(c)' = Size(c) + 16 + Size(d) /\ Free(c)' = Free(c)
       /\ Next(c)' = Next(d) /\ End(c)' = End(d)
  <2>1. c + 4 # c /\ c + 4 # c + 12
    BY <1>5
  <2>2. Size(c)' = Size(c) + 16 + Size(d) /\ Free(c)' = Free(c) /\ Next(c)' = Next(d)
    BY <1>5, <1>7, <2>1 DEF Size, Free, Next, SizeOf, FreeOf, NextOf
  <2>3. End(c)' = c + 16 + Size(c)'
    BY DEF End, HEADER
  <2> QED
    BY <1>4, <1>5, <1>6, <2>2, <2>3
<1> QED
  BY <1>2, <1>3, <1>4, <1>8, <1>9

LEMMA kfree_mergeIInv ==
  ASSUME IInv, kfree_merge
  PROVE  IInv'
<1>1. TypeOK /\ Tiled /\ NoForgedMagic /\ Owned
  BY DEF IInv
<1>2. PICK c : c = cur
  OBVIOUS
<1>3. PICK d : d = Next(c)
  OBVIOUS
<1>4. /\ pc = "merge" /\ d # NULL /\ Mergeable(c)
      /\ mem' = [mem EXCEPT ![c] = mem[c] + HEADER + Size(d), ![c + 12] = Next(d)]
      /\ blocks' = blocks \ {d}
      /\ UNCHANGED <<heap_used, pc, cur, arg, live, planted>>
  BY <1>2, <1>3 DEF kfree_merge
<1>5. c \in blocks
  BY <1>2, <1>4 DEF IInv, MergeInv
<1>6. d \in blocks /\ d = End(c) /\ c < d /\ Free(c) # 0 /\ Free(d) # 0
  BY <1>1, <1>3, <1>4, <1>5, Successor DEF Mergeable
<1>7. /\ c \in Nat /\ c % 8 = 0 /\ c \in Heap /\ c + 4 \in Heap /\ c + 8 \in Heap
      /\ c + 12 \in Heap /\ Size(c) \in Nat /\ Size(c) % 8 = 0 /\ Free(c) \in {0, 1}
      /\ End(c) = c + 16 + Size(c) /\ mem[c] = Size(c)
  BY <1>1, <1>5, BlockFacts DEF Size, SizeOf
<1>8. /\ d \in Nat /\ Size(d) \in Nat /\ Size(d) % 8 = 0 /\ Next(d) \in Nat
      /\ End(d) = d + 16 + Size(d) /\ End(d) <= KHEAP_END
  BY <1>1, <1>6, BlockFacts
<1>9. /\ mem' \in [Heap -> Nat]
      /\ mem'[c] = Size(c) + 16 + Size(d) /\ mem'[c + 12] = Next(d)
      /\ \A w \in Heap : w # c /\ w # c + 12 => mem'[w] = mem[w]
  <2>1. mem \in [Heap -> Nat] /\ Size(c) + 16 + Size(d) \in Nat /\ c # c + 12
    BY <1>1, <1>7, <1>8 DEF TypeOK
  <2>2. mem' = [mem EXCEPT ![c] = Size(c) + 16 + Size(d), ![c + 12] = Next(d)]
    BY <1>4, <1>7 DEF HEADER
  <2> QED
    BY <1>7, <1>8, <2>1, <2>2
<1>10. ASSUME NEW b \in blocks, b # c
       PROVE  /\ Size(b)' = Size(b) /\ Free(b)' = Free(b) /\ Magic(b)' = Magic(b)
              /\ Next(b)' = Next(b) /\ End(b)' = End(b)
  BY <1>2, <1>3, <1>10, MergeFacts
<1>11. /\ Size(c)' = Size(c) + 16 + Size(d) /\ Free(c)' = Free(c)
       /\ Next(c)' = Next(d) /\ End(c)' = End(d)
  BY <1>2, <1>3, MergeFacts
<1>12. ASSUME NEW b \in blocks, b # c PROVE Next(b) # d
  <2>1. b \in Nat /\ End(b) \in Nat /\ b < End(b)
    BY <1>1, BlockFacts
  <2>2. End(b) <= c \/ End(c) <= b
    BY <1>1, <1>5, <1>12, Apart
  <2>3. Next(b) # NULL => Next(b) = End(b)
    BY <1>1, Successor
  <2> QED
    BY <1>4, <1>6, <1>7, <1>8, <2>1, <2>2, <2>3
<1>13. TypeOK'
  BY <1>1, <1>4, <1>9 DEF TypeOK
<1>14. Tiled'
  <2>1. free_list \in blocks'
    <3>1. free_list \in blocks /\ free_list <= c /\ free_list \in Nat
      BY <1>1, <1>5, FirstBlock, BlockFacts
    <3> QED
      BY <1>4, <1>6, <1>7, <1>8, <3>1
  <2>2. /\ c % 8 = 0 /\ Size(c)' % 8 = 0 /\ Free(c)' \in {0, 1}
        /\ c + HEADER <= KHEAP_END /\ End(c)' <= KHEAP_END
    BY <1>6, <1>7, <1>8, <1>11, Constants DEF HEADER
  <2>3. IF Next(c)' = NULL THEN End(c)' = KHEAP_END
        ELSE Next(c)' = End(c)' /\ Next(c)' \in blocks'
    <3>1. CASE Next(d) = NULL
      BY <1>1, <1>6, <1>11, <3>1 DEF Tiled
    <3>2. CASE Next(d) # NULL
      BY <1>1, <1>4, <1>6, <1>8, <1>11, <3>2, Successor
    <3> QED
      BY <3>1, <3>2
  <2>4. ASSUME NEW b \in blocks', b # c
        PROVE  /\ b % 8 = 0 /\ Size(b)' % 8 = 0 /\ Free(b)' \in {0, 1}
               /\ b + HEADER <= KHEAP_END /\ End(b)' <= KHEAP_END
               /\ IF Next(b)' = NULL THEN End(b)' = KHEAP_END
                  ELSE Next(b)' = End(b)' /\ Next(b)' \in blocks'
    BY <1>1, <1>4, <1>10, <1>12, <2>4 DEF Tiled
  <2>5. ASSUME NEW b \in blocks', NEW e \in blocks', b < e PROVE End(b)' <= e
    <3>1. b \in blocks /\ e \in blocks /\ e # d /\ End(b) <= e /\ e \in Nat
      BY <1>1, <1>4, <2>5, BlockFacts DEF Tiled
    <3>2. CASE b = c
      <4>1. d < e
        BY <1>6, <1>8, <3>1, <3>2
      <4>2. End(d) <= e
        BY <1>1, <1>6, <3>1, <4>1 DEF Tiled
      <4> QED
        BY <1>11, <3>2, <4>2
    <3>3. CASE b # c
      BY <1>10, <3>1, <3>3
    <3> QED
      BY <3>2, <3>3
  <2> QED
    BY <2>1, <2>2, <2>3, <2>4, <2>5 DEF Tiled, free_list
<1>15. Owned'
  <2>1. {b \in blocks' : Free(b)' = 0} = {b \in blocks : Free(b) = 0}
    BY <1>4, <1>6, <1>10, <1>11
  <2> QED
    BY <1>1, <1>4, <2>1 DEF Owned
<1>16. NoForgedMagic'
  <2> SUFFICES ASSUME NEW w \in Heap
               PROVE  /\ w - 8 \in blocks' /\ Free(w - 8)' = 0 => mem'[w] = MAGIC_ALLOCATED
                      /\ mem'[w] = MAGIC_ALLOCATED =>
                           (w - 8 \in blocks' /\ Free(w - 8)' = 0) \/ w \in planted'
    BY DEF NoForgedMagic
  <2>1. w \in Nat
    BY HeapWord
  <2>2. CASE w = c
    <3>1. w - 8 \notin blocks
      <4> SUFFICES ASSUME w - 8 \in blocks PROVE FALSE
        OBVIOUS
      <4>1. w - 8 \in Nat /\ w - 8 + 16 <= End(w - 8) /\ End(w - 8) \in Nat
        BY <1>1, BlockFacts
      <4>2. w - 8 < c
        BY <1>7, <2>2
      <4> QED
        BY <1>1, <1>5, <1>7, <2>2, <4>1, <4>2 DEF Tiled
    <3>2. Size(c) + 16 + Size(d) < MAGIC_ALLOCATED
      BY <1>6, <1>7, <1>8, Constants
    <3> QED
      BY <1>4, <1>7, <1>8, <1>9, <2>2, <3>1, <3>2, Constants
  <2>3. CASE w = c + 12
    <3>1. w - 8 \notin blocks
      BY <1>1, <1>7, <2>3, BlockFacts
    <3>2. Next(d) < MAGIC_ALLOCATED
      <4>1. Next(d) # NULL => Next(d) = End(d)
        BY <1>1, <1>6, Successor
      <4> QED
        BY <1>8, <4>1, Constants DEF NULL
    <3> QED
      BY <1>4, <1>8, <1>9, <2>3, <3>1, <3>2, Constants
  <2>4. CASE w # c /\ w # c + 12
    <3>1. mem'[w] = mem[w]
      BY <1>9, <2>4
    <3>2. w - 8 \in blocks' /\ Free(w - 8)' = 0 <=> w - 8 \in blocks /\ Free(w - 8) = 0
      BY <1>4, <1>6, <1>10, <1>11
    <3> QED
      BY <1>1, <1>4, <3>1, <3>2 DEF NoForgedMagic
  <2> QED
    BY <2>2, <2>3, <2>4
<1>17. MergeInv'
  <2>1. c \in blocks' /\ cur' = c
    BY <1>2, <1>4, <1>5, <1>6, <1>7, <1>8
  <2>2. ASSUME NEW b \in blocks', b < c PROVE Neighbours(b)'
    <3>1. b \in blocks /\ b # c /\ Neighbours(b)
      BY <1>2, <1>4, <1>7, <2>2 DEF IInv, MergeInv
    <3>2. Next(b)' = Next(b) /\ Free(b)' = Free(b)
      BY <1>10, <3>1
    <3>3. Next(b) # NULL => Free(Next(b))' = Free(Next(b))
      <4> SUFFICES ASSUME Next(b) # NULL PROVE Free(Next(b))' = Free(Next(b))
        OBVIOUS
      <4>1. PICK e : e = Next(b)
        OBVIOUS
      <4>2. e \in blocks
        BY <1>1, <3>1, <4>1, Successor
      <4>3. Free(e)' = Free(e)
        BY <1>10, <1>11, <4>2
      <4> QED
        BY <3>2, <4>1, <4>3
    <3> QED
      BY <3>1, <3>2, <3>3 DEF Neighbours
  <2> QED
    BY <2>1, <2>2 DEF MergeInv
<1>18. ScanInv' /\ OomJustified'
  BY <1>4 DEF ScanInv, OomJustified
<1> QED
  BY <1>13, <1>14, <1>15, <1>16, <1>17, <1>18 DEF IInv

(* What a successful scan has found, and the part of its step that does    *)
(* not depend on whether the block is split.                               *)
LEMMA TakeFacts ==
  ASSUME IInv, kmalloc_take
  PROVE  /\ cur \in blocks /\ Free(cur) = 1 /\ arg \in 1 .. Word - 1 /\ arg \in Nat
         /\ RoundUp(arg) \in Nat /\ RoundUp(arg) % 8 = 0 /\ RoundUp(arg) <= Size(cur)
         /\ pc = "scan" /\ pc' = "idle" /\ cur' = NULL /\ arg' = 0
         /\ heap_used' \in 0 .. Word - 1
         /\ DOMAIN live' = DOMAIN live \cup {cur + 16}
         /\ \A p \in DOMAIN live' : live'[p] = IF p = cur + 16 THEN arg ELSE live[p]
<1> USE DEF kmalloc_take
<1>1. TypeOK /\ Tiled
  BY DEF IInv
<1>2. cur \in blocks /\ arg \in 1 .. Word - 1
  BY DEF IInv, ScanInv
<1>3. arg \in Nat
  BY <1>2
<1>4. RoundUp(arg) \in Nat /\ RoundUp(arg) % 8 = 0
  BY <1>3, RoundUpMultiple
<1>5. Free(cur) # 0 /\ Size(cur) >= RoundUp(arg)
  BY DEF Fits
<1>6. Free(cur) \in {0, 1} /\ Size(cur) \in Nat
  BY <1>1, <1>2, BlockFacts
<1>7. heap_used' \in 0 .. Word - 1
  <2>1. heap_used + RoundUp(arg) + 16 \in Nat
    BY <1>1, <1>4 DEF TypeOK
  <2>2. heap_used' = (heap_used + RoundUp(arg) + 16) % Word
    BY DEF HEADER
  <2> QED
    BY <2>1, <2>2, Constants
<1>8. live' = [p \in DOMAIN live \cup {cur + 16} |-> IF p = cur + 16 THEN arg ELSE live[p]]
  BY DEF HEADER
<1> QED
  BY <1>2, <1>3, <1>4, <1>5, <1>6, <1>7, <1>8

(* The block is taken whole.                                               *)
LEMMA WholeFacts ==
  ASSUME IInv, kmalloc_take, NEW c, c = cur, ~Splits(mem, c, RoundUp(arg))
  PROVE  /\ c \in blocks /\ Free(c) = 1 /\ blocks' = blocks
         /\ \A b \in blocks :
              /\ Size(b)' = Size(b) /\ Next(b)' = Next(b) /\ End(b)' = End(b)
              /\ b # c => Free(b)' = Free(b) /\ Magic(b)' = Magic(b)
         /\ Free(c)' = 0
<1>1. TypeOK /\ Tiled /\ NoForgedMagic /\ Owned
  BY DEF IInv
<1>2. c \in blocks /\ Free(c) = 1
  BY TakeFacts
<1>3. /\ mem' = [mem EXCEPT ![c + 4] = 0, ![c + 8] = MAGIC_ALLOCATED]
      /\ blocks' = blocks
  BY DEF kmalloc_take, split_block
<1>4. /\ c \in Nat /\ c % 8 = 0 /\ c \in Heap /\ c + 4 \in Heap /\ c + 8 \in Heap
      /\ c + 12 \in Heap /\ c + 16 <= End(c) /\ End(c) \in Nat
      /\ Size(c) \in Nat /\ End(c) = c + 16 + Size(c)
  BY <1>1, <1>2, BlockFacts
<1>5. /\ mem' \in [Heap -> Nat] /\ mem'[c + 4] = 0 /\ mem'[c + 8] = MAGIC_ALLOCATED
      /\ \A w \in Heap : w # c + 4 /\ w # c + 8 => mem'[w] = mem[w]
  <2>1. mem \in [Heap -> Nat] /\ MAGIC_ALLOCATED \in Nat /\ c + 4 # c + 8
    BY <1>1, <1>4, Constants DEF TypeOK
  <2> QED
    BY <1>3, <1>4, <2>1
<1>6. ASSUME NEW b \in blocks, b # c
      PROVE  /\ Size(b)' = Size(b) /\ Free(b)' = Free(b) /\ Magic(b)' = Magic(b)
             /\ Next(b)' = Next(b) /\ End(b)' = End(b)
  <2>1. /\ c + 4 \in Nat /\ c <= c + 4 /\ c + 4 < End(c)
        /\ c + 8 \in Nat /\ c <= c + 8 /\ c + 8 < End(c)
    BY <1>4
  <2>2. b # c + 4 /\ b + 4 # c + 4 /\ b + 8 # c + 4 /\ b + 12 # c + 4
    BY <1>1, <1>2, <1>6, <2>1, HeaderWords
  <2>3. b # c + 8 /\ b + 4 # c + 8 /\ b + 8 # c + 8 /\ b + 12 # c + 8
    BY <1>1, <1>2, <1>6, <2>1, HeaderWords
  <2> QED
    BY <1>1, <1>5, <2>2, <2>3, SameHeader, BlockFacts
<1>7. Size(c)' = Size(c) /\ Free(c)' = 0 /\ Next(c)' = Next(c) /\ End(c)' = End(c)
  <2>1. c # c + 4 /\ c # c + 8 /\ c + 12 # c + 4 /\ c + 12 # c + 8
    BY <1>4
  <2> QED
    BY <1>4, <1>5, <2>1 DEF Size, Free, Next, End, SizeOf, FreeOf, NextOf
<1> QED
  BY <1>2, <1>3, <1>6, <1>7

LEMMA kmalloc_take_wholeIInv ==
  ASSUME IInv, kmalloc_take, ~Splits(mem, cur, RoundUp(arg))
  PROVE  IInv'
<1>1. TypeOK /\ Tiled /\ NoForgedMagic /\ Owned
  BY DEF IInv
<1>2. PICK c : c = cur
  OBVIOUS
<1>3. c \in blocks /\ Free(c) = 1
  BY <1>2, TakeFacts
<1>4. /\ mem' = [mem EXCEPT ![c + 4] = 0, ![c + 8] = MAGIC_ALLOCATED]
      /\ blocks' = blocks
  BY <1>2 DEF kmalloc_take, split_block
<1>5. /\ c \in Nat /\ c % 8 = 0 /\ c \in Heap /\ c + 4 \in Heap /\ c + 8 \in Heap
      /\ c + 12 \in Heap /\ c + 16 <= End(c) /\ End(c) \in Nat
      /\ Size(c) \in Nat /\ End(c) = c + 16 + Size(c)
  BY <1>1, <1>3, BlockFacts
<1>6. /\ mem' \in [Heap -> Nat] /\ mem'[c + 4] = 0 /\ mem'[c + 8] = MAGIC_ALLOCATED
      /\ \A w \in Heap : w # c + 4 /\ w # c + 8 => mem'[w] = mem[w]
  <2>1. mem \in [Heap -> Nat] /\ MAGIC_ALLOCATED \in Nat /\ c + 4 # c + 8
    BY <1>1, <1>5, Constants DEF TypeOK
  <2> QED
    BY <1>4, <1>5, <2>1
<1>7. ASSUME NEW b \in blocks, b # c
      PROVE  /\ Size(b)' = Size(b) /\ Free(b)' = Free(b) /\ Magic(b)' = Magic(b)
             /\ Next(b)' = Next(b) /\ End(b)' = End(b)
  BY <1>2, <1>7, WholeFacts
<1>8. Size(c)' = Size(c) /\ Free(c)' = 0 /\ Next(c)' = Next(c) /\ End(c)' = End(c)
  BY <1>2, <1>3, WholeFacts
<1>9. planted' = {w \in planted \ {c + 8} : mem'[w] = MAGIC_ALLOCATED}
  BY <1>2 DEF kmalloc_take
<1>10. TypeOK'
  <2>1. /\ pc' = "idle" /\ cur' = NULL /\ arg' = 0 /\ heap_used' \in 0 .. Word - 1
        /\ DOMAIN live' = DOMAIN live \cup {c + 16}
    BY <1>2, TakeFacts
  <2>2. \A p \in DOMAIN live' : live'[p] \in Nat
    BY <1>1, <1>2, TakeFacts DEF TypeOK
  <2>3. c + 16 \in KHEAP_START .. KHEAP_END
    BY <1>1, <1>3, <1>5, BlockFacts, Constants
  <2> QED
    BY <1>1, <1>4, <1>6, <1>9, <2>1, <2>2, <2>3 DEF TypeOK
<1>11. Tiled'
  BY <1>1, <1>4, <1>7, <1>8 DEF Tiled
<1>12. Owned'
  <2>1. {b \in blocks' : Free(b)' = 0} = {b \in blocks : Free(b) = 0} \cup {c}
    BY <1>3, <1>4, <1>7, <1>8
  <2>2. DOMAIN live' = DOMAIN live \cup {c + 16}
    BY <1>2, TakeFacts
  <2> QED
    BY <1>1, <2>1, <2>2 DEF Owned, HEADER
<1>13. NoForgedMagic'
  <2> SUFFICES ASSUME NEW w \in Heap
               PROVE  /\ w - 8 \in blocks /\ Free(w - 8)' = 0 => mem'[w] = MAGIC_ALLOCATED
                      /\ mem'[w] = MAGIC_ALLOCATED =>
                           (w - 8 \in blocks /\ Free(w - 8)' = 0) \/ w \in planted'
    BY <1>4 DEF NoForgedMagic
  <2>1. w \in Nat
    BY HeapWord
  <2>2. CASE w = c + 4
    <3>1. w - 8 \notin blocks
      BY <1>1, <1>5, <2>2, BlockFacts
    <3> QED
      BY <1>6, <2>2, <3>1, Constants
  <2>3. CASE w = c + 8
    <3>1. w - 8 = c
      BY <1>5, <2>3
    <3> QED
      BY <1>3, <1>6, <1>8, <2>3, <3>1
  <2>4. CASE w # c + 4 /\ w # c + 8
    <3>1. w - 8 # c
      BY <1>5, <2>1, <2>4
    <3> QED
      BY <1>1, <1>6, <1>7, <1>9, <2>4, <3>1 DEF NoForgedMagic
  <2> QED
    BY <2>2, <2>3, <2>4
<1>14. ScanInv' /\ MergeInv' /\ OomJustified'
  BY TakeFacts DEF ScanInv, MergeInv, OomJustified
<1> QED
  BY <1>10, <1>11, <1>12, <1>13, <1>14 DEF IInv

(* The block is split: its tail becomes a free block of its own.           *)
LEMMA SplitFacts ==
  ASSUME IInv, kmalloc_take, NEW c, c = cur, NEW size, size = RoundUp(arg),
         NEW n, n = c + 16 + size, Splits(mem, c, size)
  PROVE  /\ c \in blocks /\ Free(c) = 1 /\ n \notin blocks /\ blocks' = blocks \cup {n}
         /\ \A b \in blocks : b # c =>
              /\ Size(b)' = Size(b) /\ Free(b)' = Free(b) /\ Magic(b)' = Magic(b)
              /\ Next(b)' = Next(b) /\ End(b)' = End(b)
         /\ Size(c)' = size /\ Free(c)' = 0 /\ Next(c)' = n /\ End(c)' = n
         /\ Size(n)' = Size(c) - size - 16 /\ Free(n)' = 1
         /\ Next(n)' = Next(c) /\ End(n)' = End(c)
<1>1. TypeOK /\ Tiled /\ NoForgedMagic /\ Owned
  BY DEF IInv
<1>2. /\ c \in blocks /\ Free(c) = 1 /\ size \in Nat /\ size % 8 = 0
      /\ pc = "scan" /\ pc' = "idle" /\ cur' = NULL /\ arg' = 0
      /\ heap_used' \in 0 .. Word - 1
      /\ DOMAIN live' = DOMAIN live \cup {c + 16}
  BY TakeFacts
<1>3. /\ c \in Nat /\ c >= KHEAP_START /\ c % 8 = 0 /\ c \in Heap /\ c + 4 \in Heap
      /\ c + 8 \in Heap /\ c + 12 \in Heap /\ Size(c) \in Nat /\ Size(c) % 8 = 0
      /\ Next(c) \in Nat /\ End(c) = c + 16 + Size(c) /\ End(c) <= KHEAP_END
  BY <1>1, <1>2, BlockFacts
<1>4. Size(c) >= size + 32
  BY <1>2, <1>3 DEF Splits, Size, HEADER
<1>5. /\ n \in Nat /\ n % 8 = 0 /\ n \in Heap /\ n + 4 \in Heap /\ n + 8 \in Heap
      /\ n + 12 \in Heap /\ c + 16 <= n /\ n + 32 <= End(c)
  <2>1. n \in Nat /\ n % 8 = 0 /\ c + 16 <= n /\ n + 32 <= End(c)
    BY <1>2, <1>3, <1>4
  <2>2. n >= KHEAP_START /\ n + 32 <= KHEAP_END
    BY <1>3, <2>1, Constants
  <2> QED
    BY <2>1, <2>2, HeapWord, Constants
<1>6. n \notin blocks
  BY <1>1, <1>2, <1>3, <1>5, NoBlockInside
<1>7. /\ mem' = [[mem EXCEPT ![n] = Size(c) - size - 16, ![n + 4] = 1,
                              ![n + 12] = Next(c), ![c] = size, ![c + 12] = n]
                   EXCEPT ![c + 4] = 0, ![c + 8] = MAGIC_ALLOCATED]
       /\ blocks' = blocks \cup {n}
  BY DEF kmalloc_take, split_block, Size, Next, HEADER
<1>8. /\ mem' \in [Heap -> Nat]
       /\ mem'[c] = size /\ mem'[c + 4] = 0 /\ mem'[c + 8] = MAGIC_ALLOCATED
       /\ mem'[c + 12] = n
       /\ mem'[n] = Size(c) - size - 16 /\ mem'[n + 4] = 1
       /\ mem'[n + 8] = mem[n + 8] /\ mem'[n + 12] = Next(c)
       /\ \A w \in Heap : w \notin {c, c + 4, c + 8, c + 12, n, n + 4, n + 12}
                            => mem'[w] = mem[w]
  <2>1. /\ mem \in [Heap -> Nat] /\ Size(c) - size - 16 \in Nat /\ 1 \in Nat /\ 0 \in Nat
        /\ MAGIC_ALLOCATED \in Nat
    BY <1>1, <1>2, <1>3, <1>4, Constants DEF TypeOK
  <2>2. /\ c < c + 4 /\ c + 4 < c + 8 /\ c + 8 < c + 12 /\ c + 12 < n
        /\ n < n + 4 /\ n + 4 < n + 8 /\ n + 8 < n + 12
    BY <1>3, <1>5
  <2> QED
    BY <1>2, <1>3, <1>5, <1>7, <2>1, <2>2
<1>9. ASSUME NEW b \in blocks, b # c
       PROVE  /\ Size(b)' = Size(b) /\ Free(b)' = Free(b) /\ Magic(b)' = Magic(b)
              /\ Next(b)' = Next(b) /\ End(b)' = End(b)
  <2>1. ASSUME NEW w \in {b, b + 4, b + 8, b + 12}
        PROVE  w \notin {c, c + 4, c + 8, c + 12, n, n + 4, n + 12}
    <3>1. ASSUME NEW x \in {c, c + 4, c + 8, c + 12, n, n + 4, n + 12} PROVE w # x
      <4>1. x \in Nat /\ c <= x /\ x < End(c)
        BY <1>3, <1>5
      <4> QED
        BY <1>1, <1>2, <1>9, <4>1, HeaderWords
    <3> QED
      BY <3>1
  <2> QED
    BY <1>1, <1>8, <2>1, SameHeader, BlockFacts
<1>10. Size(c)' = size /\ Free(c)' = 0 /\ Next(c)' = n /\ End(c)' = n
  BY <1>8 DEF Size, Free, Next, End, SizeOf, FreeOf, NextOf, HEADER
<1>11. Size(n)' = Size(c) - size - 16 /\ Free(n)' = 1 /\ Next(n)' = Next(c) /\ End(n)' = End(c)
  <2>1. Size(n)' = Size(c) - size - 16 /\ Free(n)' = 1 /\ Next(n)' = Next(c)
    BY <1>8 DEF Size, Free, Next, SizeOf, FreeOf, NextOf
  <2>2. End(n)' = n + 16 + Size(n)'
    BY DEF End, HEADER
  <2>3. n + 16 + (Size(c) - size - 16) = End(c)
    <3>1. \A a, k, z \in Nat : (a + 16 + k) + 16 + (z - k - 16) = a + 16 + z
      OBVIOUS
    <3>2. c \in Nat /\ size \in Nat /\ Size(c) \in Nat /\ End(c) = c + 16 + Size(c)
      BY <1>2, <1>3
    <3> QED
      BY <3>1, <3>2
  <2> QED
    BY <2>1, <2>2, <2>3
<1> QED
  BY <1>2, <1>6, <1>7, <1>9, <1>10, <1>11

LEMMA kmalloc_take_splitIInv ==
  ASSUME IInv, kmalloc_take, Splits(mem, cur, RoundUp(arg))
  PROVE  IInv'
<1>1. TypeOK /\ Tiled /\ NoForgedMagic /\ Owned
  BY DEF IInv
<1>2. PICK c : c = cur
  OBVIOUS
<1>3. PICK size : size = RoundUp(arg)
  OBVIOUS
<1>4. PICK n : n = c + 16 + size
  OBVIOUS
<1>5. /\ c \in blocks /\ Free(c) = 1 /\ size \in Nat /\ size % 8 = 0
      /\ pc = "scan" /\ pc' = "idle" /\ cur' = NULL /\ arg' = 0
      /\ heap_used' \in 0 .. Word - 1
      /\ DOMAIN live' = DOMAIN live \cup {c + 16}
  BY <1>2, <1>3, TakeFacts
<1>6. /\ c \in Nat /\ c >= KHEAP_START /\ c % 8 = 0 /\ c \in Heap /\ c + 4 \in Heap
      /\ c + 8 \in Heap /\ c + 12 \in Heap /\ Size(c) \in Nat /\ Size(c) % 8 = 0
      /\ Next(c) \in Nat /\ End(c) = c + 16 + Size(c) /\ End(c) <= KHEAP_END
  BY <1>1, <1>5, BlockFacts
<1>7. Size(c) >= size + 32
  BY <1>2, <1>3, <1>5, <1>6 DEF Splits, Size, HEADER
<1>8. /\ n \in Nat /\ n % 8 = 0 /\ n \in Heap /\ n + 4 \in Heap /\ n + 8 \in Heap
      /\ n + 12 \in Heap /\ c + 16 <= n /\ n + 32 <= End(c)
  <2>1. n \in Nat /\ n % 8 = 0 /\ c + 16 <= n /\ n + 32 <= End(c)
    BY <1>4, <1>5, <1>6, <1>7
  <2>2. n >= KHEAP_START /\ n + 32 <= KHEAP_END
    BY <1>6, <2>1, Constants
  <2> QED
    BY <2>1, <2>2, HeapWord, Constants
<1>9. n \notin blocks
  BY <1>1, <1>5, <1>6, <1>8, NoBlockInside
<1>10. /\ mem' = [[mem EXCEPT ![n] = Size(c) - size - 16, ![n + 4] = 1,
                              ![n + 12] = Next(c), ![c] = size, ![c + 12] = n]
                   EXCEPT ![c + 4] = 0, ![c + 8] = MAGIC_ALLOCATED]
       /\ blocks' = blocks \cup {n}
  BY <1>2, <1>3, <1>4 DEF kmalloc_take, split_block, Size, Next, HEADER
<1>11. /\ mem' \in [Heap -> Nat]
       /\ mem'[c] = size /\ mem'[c + 4] = 0 /\ mem'[c + 8] = MAGIC_ALLOCATED
       /\ mem'[c + 12] = n
       /\ mem'[n] = Size(c) - size - 16 /\ mem'[n + 4] = 1
       /\ mem'[n + 8] = mem[n + 8] /\ mem'[n + 12] = Next(c)
       /\ \A w \in Heap : w \notin {c, c + 4, c + 8, c + 12, n, n + 4, n + 12}
                            => mem'[w] = mem[w]
  <2>1. /\ mem \in [Heap -> Nat] /\ Size(c) - size - 16 \in Nat /\ 1 \in Nat /\ 0 \in Nat
        /\ MAGIC_ALLOCATED \in Nat
    BY <1>1, <1>5, <1>6, <1>7, Constants DEF TypeOK
  <2>2. /\ c < c + 4 /\ c + 4 < c + 8 /\ c + 8 < c + 12 /\ c + 12 < n
        /\ n < n + 4 /\ n + 4 < n + 8 /\ n + 8 < n + 12
    BY <1>6, <1>8
  <2> QED
    BY <1>5, <1>6, <1>8, <1>10, <2>1, <2>2
<1>12. ASSUME NEW b \in blocks, b # c
       PROVE  /\ Size(b)' = Size(b) /\ Free(b)' = Free(b) /\ Magic(b)' = Magic(b)
              /\ Next(b)' = Next(b) /\ End(b)' = End(b)
  BY <1>2, <1>3, <1>4, <1>12, SplitFacts
<1>13. Size(c)' = size /\ Free(c)' = 0 /\ Next(c)' = n /\ End(c)' = n
  BY <1>2, <1>3, <1>4, SplitFacts
<1>14. Size(n)' = Size(c) - size - 16 /\ Free(n)' = 1 /\ Next(n)' = Next(c) /\ End(n)' = End(c)
  BY <1>2, <1>3, <1>4, SplitFacts
<1>15. planted' = {w \in planted \ {c + 8} : mem'[w] = MAGIC_ALLOCATED}
  BY <1>2 DEF kmalloc_take
<1>16. TypeOK'
  <2>1. \A p \in DOMAIN live' : live'[p] \in Nat
    BY <1>1, TakeFacts DEF TypeOK
  <2>2. c + 16 \in KHEAP_START .. KHEAP_END
    BY <1>6, Constants
  <2> QED
    BY <1>1, <1>5, <1>8, <1>10, <1>11, <1>15, <2>1, <2>2 DEF TypeOK
<1>17. Tiled'
  <2>1. free_list \in blocks'
    BY <1>1, <1>10 DEF Tiled
  <2>2. /\ c % 8 = 0 /\ Size(c)' % 8 = 0 /\ Free(c)' \in {0, 1}
        /\ c + HEADER <= KHEAP_END /\ End(c)' <= KHEAP_END
        /\ Next(c)' # NULL /\ Next(c)' = End(c)' /\ Next(c)' \in blocks'
    BY <1>5, <1>6, <1>8, <1>10, <1>13, Constants DEF HEADER, NULL
  <2>3. /\ n % 8 = 0 /\ Size(n)' % 8 = 0 /\ Free(n)' \in {0, 1}
        /\ n + HEADER <= KHEAP_END /\ End(n)' <= KHEAP_END
    BY <1>5, <1>6, <1>7, <1>8, <1>14, Constants DEF HEADER
  <2>4. IF Next(n)' = NULL THEN End(n)' = KHEAP_END
        ELSE Next(n)' = End(n)' /\ Next(n)' \in blocks'
    BY <1>1, <1>5, <1>10, <1>14 DEF Tiled
  <2>5. ASSUME NEW b \in blocks, b # c
        PROVE  /\ b % 8 = 0 /\ Size(b)' % 8 = 0 /\ Free(b)' \in {0, 1}
               /\ b + HEADER <= KHEAP_END /\ End(b)' <= KHEAP_END
               /\ IF Next(b)' = NULL THEN End(b)' = KHEAP_END
                  ELSE Next(b)' = End(b)' /\ Next(b)' \in blocks'
    BY <1>1, <1>10, <1>12, <2>5 DEF Tiled
  <2>6. ASSUME NEW b \in blocks', NEW e \in blocks', b < e PROVE End(b)' <= e
    <3>1. b \in Nat /\ e \in Nat
      BY <1>1, <1>8, <1>10, BlockFacts
    <3>2. CASE b = n
      <4>1. e \in blocks /\ c < e
        BY <1>6, <1>8, <1>10, <2>6, <3>1, <3>2
      <4> QED
        BY <1>1, <1>5, <1>14, <3>2, <4>1 DEF Tiled
    <3>3. CASE b = c
      <4>1. CASE e = n
        BY <1>8, <1>13, <3>3, <4>1
      <4>2. CASE e # n
        <5>1. e \in blocks /\ End(c) <= e
          BY <1>1, <1>5, <1>10, <2>6, <3>3, <4>2 DEF Tiled
        <5> QED
          BY <1>6, <1>8, <1>13, <3>1, <3>3, <5>1
      <4> QED
        BY <4>1, <4>2
    <3>4. CASE b # n /\ b # c
      <4>1. b \in blocks /\ End(b)' = End(b) /\ End(b) \in Nat
        BY <1>1, <1>10, <1>12, <3>4, BlockFacts
      <4>2. CASE e = n
        <5>1. End(b) <= c \/ End(c) <= b
          BY <1>1, <1>5, <3>4, <4>1, Apart
        <5> QED
          BY <1>6, <1>8, <2>6, <3>1, <4>1, <4>2, <5>1
      <4>3. CASE e # n
        BY <1>1, <1>10, <2>6, <4>1, <4>3 DEF Tiled
      <4> QED
        BY <4>2, <4>3
    <3> QED
      BY <3>2, <3>3, <3>4
  <2> QED
    BY <1>10, <2>1, <2>2, <2>3, <2>4, <2>5, <2>6 DEF Tiled, free_list
<1>18. Owned'
  <2>1. {b \in blocks' : Free(b)' = 0} = {b \in blocks : Free(b) = 0} \cup {c}
    BY <1>5, <1>9, <1>10, <1>12, <1>13, <1>14
  <2> QED
    BY <1>1, <1>5, <2>1 DEF Owned, HEADER
<1>19. NoForgedMagic'
  <2> SUFFICES ASSUME NEW w \in Heap
               PROVE  /\ w - 8 \in blocks' /\ Free(w - 8)' = 0 => mem'[w] = MAGIC_ALLOCATED
                      /\ mem'[w] = MAGIC_ALLOCATED =>
                           (w - 8 \in blocks' /\ Free(w - 8)' = 0) \/ w \in planted'
    BY DEF NoForgedMagic
  <2>1. w \in Nat
    BY HeapWord
  <2>2. CASE w = c
    <3>1. w - 8 \notin blocks
      <4> SUFFICES ASSUME w - 8 \in blocks PROVE FALSE
        OBVIOUS
      <4>1. w - 8 \in Nat /\ w - 8 + 16 <= End(w - 8) /\ End(w - 8) \in Nat
        BY <1>1, BlockFacts
      <4> QED
        BY <1>1, <1>5, <1>6, <2>2, <4>1 DEF Tiled
    <3>2. w - 8 # n /\ size # MAGIC_ALLOCATED
      BY <1>5, <1>6, <1>7, <1>8, <2>2, Constants
    <3> QED
      BY <1>10, <1>11, <2>2, <3>1, <3>2
  <2>3. CASE w \in {c + 4, c + 12, n + 4, n + 12}
    <3>1. w - 8 \notin blocks'
      <4>1. (w - 8) % 8 = 4
        BY <1>6, <1>8, <2>3
      <4> QED
        BY <1>1, <1>8, <1>10, <4>1, BlockFacts
    <3>2. Next(c) # MAGIC_ALLOCATED
      <4>1. Next(c) # NULL => Next(c) = End(c)
        BY <1>1, <1>5, Successor
      <4> QED
        BY <1>6, <4>1, Constants DEF NULL
    <3>3. mem'[w] # MAGIC_ALLOCATED
      BY <1>6, <1>8, <1>11, <2>3, <3>2, Constants
    <3> QED
      BY <3>1, <3>3
  <2>4. CASE w = c + 8
    <3>1. w - 8 = c
      BY <1>6, <2>4
    <3> QED
      BY <1>5, <1>10, <1>11, <1>13, <2>4, <3>1
  <2>5. CASE w = n
    <3>1. w - 8 \notin blocks' /\ Size(c) - size - 16 # MAGIC_ALLOCATED
      <4>1. w - 8 \in Int /\ c < w - 8 /\ w - 8 < End(c) /\ w - 8 # n
        BY <1>6, <1>8, <2>5
      <4>2. w - 8 \notin blocks
        BY <1>1, <1>5, <4>1, NoBlockInside
      <4> QED
        BY <1>5, <1>6, <1>7, <1>10, <4>1, <4>2, Constants
    <3> QED
      BY <1>11, <2>5, <3>1
  <2>6. CASE w = n + 8
    <3>1. w - 8 = n
      BY <1>8, <2>6
    <3>2. mem[w] = MAGIC_ALLOCATED => w \in planted
      BY <1>1, <1>9, <3>1 DEF NoForgedMagic
    <3>3. w # c + 8 /\ mem'[w] = mem[w]
      BY <1>6, <1>8, <1>11, <2>6
    <3> QED
      BY <1>14, <1>15, <3>1, <3>2, <3>3
  <2>7. CASE w \notin {c, c + 4, c + 8, c + 12, n, n + 4, n + 8, n + 12}
    <3>1. mem'[w] = mem[w]
      BY <1>11, <2>7
    <3>2. w - 8 # c /\ w - 8 # n
      BY <1>6, <1>8, <2>1, <2>7
    <3>3. w - 8 \in blocks' /\ Free(w - 8)' = 0 <=> w - 8 \in blocks /\ Free(w - 8) = 0
      BY <1>10, <1>12, <3>2
    <3> QED
      BY <1>1, <1>15, <2>7, <3>1, <3>3 DEF NoForgedMagic
  <2> QED
    BY <2>2, <2>3, <2>4, <2>5, <2>6, <2>7
<1>20. ScanInv' /\ MergeInv' /\ OomJustified'
  BY <1>5 DEF ScanInv, MergeInv, OomJustified
<1> QED
  BY <1>16, <1>17, <1>18, <1>19, <1>20 DEF IInv

----------------------------------------------------------------------------
(***************************************************************************)
(* The steps together.  A step that leads into a state of Lost keeps only  *)
(* the types, and there the heap stays.                                    *)
(***************************************************************************)
LEMMA StutterIInv ==
  ASSUME IInv, UNCHANGED vars
  PROVE  IInv'
<1> USE DEF vars
<1>1. Tiled' /\ Owned' /\ NoForgedMagic'
  BY SameHeap
<1>2. TypeOK'
  BY DEF IInv, TypeOK
<1>3. ScanInv' /\ OomJustified'
  BY DEF IInv, ScanInv, OomJustified, Fits, RoundUp, Free, Size, FreeOf, SizeOf
<1>4. MergeInv'
  BY DEF IInv, MergeInv, Neighbours, Free, Next, FreeOf, NextOf
<1> QED
  BY <1>1, <1>2, <1>3, <1>4 DEF IInv

(* A step that the heap survives stores and frees through live pointers    *)
(* only.                                                                   *)
LEMMA cmd_writeStores ==
  ASSUME IInv, NEW ptr, NEW v \in Nat \ {MAGIC_ALLOCATED}, cmd_write(ptr, v), ~Lost'
  PROVE  /\ ptr \in DOMAIN live /\ Size(ptr - HEADER) # 0 /\ store(ptr, v)
<1>1. pc = "idle" /\ ksize(ptr) >= 4 /\ ptr \in DOMAIN live
  BY DEF cmd_write, Lost
<1>2. Size(ptr - HEADER) # 0
  BY <1>1 DEF ksize
<1> QED
  BY <1>1, <1>2 DEF cmd_write, store

LEMMA NextIInv ==
  ASSUME IInv, [Calls]_vars, ~Lost'
  PROVE  IInv'
<1>1. ASSUME NEW n \in 1 .. Word - 1, kmalloc(n) PROVE IInv'
  BY <1>1, kmallocIInv
<1>2. ASSUME NEW ptr \in AllPointers, kfree_accept(ptr) PROVE IInv'
  BY <1>2, kfree_acceptIInv DEF kfree_accept, Lost
<1>3. ASSUME NEW ptr \in AllPointers, kfree_reject(ptr) PROVE IInv'
  BY <1>3, kfree_rejectIInv
<1>4. ASSUME NEW ptr \in AllPointers, vfree(ptr) PROVE IInv'
  BY <1>4, vfreeIInv DEF vfree, Lost
<1>5. ASSUME NEW capacity \in Nat, kfree_foreign(capacity) PROVE IInv'
  BY <1>5, kfree_foreignIInv
<1>6. ASSUME NEW ptr \in DOMAIN live, NEW v \in Nat, store(ptr, v) PROVE IInv'
  <2>1. Size(ptr - HEADER) # 0
    BY <1>6 DEF store, Lost
  <2> QED
    BY <1>6, <2>1, StoreIInv DEF store
<1>7. ASSUME NEW ptr \in AllPointers, NEW v \in Nat \ {MAGIC_ALLOCATED}, cmd_write(ptr, v)
      PROVE  IInv'
  BY <1>6, <1>7, cmd_writeStores
<1>8. ASSUME NEW a \in Nat, kbrk(a) PROVE IInv'
  BY <1>8, kbrkIInv
<1>9. CASE Step
  BY <1>9, kmalloc_nextIInv, kmalloc_take_wholeIInv, kmalloc_take_splitIInv,
     kmalloc_failIInv, kfree_mergeIInv, kfree_nextIInv, kfree_returnIInv DEF Step
<1>10. CASE kpanic_fatal \/ lost \/ UNCHANGED vars
  BY <1>10, StutterIInv DEF kpanic_fatal, lost
<1> QED
  BY <1>1, <1>2, <1>3, <1>4, <1>5, <1>6, <1>7, <1>8, <1>9, <1>10 DEF Calls

LEMMA LosingSteps ==
  ASSUME [Calls]_vars, ~Lost, Lost'
  PROVE  \/ \E ptr \in AllPointers :
              kfree_accept(ptr) \/ vfree(ptr) \/ \E v \in Nat : cmd_write(ptr, v)
         \/ \E ptr \in DOMAIN live, v \in Nat : store(ptr, v)
BY DEF Calls, Step, Lost, kmalloc, kfree_reject, kfree_foreign, kbrk, kmalloc_next,
       kmalloc_take, kmalloc_fail, kfree_merge, kfree_next, kfree_return, kpanic_fatal,
       lost, vars

LEMMA PointerWord ==
  ASSUME NEW ptr \in AllPointers
  PROVE  /\ ptr \in Nat /\ ptr - HEADER \in Nat /\ ptr - HEADER \in Heap
         /\ ptr = (ptr - HEADER) + 16 /\ ptr <= KHEAP_END
         /\ ptr - 8 = (ptr - HEADER) + 8 /\ ptr - 8 \in Heap
<1>1. ptr - 16 \in Heap /\ ptr \in KHEAP_START .. KHEAP_END
  BY DEF AllPointers, HEADER
<1>2. ptr \in Nat /\ ptr - 16 \in Nat /\ (ptr - 16) % 4 = 0 /\ ptr - 16 >= KHEAP_START
  BY <1>1, HeapWord, Constants
<1>3. ptr - 8 \in Heap
  BY <1>1, <1>2, HeapWord, Constants
<1> QED
  BY <1>1, <1>2, <1>3 DEF HEADER

LEMMA NextTypeOK ==
  ASSUME IInv, [Calls]_vars, ~Lost, Lost'
  PROVE  TypeOK'
<1>1. TypeOK /\ Tiled /\ mem \in [Heap -> Nat]
  BY DEF IInv, TypeOK
<1>2. free_list \in Heap
  BY <1>1, FirstBlock DEF TypeOK
<1>3. ASSUME NEW ptr, Drop(ptr)
      PROVE  /\ DOMAIN live' \subseteq KHEAP_START .. KHEAP_END
             /\ \A p \in DOMAIN live' : live'[p] \in Nat
  BY <1>1, <1>3 DEF Drop, TypeOK
<1>4. ASSUME NEW blk \in Heap, mem' = Freed(blk) PROVE mem' \in [Heap -> Nat]
  BY <1>1, <1>4, Constants DEF Freed
<1>5. ASSUME NEW ptr \in AllPointers, kfree_accept(ptr) PROVE TypeOK'
  <2>1. ptr - HEADER \in Heap
    BY PointerWord
  <2>2. mem' \in [Heap -> Nat]
    BY <1>4, <1>5, <2>1 DEF kfree_accept
  <2>3. heap_used' \in 0 .. Word - 1
    <3>1. Size(ptr - HEADER) \in Nat
      BY <1>1, <2>1 DEF Size, SizeOf
    <3> QED
      BY <1>1, <1>5, <3>1, Constants DEF kfree_accept, TypeOK, HEADER
  <2> QED
    BY <1>1, <1>2, <1>3, <1>5, <2>2, <2>3 DEF kfree_accept, TypeOK
<1>6. ASSUME NEW ptr \in AllPointers, vfree(ptr) PROVE TypeOK'
  <2>1. mem' \in [Heap -> Nat]
    BY <1>4, <1>6, PointerWord DEF vfree
  <2> QED
    BY <1>1, <1>3, <1>6, <2>1 DEF vfree, TypeOK
<1>7. ASSUME NEW ptr, NEW v \in Nat, mem' = [mem EXCEPT ![ptr] = v] PROVE mem' \in [Heap -> Nat]
  BY <1>1, <1>7
<1>8. ASSUME NEW ptr \in AllPointers, NEW v \in Nat, cmd_write(ptr, v) PROVE TypeOK'
  BY <1>1, <1>7, <1>8 DEF cmd_write, TypeOK
<1>9. ASSUME NEW ptr \in DOMAIN live, NEW v \in Nat, store(ptr, v) PROVE TypeOK'
  <2>1. ptr \in Nat
    BY <1>1, Constants DEF TypeOK
  <2>2. planted' \subseteq Nat
    BY <1>1, <1>9, <2>1 DEF store, TypeOK
  <2> QED
    BY <1>1, <1>7, <1>9, <2>2 DEF store, TypeOK
<1> QED
  BY <1>5, <1>6, <1>8, <1>9, LosingSteps

----------------------------------------------------------------------------
(* Each live pointer has room for what its request was rounded to.         *)
LiveSized ==
  \A p \in DOMAIN live :
    live[p] \in 1 .. Word - 1 /\ RoundUp(live[p]) <= Size(p - HEADER)

(* A word of one block is not a word of another.                           *)
LEMMA WordsApart ==
  ASSUME TypeOK, Tiled, NEW b \in blocks, NEW c \in blocks, b # c,
         NEW w \in Nat, b <= w, w < End(b)
  PROVE  w < c \/ w >= End(c)
<1>1. b \in Nat /\ c \in Nat /\ End(b) \in Nat /\ End(c) \in Nat
  BY BlockFacts
<1> QED
  BY <1>1, Apart

----------------------------------------------------------------------------
(***************************************************************************)
(* What each writing step leaves alone.                                    *)
(***************************************************************************)
(* kmalloc writes inside the block that it takes.                          *)
LEMMA TakeWrites ==
  ASSUME IInv, kmalloc_take
  PROVE  \A w \in Heap : w < cur \/ w >= End(cur) => mem'[w] = mem[w]
<1>1. TypeOK /\ Tiled
  BY DEF IInv
<1> DEFINE size == RoundUp(arg)
           n    == cur + 16 + size
<1>2. cur \in blocks /\ size \in Nat /\ size % 8 = 0 /\ size <= Size(cur)
  BY TakeFacts
<1> HIDE DEF size
<1>3. /\ cur \in Nat /\ cur + 4 \in Nat /\ cur + 8 \in Nat /\ cur + 12 \in Nat
      /\ Size(cur) \in Nat /\ End(cur) = cur + 16 + Size(cur)
  BY <1>1, <1>2, BlockFacts
<1>4. mem \in [Heap -> Nat]
  BY <1>1 DEF TypeOK
<1> SUFFICES ASSUME NEW w \in Heap, w < cur \/ w >= End(cur) PROVE mem'[w] = mem[w]
  OBVIOUS
<1>5. w \in Nat /\ w # cur /\ w # cur + 4 /\ w # cur + 8 /\ w # cur + 12
  BY <1>3, HeapWord
<1>6. CASE ~Splits(mem, cur, size)
  <2>1. mem' = [mem EXCEPT ![cur + 4] = 0, ![cur + 8] = MAGIC_ALLOCATED]
    BY <1>6 DEF kmalloc_take, split_block, size
  <2> QED
    BY <1>4, <1>5, <2>1
<1>7. CASE Splits(mem, cur, size)
  <2>1. Size(cur) >= size + 32
    BY <1>2, <1>3, <1>7 DEF Splits, Size, HEADER
  <2>2. n \in Nat /\ w # n /\ w # n + 4 /\ w # n + 12
    BY <1>2, <1>3, <1>5, <2>1
  <2>3. mem' = [[mem EXCEPT ![n] = Size(cur) - size - 16, ![n + 4] = 1,
                            ![n + 12] = Next(cur), ![cur] = size, ![cur + 12] = n]
                 EXCEPT ![cur + 4] = 0, ![cur + 8] = MAGIC_ALLOCATED]
    BY <1>7 DEF kmalloc_take, split_block, Size, Next, HEADER, size
  <2> HIDE DEF n
  <2> QED
    BY <1>4, <1>5, <2>2, <2>3
<1> QED
  BY <1>6, <1>7

(* The block that kmalloc returns is as large as the rounded request.      *)
LEMMA TakeSize ==
  ASSUME IInv, kmalloc_take, NEW c, c = cur
  PROVE  Size(c)' >= RoundUp(arg)
<1>1. TypeOK /\ Tiled
  BY DEF IInv
<1>2. PICK size : size = RoundUp(arg)
  OBVIOUS
<1>3. c \in blocks /\ size \in Nat /\ size <= Size(c)
  BY <1>2, TakeFacts
<1>4. /\ c \in Nat /\ c \in Heap /\ Size(c) \in Nat /\ mem \in [Heap -> Nat]
      /\ Size(c) = mem[c] /\ Size(c)' = mem'[c]
  BY <1>1, <1>3, BlockFacts DEF TypeOK, Size, SizeOf
<1>5. CASE ~Splits(mem, c, size)
  <2>1. mem' = [mem EXCEPT ![c + 4] = 0, ![c + 8] = MAGIC_ALLOCATED]
    BY <1>2, <1>5 DEF kmalloc_take, split_block
  <2>2. c # c + 4 /\ c # c + 8
    BY <1>4
  <2> QED
    BY <1>2, <1>3, <1>4, <2>1, <2>2
<1>6. CASE Splits(mem, c, size)
  <2>1. PICK n : n = c + 16 + size
    OBVIOUS
  <2>2. mem' = [[mem EXCEPT ![n] = Size(c) - size - 16, ![n + 4] = 1,
                            ![n + 12] = Next(c), ![c] = size, ![c + 12] = n]
                 EXCEPT ![c + 4] = 0, ![c + 8] = MAGIC_ALLOCATED]
    BY <1>2, <1>6, <2>1 DEF kmalloc_take, split_block, Size, Next, HEADER
  <2>3. c # c + 4 /\ c # c + 8 /\ c # c + 12
    BY <1>4
  <2>4. mem'[c] = size
    BY <1>4, <2>2, <2>3
  <2> QED
    BY <1>2, <1>3, <1>4, <2>4
<1> QED
  BY <1>5, <1>6

(* No step but a store through a pointer changes a word of a payload in    *)
(* use, and no step at all changes the size of a block in use.             *)
LEMMA BlockKept ==
  ASSUME IInv, [Calls]_vars, ~Lost', NEW b \in blocks, Free(b) = 0
  PROVE  /\ mem'[b] = mem[b]
         /\ ~(pc = "idle" /\ pc' = "idle") =>
              \A w \in Heap : b + 16 <= w /\ w < End(b) => mem'[w] = mem[w]
<1>1. TypeOK /\ Tiled /\ NoForgedMagic /\ mem \in [Heap -> Nat]
  BY DEF IInv, TypeOK
<1>2. /\ b \in Nat /\ b \in Heap /\ b < End(b) /\ End(b) \in Nat
  BY <1>1, BlockFacts
<1> DEFINE Inside(w) == w \in Heap /\ (w = b \/ (b + 16 <= w /\ w < End(b)))
<1>3. ASSUME NEW w, Inside(w) PROVE w \in Nat /\ b <= w /\ w < End(b)
  BY <1>2, <1>3, HeapWord
<1>4. SUFFICES \/ \A w : Inside(w) => mem'[w] = mem[w]
               \/ mem'[b] = mem[b] /\ pc = "idle" /\ pc' = "idle"
  BY <1>2
<1>5. CASE UNCHANGED mem
  BY <1>5
<1>6. CASE kmalloc_take
  <2>1. cur \in blocks /\ b # cur
    BY <1>6, TakeFacts
  <2>2. \A w : Inside(w) => w < cur \/ w >= End(cur)
    BY <1>1, <1>3, <2>1, WordsApart
  <2> QED
    BY <1>6, <2>2, TakeWrites
<1>7. ASSUME NEW ptr \in DOMAIN live, mem' = Freed(ptr - HEADER)
      PROVE  \A w : Inside(w) => mem'[w] = mem[w]
  <2>1. PICK c \in blocks : c = ptr - HEADER
    BY LivePayload
  <2>2. c \in Nat /\ c + 16 <= End(c) /\ End(c) \in Nat
    BY <1>1, <2>1, BlockFacts
  <2>3. mem' = [mem EXCEPT ![c + 4] = 1, ![c + 8] = MAGIC_FREED]
    BY <1>7, <2>1 DEF Freed
  <2>4. ASSUME NEW w, Inside(w) PROVE w # c + 4 /\ w # c + 8
    <3>1. CASE b = c
      BY <1>2, <1>3, <2>4, <3>1
    <3>2. CASE b # c
      <4>1. w < c \/ w >= End(c)
        BY <1>1, <1>3, <2>1, <2>4, <3>2, WordsApart
      <4> QED
        BY <1>3, <2>2, <2>4, <4>1
    <3> QED
      BY <3>1, <3>2
  <2> QED
    BY <1>1, <2>3, <2>4
<1>8. CASE kfree_merge
  <2>1. cur \in blocks /\ b # cur
    BY <1>8 DEF kfree_merge, Mergeable, IInv, MergeInv
  <2>2. cur \in Nat /\ cur + 16 <= End(cur) /\ End(cur) \in Nat
    BY <1>1, <2>1, BlockFacts
  <2>3. mem' = [mem EXCEPT ![cur]      = mem[cur] + HEADER + Size(Next(cur)),
                           ![cur + 12] = Next(Next(cur))]
    BY <1>8 DEF kfree_merge
  <2>4. ASSUME NEW w, Inside(w) PROVE w # cur /\ w # cur + 12
    <3>1. w < cur \/ w >= End(cur)
      BY <1>1, <1>3, <2>1, <2>4, WordsApart
    <3> QED
      BY <1>3, <2>2, <2>4, <3>1
  <2> QED
    BY <1>1, <2>3, <2>4
<1>9. ASSUME NEW ptr \in DOMAIN live, NEW v \in Nat, store(ptr, v)
      PROVE  mem'[b] = mem[b] /\ pc = "idle" /\ pc' = "idle"
  <2>1. Size(ptr - HEADER) # 0 /\ pc = "idle" /\ pc' = "idle"
    BY <1>9 DEF store, Lost
  <2>2. PICK c \in blocks : ptr = c + 16 /\ Size(c) # 0
    BY <2>1, LivePayload
  <2>3. mem' = [mem EXCEPT ![c + 16] = v]
    BY <1>9, <2>2 DEF store
  <2>4. Size(b)' = Size(b)
    BY <2>2, <2>3, StoreFacts
  <2> QED
    BY <2>1, <2>4 DEF Size, SizeOf
<1>10. ASSUME NEW ptr \in AllPointers, NEW v \in Nat \ {MAGIC_ALLOCATED}, cmd_write(ptr, v)
      PROVE  mem'[b] = mem[b] /\ pc = "idle" /\ pc' = "idle"
  BY <1>9, <1>10, cmd_writeStores
<1>11. ASSUME NEW ptr \in AllPointers, kfree_accept(ptr) \/ vfree(ptr)
       PROVE  \A w : Inside(w) => mem'[w] = mem[w]
  BY <1>7, <1>11 DEF kfree_accept, vfree, Lost
<1> QED
  BY <1>5, <1>6, <1>8, <1>9, <1>10, <1>11
     DEF Calls, Step, kmalloc, kmalloc_next, kmalloc_fail, kfree_reject, kfree_foreign,
         kfree_next, kfree_return, kbrk, kpanic_fatal, lost, vars

(* How a step changes the set of live pointers.                            *)
LEMMA LiveSteps ==
  ASSUME [Calls]_vars
  PROVE  \/ kmalloc_take
         \/ \E ptr \in AllPointers : Drop(ptr) /\ (kfree_accept(ptr) \/ vfree(ptr))
         \/ UNCHANGED live
BY DEF Calls, Step, kmalloc, kmalloc_next, kmalloc_fail, kfree_accept, kfree_reject, vfree,
       kfree_foreign, kfree_merge, kfree_next, kfree_return, cmd_write, store, kbrk,
       kpanic_fatal, lost, vars

LEMMA LiveSizedStep ==
  ASSUME IInv, LiveSized, [Calls]_vars, ~Lost'
  PROVE  LiveSized'
<1>1. TypeOK /\ Tiled /\ Owned
  BY DEF IInv
<1>2. ASSUME NEW p \in DOMAIN live, p \in DOMAIN live', live'[p] = live[p]
      PROVE  live'[p] \in 1 .. Word - 1 /\ RoundUp(live'[p]) <= Size(p - HEADER)'
  <2>1. p - 16 \in blocks /\ Free(p - 16) = 0
    BY <1>1, LiveBlock
  <2>2. mem'[p - 16] = mem[p - 16]
    BY <2>1, BlockKept
  <2> QED
    BY <1>2, <2>2 DEF LiveSized, Size, SizeOf, HEADER
<1>3. CASE kmalloc_take
  <2>1. PICK c : c = cur
    OBVIOUS
  <2>2. /\ c \in blocks /\ arg \in 1 .. Word - 1
        /\ DOMAIN live' = DOMAIN live \cup {c + 16}
        /\ \A p \in DOMAIN live' : live'[p] = IF p = c + 16 THEN arg ELSE live[p]
    BY <1>3, <2>1, TakeFacts
  <2>3. c \in Nat
    BY <1>1, <2>2, BlockFacts
  <2>4. Size(c)' >= RoundUp(arg) /\ RoundUp(arg) \in Nat
    BY <1>3, <2>1, <2>2, TakeSize, RoundUpMultiple
  <2>5. Size(c)' \in Nat
    <3>1. TypeOK'
      BY <1>3, kmalloc_take_wholeIInv, kmalloc_take_splitIInv DEF IInv
    <3> QED
      BY <1>1, <2>2, <3>1, BlockFacts DEF TypeOK, Size, SizeOf
  <2>6. live'[c + 16] = arg /\ RoundUp(arg) <= Size(c)'
    BY <2>2, <2>4, <2>5
  <2>7. ASSUME NEW p \in DOMAIN live'
        PROVE  live'[p] \in 1 .. Word - 1 /\ RoundUp(live'[p]) <= Size(p - HEADER)'
    <3>1. CASE p = c + 16
      <4>1. p - HEADER = c
        BY <2>3, <3>1 DEF HEADER
      <4> QED
        BY <2>2, <2>6, <3>1, <4>1
    <3>2. CASE p # c + 16
      BY <1>2, <2>2, <3>2
    <3> QED
      BY <3>1, <3>2
  <2> QED
    BY <2>7 DEF LiveSized, RoundUp
<1>4. ASSUME NEW ptr, Drop(ptr) PROVE LiveSized'
  <2>1. \A p \in DOMAIN live' : p \in DOMAIN live /\ live'[p] = live[p]
    BY <1>4 DEF Drop
  <2> QED
    BY <1>2, <2>1 DEF LiveSized, RoundUp
<1>5. CASE UNCHANGED live
  BY <1>2, <1>5 DEF LiveSized, RoundUp
<1> QED
  BY <1>3, <1>4, <1>5, LiveSteps

(* live is a function: what is left of it when its newest pointer is gone  *)
(* is what it was before.                                                  *)
LiveFunction == live = [p \in DOMAIN live |-> live[p]]

LEMMA LiveFunctionStep ==
  ASSUME LiveFunction, [Calls]_vars
  PROVE  LiveFunction'
<1>1. CASE kmalloc_take
  BY <1>1 DEF kmalloc_take, LiveFunction
<1>2. ASSUME NEW ptr, Drop(ptr) PROVE LiveFunction'
  BY <1>2 DEF Drop, LiveFunction
<1>3. CASE UNCHANGED live
  BY <1>3 DEF LiveFunction
<1> QED
  BY <1>1, <1>2, <1>3, LiveSteps

----------------------------------------------------------------------------
(***************************************************************************)
(* The safety theorems.                                                    *)
(***************************************************************************)
Sound == IInv /\ LiveSized /\ LiveFunction

Safe == TypeOK /\ (Lost \/ Sound)

LEMMA SafeStep ==
  ASSUME Safe, [Calls]_vars
  PROVE  Safe'
<1>1. CASE Lost
  <2>1. UNCHANGED vars
    BY <1>1 DEF Lost, Calls, Step, kmalloc, kfree_accept, kfree_reject, vfree, kfree_foreign,
                cmd_write, store, kbrk, kmalloc_next, kmalloc_take, kmalloc_fail, kfree_merge,
                kfree_next, kfree_return, kpanic_fatal, Halted, lost
  <2> QED
    BY <1>1, <2>1 DEF Safe, TypeOK, Lost, vars
<1>2. CASE ~Lost /\ Lost'
  BY <1>2, NextTypeOK DEF Safe, Sound
<1>3. CASE ~Lost /\ ~Lost'
  <2>1. IInv /\ LiveSized /\ LiveFunction
    BY <1>3 DEF Safe, Sound
  <2>2. IInv' /\ LiveSized' /\ LiveFunction'
    BY <1>3, <2>1, NextIInv, LiveSizedStep, LiveFunctionStep
  <2> QED
    BY <2>2 DEF Safe, Sound, IInv
<1> QED
  BY <1>1, <1>2, <1>3

(* Every state of the heap satisfies the inductive invariant, until a      *)
(* pointer that was never handed out is used or a block of no bytes is     *)
(* written to.                                                             *)
THEOREM Invariance == CallSpec => []Safe
<1>1. ASSUME Init PROVE Safe
  <2>1. IInv
    BY <1>1, InitIInv
  <2>2. LiveSized /\ LiveFunction
    BY <1>1 DEF Init, LiveSized, LiveFunction
  <2> QED
    BY <2>1, <2>2 DEF Safe, Sound, IInv
<1>2. Safe /\ [Calls]_vars => Safe'
  BY SafeStep
<1> QED
  BY <1>1, <1>2, PTL DEF CallSpec

(* Type correctness: no call of the allocator writes outside the heap, and *)
(* no field of a header becomes negative.                                  *)
THEOREM TypeCorrect == CallSpec => []TypeOK
<1>1. Safe => TypeOK
  BY DEF Safe
<1> QED
  BY <1>1, Invariance, PTL

(* The linked blocks always tile the heap, in the middle of a merge too.   *)
THEOREM HeapIntact == CallSpec => []Tiling
<1>1. Safe => Tiling
  BY DEF Safe, Sound, IInv, Tiling
<1> QED
  BY <1>1, Invariance, PTL

(* No block is lost or handed out twice: the blocks marked in use are      *)
(* exactly those of the pointers that kmalloc returned and kfree has not   *)
(* had back.                                                               *)
THEOREM OwnersExact == CallSpec => []LiveExact
<1>1. Safe => LiveExact
  BY DEF Safe, Sound, IInv, LiveExact
<1> QED
  BY <1>1, Invariance, PTL

(* The merge loop of kfree leaves no two free neighbours behind, whatever  *)
(* it found.                                                               *)
THEOREM MergeComplete == CallSpec => Coalesced
<1>1. ASSUME Safe, [Calls]_vars PROVE [pc = "merge" /\ pc' = "idle" => Tidy']_vars
  <2>1. SUFFICES ASSUME pc = "merge", pc' = "idle" PROVE Tidy'
    OBVIOUS
  <2>2. IInv
    BY <1>1, <2>1 DEF Safe, Sound, Lost
  <2>3. kfree_return
    BY <1>1, <2>1 DEF Calls, Step, kmalloc, kfree_accept, kfree_reject, vfree, kfree_foreign,
                cmd_write, store, kbrk, kmalloc_next, kmalloc_take, kmalloc_fail, kfree_merge,
                kfree_next, kpanic_fatal, Halted, lost, Lost, vars
  <2> QED
    BY <2>2, <2>3, kfree_returnTidy
<1> QED
  BY <1>1, Invariance, PTL DEF CallSpec, Coalesced

(* kmalloc panics only when no free block can hold the request.            *)
THEOREM PanicJustified == CallSpec => []OomJustified
<1>1. Safe => OomJustified
  BY DEF Safe, Sound, IInv, Lost, OomJustified
<1> QED
  BY <1>1, Invariance, PTL

----------------------------------------------------------------------------
(* The magic in front of a pointer says that it is live, or was planted.   *)
LEMMA LivePointer ==
  ASSUME IInv, NEW ptr \in AllPointers
  PROVE  /\ ptr \in DOMAIN live => Magic(ptr - HEADER) = MAGIC_ALLOCATED
         /\ Magic(ptr - HEADER) = MAGIC_ALLOCATED => ptr \in DOMAIN live \/ ptr - 8 \in planted
<1>1. TypeOK /\ Tiled /\ NoForgedMagic /\ Owned
  BY DEF IInv
<1>2. PICK c : c = ptr - HEADER
  OBVIOUS
<1>3. c \in Nat /\ ptr = c + 16 /\ ptr - 8 = c + 8 /\ c + 8 \in Heap
  BY <1>2, PointerWord
<1>4. (c + 8) - 8 = c
  BY <1>3
<1>5. ptr \in DOMAIN live <=> c \in blocks /\ Free(c) = 0
  <2>1. \A b \in blocks : b \in Nat
    BY <1>1, BlockFacts
  <2> QED
    BY <1>1, <1>3, <2>1 DEF Owned, HEADER
<1>6. Magic(c) = mem[c + 8]
  BY DEF Magic, MagicOf
<1> QED
  BY <1>1, <1>2, <1>3, <1>4, <1>5, <1>6 DEF NoForgedMagic

(* kfree takes the pointers that are live and panics on all others, but    *)
(* for a pointer in front of which the magic was planted: no double free   *)
(* goes through, however the heap was used in between.                     *)
THEOREM FreesDetected == CallSpec => []FreeDetection
<1>1. ASSUME Safe, ~Lost, NEW ptr \in Pointers
      PROVE  /\ ptr \in DOMAIN live => Magic(ptr - HEADER) = MAGIC_ALLOCATED
             /\ Magic(ptr - HEADER) = MAGIC_ALLOCATED => ptr \in DOMAIN live \/ ptr - 8 \in planted
  <2>1. IInv
    BY <1>1 DEF Safe, Sound
  <2>2. ptr \in AllPointers
    BY HeapAssumption DEF AllPointers
  <2> QED
    BY <2>1, <2>2, LivePointer
<1>2. Safe => FreeDetection
  BY <1>1 DEF FreeDetection
<1> QED
  BY <1>2, Invariance, PTL

(* ksize reports at least the bytes asked for, for every live pointer and  *)
(* every request but the last seven of the 32-bit range: those round to    *)
(* zero, and are granted less than they asked for.                         *)
THEOREM SizesHonoured == CallSpec => []SizeHonoured
<1>1. ASSUME IInv, LiveSized, NEW p \in DOMAIN live
      PROVE  ksize(p) >= live[p] <=> live[p] <= Word - 8
  <2>1. TypeOK /\ Tiled /\ Owned /\ NoForgedMagic
    BY <1>1 DEF IInv
  <2>2. PICK c \in blocks : Free(c) = 0 /\ p = c + 16 /\ c = p - HEADER
    BY <1>1, LivePayload
  <2>3. /\ c \in Nat /\ c >= KHEAP_START /\ c % 8 = 0 /\ c + 8 \in Heap
        /\ Size(c) \in Nat /\ End(c) = c + 16 + Size(c) /\ End(c) <= KHEAP_END
    BY <2>1, BlockFacts
  <2>4. PICK n : n = live[p]
    OBVIOUS
  <2>5. n \in 1 .. Word - 1 /\ RoundUp(n) <= Size(c) /\ RoundUp(n) \in Nat
    <3>1. live[p] \in 1 .. Word - 1 /\ RoundUp(live[p]) <= Size(p - HEADER)
      BY <1>1 DEF LiveSized
    <3>2. n \in 1 .. Word - 1 /\ RoundUp(n) <= Size(c)
      BY <2>2, <2>4, <3>1
    <3> QED
      BY <3>2, RoundUpMultiple
  <2>6. Magic(c) = MAGIC_ALLOCATED
    <3>1. (c + 8) - 8 = c
      BY <2>3
    <3> QED
      BY <2>1, <2>2, <2>3, <3>1 DEF NoForgedMagic, Magic, MagicOf
  <2>7. ksize(p) \in {0, Size(c)} /\ (p < KHEAP_END => ksize(p) = Size(c))
    <3>1. is_valid_kheap_block(c)
      BY <2>3, HeapWord, Constants DEF is_valid_kheap_block
    <3>2. p >= KHEAP_START
      BY <2>2, <2>3, Constants
    <3> QED
      BY <2>2, <2>6, <3>1, <3>2 DEF ksize
  <2>8. CASE n <= Word - 8
    <3>1. RoundUp(n) >= n
      BY <2>5, <2>8, RoundUpMultiple, Constants
    <3>2. Size(c) >= n /\ p < KHEAP_END
      BY <2>2, <2>3, <2>5, <3>1, Constants
    <3> QED
      BY <2>4, <2>7, <2>8, <3>2
  <2>9. CASE ~(n <= Word - 8)
    <3>1. Size(c) < n
      BY <2>3, <2>5, <2>9, Constants
    <3>2. ~(ksize(p) >= n)
      BY <2>3, <2>5, <2>7, <3>1
    <3> QED
      BY <2>4, <2>9, <3>2
  <2> QED
    BY <2>8, <2>9
<1>2. Safe => SizeHonoured
  BY <1>1 DEF Safe, Sound, SizeHonoured
<1> QED
  BY <1>2, Invariance, PTL

(* No step of kmalloc or kfree, in the middle of a merge either, writes    *)
(* into bytes that a caller holds.                                         *)
THEOREM PayloadsUntouched == CallSpec => PayloadUntouched
<1> DEFINE Kept ==
      ~Lost' /\ ~(pc = "idle" /\ pc' = "idle") =>
         \A p \in DOMAIN live \cap DOMAIN live' :
           \A w \in Heap : w >= p /\ w < p + RoundUp(live[p]) => mem'[w] = mem[w]
<1>1. ASSUME Safe, [Calls]_vars PROVE [Kept]_vars
  <2>1. CASE Lost
    BY <1>1, <2>1
       DEF Lost, Calls, Step, kmalloc, kfree_accept, kfree_reject, vfree, kfree_foreign,
           cmd_write, store, kbrk, kmalloc_next, kmalloc_take, kmalloc_fail, kfree_merge,
           kfree_next, kfree_return, kpanic_fatal, Halted, lost, vars
  <2>2. CASE ~Lost
    <3>1. IInv /\ LiveSized /\ TypeOK /\ Tiled /\ Owned
      BY <1>1, <2>2 DEF Safe, Sound, IInv
    <3>2. SUFFICES ASSUME ~Lost', ~(pc = "idle" /\ pc' = "idle"), NEW p \in DOMAIN live,
                          NEW w \in Heap, w >= p, w < p + RoundUp(live[p])
                   PROVE  mem'[w] = mem[w]
      OBVIOUS
    <3>3. /\ p \in Nat /\ p - 16 \in blocks /\ Free(p - 16) = 0
          /\ End(p - 16) = p + Size(p - 16) /\ Size(p - 16) \in Nat
      BY <3>1, LiveBlock
    <3>4. RoundUp(live[p]) <= Size(p - 16) /\ RoundUp(live[p]) \in Nat /\ w \in Nat
      BY <3>1, HeapWord, RoundUpMultiple DEF LiveSized, HEADER, TypeOK
    <3>5. (p - 16) + 16 <= w /\ w < End(p - 16)
      BY <3>2, <3>3, <3>4
    <3> QED
      BY <1>1, <3>1, <3>2, <3>3, <3>5, BlockKept
  <2> QED
    BY <2>1, <2>2
<1> QED
  BY <1>1, Invariance, PTL DEF CallSpec, PayloadUntouched

----------------------------------------------------------------------------
(***************************************************************************)
(* The refinement: a kmalloc that takes a block is an allocation, a free   *)
(* of a live pointer is a release, and the turns of the loops are          *)
(* stuttering steps.                                                       *)
(***************************************************************************)
LEMMA AllocRefines ==
  ASSUME IInv, LiveSized, kmalloc_take
  PROVE  Abstract!Next
<1>1. TypeOK /\ Tiled /\ Owned
  BY DEF IInv
<1>2. PICK c : c = cur
  OBVIOUS
<1>3. PICK n : n = RoundUp(arg)
  OBVIOUS
<1>4. /\ c \in blocks /\ Free(c) = 1 /\ n \in Nat /\ n % 8 = 0 /\ n <= Size(c)
      /\ pc = "scan" /\ pc' = "idle"
  BY <1>2, <1>3, TakeFacts
<1>5. /\ c \in Nat /\ c >= KHEAP_START /\ c % 8 = 0 /\ Size(c) \in Nat
      /\ End(c) = c + 16 + Size(c) /\ End(c) <= KHEAP_END
  BY <1>1, <1>4, BlockFacts
<1>6. PICK p : p = c + 16
  OBVIOUS
<1>7. p \in Nat /\ p % 8 = 0 /\ KHEAP_START <= p /\ p + n <= KHEAP_END /\ p + n <= End(c)
  BY <1>4, <1>5, <1>6, Constants
<1>8. ASSUME NEW q \in DOMAIN live
      PROVE  Abstract!Disjoint(p, n, q, RoundUp(live[q])) /\ q # p
  <2>1. /\ q \in Nat /\ q - 16 \in blocks /\ Free(q - 16) = 0
        /\ End(q - 16) = q + Size(q - 16) /\ Size(q - 16) \in Nat
    BY <1>1, LiveBlock
  <2>2. q - 16 # c
    BY <1>4, <2>1
  <2>3. End(q - 16) <= c \/ End(c) <= q - 16
    BY <1>1, <1>4, <2>1, <2>2, Apart
  <2>4. RoundUp(live[q]) <= Size(q - 16) /\ RoundUp(live[q]) \in Nat
    BY <1>1, RoundUpMultiple DEF LiveSized, TypeOK, HEADER
  <2> QED
    BY <1>4, <1>5, <1>6, <1>7, <2>1, <2>2, <2>3, <2>4 DEF Abstract!Disjoint
<1>9. live' = [q \in DOMAIN live \cup {p} |-> IF q = p THEN arg ELSE live[q]]
  BY <1>2, <1>6 DEF kmalloc_take, HEADER
<1>10. Granted' = [q \in DOMAIN live \cup {p} |-> IF q = p THEN n ELSE Granted[q]]
  BY <1>3, <1>8, <1>9 DEF Granted, RoundUp
<1>11. DOMAIN Granted = DOMAIN live /\ \A q \in DOMAIN live : Granted[q] = RoundUp(live[q])
  BY DEF Granted
<1>12. Halted = FALSE /\ Halted' = FALSE
  BY <1>4 DEF Halted
<1>13. /\ p \in {q \in KHEAP_START .. KHEAP_END : q % 8 = 0}
       /\ n \in {k \in 0 .. KHEAP_SIZE : k % 8 = 0}
  BY <1>4, <1>7, Constants
<1>14. Abstract!Alloc(p, n)
  BY <1>7, <1>8, <1>10, <1>11, <1>12, <1>13 DEF Abstract!Alloc
<1>15. p \in DOMAIN Granted' /\ Granted'[p] = n
  BY <1>10
<1> QED
  BY <1>14, <1>15 DEF Abstract!Next

LEMMA StepRefines ==
  ASSUME Safe, [Calls]_vars
  PROVE  [Abstract!Next]_Abstract!vars
<1>1. CASE kmalloc_take
  BY <1>1, AllocRefines DEF Safe, Sound, Lost, kmalloc_take
<1>2. ASSUME NEW ptr, Drop(ptr), ~Halted, ~Halted' PROVE [Abstract!Next]_Abstract!vars
  <2>1. Granted' = [p \in DOMAIN Granted \ {ptr} |-> Granted[p]]
    BY <1>2 DEF Drop, Granted, RoundUp
  <2>2. CASE ptr \in DOMAIN Granted
    <3>1. Halted = FALSE /\ Halted' = FALSE
      BY <1>2 DEF Halted
    <3>2. Abstract!Release(ptr)
      BY <2>1, <2>2, <3>1 DEF Abstract!Release
    <3> QED
      BY <2>2, <3>2 DEF Abstract!Next
  <2>3. CASE ptr \notin DOMAIN Granted
    <3>1. Granted' = Granted
      BY <2>1, <2>3 DEF Granted
    <3> QED
      BY <1>2, <3>1 DEF Abstract!vars, Halted
  <2> QED
    BY <2>2, <2>3
<1>3. ASSUME NEW ptr, kfree_reject(ptr) PROVE Abstract!Next
  BY <1>3 DEF kfree_reject, Halted, Granted, RoundUp, Abstract!Next, Abstract!Panic
<1>4. CASE kmalloc_fail
  BY <1>4 DEF kmalloc_fail, Halted, Granted, RoundUp, Abstract!Next, Abstract!Panic
<1>5. ASSUME NEW ptr, kfree_accept(ptr) \/ vfree(ptr) PROVE Drop(ptr) /\ ~Halted /\ ~Halted'
  BY <1>5 DEF kfree_accept, vfree, Halted
<1>6. CASE \/ \E n \in 1 .. Word - 1 : kmalloc(n)
           \/ \E capacity \in Nat : kfree_foreign(capacity)
           \/ \E ptr \in AllPointers, v \in Nat \ {MAGIC_ALLOCATED} : cmd_write(ptr, v)
           \/ \E ptr \in DOMAIN live, v \in Nat : store(ptr, v)
           \/ \E a \in Nat : kbrk(a)
           \/ kmalloc_next \/ kfree_merge \/ kfree_next \/ kfree_return
           \/ kpanic_fatal \/ lost \/ UNCHANGED vars
  <2>1. UNCHANGED live /\ (Halted' <=> Halted)
    BY <1>6 DEF kmalloc, kfree_foreign, cmd_write, store, kbrk, kmalloc_next, kfree_merge,
                kfree_next, kfree_return, kpanic_fatal, lost, vars, Halted
  <2> QED
    BY <2>1 DEF Granted, RoundUp, Halted, Abstract!vars
<1> QED
  BY <1>1, <1>2, <1>3, <1>4, <1>5, <1>6 DEF Calls, Step

(* The kernel heap implements the abstract allocator: ranges in use never  *)
(* overlap, whatever sequence of requests and releases led there.          *)
THEOREM Refinement == CallSpec => ImplementsAllocator
<1>1. Init => Abstract!Init
  BY DEF Init, Halted, Granted, Abstract!Init
<1>2. Safe /\ [Calls]_vars => [Abstract!Next]_Abstract!vars
  BY StepRefines
<1> QED
  BY <1>1, <1>2, Invariance, PTL DEF CallSpec, ImplementsAllocator, Abstract!Spec
----------------------------------------------------------------------------
(***************************************************************************)
(* The test commands: ktest, kmalloctest and panictest make calls of the   *)
(* heap, and when one of them ends the heap is as it was before.           *)
(***************************************************************************)
(* The block that the running test holds or gives back.                    *)
Mine == test.ptr - HEADER

(* The blocks are those before the test, or the block of the test is the   *)
(* first part of one of them, and a free block is the rest.                *)
Whole ==
  /\ blocks = DOMAIN test.before.sizes
  /\ \A b \in blocks : test.before.sizes[b] = Size(b)

Cut ==
  /\ End(Mine) \in blocks /\ Free(End(Mine)) # 0
  /\ DOMAIN test.before.sizes = blocks \ {End(Mine)}
  /\ \A b \in blocks \ {End(Mine)} :
       test.before.sizes[b] = IF b = Mine THEN Size(b) + HEADER + Size(End(b)) ELSE Size(b)

(* Two neighbours that are free once the test has given its block back:    *)
(* there are none but the two parts of the block that was cut.             *)
Pair(b) ==
  /\ Next(b) # NULL
  /\ Free(b) # 0 \/ b = Mine
  /\ Free(Next(b)) # 0 \/ Next(b) = Mine

Borrowed ==
  /\ Mine \in blocks
  /\ \/ Whole /\ \A b \in blocks : ~Pair(b)
     \/ Cut /\ \A b \in blocks : Pair(b) => b = Mine

(* What a test does not change while it runs.                              *)
TestForm ==
  test # NoTest =>
    /\ test = [sizes |-> test.sizes, value |-> test.value, frees |-> test.frees,
               stage |-> test.stage, ptr |-> test.ptr, before |-> test.before]
    /\ test.sizes \in Seq(1 .. Word - 1) /\ test.sizes # << >>
    /\ test.value \in Nat \cup {None}
    /\ test.frees \/ (test.stage = "alloc" /\ test.sizes[1] \in KHEAP_SIZE .. Word - 8)
    /\ test.stage \in {"alloc", "held", "stored", "freeing"}
    /\ test.before = [used |-> test.before.used,
                      sizes |-> [b \in DOMAIN test.before.sizes |-> test.before.sizes[b]],
                      tidy |-> test.before.tidy]

(* While kmalloc looks for a block the heap is as before the test; then    *)
(* the test holds one pointer more; and kfree has all the pointers back    *)
(* before its loop has put the parts of the block together.  If there were *)
(* free neighbours before the test only the stages of its calls are kept.  *)
AllocInv ==
  Testing("alloc") =>
    /\ pc \in {"scan", "panic_oom"} /\ arg = test.sizes[1]
    /\ test.before.tidy => Tidy /\ Shape = test.before

HeldInv ==
  Testing("held") \/ Testing("stored") =>
    /\ pc = "idle" /\ test.ptr \in DOMAIN live
    /\ test.before.tidy =>
         Borrowed /\ test.before.used = [p \in DOMAIN live \ {test.ptr} |-> live[p]]

FreeingInv ==
  Testing("freeing") =>
    /\ pc \in {"merge", "idle"} /\ test.ptr \in Nat \ DOMAIN live
    /\ pc = "idle" => Tidy
    /\ test.before.tidy => Borrowed /\ test.before.used = live

TestInv == TestForm /\ AllocInv /\ HeldInv /\ FreeingInv

----------------------------------------------------------------------------
(* The record of a test: its fields, and what it is after a change.        *)
LEMMA Fields ==
  ASSUME NEW r, NEW s, NEW v, NEW f, NEW g, NEW p, NEW o,
         r = [sizes |-> s, value |-> v, frees |-> f, stage |-> g, ptr |-> p, before |-> o]
  PROVE  /\ r.sizes = s /\ r.value = v /\ r.frees = f
         /\ r.stage = g /\ r.ptr = p /\ r.before = o
         /\ s # << >> => r # NoTest
BY DEF NoTest

LEMMA Changed ==
  ASSUME TestForm, test # NoTest, NEW s, NEW g, NEW p, s # << >>,
         test' = [sizes |-> s, value |-> test.value, frees |-> test.frees,
                  stage |-> g, ptr |-> p, before |-> test.before]
  PROVE  /\ test' # NoTest /\ test'.sizes = s /\ test'.value = test.value
         /\ test'.frees = test.frees /\ test'.stage = g /\ test'.ptr = p
         /\ test'.before = test.before
         /\ test' = [sizes |-> test'.sizes, value |-> test'.value, frees |-> test'.frees,
                     stage |-> test'.stage, ptr |-> test'.ptr, before |-> test'.before]
BY Fields

LEMMA ChangedStage ==
  ASSUME TestForm, test # NoTest, NEW g, test' = [test EXCEPT !.stage = g]
  PROVE  /\ test' # NoTest /\ test'.sizes = test.sizes /\ test'.value = test.value
         /\ test'.frees = test.frees /\ test'.stage = g /\ test'.ptr = test.ptr
         /\ test'.before = test.before
         /\ test' = [sizes |-> test'.sizes, value |-> test'.value, frees |-> test'.frees,
                     stage |-> test'.stage, ptr |-> test'.ptr, before |-> test'.before]
<1>1. test' = [sizes |-> test.sizes, value |-> test.value, frees |-> test.frees,
               stage |-> g, ptr |-> test.ptr, before |-> test.before]
  BY DEF TestForm
<1>2. test.sizes # << >>
  BY DEF TestForm
<1> QED
  BY <1>1, <1>2, Changed

(* A live pointer may be given to kfree, which accepts it.                 *)
LEMMA LiveUsable ==
  ASSUME IInv, NEW p \in DOMAIN live
  PROVE  p \in Nat /\ p \in AllPointers /\ Magic(p - HEADER) = MAGIC_ALLOCATED
<1>1. TypeOK /\ Tiled
  BY DEF IInv
<1>2. PICK c \in blocks : p = c + 16 /\ c = p - HEADER
  BY LivePayload
<1>3. c \in Nat /\ c \in Heap
  BY <1>1, <1>2, BlockFacts
<1>4. p \in KHEAP_START .. KHEAP_END
  BY <1>1 DEF TypeOK
<1>5. p \in AllPointers
  BY <1>2, <1>3, <1>4 DEF AllPointers
<1> QED
  BY <1>2, <1>3, <1>5, LivePointer

(* The commands make calls of the heap.                                    *)
LEMMA CommandIsCall ==
  ASSUME NextStep
  PROVE  Calls
<1>1. ASSUME NEW n \in Sizes, kmalloc(n) PROVE Calls
  <2>1. n \in 1 .. Word - 1
    BY <1>1, HeapAssumption DEF kmalloc
  <2> QED
    BY <1>1, <2>1 DEF Calls
<1>2. Pointers \subseteq AllPointers
  BY HeapAssumption DEF AllPointers
<1>3. Values \subseteq Nat \ {MAGIC_ALLOCATED} /\ Capacities \subseteq Nat /\ Breaks \subseteq Nat
  BY HeapAssumption
<1> QED
  BY <1>1, <1>2, <1>3 DEF NextStep, Calls

LEMMA Element ==
  ASSUME NEW S, NEW s \in Seq(S), NEW i \in 1 .. Len(s)
  PROVE  s[i] \in S
OBVIOUS

(* Each step of a test is a step of a call of the heap, or none.           *)
LEMMA TestStepIsCall ==
  ASSUME Lost \/ (IInv /\ TestInv), [TestNext]_testVars
  PROVE  [Calls]_vars
<1>1. ASSUME NEW t \in Tests, test_start(t) PROVE Calls
  <2>1. t.sizes[1] \in 1 .. Word - 1
    <3>1. t.sizes \in Seq(1 .. Word - 1) /\ t.sizes # << >>
      BY TestAssumption
    <3>2. 1 \in 1 .. Len(t.sizes)
      BY <3>1
    <3> QED
      BY <3>1, <3>2, Element
  <2> QED
    BY <1>1, <2>1 DEF test_start, Calls
<1>2. CASE test_take
  BY <1>2 DEF test_take, Calls, Step
<1>3. CASE test_store
  <2>1. CASE test.value = None
    BY <1>3, <2>1 DEF test_store, vars
  <2>2. CASE test.value # None
    <3>1. store(test.ptr, test.value) /\ ~Lost
      BY <1>3, <2>2 DEF test_store, store, Lost
    <3>2. test.ptr \in DOMAIN live /\ test.value \in Nat
      BY <1>3, <2>2, <3>1 DEF test_store, TestInv, TestForm, HeldInv, Testing
    <3> QED
      BY <3>1, <3>2 DEF Calls
  <2> QED
    BY <2>1, <2>2
<1>4. CASE test_free
  <2>1. ~Lost
    BY <1>4 DEF test_free, kfree_accept, kfree_reject, Lost
  <2>2. test.ptr \in DOMAIN live /\ IInv
    BY <1>4, <2>1 DEF test_free, TestInv, HeldInv, Testing
  <2>3. test.ptr \in AllPointers
    BY <2>2, LiveUsable
  <2> QED
    BY <1>4, <2>3 DEF test_free, Calls
<1>5. CASE test_next
  <2>1. ~Lost
    BY <1>5 DEF test_next, Lost
  <2>2. test.sizes \in Seq(1 .. Word - 1) /\ Len(test.sizes) > 1
    BY <1>5, <2>1 DEF test_next, TestInv, TestForm, Testing
  <2>3. 2 \in 1 .. Len(test.sizes)
    BY <2>2
  <2>4. test.sizes[2] \in 1 .. Word - 1
    BY <2>2, <2>3, Element
  <2> QED
    BY <1>5, <2>4 DEF test_next, Calls
<1>6. CASE test_end
  BY <1>6 DEF test_end
<1>7. CASE test_step
  BY <1>7 DEF test_step, Calls, Step
<1>8. CASE test = NoTest /\ NextStep /\ UNCHANGED test
  BY <1>8, CommandIsCall
<1>9. CASE UNCHANGED testVars
  BY <1>9 DEF testVars
<1> QED
  BY <1>1, <1>2, <1>3, <1>4, <1>5, <1>6, <1>7, <1>8, <1>9 DEF TestNext, TestStep

----------------------------------------------------------------------------
(***************************************************************************)
(* The steps of a test keep TestInv.                                       *)
(***************************************************************************)
(* Between two tests there is nothing to keep.                             *)
LEMMA NoTestInv ==
  ASSUME test' = NoTest
  PROVE  TestInv'
BY DEF TestInv, TestForm, AllocInv, HeldInv, FreeingInv, Testing

(* Steps that change no link and no size, and mark no other block.         *)
LEMMA SameBorrowed ==
  ASSUME IInv, Borrowed, blocks' = blocks,
         test'.ptr = test.ptr, test'.before = test.before,
         \A b \in blocks : /\ Size(b)' = Size(b) /\ Next(b)' = Next(b) /\ End(b)' = End(b)
                           /\ b # Mine => Free(b)' = Free(b)
  PROVE  Borrowed'
<1>1. TypeOK /\ Tiled
  BY DEF IInv
<1>2. PICK c : c = Mine
  OBVIOUS
<1>3. Mine' = c
  BY <1>2 DEF Mine
<1>4. c \in blocks
  BY <1>2 DEF Borrowed
<1>5. Whole => Whole'
  BY DEF Whole
<1>6. ASSUME NEW b \in blocks PROVE Pair(b)' <=> Pair(b)
  <2>1. CASE Next(b) = NULL
    BY <1>6, <2>1 DEF Pair
  <2>2. CASE Next(b) # NULL
    <3>1. PICK e : e = Next(b)
      OBVIOUS
    <3>2. e \in blocks
      BY <1>1, <2>2, <3>1, Successor
    <3>3. Next(b)' = e
      BY <3>1
    <3>4. ASSUME NEW x \in blocks PROVE Free(x)' # 0 \/ x = c <=> Free(x) # 0 \/ x = c
      BY <1>2
    <3>5. Pair(b)' <=> (Free(b)' # 0 \/ b = c) /\ (Free(e)' # 0 \/ e = c)
      BY <1>3, <2>2, <3>1, <3>3 DEF Pair
    <3>6. Pair(b) <=> (Free(b) # 0 \/ b = c) /\ (Free(e) # 0 \/ e = c)
      BY <1>2, <2>2, <3>1 DEF Pair
    <3> QED
      BY <3>2, <3>4, <3>5, <3>6
  <2> QED
    BY <2>1, <2>2
<1>7. Cut => Cut'
  <2> SUFFICES ASSUME Cut PROVE Cut'
    OBVIOUS
  <2>1. PICK n : n = End(c)
    OBVIOUS
  <2>2. /\ n \in blocks /\ Free(n) # 0 /\ DOMAIN test.before.sizes = blocks \ {n}
        /\ \A b \in blocks \ {n} :
             test.before.sizes[b] = IF b = c THEN Size(b) + HEADER + Size(End(b)) ELSE Size(b)
    BY <1>2, <2>1 DEF Cut
  <2>3. End(c)' = n /\ n # c
    BY <1>1, <1>4, <2>1, BlockFacts
  <2>4. Free(n)' # 0
    BY <1>2, <2>2, <2>3
  <2>5. ASSUME NEW b \in blocks \ {n}
        PROVE  test'.before.sizes[b] = IF b = c THEN Size(b)' + HEADER + Size(End(b))' ELSE Size(b)'
    <3>1. CASE b = c
      <4>1. Size(End(b))' = Size(n)' /\ Size(n)' = Size(n) /\ Size(End(b)) = Size(n)
        <5>1. End(b)' = n /\ End(b) = n
          BY <2>1, <2>3, <3>1
        <5> QED
          BY <2>2, <5>1 DEF Size, SizeOf
      <4> QED
        BY <1>4, <2>2, <2>5, <3>1, <4>1
    <3>2. CASE b # c
      BY <2>2, <2>5, <3>2
    <3> QED
      BY <3>1, <3>2
  <2> QED
    BY <1>3, <2>2, <2>3, <2>4, <2>5 DEF Cut
<1> QED
  BY <1>2, <1>3, <1>4, <1>5, <1>6, <1>7 DEF Borrowed

(* The heap as it is, seen as the state before a test.                     *)
LEMMA ShapeFacts ==
  /\ Shape.used = live /\ DOMAIN Shape.sizes = blocks
  /\ \A b \in blocks : Shape.sizes[b] = Size(b)
  /\ Shape = [used |-> Shape.used,
              sizes |-> [b \in DOMAIN Shape.sizes |-> Shape.sizes[b]],
              tidy |-> Shape.tidy]
  /\ Shape.tidy <=> Tidy
<1>1. PICK t \in BOOLEAN : t = Tidy
  BY DEF Tidy
<1>2. Shape = [used |-> live, sizes |-> [b \in blocks |-> Size(b)], tidy |-> t]
  BY <1>1 DEF Shape
<1> QED
  BY <1>1, <1>2

LEMMA SameShape ==
  ASSUME UNCHANGED <<mem, blocks, live>>
  PROVE  Shape' = Shape /\ (Tidy' <=> Tidy)
<1>1. Tidy' = Tidy
  BY DEF Tidy, Next, NextOf, Free, FreeOf
<1> QED
  BY <1>1 DEF Shape, Size, SizeOf

LEMMA test_startInv ==
  ASSUME IInv, NEW t \in Tests, test_start(t)
  PROVE  TestInv'
<1>1. test' = [sizes |-> t.sizes, value |-> t.value, frees |-> t.frees,
               stage |-> "alloc", ptr |-> NULL, before |-> Shape]
  BY DEF test_start
<1>2. /\ t.sizes \in Seq(1 .. Word - 1) /\ t.sizes # << >>
      /\ t.value \in Nat \cup {None} /\ t.frees \in BOOLEAN
      /\ ~t.frees => t.sizes[1] \in KHEAP_SIZE .. Word - 8
  BY TestAssumption
<1>3. /\ test' # NoTest /\ test'.sizes = t.sizes /\ test'.value = t.value
      /\ test'.frees = t.frees /\ test'.stage = "alloc" /\ test'.ptr = NULL
      /\ test'.before = Shape
  BY <1>1, <1>2, Fields
<1>4. pc' = "scan" /\ arg' = t.sizes[1] /\ UNCHANGED <<mem, blocks, live>>
  BY DEF test_start, kmalloc
<1>5. TestForm'
  <2>1. test' = [sizes |-> test'.sizes, value |-> test'.value, frees |-> test'.frees,
                 stage |-> test'.stage, ptr |-> test'.ptr, before |-> test'.before]
    BY <1>1, <1>3
  <2>2. test'.before = [used |-> test'.before.used,
                        sizes |-> [b \in DOMAIN test'.before.sizes |-> test'.before.sizes[b]],
                        tidy |-> test'.before.tidy]
    BY <1>3, ShapeFacts
  <2> QED
    BY <1>2, <1>3, <2>1, <2>2 DEF TestForm
<1>6. AllocInv'
  <2>1. Shape' = test'.before /\ (test'.before.tidy => Tidy')
    BY <1>3, <1>4, SameShape, ShapeFacts
  <2> QED
    BY <1>3, <1>4, <2>1 DEF AllocInv
<1> QED
  BY <1>3, <1>5, <1>6 DEF TestInv, HeldInv, FreeingInv, Testing

(* panictest never gets a block: it asks for more than the whole heap.     *)
LEMMA TakeFrees ==
  ASSUME IInv, TestInv, test_take
  PROVE  test.frees
<1> SUFFICES ASSUME ~test.frees PROVE FALSE
  OBVIOUS
<1>1. TypeOK /\ Tiled /\ kmalloc_take
  BY DEF IInv, test_take
<1>2. arg = test.sizes[1] /\ test.sizes[1] \in KHEAP_SIZE .. Word - 8
  BY DEF TestInv, TestForm, AllocInv, test_take, Testing
<1>3. /\ cur \in blocks /\ arg \in 1 .. Word - 1
      /\ RoundUp(arg) \in Nat /\ RoundUp(arg) <= Size(cur)
  BY <1>1, TakeFacts
<1>4. RoundUp(arg) >= arg
  BY <1>2, <1>3, RoundUpMultiple, Constants
<1>5. /\ cur \in Nat /\ cur >= KHEAP_START /\ Size(cur) \in Nat
      /\ cur + 16 + Size(cur) <= KHEAP_END
  BY <1>1, <1>3, BlockFacts
<1> QED
  BY <1>2, <1>3, <1>4, <1>5, Constants DEF HEADER

(* kmalloc has taken a block whole.                                        *)
LEMMA BorrowWhole ==
  ASSUME IInv, kmalloc_take, NEW c, c = cur, ~Splits(mem, c, RoundUp(arg)),
         Shape = test.before, Tidy, Mine' = c, test'.before = test.before
  PROVE  Borrowed'
<1>1. TypeOK /\ Tiled
  BY DEF IInv
<1>2. /\ c \in blocks /\ Free(c) = 1 /\ blocks' = blocks /\ Free(c)' = 0
      /\ \A b \in blocks :
           /\ Size(b)' = Size(b) /\ Next(b)' = Next(b) /\ End(b)' = End(b)
           /\ b # c => Free(b)' = Free(b)
  BY WholeFacts
<1>3. Whole'
  BY <1>2, ShapeFacts DEF Whole
<1>4. \A b \in blocks : Neighbours(b)
  BY DEF Tidy, Neighbours
<1>5. ASSUME NEW b \in blocks, Pair(b)' PROVE FALSE
  <2>1. PICK e : e = Next(b)
    OBVIOUS
  <2>2. Next(b)' = e /\ e # NULL
    BY <1>2, <1>5, <2>1 DEF Pair
  <2>3. e \in blocks
    BY <1>1, <2>1, <2>2, Successor
  <2>4. (Free(b)' # 0 \/ b = c) /\ (Free(e)' # 0 \/ e = c)
    BY <1>5, <2>2 DEF Pair
  <2>5. Free(b) # 0 /\ Free(e) # 0
    BY <1>2, <2>3, <2>4
  <2> QED
    BY <1>4, <2>1, <2>2, <2>5 DEF Neighbours
<1> QED
  BY <1>2, <1>3, <1>5 DEF Borrowed

(* kmalloc has taken the first part of a block.                            *)
LEMMA BorrowCut ==
  ASSUME IInv, kmalloc_take, NEW c, c = cur, Splits(mem, c, RoundUp(arg)),
         Shape = test.before, Tidy, Mine' = c, test'.before = test.before
  PROVE  Borrowed'
<1>1. TypeOK /\ Tiled
  BY DEF IInv
<1>2. PICK size : size = RoundUp(arg)
  OBVIOUS
<1>3. PICK n : n = c + 16 + size
  OBVIOUS
<1>4. /\ c \in blocks /\ Free(c) = 1 /\ n \notin blocks /\ blocks' = blocks \cup {n}
      /\ \A b \in blocks : b # c =>
           /\ Size(b)' = Size(b) /\ Free(b)' = Free(b)
           /\ Next(b)' = Next(b) /\ End(b)' = End(b)
      /\ Size(c)' = size /\ Free(c)' = 0 /\ Next(c)' = n /\ End(c)' = n
      /\ Size(n)' = Size(c) - size - 16 /\ Free(n)' = 1 /\ Next(n)' = Next(c)
  BY <1>2, <1>3, SplitFacts
<1>5. Cut'
  <2>1. DOMAIN test'.before.sizes = blocks /\ \A b \in blocks : test'.before.sizes[b] = Size(b)
    BY ShapeFacts
  <2>2. Size(End(c))' = Size(n)'
    BY <1>4 DEF Size, SizeOf
  <2>3. Size(c) = Size(c)' + 16 + Size(End(c))'
    <3>1. size \in Nat /\ Size(c) \in Nat
      BY <1>1, <1>2, <1>4, TakeFacts, BlockFacts
    <3> QED
      BY <1>4, <2>2, <3>1
  <2>4. ASSUME NEW b \in blocks' \ {n}
        PROVE  test'.before.sizes[b] = IF b = c THEN Size(b)' + HEADER + Size(End(b))' ELSE Size(b)'
    BY <1>4, <2>1, <2>3, <2>4 DEF HEADER
  <2>5. DOMAIN test'.before.sizes = blocks' \ {n}
    BY <1>4, <2>1
  <2> QED
    BY <1>4, <2>4, <2>5 DEF Cut
<1>6. \A b \in blocks : Neighbours(b)
  BY DEF Tidy, Neighbours
<1>7. ASSUME NEW b \in blocks', Pair(b)', b # c PROVE FALSE
  <2>1. PICK a : a = IF b = n THEN c ELSE b
    OBVIOUS
  <2>2. a \in blocks /\ Next(b)' = Next(a) /\ (Free(b)' # 0 => Free(a) # 0)
    BY <1>4, <1>7, <2>1
  <2>3. PICK e : e = Next(a)
    OBVIOUS
  <2>4. Next(b)' = e /\ e # NULL
    BY <1>7, <2>2, <2>3 DEF Pair
  <2>5. e \in blocks
    BY <1>1, <2>2, <2>3, <2>4, Successor
  <2>6. (Free(b)' # 0 \/ b = c) /\ (Free(e)' # 0 \/ e = c)
    BY <1>7, <2>4 DEF Pair
  <2>7. Free(a) # 0 /\ Free(e) # 0
    BY <1>4, <1>7, <2>2, <2>5, <2>6
  <2> QED
    BY <1>6, <2>2, <2>3, <2>4, <2>7 DEF Neighbours
<1> QED
  BY <1>4, <1>5, <1>7 DEF Borrowed

LEMMA test_takeInv ==
  ASSUME IInv, LiveFunction, TestInv, test_take
  PROVE  TestInv'
<1>1. TypeOK /\ Tiled /\ Owned /\ kmalloc_take
  BY DEF IInv, test_take
<1>2. /\ TestForm /\ test # NoTest /\ test.stage = "alloc" /\ test.sizes # << >>
      /\ test.before.tidy => Tidy /\ Shape = test.before
  BY DEF TestInv, TestForm, AllocInv, test_take, Testing
<1>3. PICK c : c = cur
  OBVIOUS
<1>4. test' = [sizes |-> test.sizes, value |-> test.value, frees |-> test.frees,
               stage |-> "held", ptr |-> c + HEADER, before |-> test.before]
  BY <1>2, <1>3 DEF test_take, TestForm
<1>5. /\ test' # NoTest /\ test'.sizes = test.sizes /\ test'.value = test.value
      /\ test'.frees = test.frees /\ test'.stage = "held" /\ test'.ptr = c + HEADER
      /\ test'.before = test.before
      /\ test' = [sizes |-> test'.sizes, value |-> test'.value, frees |-> test'.frees,
                  stage |-> test'.stage, ptr |-> test'.ptr, before |-> test'.before]
  BY <1>2, <1>4, Changed
<1>6. /\ c \in blocks /\ Free(c) = 1 /\ pc' = "idle"
      /\ DOMAIN live' = DOMAIN live \cup {c + 16}
      /\ \A p \in DOMAIN live' : live'[p] = IF p = c + 16 THEN arg ELSE live[p]
  BY <1>1, <1>3, TakeFacts
<1>7. c \in Nat /\ Mine' = c
  <2>1. c \in Nat
    BY <1>1, <1>6, BlockFacts
  <2> QED
    BY <1>5, <2>1 DEF Mine, HEADER
<1>8. test.before.tidy => Borrowed'
  BY <1>1, <1>2, <1>3, <1>5, <1>7, BorrowWhole, BorrowCut
<1>9. c + 16 \notin DOMAIN live
  <2> SUFFICES ASSUME c + 16 \in DOMAIN live PROVE FALSE
    OBVIOUS
  <2>1. Free((c + 16) - 16) = 0
    BY <1>1, LiveBlock
  <2>2. (c + 16) - 16 = c
    BY <1>7
  <2> QED
    BY <1>6, <2>1, <2>2
<1>10. [p \in DOMAIN live' \ {c + 16} |-> live'[p]] = live
  <2>1. DOMAIN live' \ {c + 16} = DOMAIN live
    BY <1>6, <1>9
  <2>2. \A p \in DOMAIN live : live'[p] = live[p]
    BY <1>6, <1>9
  <2>3. [p \in DOMAIN live' \ {c + 16} |-> live'[p]] = [p \in DOMAIN live |-> live[p]]
    BY <2>1, <2>2
  <2> QED
    BY <2>3 DEF LiveFunction
<1>11. HeldInv'
  <2>1. test.before.tidy => test'.before.used = live
    BY <1>2, <1>5, ShapeFacts
  <2> QED
    BY <1>5, <1>6, <1>8, <1>10, <2>1 DEF HeldInv, HEADER
<1>12. TestForm'
  BY <1>2, <1>5, TakeFrees DEF TestForm, TestInv
<1> QED
  BY <1>5, <1>11, <1>12 DEF TestInv, AllocInv, FreeingInv, Testing

LEMMA test_storeInv ==
  ASSUME IInv, TestInv, test_store, ~Lost'
  PROVE  TestInv'
<1>1. /\ TestForm /\ test # NoTest /\ test.stage = "held" /\ test.frees
      /\ pc = "idle" /\ test.ptr \in DOMAIN live /\ test.value \in Nat \cup {None}
      /\ test.before.tidy =>
           Borrowed /\ test.before.used = [p \in DOMAIN live \ {test.ptr} |-> live[p]]
  BY DEF TestInv, TestForm, HeldInv, test_store, Testing
<1>2. /\ test' # NoTest /\ test'.sizes = test.sizes /\ test'.value = test.value
      /\ test'.frees = test.frees /\ test'.stage = "stored" /\ test'.ptr = test.ptr
      /\ test'.before = test.before
      /\ test' = [sizes |-> test'.sizes, value |-> test'.value, frees |-> test'.frees,
                  stage |-> test'.stage, ptr |-> test'.ptr, before |-> test'.before]
  BY <1>1, ChangedStage DEF test_store
<1>3. UNCHANGED <<pc, blocks, live>>
  BY DEF test_store, store, Lost, vars
<1>4. ASSUME NEW b \in blocks
      PROVE  /\ Size(b)' = Size(b) /\ Next(b)' = Next(b) /\ End(b)' = End(b)
             /\ Free(b)' = Free(b)
  <2>1. CASE test.value = None
    BY <2>1 DEF test_store, vars, Size, Next, Free, End, SizeOf, NextOf, FreeOf
  <2>2. CASE test.value # None
    <3>1. store(test.ptr, test.value) /\ Size(test.ptr - HEADER) # 0
      BY <2>2 DEF test_store, store, Lost
    <3>2. PICK c \in blocks : test.ptr = c + 16 /\ Size(c) # 0
      BY <1>1, <3>1, LivePayload
    <3>3. mem' = [mem EXCEPT ![c + 16] = test.value] /\ test.value \in Nat
      BY <1>1, <2>2, <3>1, <3>2 DEF store
    <3> QED
      BY <3>2, <3>3, StoreFacts
  <2> QED
    BY <2>1, <2>2
<1>5. test.before.tidy => Borrowed'
  BY <1>1, <1>2, <1>3, <1>4, SameBorrowed
<1>6. HeldInv'
  BY <1>1, <1>2, <1>3, <1>5 DEF HeldInv
<1>7. TestForm'
  BY <1>1, <1>2 DEF TestForm
<1> QED
  BY <1>2, <1>6, <1>7 DEF TestInv, AllocInv, FreeingInv, Testing

(* kfree accepts the pointer of the test.                                  *)
LEMMA FreeAccepts ==
  ASSUME IInv, TestInv, test_free
  PROVE  kfree_accept(test.ptr) /\ test.ptr \in Nat /\ test.ptr \in DOMAIN live
<1>1. test.ptr \in DOMAIN live
  BY DEF TestInv, HeldInv, test_free, Testing
<1> QED
  BY <1>1, LiveUsable DEF test_free, kfree_reject

LEMMA test_freeInv ==
  ASSUME IInv, TestInv, test_free
  PROVE  TestInv'
<1>1. /\ TestForm /\ test # NoTest /\ test.stage = "stored" /\ test.frees
      /\ test.before.tidy =>
           Borrowed /\ test.before.used = [p \in DOMAIN live \ {test.ptr} |-> live[p]]
  BY DEF TestInv, TestForm, HeldInv, test_free, Testing
<1>2. /\ test' # NoTest /\ test'.sizes = test.sizes /\ test'.value = test.value
      /\ test'.frees = test.frees /\ test'.stage = "freeing" /\ test'.ptr = test.ptr
      /\ test'.before = test.before
      /\ test' = [sizes |-> test'.sizes, value |-> test'.value, frees |-> test'.frees,
                  stage |-> test'.stage, ptr |-> test'.ptr, before |-> test'.before]
  BY <1>1, ChangedStage DEF test_free
<1>3. kfree_accept(test.ptr) /\ test.ptr \in Nat /\ test.ptr \in DOMAIN live
  BY FreeAccepts
<1>4. /\ pc' = "merge" /\ blocks' = blocks /\ mem' = Freed(test.ptr - HEADER)
      /\ live' = [p \in DOMAIN live \ {test.ptr} |-> live[p]]
  BY <1>3 DEF kfree_accept, Drop
<1>5. ASSUME NEW b \in blocks
      PROVE  /\ Size(b)' = Size(b) /\ Next(b)' = Next(b) /\ End(b)' = End(b)
             /\ b # Mine => Free(b)' = Free(b)
  <2>1. PICK c \in blocks : c = test.ptr - HEADER
    BY <1>3, LivePayload
  <2> QED
    BY <1>4, <2>1, FreedFacts DEF Mine
<1>6. test.before.tidy => Borrowed'
  BY <1>1, <1>2, <1>4, <1>5, SameBorrowed
<1>7. FreeingInv'
  BY <1>1, <1>2, <1>3, <1>4, <1>6 DEF FreeingInv
<1>8. TestForm'
  BY <1>1, <1>2 DEF TestForm
<1> QED
  BY <1>2, <1>7, <1>8 DEF TestInv, AllocInv, HeldInv, Testing

(* The merge loop has put the parts of the block together again.           *)
LEMMA Returned ==
  ASSUME IInv, TestInv, Testing("freeing"), pc = "idle", test.before.tidy
  PROVE  Tidy /\ Shape = test.before
<1>1. TypeOK /\ Tiled /\ Owned /\ Tidy
  BY DEF IInv, TestInv, FreeingInv
<1>2. /\ Borrowed /\ test.ptr \in Nat /\ test.ptr \notin DOMAIN live
      /\ test.before.used = live
      /\ test.before = [used |-> test.before.used,
                        sizes |-> [b \in DOMAIN test.before.sizes |-> test.before.sizes[b]],
                        tidy |-> test.before.tidy]
  BY DEF TestInv, TestForm, FreeingInv, Testing
<1>3. PICK c : c = Mine
  OBVIOUS
<1>4. c \in blocks /\ c + 16 = test.ptr
  BY <1>2, <1>3 DEF Borrowed, Mine, HEADER
<1>5. Free(c) # 0
  BY <1>1, <1>2, <1>4 DEF Owned, HEADER
<1>6. ~Cut
  <2> SUFFICES ASSUME Cut PROVE FALSE
    OBVIOUS
  <2>1. End(c) \in blocks /\ Free(End(c)) # 0
    BY <1>3 DEF Cut
  <2>2. End(c) # KHEAP_END
    BY <1>1, <2>1, HeapWord, Constants DEF TypeOK
  <2>3. Next(c) # NULL /\ Next(c) = End(c)
    BY <1>1, <1>4, <2>2 DEF Tiled
  <2> QED
    BY <1>1, <1>4, <1>5, <2>1, <2>3 DEF Tidy
<1>7. Whole
  BY <1>2, <1>6 DEF Borrowed
<1>8. [b \in DOMAIN test.before.sizes |-> test.before.sizes[b]] = [b \in blocks |-> Size(b)]
  BY <1>7 DEF Whole
<1>9. PICK o : o = test.before.tidy
  OBVIOUS
<1> QED
  BY <1>1, <1>2, <1>8, <1>9 DEF Shape

LEMMA TailFacts ==
  ASSUME NEW S, NEW s \in Seq(S), Len(s) > 1
  PROVE  Tail(s) \in Seq(S) /\ Tail(s) # << >> /\ Tail(s)[1] = s[2]
<1>1. Tail(s) \in Seq(S) /\ Len(Tail(s)) = Len(s) - 1 /\ Len(s) \in Nat
  OBVIOUS
<1>2. Tail(s)[1] = s[2]
  BY <1>1
<1>3. Len(Tail(s)) # Len(<< >>)
  <2>1. Len(<< >>) = 0
    OBVIOUS
  <2>2. Len(Tail(s)) # 0
    BY <1>1
  <2> QED
    BY <2>1, <2>2, Zenon
<1>4. Tail(s) # << >>
  BY <1>3, Zenon
<1> QED
  BY <1>1, <1>2, <1>4

LEMMA test_nextInv ==
  ASSUME IInv, TestInv, test_next
  PROVE  TestInv'
<1>1. /\ TestForm /\ test # NoTest /\ test.stage = "freeing" /\ test.frees
      /\ test.sizes \in Seq(1 .. Word - 1) /\ Len(test.sizes) > 1
      /\ Testing("freeing") /\ pc = "idle"
  BY DEF TestInv, TestForm, test_next, Testing
<1>2. /\ Tail(test.sizes) \in Seq(1 .. Word - 1) /\ Tail(test.sizes) # << >>
      /\ Tail(test.sizes)[1] = test.sizes[2]
  BY <1>1, TailFacts
<1>3. test' = [sizes |-> Tail(test.sizes), value |-> test.value, frees |-> test.frees,
               stage |-> "alloc", ptr |-> NULL, before |-> test.before]
  BY <1>1 DEF test_next, TestForm
<1>4. /\ test' # NoTest /\ test'.sizes = Tail(test.sizes) /\ test'.value = test.value
      /\ test'.frees = test.frees /\ test'.stage = "alloc" /\ test'.before = test.before
      /\ test' = [sizes |-> test'.sizes, value |-> test'.value, frees |-> test'.frees,
                  stage |-> test'.stage, ptr |-> test'.ptr, before |-> test'.before]
  BY <1>1, <1>2, <1>3, Changed
<1>5. pc' = "scan" /\ arg' = test.sizes[2] /\ UNCHANGED <<mem, blocks, live>>
  BY DEF test_next, kmalloc
<1>6. AllocInv'
  <2>1. test.before.tidy => Tidy' /\ Shape' = test.before
    BY <1>1, <1>5, Returned, SameShape
  <2> QED
    BY <1>2, <1>4, <1>5, <2>1 DEF AllocInv
<1>7. TestForm'
  BY <1>1, <1>2, <1>4 DEF TestForm
<1> QED
  BY <1>4, <1>6, <1>7 DEF TestInv, HeldInv, FreeingInv, Testing

(* A merge while a test gives its block back joins the two parts of it.    *)
LEMMA MergeReturns ==
  ASSUME IInv, Borrowed, kfree_merge, UNCHANGED test
  PROVE  Borrowed'
<1>1. TypeOK /\ Tiled
  BY DEF IInv
<1>2. PICK c : c = cur
  OBVIOUS
<1>3. PICK n : n = Next(c)
  OBVIOUS
<1>4. /\ c \in blocks /\ n \in blocks /\ n = End(c) /\ c < n
      /\ Free(c) # 0 /\ Free(n) # 0 /\ n # NULL /\ blocks' = blocks \ {n}
      /\ \A b \in blocks : b # c =>
           Size(b)' = Size(b) /\ Free(b)' = Free(b) /\ Next(b)' = Next(b)
      /\ Size(c)' = Size(c) + 16 + Size(n) /\ Free(c)' = Free(c) /\ Next(c)' = Next(n)
  BY <1>2, <1>3, MergeFacts
<1>5. Pair(c)
  BY <1>3, <1>4 DEF Pair
<1>6. Cut /\ Mine = c /\ \A b \in blocks : Pair(b) => b = c
  BY <1>4, <1>5 DEF Borrowed
<1>7. Mine' = c
  BY <1>6 DEF Mine
<1>8. Whole'
  BY <1>4, <1>6 DEF Whole, Cut, HEADER
<1>9. ASSUME NEW b \in blocks', Pair(b)' PROVE FALSE
  <2>1. PICK a : a = IF b = c THEN n ELSE b
    OBVIOUS
  <2>2. a \in blocks /\ a # c /\ Next(b)' = Next(a) /\ Free(a) = Free(a)'
    <3>1. c \in Nat /\ n \in Nat
      BY <1>1, <1>4, BlockFacts
    <3> QED
      BY <1>4, <1>9, <2>1, <3>1
  <2>3. PICK e : e = Next(a)
    OBVIOUS
  <2>4. Next(b)' = e /\ e # NULL
    BY <1>9, <2>2, <2>3 DEF Pair
  <2>5. e \in blocks
    BY <1>1, <2>2, <2>3, <2>4, Successor
  <2>6. (Free(b)' # 0 \/ b = c) /\ (Free(e)' # 0 \/ e = c)
    BY <1>7, <1>9, <2>4 DEF Pair
  <2>7. Free(a) # 0 /\ Free(e) # 0
    BY <1>4, <2>1, <2>2, <2>5, <2>6
  <2>8. Pair(a)
    BY <2>3, <2>4, <2>7 DEF Pair
  <2> QED
    BY <1>6, <2>2, <2>8
<1>10. c \in blocks'
  BY <1>1, <1>4, BlockFacts
<1> QED
  BY <1>7, <1>8, <1>9, <1>10 DEF Borrowed

LEMMA test_stepInv ==
  ASSUME IInv, TestInv, test # NoTest, UNCHANGED test,
         kmalloc_next \/ kmalloc_fail \/ kfree_merge \/ kfree_next \/ kfree_return
           \/ UNCHANGED vars
  PROVE  TestInv'
<1>1. TestForm /\ test # NoTest
  BY DEF TestInv
<1>2. TestForm'
  BY <1>1 DEF TestForm
<1>3. AllocInv'
  <2> SUFFICES ASSUME Testing("alloc")
               PROVE  /\ pc' \in {"scan", "panic_oom"} /\ arg' = arg
                      /\ Shape' = Shape /\ (Tidy' <=> Tidy)
    BY DEF TestInv, AllocInv, Testing
  <2>1. pc \in {"scan", "panic_oom"}
    BY DEF TestInv, AllocInv
  <2>2. pc' \in {"scan", "panic_oom"} /\ arg' = arg /\ UNCHANGED <<mem, blocks, live>>
    BY <2>1 DEF kmalloc_next, kmalloc_fail, kfree_merge, kfree_next, kfree_return, vars
  <2> QED
    BY <2>2, SameShape
<1>4. CASE Testing("held") \/ Testing("stored")
  <2>1. pc = "idle" /\ (test.before.tidy => Borrowed)
    BY <1>4 DEF TestInv, HeldInv
  <2>2. UNCHANGED vars
    BY <2>1 DEF kmalloc_next, kmalloc_fail, kfree_merge, kfree_next, kfree_return
  <2>3. test.before.tidy => Borrowed'
    BY <2>1, <2>2, SameBorrowed
       DEF vars, Size, Next, Free, End, SizeOf, NextOf, FreeOf
  <2>4. HeldInv' /\ FreeingInv'
    BY <1>4, <2>2, <2>3 DEF TestInv, HeldInv, FreeingInv, Testing, vars
  <2> QED
    BY <1>2, <1>3, <2>4 DEF TestInv
<1>5. CASE Testing("freeing")
  <2>1. /\ pc \in {"merge", "idle"} /\ (pc = "idle" => Tidy)
        /\ test.before.tidy => Borrowed
    BY <1>5 DEF TestInv, FreeingInv
  <2>2. pc' \in {"merge", "idle"} /\ UNCHANGED live
    BY <2>1 DEF kmalloc_next, kmalloc_fail, kfree_merge, kfree_next, kfree_return, vars
  <2>3. test.before.tidy => Borrowed'
    <3>1. CASE kfree_merge
      BY <2>1, <3>1, MergeReturns
    <3>2. CASE ~kfree_merge
      <4>1. UNCHANGED <<mem, blocks>>
        BY <3>2 DEF kmalloc_next, kmalloc_fail, kfree_next, kfree_return, vars
      <4> QED
        BY <2>1, <4>1, SameBorrowed
           DEF Size, Next, Free, End, SizeOf, NextOf, FreeOf
    <3> QED
      BY <3>1, <3>2
  <2>4. pc' = "idle" => Tidy'
    <3>1. CASE kfree_return
      BY <3>1, kfree_returnTidy
    <3>2. CASE ~kfree_return /\ pc' = "idle"
      <4>1. UNCHANGED vars /\ pc = "idle"
        BY <2>1, <3>2 DEF kmalloc_next, kmalloc_fail, kfree_merge, kfree_next, vars
      <4> QED
        BY <2>1, <4>1, SameShape DEF vars
    <3> QED
      BY <3>1, <3>2
  <2>5. HeldInv' /\ FreeingInv'
    BY <1>5, <2>2, <2>3, <2>4 DEF TestInv, HeldInv, FreeingInv, Testing
  <2> QED
    BY <1>2, <1>3, <2>5 DEF TestInv
<1>6. CASE Testing("alloc")
  BY <1>2, <1>3, <1>6 DEF TestInv, HeldInv, FreeingInv, Testing
<1> QED
  BY <1>1, <1>4, <1>5, <1>6 DEF TestForm, Testing

----------------------------------------------------------------------------
LEMMA TestInvStep ==
  ASSUME IInv, LiveFunction, TestInv, [TestNext]_testVars, ~Lost'
  PROVE  TestInv'
<1>1. ASSUME NEW t \in Tests, test_start(t) PROVE TestInv'
  BY <1>1, test_startInv
<1>2. CASE test_take
  BY <1>2, test_takeInv
<1>3. CASE test_store
  BY <1>3, test_storeInv
<1>4. CASE test_free
  BY <1>4, test_freeInv
<1>5. CASE test_next
  BY <1>5, test_nextInv
<1>6. CASE test_end \/ (test = NoTest /\ UNCHANGED test)
  BY <1>6, NoTestInv DEF test_end
<1>7. CASE test_step \/ (test # NoTest /\ UNCHANGED testVars)
  BY <1>7, test_stepInv DEF test_step, kpanic_fatal, lost, testVars
<1>8. CASE test = NoTest /\ UNCHANGED testVars
  BY <1>8, NoTestInv DEF testVars
<1> QED
  BY <1>1, <1>2, <1>3, <1>4, <1>5, <1>6, <1>7, <1>8 DEF TestNext, TestStep

(* The invariant of the heap with its test commands.                       *)
TestSafe == TypeOK /\ (Lost \/ (Sound /\ TestInv))

LEMMA LostStays ==
  ASSUME Lost, [TestNext]_testVars
  PROVE  UNCHANGED vars
BY DEF Lost, TestNext, TestStep, test_start, test_take, test_store, test_free, test_next,
       test_end, test_step, NextStep, Step, kmalloc, kfree_accept, kfree_reject, vfree,
       kfree_foreign, cmd_write, store, kbrk, kmalloc_next, kmalloc_take, kmalloc_fail,
       kfree_merge, kfree_next, kfree_return, kpanic_fatal, Halted, lost, testVars, vars

(* Every state of the heap with its test commands satisfies TestSafe.      *)
THEOREM TestInvariance == TestSpec => []TestSafe
<1>1. ASSUME TestInit PROVE TestSafe
  <2>1. Init /\ test = NoTest
    BY <1>1 DEF TestInit
  <2>2. IInv
    BY <2>1, InitIInv
  <2>3. LiveSized /\ LiveFunction
    BY <2>1 DEF Init, LiveSized, LiveFunction
  <2>4. TestInv
    BY <2>1 DEF TestInv, TestForm, AllocInv, HeldInv, FreeingInv, Testing
  <2> QED
    BY <2>2, <2>3, <2>4 DEF TestSafe, Sound, IInv
<1>2. ASSUME TestSafe, [TestNext]_testVars PROVE TestSafe'
  <2>1. [Calls]_vars /\ Safe
    BY <1>2, TestStepIsCall DEF TestSafe, Sound, Safe
  <2>2. Safe'
    BY <2>1, SafeStep
  <2>3. ASSUME ~Lost' PROVE TestInv'
    <3>1. ~Lost
      BY <1>2, <2>3, LostStays DEF Lost, vars
    <3>2. IInv /\ LiveFunction /\ TestInv
      BY <1>2, <3>1 DEF TestSafe, Sound
    <3> QED
      BY <1>2, <2>3, <3>2, TestInvStep
  <2> QED
    BY <2>2, <2>3 DEF Safe, TestSafe
<1> QED
  BY <1>1, <1>2, PTL DEF TestSpec

(* The commands of the shell, its test commands included, make no other    *)
(* use of the heap than CallSpec, of which the theorems above speak.       *)
THEOREM CommandsAreCalls == (Spec => CallSpec) /\ (TestSpec => CallSpec)
<1>1. [NextStep]_vars => [Calls]_vars
  BY CommandIsCall
<1>2. TestInit => Init
  BY DEF TestInit
<1>3. TestSafe /\ [TestNext]_testVars => [Calls]_vars
  BY TestStepIsCall DEF TestSafe, Sound
<1>4. Spec => CallSpec
  BY <1>1, PTL DEF Spec, CallSpec
<1>5. TestSpec => CallSpec
  BY <1>2, <1>3, TestInvariance, PTL DEF TestSpec, CallSpec
<1> QED
  BY <1>4, <1>5

(* When ktest or kmalloctest ends, the heap has the same blocks of the     *)
(* same sizes as before, and the same ones in use, however the block it    *)
(* borrowed was cut and merged again; and panictest never ends.            *)
THEOREM NoTraceLeft == TestSpec => TestsLeaveNoTrace
<1> DEFINE Clean ==
      /\ test # NoTest /\ test' = NoTest =>
           test.frees /\ (test.before.tidy => Shape = test.before)
      /\ test # NoTest => pc' # "panic_free"
<1>1. ASSUME Sound, TestInv, ~Lost, [TestNext]_testVars PROVE [Clean]_testVars
  <2>1. IInv
    BY <1>1 DEF Sound
  <2>2. ASSUME test # NoTest
        PROVE  pc # "panic_free" /\ TestForm /\ (test.frees \/ test.stage = "alloc")
    BY <1>1, <2>2 DEF TestInv, TestForm, AllocInv, HeldInv, FreeingInv, Testing
  <2>3. ASSUME NEW t \in Tests, test_start(t) PROVE Clean
    BY <2>3 DEF test_start
  <2>4. CASE test_take
    <3>1. test' # NoTest
      <4>1. TestForm /\ test # NoTest /\ test.sizes # << >>
        BY <2>2, <2>4 DEF test_take, Testing, TestForm
      <4>2. test' = [sizes |-> test.sizes, value |-> test.value, frees |-> test.frees,
                     stage |-> "held", ptr |-> cur + HEADER, before |-> test.before]
        BY <2>4, <4>1 DEF test_take, TestForm
      <4> QED
        BY <4>1, <4>2, Changed
    <3> QED
      BY <2>4, <3>1 DEF test_take, kmalloc_take
  <2>5. CASE test_store
    <3>1. test # NoTest /\ pc' # "panic_free"
      BY <2>2, <2>5 DEF test_store, Testing, store, vars
    <3> QED
      BY <2>2, <2>5, <3>1, ChangedStage DEF test_store
  <2>6. CASE test_free
    <3>1. test # NoTest /\ pc' # "panic_free"
      BY <1>1, <2>1, <2>6, FreeAccepts DEF test_free, kfree_accept, Testing
    <3> QED
      BY <2>2, <2>6, <3>1, ChangedStage DEF test_free
  <2>7. CASE test_next
    <3>1. TestForm /\ test # NoTest /\ Tail(test.sizes) # << >>
      <4>1. TestForm /\ test # NoTest /\ Len(test.sizes) > 1
        BY <2>2, <2>7 DEF test_next, Testing
      <4>2. test.sizes \in Seq(1 .. Word - 1)
        BY <4>1 DEF TestForm
      <4> QED
        BY <4>1, <4>2, TailFacts
    <3>2. test' = [sizes |-> Tail(test.sizes), value |-> test.value, frees |-> test.frees,
                   stage |-> "alloc", ptr |-> NULL, before |-> test.before]
      BY <2>7, <3>1 DEF test_next, TestForm
    <3>3. test' # NoTest
      BY <3>1, <3>2, Changed
    <3> QED
      BY <2>7, <3>3 DEF test_next, kmalloc
  <2>8. CASE test_end
    <3>1. test # NoTest /\ pc = "idle" /\ pc' = "idle"
      BY <2>8 DEF test_end, Testing, vars
    <3>2. test.frees /\ Testing("freeing")
      BY <2>2, <2>8, <3>1 DEF test_end, Testing
    <3> QED
      BY <1>1, <2>1, <3>1, <3>2, Returned
  <2>9. CASE test_step
    BY <1>1, <2>2, <2>9
       DEF test_step, kmalloc_next, kmalloc_fail, kfree_merge, kfree_next,
           kfree_return, kpanic_fatal, lost, vars
  <2> QED
    BY <1>1, <2>3, <2>4, <2>5, <2>6, <2>7, <2>8, <2>9 DEF TestNext, TestStep
<1>2. ASSUME Lost, [TestNext]_testVars PROVE [Clean]_testVars
  <2>1. UNCHANGED vars /\ pc # "panic_free" /\ pc # "idle"
    BY <1>2, LostStays DEF Lost
  <2>2. test # NoTest => test' = test
    BY <1>2, <2>1
       DEF TestNext, TestStep, test_start, test_take, test_store, test_free, test_next,
           test_end, test_step, kmalloc, kmalloc_take, kfree_accept, kfree_reject, store, Lost,
           testVars
  <2> QED
    BY <2>1, <2>2 DEF vars
<1>3. TestSafe /\ [TestNext]_testVars => [Clean]_testVars
  BY <1>1, <1>2 DEF TestSafe
<1> QED
  BY <1>3, TestInvariance, PTL DEF TestSpec, TestsLeaveNoTrace
=============================================================================
