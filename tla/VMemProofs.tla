----------------------------- MODULE VMemProofs -----------------------------
(***************************************************************************)
(* Proofs about the virtual memory allocator, for a region and pages of    *)
(* any size, any frame contents, any requests, any pointers passed to      *)
(* vfree, any calls of vbrk and any values stored in payloads.             *)
(***************************************************************************)
EXTENDS VMemTests, TLAPS

(* Every call that a kernel with this allocator can make, with any         *)
(* argument: the commands of the shell make some of them.                  *)
AllPointers == {p \in Region : p - HEADER \in Region}

Calls ==
  \/ \E n \in 1 .. Word - 1 : vmalloc(n)
  \/ \E ptr \in AllPointers : vfree(ptr) \/ vfree_fail(ptr) \/ kfree(ptr)
  \/ vfree_foreign
  \/ \E new_brk \in 0 .. Word - 1 : vbrk(new_brk)
  \/ \E ptr \in AllPointers, v \in Nat \ {MAGIC_ALLOCATED} : cmd_write(ptr, v)
  \/ \E ptr \in DOMAIN live, v \in Nat : store(ptr, v)
  \/ Step
  \/ kpanic_fatal
  \/ lost

CallSpec == Init /\ [][Calls]_vars

----------------------------------------------------------------------------
(***************************************************************************)
(* The inductive invariant.                                                *)
(***************************************************************************)
Shape ==
  /\ mem \in [Region -> Nat]
  /\ vmem_current \in Nat /\ KVMEM_START <= vmem_current /\ vmem_current % PAGE_SIZE = 0
  /\ frames \in Nat /\ arg \in Nat

(* The blocks lie in the mapped part of the region and share no byte.      *)
Layout ==
  /\ \A b \in blocks : /\ b \in Region /\ Size(b) % 4 = 0
                       /\ End(b) <= vmem_current /\ End(b) <= KVMEM_END
  /\ \A b, c \in blocks : b < c => End(b) <= c

(* The magic number is in memory as that of a block in use, or because it  *)
(* was there before or was stored as data.                                 *)
NoForged ==
  \A w \in Region :
    /\ w - 12 \in blocks /\ Free(w - 12) = 0 => mem[w] = MAGIC_ALLOCATED
    /\ mem[w] = MAGIC_ALLOCATED => (w - 12 \in blocks /\ Free(w - 12) = 0) \/ w \in planted

(* What every pointer has room for.                                        *)
LiveSized ==
  \A p \in DOMAIN live : live[p] \in 1 .. Word - 1 /\ RoundUp(live[p]) <= Size(p - HEADER)

(* vmalloc maps pages in whole extents.  The set E holds the ends of some  *)
(* of them: that of the first block, which the merge moves on, and those   *)
(* that it can move on to, since a block that starts at such an end starts *)
(* an extent, and its capacity was written with it.  No end lies inside a  *)
(* block, so a block that a split makes never starts at one, and the merge *)
(* does not read the capacity that the split left uninitialised.           *)
ExtentEnds(E) ==
  /\ \A e \in E : e % PAGE_SIZE = 0 /\ e <= vmem_current /\ e <= KVMEM_END
  /\ \A e \in E, b \in blocks : e <= b \/ End(b) <= e
  /\ \A e \in E : e \in blocks => e + HEADER + Capacity(e) \in E
  /\ vmem_list # NULL => vmem_list + HEADER + Capacity(vmem_list) \in E

Extents == \E E \in SUBSET Nat : ExtentEnds(E)

(* The search of vmalloc.                                                  *)
Scan ==
  pc = "scan" =>
    /\ arg \in 1 .. Word - 1 /\ cur \in blocks \cup {NULL} /\ prev \in blocks \cup {NULL}
    /\ cur = IF prev = NULL THEN vmem_list ELSE Next(prev)

Heap == Layout /\ Linked /\ Owned /\ NoForged /\ LiveSized /\ Extents

FramesTaken == ~Halted => (Frames - frames) * PAGE_SIZE = vmem_current - KVMEM_START

IInv == Shape /\ Heap /\ Scan /\ FramesTaken

(* The invariant of every state: the list is intact, or it is known to be  *)
(* lost.                                                                   *)
Safe == Lost \/ IInv

----------------------------------------------------------------------------
(* Arithmetic.                                                             *)
LEMMA Constants ==
  /\ PAGE_SIZE \in Nat /\ PAGE_SIZE % 8 = 0 /\ PAGE_SIZE > 20
  /\ KVMEM_START \in Nat /\ KVMEM_START > 0 /\ KVMEM_START % PAGE_SIZE = 0
  /\ KVMEM_END \in Nat /\ KVMEM_START <= KVMEM_END
  /\ MAGIC_ALLOCATED \in Nat /\ KVMEM_END < MAGIC_ALLOCATED
  /\ MAGIC_FREED \in Nat /\ MAGIC_FREED # MAGIC_ALLOCATED
  /\ Word \in Nat /\ KVMEM_END < Word /\ Word % 8 = 0 /\ Word > 0
  /\ Frames \in Nat /\ KVMEM_START + Frames * PAGE_SIZE < Word
BY VMemAssumption DEF HEADER

LEMMA RegionWord ==
  ASSUME NEW w
  PROVE  w \in Region <=> w \in Nat /\ KVMEM_START <= w /\ w <= KVMEM_END /\ w % 4 = 0
BY Constants DEF Region

(* A request is rounded to a multiple of 8, which may have wrapped to 0.   *)
LEMMA RoundUpFacts ==
  ASSUME NEW n \in 1 .. Word - 1
  PROVE  /\ RoundUp(n) \in Nat /\ RoundUp(n) < Word
         /\ RoundUp(n) % 8 = 0 /\ RoundUp(n) % 4 = 0
<1>1. \A k \in Nat : /\ (k \div 8) * 8 \in Nat /\ ((k \div 8) * 8) % 8 = 0
                    /\ (k \div 8) * 8 <= k
  OBVIOUS
<1>2. (n + 7) % Word \in Nat /\ (n + 7) % Word < Word
  BY Constants
<1>3. RoundUp(n) \in Nat /\ RoundUp(n) < Word /\ RoundUp(n) % 8 = 0
  BY <1>1, <1>2, Constants DEF RoundUp
<1> QED
  BY <1>3

(* The pages taken for a request.                                          *)
LEMMA PagesForFacts ==
  ASSUME NEW n \in Nat
  PROVE  /\ PagesFor(n) \in Nat /\ PagesFor(n) * PAGE_SIZE \in Nat
         /\ PagesFor(n) * PAGE_SIZE < Word
<1>1. PICK p \in Nat : p = PAGE_SIZE /\ p > 0
  BY Constants
<1>2. PICK a \in Nat : a = (n + HEADER + p - 1) % Word /\ a < Word
  <2>1. n + HEADER + p - 1 \in Nat
    BY <1>1 DEF HEADER
  <2> QED
    BY <2>1, Constants
<1>3. a \div p \in Nat /\ (a \div p) * p \in Nat /\ (a \div p) * p <= a
  BY <1>1
<1>4. PagesFor(n) = a \div p
  BY <1>1, <1>2 DEF PagesFor
<1>5. (a \div p) * p < Word
  <2>1. PICK x \in Nat : x = (a \div p) * p
    BY <1>3
  <2>2. x <= a /\ Word \in Nat
    BY <1>3, <2>1, Constants
  <2>3. x < Word
    BY <1>2, <2>2
  <2> QED
    BY <2>1, <2>3
<1> QED
  BY <1>1, <1>3, <1>4, <1>5

(* A sum of two words that is not below its first part has not wrapped.    *)
LEMMA NoWrap ==
  ASSUME NEW a \in Nat, NEW d \in Nat, NEW W \in Nat, a < W, d < W, a <= (a + d) % W
  PROVE  (a + d) % W = a + d
<1>1. a + d < W => (a + d) % W = a + d
  OBVIOUS
<1>2. a + d >= W => (a + d) % W = a + d - W
  OBVIOUS
<1> QED
  BY <1>1, <1>2

(* The pages between two ends.                                             *)
LEMMA PagesBetween ==
  ASSUME NEW k \in Nat
  PROVE  (k * PAGE_SIZE) \div PAGE_SIZE = k
<1>1. PICK p \in Nat : p = PAGE_SIZE /\ p > 0
  BY Constants
<1>2. (k * p) \div p = k
  BY <1>1
<1> QED
  BY <1>1, <1>2

(* Multiples of the page size.                                             *)
LEMMA PageMultiple ==
  ASSUME NEW x \in Nat, x % PAGE_SIZE = 0, NEW k \in Nat
  PROVE  (x + k * PAGE_SIZE) % PAGE_SIZE = 0
<1>1. PICK p \in Nat : p = PAGE_SIZE /\ p > 0
  BY Constants
<1>2. x = (x \div p) * p /\ x \div p \in Nat
  BY <1>1
<1> DEFINE q == x \div p + k
<1>3. q \in Nat /\ x + k * p = q * p
  BY <1>1, <1>2
<1>4. (q * p) % p = 0
  BY <1>1, <1>3
<1> QED
  BY <1>1, <1>3, <1>4

LEMMA PageWord ==
  ASSUME NEW x \in Nat, x % PAGE_SIZE = 0
  PROVE  x % 4 = 0
<1>1. PICK j \in Nat : PAGE_SIZE = 8 * j
  <2>1. PAGE_SIZE = 8 * (PAGE_SIZE \div 8) /\ PAGE_SIZE \div 8 \in Nat
    BY Constants
  <2> QED
    BY <2>1
<1>2. PICK k \in Nat : x = k * PAGE_SIZE
  <2>1. x = (x \div PAGE_SIZE) * PAGE_SIZE /\ x \div PAGE_SIZE \in Nat
    BY Constants
  <2> QED
    BY <2>1
<1>3. PICK m \in Nat : m = k * j
  OBVIOUS
<1>4. x = 8 * m
  BY <1>1, <1>2, <1>3
<1> QED
  BY <1>3, <1>4

----------------------------------------------------------------------------
(* What the layout says of one block: its header lies in the region.       *)
LEMMA BlockFacts ==
  ASSUME Shape, Layout, NEW b \in blocks
  PROVE  /\ b \in Nat /\ b >= KVMEM_START /\ b # NULL /\ b % 4 = 0
         /\ b \in Region /\ b + 4 \in Region /\ b + 8 \in Region /\ b + 12 \in Region
         /\ b + 16 \in Region
         /\ Size(b) \in Nat /\ Size(b) % 4 = 0 /\ Capacity(b) \in Nat
         /\ Free(b) \in Nat /\ Magic(b) \in Nat /\ Next(b) \in Nat
         /\ End(b) = b + 20 + Size(b) /\ End(b) \in Nat /\ b + 20 <= End(b)
         /\ End(b) <= KVMEM_END /\ End(b) <= vmem_current
<1>1. /\ b \in Region /\ Size(b) % 4 = 0
      /\ End(b) <= vmem_current /\ End(b) <= KVMEM_END
  BY DEF Layout
<1>2. b \in Nat /\ b >= KVMEM_START /\ b # NULL /\ b % 4 = 0
  BY <1>1, RegionWord, Constants DEF NULL
<1>3. Size(b) \in Nat
  BY <1>1 DEF Shape, Size
<1>4. End(b) = b + 20 + Size(b)
  BY DEF End, HEADER
<1>5. b + 4 \in Region /\ b + 8 \in Region /\ b + 12 \in Region /\ b + 16 \in Region
  BY <1>1, <1>2, <1>3, <1>4, RegionWord, Constants
<1>6. Capacity(b) \in Nat /\ Free(b) \in Nat /\ Magic(b) \in Nat /\ Next(b) \in Nat
  BY <1>5 DEF Shape, Capacity, Free, Magic, Next
<1> QED
  BY <1>1, <1>2, <1>3, <1>4, <1>5, <1>6

LEMMA Apart ==
  ASSUME Shape, Layout, NEW b \in blocks, NEW c \in blocks, b # c
  PROVE  End(b) <= c \/ End(c) <= b
<1>1. b \in Nat /\ c \in Nat
  BY BlockFacts
<1> QED
  BY <1>1 DEF Layout

(* A word of one block is not a word of another.                           *)
LEMMA WordsApart ==
  ASSUME Shape, Layout, NEW b \in blocks, NEW c \in blocks, b # c,
         NEW w \in Nat, c <= w, w < End(c)
  PROVE  w < b \/ w >= End(b)
<1>1. b \in Nat /\ c \in Nat /\ End(b) \in Nat /\ End(c) \in Nat
  BY BlockFacts
<1> QED
  BY <1>1, Apart

(* A header whose words are not written keeps its fields.                  *)
LEMMA SameHeader ==
  ASSUME Shape, Layout, NEW b \in blocks,
         \A w \in Region : b <= w /\ w < b + 20 => mem'[w] = mem[w]
  PROVE  /\ Size(b)' = Size(b) /\ Capacity(b)' = Capacity(b) /\ Free(b)' = Free(b)
         /\ Magic(b)' = Magic(b) /\ Next(b)' = Next(b) /\ End(b)' = End(b)
<1>1. /\ b \in Region /\ b + 4 \in Region /\ b + 8 \in Region /\ b + 12 \in Region
      /\ b + 16 \in Region /\ b \in Nat
  BY BlockFacts
<1>2. /\ mem'[b] = mem[b] /\ mem'[b + 4] = mem[b + 4] /\ mem'[b + 8] = mem[b + 8]
      /\ mem'[b + 12] = mem[b + 12] /\ mem'[b + 16] = mem[b + 16]
  BY <1>1
<1> QED
  BY <1>2 DEF Size, Capacity, Free, Magic, Next, End

(* The next block, and what lies before it.                                *)
LEMMA Successor ==
  ASSUME Shape, Layout, Linked, NEW b \in blocks, Next(b) # NULL
  PROVE  /\ Next(b) \in blocks /\ b < Next(b) /\ End(b) <= Next(b)
         /\ \A c \in blocks : c <= b \/ Next(b) <= c
<1>1. Next(b) \in blocks /\ End(b) <= Next(b) /\ \A c \in blocks : c <= b \/ Next(b) <= c
  BY DEF Linked
<1>2. b \in Nat /\ End(b) \in Nat /\ Next(b) \in Nat /\ b + 20 <= End(b)
  BY BlockFacts
<1> QED
  BY <1>1, <1>2

(* The words around a pointer that vfree or write is given.                *)
LEMMA PointerFacts ==
  ASSUME NEW ptr \in AllPointers
  PROVE  /\ ptr \in Nat /\ ptr \in Region /\ ptr - HEADER \in Nat /\ ptr - HEADER \in Region
         /\ ptr = (ptr - HEADER) + 20 /\ ptr - 8 \in Region /\ ptr - 8 = (ptr - HEADER) + 12
<1>1. ptr \in Region /\ ptr - HEADER \in Region
  BY DEF AllPointers
<1>2. /\ ptr \in Nat /\ ptr % 4 = 0 /\ ptr <= KVMEM_END /\ KVMEM_START <= ptr - 20
      /\ ptr - 20 \in Nat
  BY <1>1, RegionWord DEF HEADER
<1>3. ptr - 8 \in Region
  BY <1>2, RegionWord, Constants
<1> QED
  BY <1>1, <1>2, <1>3 DEF HEADER

LEMMA LiveBlock ==
  ASSUME Shape, Layout, Owned, NEW p \in DOMAIN live
  PROVE  p \in Nat /\ p - 20 \in blocks /\ Free(p - 20) = 0 /\ p = (p - 20) + 20
<1>1. PICK b \in blocks : Free(b) = 0 /\ p = b + 20
  BY DEF Owned, HEADER
<1>2. b \in Nat /\ p - 20 = b
  BY <1>1, BlockFacts
<1> QED
  BY <1>1, <1>2

(* The block of a live pointer.                                            *)
LEMMA LivePayload ==
  ASSUME IInv, NEW ptr \in DOMAIN live
  PROVE  /\ ptr - HEADER \in blocks /\ ptr = (ptr - HEADER) + 20 /\ Free(ptr - HEADER) = 0
         /\ ptr \in Nat /\ ptr - 8 = (ptr - HEADER) + 12
         /\ Magic(ptr - HEADER) = MAGIC_ALLOCATED
<1>1. Shape /\ Layout /\ Owned /\ NoForged
  BY DEF IInv, Heap
<1>2. ptr \in Nat /\ ptr - 20 \in blocks /\ Free(ptr - 20) = 0 /\ ptr = (ptr - 20) + 20
  BY <1>1, LiveBlock
<1>3. ptr - 20 \in Nat /\ (ptr - 20) + 12 \in Region
  BY <1>1, <1>2, BlockFacts
<1>4. ((ptr - 20) + 12) - 12 = ptr - 20 /\ ptr - 8 = (ptr - 20) + 12
  BY <1>2, <1>3
<1>5. mem[(ptr - 20) + 12] = MAGIC_ALLOCATED
  BY <1>1, <1>2, <1>3, <1>4 DEF NoForged
<1> QED
  BY <1>2, <1>4, <1>5 DEF Magic, HEADER

----------------------------------------------------------------------------
LEMMA InitIInv ==
  ASSUME Init
  PROVE  IInv
<1> USE DEF Init
<1>1. Shape
  BY VMemAssumption DEF Shape
<1>2. Layout /\ Linked /\ Owned /\ LiveSized
  BY DEF Layout, Linked, Owned, LiveSized, NULL
<1>3. NoForged
  BY DEF NoForged
<1>4. Extents
  <2>1. ExtentEnds({})
    BY DEF ExtentEnds
  <2> QED
    BY <2>1 DEF Extents
<1>5. Scan
  BY DEF Scan
<1>6. FramesTaken
  BY VMemAssumption DEF FramesTaken
<1> QED
  BY <1>1, <1>2, <1>3, <1>4, <1>5, <1>6 DEF IInv, Heap

(* The steps that leave the memory and the list alone.                     *)
LEMMA SameHeap ==
  ASSUME IInv, UNCHANGED <<mem, vmem_list, blocks, live, planted>>,
         vmem_current' \in Nat, vmem_current <= vmem_current'
  PROVE  Heap'
<1> USE DEF IInv, Heap
<1>1. Shape /\ Layout /\ \A b : End(b)' = End(b) /\ Size(b)' = Size(b) /\ Next(b)' = Next(b)
                          /\ Free(b)' = Free(b) /\ Capacity(b)' = Capacity(b)
  BY DEF End, Size, Next, Free, Capacity
<1>2. Layout' /\ Linked'
  <2>1. \A b \in blocks : End(b) <= vmem_current'
    <3> SUFFICES ASSUME NEW b \in blocks PROVE End(b) <= vmem_current'
      OBVIOUS
    <3>1. End(b) \in Nat /\ End(b) <= vmem_current /\ vmem_current \in Nat
      BY <1>1, BlockFacts DEF Shape
    <3> QED
      BY <3>1
  <2> QED
    BY <1>1, <2>1 DEF Layout, Linked
<1>3. Owned' /\ NoForged' /\ LiveSized'
  BY <1>1 DEF Owned, NoForged, LiveSized
<1>4. Extents'
  <2>1. PICK E \in SUBSET Nat : ExtentEnds(E)
    BY DEF Extents
  <2>2. \A e \in E : e <= vmem_current'
    BY <1>1, <2>1 DEF ExtentEnds, Shape
  <2>3. ExtentEnds(E)'
    BY <1>1, <2>1, <2>2 DEF ExtentEnds
  <2> QED
    BY <2>3 DEF Extents
<1> QED
  BY <1>2, <1>3, <1>4

LEMMA Quiet ==
  ASSUME IInv, UNCHANGED <<mem, vmem_current, vmem_list, frames, blocks, live, planted>>,
         arg' \in Nat, Scan', Halted => Halted'
  PROVE  IInv'
<1>1. Heap'
  BY SameHeap DEF IInv, Shape
<1>2. Shape' /\ FramesTaken'
  BY DEF IInv, Shape, FramesTaken
<1> QED
  BY <1>1, <1>2 DEF IInv

LEMMA vmallocIInv ==
  ASSUME IInv, NEW n \in 1 .. Word - 1, vmalloc(n)
  PROVE  IInv'
<1>1. n \in Nat
  BY Constants
<1>2. Scan'
  BY DEF vmalloc, heap, Scan, IInv, Heap, Linked
<1> QED
  BY <1>1, <1>2, Quiet DEF vmalloc, heap, Halted

LEMMA vmalloc_nextIInv ==
  ASSUME IInv, vmalloc_next
  PROVE  IInv'
<1>1. cur \in blocks /\ cur # NULL /\ arg \in 1 .. Word - 1 /\ arg' = arg /\ prev' = cur
      /\ cur' = Next(cur) /\ UNCHANGED <<mem, vmem_current, vmem_list, frames, blocks, live, planted, pc>>
  BY DEF vmalloc_next, IInv, Scan, heap
<1>2. Next(cur) \in blocks \cup {NULL} /\ Next(cur)' = Next(cur')
  BY <1>1, Successor DEF IInv, Heap, Next
<1>3. Scan'
  <2>1. mem'[prev' + 16] = mem[cur + 16]
    BY <1>1
  <2> QED
    BY <1>1, <1>2, <2>1 DEF Scan, Next
<1> QED
  BY <1>1, <1>3, Quiet DEF IInv, Shape, Halted

(* The panics, and the calls that end without a change.                    *)
LEMMA StopIInv ==
  ASSUME IInv, UNCHANGED heap, pc' # "scan", arg' \in Nat, Halted => Halted'
  PROVE  IInv'
<1>1. Scan'
  BY DEF Scan
<1> QED
  BY <1>1, Quiet DEF heap

(* The frames end while vmalloc maps pages: the machine stops.             *)
LEMMA OutOfFramesIInv ==
  ASSUME IInv, pc' = "panic_oom", frames' = 0,
         UNCHANGED <<mem, vmem_current, vmem_list, blocks, live, planted, loop>>
  PROVE  IInv'
<1>1. Heap'
  BY SameHeap DEF IInv, Shape
<1>2. Shape' /\ FramesTaken' /\ Scan'
  BY DEF IInv, Shape, FramesTaken, Halted, Scan, loop
<1> QED
  BY <1>1, <1>2 DEF IInv

LEMMA vbrk_pageIInv ==
  ASSUME IInv, vbrk_page
  PROVE  IInv'
<1>1. /\ vmem_current' = vmem_current + PAGE_SIZE /\ frames' = frames - 1 /\ frames > 0
      /\ pc = "brk" /\ UNCHANGED <<mem, vmem_list, blocks, live, planted, pc, prev, cur, arg>>
      /\ vmem_current \in Nat /\ vmem_current % PAGE_SIZE = 0 /\ frames \in Nat
  BY DEF vbrk_page, IInv, Shape, loop
<1>2. vmem_current' \in Nat /\ vmem_current <= vmem_current'
  BY <1>1, Constants
<1>3. Heap'
  BY <1>1, <1>2, SameHeap
<1>4. vmem_current' % PAGE_SIZE = 0
  <2>1. (vmem_current + 1 * PAGE_SIZE) % PAGE_SIZE = 0
    BY <1>1, PageMultiple
  <2> QED
    BY <1>1, <2>1, Constants
<1>5. Shape'
  BY <1>1, <1>2, <1>4, Constants DEF IInv, Shape
<1>6. FramesTaken'
  BY <1>1, Constants DEF IInv, FramesTaken, Halted
<1>7. Scan'
  BY <1>1 DEF Scan
<1> QED
  BY <1>3, <1>5, <1>6, <1>7 DEF IInv

----------------------------------------------------------------------------
(***************************************************************************)
(* The steps that write to memory and keep the list.                       *)
(***************************************************************************)
LEMMA SameList ==
  ASSUME IInv, UNCHANGED <<vmem_current, vmem_list, blocks>>,
         \A b \in blocks : /\ Size(b)' = Size(b) /\ Capacity(b)' = Capacity(b)
                           /\ Next(b)' = Next(b) /\ End(b)' = End(b)
  PROVE  Layout' /\ Linked' /\ Extents'
<1> USE DEF IInv, Heap
<1>1. Layout' /\ Linked'
  BY DEF Layout, Linked
<1>2. Extents'
  <2>1. PICK E \in SUBSET Nat : ExtentEnds(E)
    BY DEF Extents
  <2>2. vmem_list # NULL => vmem_list \in blocks
    BY DEF Linked
  <2>3. ExtentEnds(E)'
    BY <2>1, <2>2 DEF ExtentEnds
  <2> QED
    BY <2>3 DEF Extents
<1> QED
  BY <1>1, <1>2

(* A store of any value in the payload of block c.                         *)
LEMMA StoreIInv ==
  ASSUME IInv, NEW c \in blocks, Size(c) # 0, NEW v \in Nat, pc = "idle",
         mem' = [mem EXCEPT ![c + 20] = v],
         planted' = IF v = MAGIC_ALLOCATED THEN planted \cup {c + 20} ELSE planted \ {c + 20},
         UNCHANGED <<vmem_current, vmem_list, frames, blocks, live, pc, prev, cur, arg>>
  PROVE  IInv'
<1>1. Shape /\ Layout /\ NoForged /\ Owned /\ LiveSized
  BY DEF IInv, Heap
<1>2. /\ c \in Nat /\ c >= KVMEM_START /\ c % 4 = 0 /\ Size(c) \in Nat
      /\ End(c) = c + 20 + Size(c) /\ End(c) <= KVMEM_END /\ End(c) \in Nat
  BY <1>1, BlockFacts
<1>3. PICK ptr \in Nat : ptr = c + 20
  BY <1>2
<1>4. ptr < End(c) /\ c <= ptr
  BY <1>2, <1>3
<1>5. ptr \in Region
  BY <1>2, <1>3, <1>4, RegionWord, Constants
<1>6. /\ mem' \in [Region -> Nat] /\ mem'[ptr] = v
      /\ \A w \in Region : w # ptr => mem'[w] = mem[w]
  BY <1>1, <1>3, <1>5 DEF Shape
<1>7. \A w \in Region : w # ptr => (w \in planted' <=> w \in planted)
  BY <1>3
<1>8. ASSUME NEW b \in blocks
      PROVE  /\ Size(b)' = Size(b) /\ Capacity(b)' = Capacity(b) /\ Free(b)' = Free(b)
             /\ Next(b)' = Next(b) /\ End(b)' = End(b)
  <2>1. b \in Nat /\ b + 20 <= End(b) /\ End(b) \in Nat
    BY <1>1, BlockFacts
  <2>2. b # c => ptr < b \/ ptr >= End(b)
    BY <1>1, <1>4, WordsApart
  <2>3. \A w \in Region : b <= w /\ w < b + 20 => w # ptr
    BY <1>2, <1>3, <2>1, <2>2
  <2> QED
    BY <1>1, <1>6, <2>3, SameHeader
<1>9. Layout' /\ Linked' /\ Extents'
  BY <1>8, SameList
<1>10. Owned'
  BY <1>1, <1>8 DEF Owned
<1>11. LiveSized'
  <2>1. \A p \in DOMAIN live : p - HEADER \in blocks
    BY <1>1, LiveBlock DEF HEADER
  <2> QED
    BY <1>1, <1>8, <2>1 DEF LiveSized
<1>12. NoForged'
  <2>1. ptr - 12 \notin blocks
    <3> SUFFICES ASSUME ptr - 12 \in blocks PROVE FALSE
      OBVIOUS
    <3>1. ptr - 12 = c + 8 /\ c + 8 # c /\ c + 8 \in Nat
      BY <1>2, <1>3
    <3>2. c + 8 + 20 <= End(c + 8) /\ End(c + 8) \in Nat
      BY <1>1, <3>1, BlockFacts
    <3>3. End(c) <= c + 8 \/ End(c + 8) <= c
      BY <1>1, <3>1, Apart
    <3> QED
      BY <1>2, <3>2, <3>3
  <2> SUFFICES ASSUME NEW w \in Region
               PROVE  /\ w - 12 \in blocks /\ Free(w - 12)' = 0 => mem'[w] = MAGIC_ALLOCATED
                      /\ mem'[w] = MAGIC_ALLOCATED =>
                           (w - 12 \in blocks /\ Free(w - 12)' = 0) \/ w \in planted'
    BY DEF NoForged
  <2>2. CASE w = ptr
    BY <1>3, <1>6, <2>1, <2>2
  <2>3. CASE w # ptr
    BY <1>1, <1>6, <1>7, <1>8, <2>3 DEF NoForged
  <2> QED
    BY <2>2, <2>3
<1>13. Shape' /\ FramesTaken' /\ Scan'
  BY <1>1, <1>6 DEF IInv, Shape, FramesTaken, Scan, Halted
<1> QED
  BY <1>9, <1>10, <1>11, <1>12, <1>13 DEF IInv, Heap

(* write accepts pointers of blocks of the list only.                      *)
LEMMA cmd_writeIInv ==
  ASSUME IInv, NEW ptr \in AllPointers, NEW v \in Nat \ {MAGIC_ALLOCATED}, cmd_write(ptr, v)
  PROVE  IInv'
<1>1. PICK c : c = ptr - HEADER
  OBVIOUS
<1>2. c \in blocks /\ Size(c) # 0
  BY <1>1 DEF cmd_write, vsize, is_valid_allocated_block
<1>3. ptr = c + 20
  BY <1>1, PointerFacts
<1>4. /\ mem' = [mem EXCEPT ![c + 20] = v] /\ planted' = planted \ {c + 20} /\ pc = "idle"
      /\ UNCHANGED <<vmem_current, vmem_list, frames, blocks, live, pc, prev, cur, arg>>
  BY <1>3 DEF cmd_write, loop
<1> QED
  BY <1>2, <1>4, StoreIInv

LEMMA storeIInv ==
  ASSUME IInv, NEW ptr \in DOMAIN live, NEW v \in Nat, store(ptr, v), ~Lost'
  PROVE  IInv'
<1>1. PICK c : c = ptr - HEADER
  OBVIOUS
<1>2. c \in blocks /\ ptr = c + 20
  BY <1>1, LivePayload
<1>3. Size(c) # 0 /\ pc = "idle" /\ pc' = "idle"
  BY <1>1 DEF store, Lost
<1>4. /\ mem' = [mem EXCEPT ![c + 20] = v]
      /\ planted' = IF v = MAGIC_ALLOCATED THEN planted \cup {c + 20} ELSE planted \ {c + 20}
      /\ UNCHANGED <<vmem_current, vmem_list, frames, blocks, live, pc, prev, cur, arg>>
  BY <1>2, <1>3 DEF store, loop
<1> QED
  BY <1>2, <1>3, <1>4, StoreIInv

(* Words inside a block do not start another.                              *)
LEMMA Inside ==
  ASSUME Shape, Layout, NEW c \in blocks, NEW b \in blocks, c < b
  PROVE  End(c) <= b
BY DEF Layout

(* Marking block c as in use, or as free.                                  *)
LEMMA Marked ==
  ASSUME IInv, NEW c \in blocks, NEW f \in Nat, NEW m \in Nat,
         mem' = [mem EXCEPT ![c + 8] = f, ![c + 12] = m],
         f # MAGIC_ALLOCATED, m = MAGIC_ALLOCATED <=> f = 0,
         planted' = planted \ {c + 12},
         UNCHANGED <<vmem_current, vmem_list, blocks>>
  PROVE  /\ mem' \in [Region -> Nat] /\ Layout' /\ Linked' /\ Extents' /\ NoForged'
         /\ \A b \in blocks : Size(b)' = Size(b) /\ (b # c => Free(b)' = Free(b))
         /\ Free(c)' = f
<1>1. Shape /\ Layout /\ NoForged
  BY DEF IInv, Heap
<1>2. /\ c \in Nat /\ c + 8 \in Region /\ c + 12 \in Region /\ c + 20 <= End(c)
      /\ End(c) \in Nat
  BY <1>1, BlockFacts
<1>3. /\ mem' \in [Region -> Nat] /\ mem'[c + 8] = f /\ mem'[c + 12] = m
      /\ \A w \in Region : w # c + 8 /\ w # c + 12 => mem'[w] = mem[w]
  <2>1. mem \in [Region -> Nat] /\ c + 8 # c + 12
    BY <1>1, <1>2 DEF Shape
  <2> QED
    BY <1>2, <2>1
<1>4. ASSUME NEW b \in blocks, b # c
      PROVE  /\ Size(b)' = Size(b) /\ Capacity(b)' = Capacity(b) /\ Free(b)' = Free(b)
             /\ Next(b)' = Next(b) /\ End(b)' = End(b)
  <2>1. b \in Nat /\ b + 20 <= End(b) /\ End(b) \in Nat
    BY <1>1, BlockFacts
  <2>2. End(b) <= c \/ End(c) <= b
    BY <1>1, <1>4, Apart
  <2>3. \A w \in Region : b <= w /\ w < b + 20 => w # c + 8 /\ w # c + 12
    BY <1>2, <2>1, <2>2
  <2> QED
    BY <1>1, <1>3, <2>3, SameHeader
<1>5. /\ Size(c)' = Size(c) /\ Capacity(c)' = Capacity(c) /\ Free(c)' = f
      /\ Next(c)' = Next(c) /\ End(c)' = End(c)
  <2>1. /\ c \in Region /\ c + 4 \in Region /\ c + 16 \in Region
        /\ c # c + 8 /\ c # c + 12 /\ c + 4 # c + 8 /\ c + 4 # c + 12
        /\ c + 16 # c + 8 /\ c + 16 # c + 12
    BY <1>1, <1>2, BlockFacts
  <2> QED
    BY <1>3, <2>1 DEF Size, Capacity, Free, Next, End
<1>6. Layout' /\ Linked' /\ Extents'
  BY <1>4, <1>5, SameList
<1>7. NoForged'
  <2> SUFFICES ASSUME NEW w \in Region
               PROVE  /\ w - 12 \in blocks /\ Free(w - 12)' = 0 => mem'[w] = MAGIC_ALLOCATED
                      /\ mem'[w] = MAGIC_ALLOCATED =>
                           (w - 12 \in blocks /\ Free(w - 12)' = 0) \/ w \in planted'
    BY DEF NoForged
  <2>1. w \in Nat
    BY RegionWord
  <2>2. CASE w = c + 8
    <3>1. w - 12 \notin blocks
      <4> SUFFICES ASSUME w - 12 \in blocks PROVE FALSE
        OBVIOUS
      <4>1. PICK b \in blocks : b = w - 12
        OBVIOUS
      <4>2. b \in Nat /\ b + 20 <= End(b) /\ End(b) \in Nat /\ b < c
        BY <1>1, <1>2, <2>2, <4>1, BlockFacts
      <4>3. End(b) <= c
        BY <1>1, <4>2, Inside
      <4> QED
        BY <1>2, <2>2, <4>1, <4>2, <4>3
    <3> QED
      BY <1>3, <2>2, <3>1
  <2>3. CASE w = c + 12
    <3>1. w - 12 = c
      BY <1>2, <2>3
    <3> QED
      BY <1>3, <1>5, <2>3, <3>1
  <2>4. CASE w # c + 8 /\ w # c + 12
    <3>1. w - 12 # c
      BY <1>2, <2>1, <2>4
    <3>2. mem'[w] = mem[w] /\ (w \in planted => w \in planted')
      BY <1>3, <2>4
    <3> QED
      BY <1>1, <1>4, <3>1, <3>2 DEF NoForged
  <2> QED
    BY <2>2, <2>3, <2>4
<1> QED
  BY <1>3, <1>4, <1>5, <1>6, <1>7

(* The pointer that vmalloc returns.                                       *)
LEMMA Held ==
  ASSUME Shape, Layout, Owned, LiveSized, NEW c \in Nat, Hold(c + 20),
         arg \in 1 .. Word - 1, RoundUp(arg) <= Size(c)',
         {b \in blocks' : Free(b)' = 0} = {b \in blocks : Free(b) = 0} \cup {c},
         \A b \in blocks : b # c => Size(b)' = Size(b)
  PROVE  Owned' /\ LiveSized'
<1>1. live' = [q \in DOMAIN live \cup {c + 20} |-> IF q = c + 20 THEN arg ELSE live[q]]
  BY DEF Hold
<1>2. Owned'
  <2>1. DOMAIN live' = DOMAIN live \cup {c + 20}
    BY <1>1
  <2> QED
    BY <2>1 DEF Owned, HEADER
<1>3. LiveSized'
  <2> SUFFICES ASSUME NEW p \in DOMAIN live'
               PROVE  live'[p] \in 1 .. Word - 1 /\ RoundUp(live'[p]) <= Size(p - 20)'
    BY DEF LiveSized, HEADER
  <2>1. CASE p = c + 20
    <3>1. p - 20 = c
      BY <2>1
    <3> QED
      BY <1>1, <2>1, <3>1
  <2>2. CASE p # c + 20
    <3>1. p \in DOMAIN live /\ live'[p] = live[p]
      BY <1>1, <2>2
    <3>2. p - 20 \in blocks /\ p = (p - 20) + 20
      BY <3>1, LiveBlock
    <3>3. p - 20 # c
      BY <2>2, <3>2
    <3> QED
      BY <3>1, <3>2, <3>3 DEF LiveSized, HEADER
  <2> QED
    BY <2>1, <2>2
<1> QED
  BY <1>2, <1>3

LEMMA vmalloc_reuseIInv ==
  ASSUME IInv, vmalloc_reuse
  PROVE  IInv'
<1>1. Shape /\ Layout /\ Owned /\ LiveSized
  BY DEF IInv, Heap
<1>2. PICK c : c = cur
  OBVIOUS
<1>3. /\ c \in blocks /\ arg \in 1 .. Word - 1 /\ Free(c) # 0 /\ Size(c) >= RoundUp(arg)
      /\ mem' = [mem EXCEPT ![c + 8] = 0, ![c + 12] = MAGIC_ALLOCATED]
      /\ UNCHANGED <<vmem_current, vmem_list, frames, blocks>>
      /\ planted' = planted \ {c + 12}
      /\ pc = "scan" /\ pc' = "idle" /\ arg' = 0
  BY <1>2 DEF vmalloc_reuse, Fits, Return, IInv, Scan
<1>4. Hold(c + 20)
  BY <1>2 DEF vmalloc_reuse, HEADER
<1>5. 0 # MAGIC_ALLOCATED /\ MAGIC_ALLOCATED \in Nat
  BY Constants
<1>6. /\ mem' \in [Region -> Nat] /\ Layout' /\ Linked' /\ Extents' /\ NoForged'
      /\ \A b \in blocks : Size(b)' = Size(b) /\ (b # c => Free(b)' = Free(b))
      /\ Free(c)' = 0
  BY <1>3, <1>5, Marked
<1>7. Owned' /\ LiveSized'
  <2>1. {b \in blocks' : Free(b)' = 0} = {b \in blocks : Free(b) = 0} \cup {c}
    BY <1>3, <1>6
  <2>2. c \in Nat /\ Size(c) \in Nat
    BY <1>1, <1>3, BlockFacts
  <2>3. RoundUp(arg) <= Size(c)'
    BY <1>3, <1>6, <2>2, RoundUpFacts
  <2> QED
    BY <1>1, <1>3, <1>4, <1>6, <2>1, <2>2, <2>3, Held
<1>8. Shape' /\ FramesTaken' /\ Scan'
  BY <1>1, <1>3, <1>6 DEF IInv, Shape, FramesTaken, Scan, Halted
<1> QED
  BY <1>6, <1>7, <1>8 DEF IInv, Heap

----------------------------------------------------------------------------
(***************************************************************************)
(* vfree.                                                                  *)
(***************************************************************************)
(* The one word of a header whose distance from a block is that of a magic *)
(* number is the magic number of the header itself.                        *)
LEMMA OneMagic ==
  ASSUME Shape, Layout, NEW c \in blocks, NEW w \in Nat, c <= w, w < c + 20,
         w - 12 \in blocks
  PROVE  w = c + 12
<1>1. PICK b \in blocks : b = w - 12
  OBVIOUS
<1>2. /\ b \in Nat /\ c \in Nat /\ b + 20 <= End(b) /\ c + 20 <= End(c)
      /\ End(b) \in Nat /\ End(c) \in Nat
  BY BlockFacts
<1>3. b # c => End(b) <= c \/ End(c) <= b
  BY Apart
<1> QED
  BY <1>1, <1>2, <1>3

(* The pointers in use when the blocks of C are freed.                     *)
LEMMA Dropped ==
  ASSUME Shape, Layout, Owned, LiveSized, NEW C \in SUBSET blocks,
         DOMAIN live' = DOMAIN live \ {c + 20 : c \in C},
         \A p \in DOMAIN live' : live'[p] = live[p],
         {b \in blocks' : Free(b)' = 0} = {b \in blocks : Free(b) = 0} \ C,
         \A b \in blocks : Size(b)' = Size(b)
  PROVE  Owned' /\ LiveSized'
<1>1. \A b \in blocks : b \in Nat
  BY BlockFacts
<1>2. DOMAIN live' = DOMAIN live \ {c + 20 : c \in C}
  OBVIOUS
<1>3. {b + 20 : b \in {d \in blocks : Free(d) = 0} \ C}
        = {b + 20 : b \in {d \in blocks : Free(d) = 0}} \ {c + 20 : c \in C}
  <2>1. \A b \in blocks, c \in C : b + 20 = c + 20 => b = c
    BY <1>1
  <2> QED
    BY <2>1
<1>4. Owned'
  <2>1. DOMAIN live = {b + 20 : b \in {d \in blocks : Free(d) = 0}}
    BY DEF Owned, HEADER
  <2>2. DOMAIN live' = {b + 20 : b \in {d \in blocks' : Free(d)' = 0}}
    BY <1>2, <1>3, <2>1
  <2> QED
    BY <2>2 DEF Owned, HEADER
<1>5. LiveSized'
  <2> SUFFICES ASSUME NEW p \in DOMAIN live'
               PROVE  live'[p] \in 1 .. Word - 1 /\ RoundUp(live'[p]) <= Size(p - 20)'
    BY DEF LiveSized, HEADER
  <2>1. p \in DOMAIN live /\ live'[p] = live[p]
    OBVIOUS
  <2>2. p - 20 \in blocks
    BY <2>1, LiveBlock
  <2> QED
    BY <2>1, <2>2 DEF LiveSized, HEADER
<1> QED
  BY <1>4, <1>5

(* A block in use is freed, and nothing is merged.                         *)
LEMMA FreedIInv ==
  ASSUME IInv, NEW ptr \in DOMAIN live, pc = "idle", mem' = Freed(ptr - HEADER), Drop(ptr),
         planted' = planted \ {ptr - 8},
         UNCHANGED <<vmem_current, vmem_list, frames, blocks, pc, prev, cur, arg>>
  PROVE  IInv'
<1>1. Shape /\ Layout /\ Owned /\ LiveSized
  BY DEF IInv, Heap
<1>2. PICK c : c = ptr - HEADER
  OBVIOUS
<1>3. c \in blocks /\ Free(c) = 0 /\ ptr = c + 20 /\ ptr - 8 = c + 12
  BY <1>2, LivePayload
<1>4. /\ mem' = [mem EXCEPT ![c + 8] = 1, ![c + 12] = MAGIC_FREED]
      /\ DOMAIN live' = DOMAIN live \ {x + 20 : x \in {c}}
      /\ \A p \in DOMAIN live' : live'[p] = live[p]
      /\ planted' = planted \ {c + 12}
  BY <1>2, <1>3 DEF Freed, Drop
<1>5. /\ 1 # MAGIC_ALLOCATED /\ MAGIC_FREED \in Nat /\ 1 \in Nat
      /\ MAGIC_FREED = MAGIC_ALLOCATED <=> 1 = 0
  BY Constants
<1>6. /\ mem' \in [Region -> Nat] /\ Layout' /\ Linked' /\ Extents' /\ NoForged'
      /\ \A b \in blocks : Size(b)' = Size(b) /\ (b # c => Free(b)' = Free(b))
      /\ Free(c)' = 1
  <2>1. UNCHANGED <<vmem_current, vmem_list, blocks>>
    OBVIOUS
  <2> QED
    BY <1>3, <1>4, <1>5, <2>1, Marked
<1>7. {b \in blocks' : Free(b)' = 0} = {b \in blocks : Free(b) = 0} \ {c}
  BY <1>6
<1>8. Owned' /\ LiveSized'
  <2>1. {c} \in SUBSET blocks /\ \A b \in blocks : Size(b)' = Size(b)
    BY <1>3, <1>6
  <2> QED
    BY <1>1, <1>4, <1>7, <2>1, Dropped
<1>9. Shape' /\ FramesTaken' /\ Scan'
  BY <1>1, <1>6 DEF IInv, Shape, FramesTaken, Scan, Halted
<1> QED
  BY <1>6, <1>8, <1>9 DEF IInv, Heap

(* What the merge writes when the blocks of C have just been marked as     *)
(* free: the first block l takes over the capacity and the link of the     *)
(* second block s.                                                         *)
LEMMA MergeWrites ==
  ASSUME IInv, NEW C \in SUBSET blocks, NEW m \in [Region -> Nat],
         \A c \in C : m[c + 8] = 1 /\ m[c + 12] = MAGIC_FREED,
         \A w \in Region : (\A c \in C : w # c + 8 /\ w # c + 12) => m[w] = mem[w],
         vmem_list # NULL, MergesFirst(m), mem' = merge_first(m),
         blocks' = blocks \ {m[vmem_list + 16]}
  PROVE  \E l, s :
         /\ l = vmem_list /\ s = Next(l)
         /\ l \in blocks /\ s \in blocks /\ l < s /\ s = l + 20 + Capacity(l)
         /\ s \notin C => Free(s) # 0
         /\ mem' \in [Region -> Nat]
         /\ \A c \in C : mem'[c + 8] = 1 /\ mem'[c + 12] = MAGIC_FREED
         /\ mem'[l + 4] = Capacity(l) + 20 + Capacity(s)
         /\ mem'[l + 16] = Next(s)
         /\ \A w \in Region :
              (\A c \in C : w # c + 8 /\ w # c + 12) /\ w # l + 4 /\ w # l + 16
                => mem'[w] = mem[w]
         /\ blocks' = blocks \ {s}
<1>1. Shape /\ Layout /\ Linked
  BY DEF IInv, Heap
<1>2. PICK l : l = vmem_list
  OBVIOUS
<1>3. PICK s : s = Next(l)
  OBVIOUS
<1>4. l \in blocks
  BY <1>1, <1>2 DEF Linked
<1>5. ASSUME NEW b \in blocks
      PROVE  /\ m[b + 4] = mem[b + 4] /\ m[b + 16] = mem[b + 16]
             /\ b \notin C => m[b + 8] = mem[b + 8]
             /\ \A c \in C : /\ b + 4 # c + 8 /\ b + 4 # c + 12
                            /\ b + 16 # c + 8 /\ b + 16 # c + 12
  <2>1. /\ b \in Nat /\ b + 4 \in Region /\ b + 8 \in Region /\ b + 16 \in Region
        /\ b + 20 <= End(b) /\ End(b) \in Nat
    BY <1>1, BlockFacts
  <2>2. ASSUME NEW c \in C
        PROVE  /\ b + 4 # c + 8 /\ b + 4 # c + 12 /\ b + 16 # c + 8 /\ b + 16 # c + 12
               /\ b \notin C => b + 8 # c + 8 /\ b + 8 # c + 12
    <3>1. c \in Nat /\ c + 20 <= End(c) /\ End(c) \in Nat
      BY <1>1, BlockFacts
    <3>2. b # c => End(b) <= c \/ End(c) <= b
      BY <1>1, Apart
    <3> QED
      BY <2>1, <3>1, <3>2
  <2> QED
    BY <2>1, <2>2
<1>6. s = m[l + 16] /\ s # NULL /\ m[s + 8] # 0 /\ l + 20 + m[l + 4] = s
  BY <1>2, <1>3, <1>4, <1>5 DEF MergesFirst, HEADER, Next
<1>7. s \in blocks /\ l < s
  BY <1>3, <1>1, <1>4, <1>6, Successor
<1>8. l + 20 + Capacity(l) = s /\ (s \notin C => Free(s) # 0)
  BY <1>4, <1>5, <1>6, <1>7 DEF Capacity, Free
<1>9. mem' = [m EXCEPT ![l + 4] = m[l + 4] + 20 + m[s + 4], ![l + 16] = m[s + 16]]
  BY <1>2, <1>6 DEF merge_first, HEADER
<1>10. mem' = [m EXCEPT ![l + 4] = Capacity(l) + 20 + Capacity(s), ![l + 16] = Next(s)]
  BY <1>4, <1>5, <1>7, <1>9 DEF Capacity, Next
<1>11. /\ l \in Nat /\ l + 4 \in Region /\ l + 16 \in Region /\ Capacity(l) \in Nat
      /\ Capacity(s) \in Nat /\ Next(s) \in Nat
  BY <1>1, <1>4, <1>7, BlockFacts
<1>12. l + 4 # l + 16 /\ Capacity(l) + 20 + Capacity(s) \in Nat
  BY <1>11
<1>13. /\ mem' \in [Region -> Nat]
       /\ mem'[l + 4] = Capacity(l) + 20 + Capacity(s)
       /\ mem'[l + 16] = Next(s)
       /\ \A w \in Region : w # l + 4 /\ w # l + 16 => mem'[w] = m[w]
  BY <1>10, <1>11, <1>12
<1>14. ASSUME NEW c \in C PROVE mem'[c + 8] = 1 /\ mem'[c + 12] = MAGIC_FREED
  <2>1. c + 8 \in Region /\ c + 12 \in Region
    BY <1>1, BlockFacts
  <2>2. c + 8 # l + 4 /\ c + 8 # l + 16 /\ c + 12 # l + 4 /\ c + 12 # l + 16
    BY <1>4, <1>5
  <2> QED
    BY <1>13, <2>1, <2>2
<1>15. \A w \in Region :
         (\A c \in C : w # c + 8 /\ w # c + 12) /\ w # l + 4 /\ w # l + 16 => mem'[w] = mem[w]
  BY <1>13
<1>16. blocks' = blocks \ {s}
  BY <1>2, <1>6
<1> QED
  BY <1>2, <1>3, <1>4, <1>7, <1>8, <1>13, <1>14, <1>15, <1>16

LEMMA MergeIInv ==
  ASSUME IInv, NEW C \in SUBSET blocks, NEW m \in [Region -> Nat],
         \A c \in C : m[c + 8] = 1 /\ m[c + 12] = MAGIC_FREED,
         \A w \in Region : (\A c \in C : w # c + 8 /\ w # c + 12) => m[w] = mem[w],
         vmem_list # NULL, MergesFirst(m), mem' = merge_first(m),
         blocks' = blocks \ {m[vmem_list + 16]},
         DOMAIN live' = DOMAIN live \ {c + 20 : c \in C},
         \A p \in DOMAIN live' : live'[p] = live[p],
         planted' = planted \ {c + 12 : c \in C}, pc = "idle",
         UNCHANGED <<vmem_current, vmem_list, frames, pc, prev, cur, arg>>
  PROVE  IInv'
<1>1. Shape /\ Layout /\ Linked /\ Owned /\ LiveSized /\ NoForged
  BY DEF IInv, Heap
<1>2. PICK l, s :
      /\ l = vmem_list /\ s = Next(l)
      /\ l \in blocks /\ s \in blocks /\ l < s /\ s = l + 20 + Capacity(l)
      /\ s \notin C => Free(s) # 0
      /\ mem' \in [Region -> Nat]
      /\ \A c \in C : mem'[c + 8] = 1 /\ mem'[c + 12] = MAGIC_FREED
      /\ mem'[l + 4] = Capacity(l) + 20 + Capacity(s)
      /\ mem'[l + 16] = Next(s)
      /\ \A w \in Region :
           (\A c \in C : w # c + 8 /\ w # c + 12) /\ w # l + 4 /\ w # l + 16
             => mem'[w] = mem[w]
      /\ blocks' = blocks \ {s}
  BY MergeWrites
<1>3. /\ pc = "idle" /\ UNCHANGED <<vmem_current, vmem_list, frames, pc, prev, cur, arg>>
  OBVIOUS
<1>4. /\ Next(s) \in Nat
      /\ l \in Nat /\ l + 20 <= End(l) /\ End(l) \in Nat /\ s \in Nat
      /\ Capacity(l) \in Nat /\ Capacity(s) \in Nat /\ l # NULL
  BY <1>1, <1>2, BlockFacts
<1>5. ASSUME NEW b \in blocks
      PROVE  /\ b \in Nat /\ Size(b)' = Size(b) /\ End(b)' = End(b)
             /\ b # l => Capacity(b)' = Capacity(b) /\ Next(b)' = Next(b)
             /\ b \notin C => Free(b)' = Free(b)
  <2>1. /\ b \in Nat /\ b + 20 <= End(b) /\ End(b) \in Nat
        /\ b \in Region /\ b + 4 \in Region /\ b + 8 \in Region /\ b + 16 \in Region
    BY <1>1, BlockFacts
  <2>2. b # l => End(b) <= l \/ End(l) <= b
    BY <1>1, <1>2, Apart
  <2>3. ASSUME NEW c \in C
        PROVE  /\ b # c + 8 /\ b # c + 12 /\ b + 4 # c + 8 /\ b + 4 # c + 12
               /\ b + 16 # c + 8 /\ b + 16 # c + 12
               /\ b # c => b + 8 # c + 8 /\ b + 8 # c + 12
    <3>1. c \in Nat /\ c + 20 <= End(c) /\ End(c) \in Nat
      BY <1>1, BlockFacts
    <3>2. b # c => End(b) <= c \/ End(c) <= b
      BY <1>1, Apart
    <3> QED
      BY <2>1, <3>1, <3>2
  <2>4. b # l + 4 /\ b # l + 16 /\ b + 8 # l + 4 /\ b + 8 # l + 16
    BY <1>4, <2>1, <2>2
  <2>5. b # l => b + 4 # l + 4 /\ b + 4 # l + 16 /\ b + 16 # l + 4 /\ b + 16 # l + 16
    BY <1>4, <2>1, <2>2
  <2>6. mem'[b] = mem[b]
    BY <1>2, <2>1, <2>3, <2>4
  <2>7. b # l => mem'[b + 4] = mem[b + 4] /\ mem'[b + 16] = mem[b + 16]
    BY <1>2, <2>1, <2>3, <2>5
  <2>8. b \notin C => mem'[b + 8] = mem[b + 8]
    BY <1>2, <2>1, <2>3, <2>4
  <2> QED
    BY <2>1, <2>6, <2>7, <2>8 DEF Size, End, Capacity, Next, Free
<1>6. /\ Capacity(l)' = Capacity(l) + 20 + Capacity(s) /\ Next(l)' = Next(s)
      /\ \A c \in C : Free(c)' = 1
      /\ l \in blocks' /\ l # s
  <2>1. l # s
    BY <1>2, <1>4
  <2> QED
    BY <1>2, <2>1 DEF Capacity, Next, Free
<1>7. Layout'
  <2>1. \A b \in blocks' : b \in blocks /\ Size(b)' = Size(b) /\ End(b)' = End(b)
    BY <1>2, <1>5
  <2> QED
    BY <1>1, <1>3, <2>1 DEF Layout
<1>8. Linked'
  <2>1. vmem_list' \in blocks' /\ vmem_list' # NULL /\ \A b \in blocks' : vmem_list' <= b
    BY <1>1, <1>2, <1>3, <1>4, <1>6 DEF Linked
  <2>2. \A b \in blocks : b <= l \/ s <= b
    <3>1. s # NULL
      BY <1>2, <1>4 DEF NULL
    <3> QED
      BY <1>1, <1>2, <3>1, Successor
  <2>3. ASSUME NEW b \in blocks'
        PROVE  /\ End(b)' <= vmem_current'
               /\ IF Next(b)' = NULL THEN \A d \in blocks' : d <= b
                  ELSE /\ Next(b)' \in blocks' /\ End(b)' <= Next(b)'
                       /\ \A d \in blocks' : d <= b \/ Next(b)' <= d
    <3>1. /\ b \in blocks /\ b # s /\ b \in Nat /\ End(b)' = End(b) /\ End(b) \in Nat
          /\ Next(b) \in Nat /\ End(b) <= vmem_current
      BY <1>1, <1>2, <1>5, BlockFacts
    <3>2. CASE b = l
      <4>1. CASE Next(s) = NULL
        <5>1. \A d \in blocks : d <= s
          BY <1>1, <1>2, <4>1 DEF Linked
        <5>2. \A d \in blocks' : d <= b
          <6> SUFFICES ASSUME NEW d \in blocks' PROVE d <= b
            OBVIOUS
          <6>1. d \in Nat /\ d # s /\ d <= s /\ (d <= l \/ s <= d)
            BY <1>2, <1>5, <2>2, <5>1
          <6> QED
            BY <1>4, <3>2, <6>1
        <5> QED
          BY <1>3, <1>6, <3>1, <3>2, <4>1, <5>2
      <4>2. CASE Next(s) # NULL
        <5>1. /\ Next(s) \in blocks /\ s < Next(s) /\ End(l) <= s
              /\ \A d \in blocks : d <= s \/ Next(s) <= d
          BY <1>1, <1>2, <4>2, Successor, Inside
        <5>2. Next(s) \in blocks' /\ End(l) <= Next(s)
          BY <1>2, <1>4, <5>1
        <5>3. \A d \in blocks' : d <= l \/ Next(s) <= d
          <6> SUFFICES ASSUME NEW d \in blocks' PROVE d <= l \/ Next(s) <= d
            OBVIOUS
          <6>1. d \in Nat /\ d # s /\ (d <= s \/ Next(s) <= d) /\ (d <= l \/ s <= d)
            BY <1>2, <1>5, <2>2, <5>1
          <6> QED
            BY <1>4, <6>1
        <5> QED
          BY <1>3, <1>6, <3>1, <3>2, <4>2, <5>2, <5>3
      <4> QED
        BY <4>1, <4>2
    <3>3. CASE b # l
      <4>1. Next(b)' = Next(b)
        BY <1>5, <3>1, <3>3
      <4>2. CASE Next(b) = NULL
        BY <1>1, <1>2, <1>3, <3>1, <4>1, <4>2 DEF Linked
      <4>3. CASE Next(b) # NULL
        <5>1. /\ Next(b) \in blocks /\ b < Next(b) /\ End(b) <= Next(b)
              /\ \A d \in blocks : d <= b \/ Next(b) <= d
          BY <1>1, <3>1, <4>3, Successor
        <5>2. Next(b) # s
          <6>1. b <= l \/ s <= b
            BY <2>2, <3>1
          <6>2. l <= b \/ Next(b) <= l
            BY <1>2, <5>1
          <6> QED
            BY <1>2, <1>4, <3>1, <3>3, <5>1, <6>1, <6>2
        <5> QED
          BY <1>2, <1>3, <3>1, <4>1, <4>3, <5>1, <5>2
      <4> QED
        BY <4>2, <4>3
    <3> QED
      BY <3>2, <3>3
  <2>4. blocks' # {}
    BY <1>6
  <2> QED
    BY <2>1, <2>3, <2>4 DEF Linked
<1>9. Owned' /\ LiveSized'
  <2>1. {b \in blocks' : Free(b)' = 0} = {b \in blocks : Free(b) = 0} \ C
    <3>1. \A c \in C : Free(c)' # 0
      BY <1>6
    <3> QED
      BY <1>2, <1>5, <3>1
  <2>2. \A b \in blocks : Size(b)' = Size(b)
    BY <1>5
  <2> QED
    BY <1>1, <2>1, <2>2, Dropped
<1>10. PICK E \in SUBSET Nat : ExtentEnds(E)
  BY DEF IInv, Heap, Extents
<1>11. s \in E /\ s + 20 + Capacity(s) \in E /\ s + 20 + Capacity(s) <= KVMEM_END
  <2>1. s \in E
    BY <1>2, <1>4, <1>10 DEF ExtentEnds, HEADER
  <2>2. s + 20 + Capacity(s) \in E
    BY <1>2, <1>10, <2>1 DEF ExtentEnds, HEADER
  <2> QED
    BY <1>10, <2>1, <2>2 DEF ExtentEnds
<1>12. l + 20 + (Capacity(l) + 20 + Capacity(s)) = s + 20 + Capacity(s)
  BY <1>2, <1>4
<1>13. Extents'
  <2>1. \A e \in E, b \in blocks' : e <= b \/ End(b)' <= e
    BY <1>2, <1>5, <1>10 DEF ExtentEnds
  <2>2. \A e \in E : e \in blocks' => e + 20 + Capacity(e)' \in E
    <3> SUFFICES ASSUME NEW e \in E, e \in blocks' PROVE e + 20 + Capacity(e)' \in E
      OBVIOUS
    <3>1. CASE e = l
      BY <1>6, <1>11, <1>12, <3>1
    <3>2. CASE e # l
      BY <1>2, <1>5, <1>10, <3>2 DEF ExtentEnds, HEADER
    <3> QED
      BY <3>1, <3>2
  <2>3. vmem_list' = l /\ l + 20 + Capacity(l)' \in E
    BY <1>2, <1>3, <1>6, <1>11, <1>12
  <2>4. (vmem_list + HEADER + Capacity(vmem_list))' \in E
    BY <2>3 DEF Capacity, HEADER
  <2>5. ExtentEnds(E)'
    BY <1>3, <1>10, <2>1, <2>2, <2>3, <2>4 DEF ExtentEnds, HEADER
  <2> QED
    BY <2>5 DEF Extents
<1>14. NoForged'
  <2> SUFFICES ASSUME NEW w \in Region
               PROVE  /\ w - 12 \in blocks' /\ Free(w - 12)' = 0 => mem'[w] = MAGIC_ALLOCATED
                      /\ mem'[w] = MAGIC_ALLOCATED =>
                           (w - 12 \in blocks' /\ Free(w - 12)' = 0) \/ w \in planted'
    BY DEF NoForged
  <2>1. w \in Nat
    BY RegionWord
  <2>2. ASSUME NEW c \in C, w = c + 12
        PROVE  mem'[w] # MAGIC_ALLOCATED /\ Free(w - 12)' # 0
    <3>1. w - 12 = c /\ Free(c)' # 0
      BY <1>5, <1>6, <2>2
    <3>2. mem'[w] # MAGIC_ALLOCATED
      BY <1>2, <2>2, Constants
    <3> QED
      BY <3>1, <3>2
  <2>3. ASSUME NEW c \in C, w = c + 8
        PROVE  mem'[w] # MAGIC_ALLOCATED /\ w - 12 \notin blocks
    <3>1. w - 12 \notin blocks
      BY <1>1, <1>5, <2>1, <2>3, OneMagic
    <3>2. mem'[w] # MAGIC_ALLOCATED
      BY <1>2, <2>3, Constants
    <3> QED
      BY <3>1, <3>2
  <2>4. ASSUME w = l + 4 PROVE mem'[w] # MAGIC_ALLOCATED /\ w - 12 \notin blocks
    <3>1. w - 12 \notin blocks
      BY <1>1, <1>2, <1>4, <2>1, <2>4, OneMagic
    <3>2. mem'[w] # MAGIC_ALLOCATED
      BY <1>2, <1>4, <1>11, <1>12, <2>4, Constants
    <3> QED
      BY <3>1, <3>2
  <2>5. ASSUME w = l + 16 PROVE mem'[w] # MAGIC_ALLOCATED /\ w - 12 \notin blocks
    <3>1. w - 12 \notin blocks
      <4>1. l <= w /\ w < l + 20 /\ w # l + 12
        BY <1>4, <2>5
      <4> QED
        BY <1>1, <1>2, <2>1, <4>1, OneMagic
    <3>2. Next(s) # MAGIC_ALLOCATED
      <4>1. Next(s) = NULL \/ Next(s) \in Region
        BY <1>1, <1>2, Successor, BlockFacts
      <4> QED
        BY <4>1, RegionWord, Constants DEF NULL
    <3> QED
      BY <1>2, <2>5, <3>1, <3>2
  <2>6. CASE (\A c \in C : w # c + 8 /\ w # c + 12) /\ w # l + 4 /\ w # l + 16
    <3>1. w - 12 \notin C
      <4>1. \A c \in C : c \in Nat /\ w - 12 # c
        BY <1>5, <2>1, <2>6
      <4> QED
        BY <4>1
    <3>2. mem'[w] = mem[w] /\ (w \in planted => w \in planted')
      BY <1>2, <2>6
    <3>3. w - 12 \in blocks => Free(w - 12)' = Free(w - 12)
      BY <1>5, <3>1
    <3>4. w - 12 = s => Free(w - 12) # 0
      BY <1>2, <3>1
    <3> QED
      BY <1>1, <1>2, <3>2, <3>3, <3>4 DEF NoForged
  <2> QED
    BY <1>2, <2>2, <2>3, <2>4, <2>5, <2>6
<1>15. Shape' /\ FramesTaken' /\ Scan'
  BY <1>1, <1>2, <1>3 DEF IInv, Shape, FramesTaken, Scan, Halted
<1> QED
  BY <1>7, <1>8, <1>9, <1>13, <1>14, <1>15 DEF IInv, Heap

(* vfree of a live pointer, of any pointer that loses nothing, and of a    *)
(* pointer of the other allocator; and kfree of a pointer of this one.     *)
LEMMA vfreeIInv ==
  ASSUME IInv, NEW ptr \in AllPointers, vfree(ptr), ~Lost'
  PROVE  IInv'
<1>1. /\ pc = "idle" /\ ptr \in DOMAIN live /\ pc' = "idle" /\ Drop(ptr)
      /\ planted' = planted \ {ptr - 8}
      /\ UNCHANGED <<vmem_current, vmem_list, frames, pc, prev, cur, arg>>
      /\ mem' = merge_first(Freed(ptr - HEADER))
      /\ blocks' = IF MergesFirst(Freed(ptr - HEADER))
                   THEN blocks \ {Freed(ptr - HEADER)[vmem_list + 16]} ELSE blocks
  BY DEF vfree, Lost, loop
<1>2. CASE ~MergesFirst(Freed(ptr - HEADER))
  <2>1. mem' = Freed(ptr - HEADER) /\ UNCHANGED blocks
    BY <1>1, <1>2 DEF merge_first
  <2> QED
    BY <1>1, <2>1, FreedIInv
<1>3. CASE MergesFirst(Freed(ptr - HEADER))
  <2>1. PICK c : c = ptr - HEADER
    OBVIOUS
  <2>2. c \in blocks /\ ptr = c + 20 /\ ptr - 8 = c + 12
    BY <1>1, <2>1, LivePayload
  <2>3. Shape /\ Layout /\ Linked
    BY DEF IInv, Heap
  <2>4. c \in Nat /\ c + 8 \in Region /\ c + 12 \in Region /\ MAGIC_FREED \in Nat
    BY <2>2, <2>3, BlockFacts, Constants
  <2>5. PICK m : m = Freed(c)
    OBVIOUS
  <2>6. /\ m \in [Region -> Nat] /\ m[c + 8] = 1 /\ m[c + 12] = MAGIC_FREED
        /\ \A w \in Region : w # c + 8 /\ w # c + 12 => m[w] = mem[w]
    <3>1. c + 8 # c + 12 /\ 1 \in Nat /\ mem \in [Region -> Nat]
      BY <2>3, <2>4 DEF Shape
    <3> QED
      BY <2>4, <2>5, <3>1 DEF Freed
  <2> DEFINE C == {c}
  <2>7. /\ C \in SUBSET blocks
        /\ \A x \in C : m[x + 8] = 1 /\ m[x + 12] = MAGIC_FREED
        /\ \A w \in Region : (\A x \in C : w # x + 8 /\ w # x + 12) => m[w] = mem[w]
    BY <2>2, <2>6
  <2>8. /\ DOMAIN live' = DOMAIN live \ {x + 20 : x \in C}
        /\ \A p \in DOMAIN live' : live'[p] = live[p]
    BY <1>1, <2>2 DEF Drop
  <2>9. planted' = planted \ {x + 12 : x \in C}
    BY <1>1, <2>2
  <2>10. vmem_list # NULL
    BY <2>2, <2>3 DEF Linked
  <2>11. MergesFirst(m) /\ mem' = merge_first(m) /\ blocks' = blocks \ {m[vmem_list + 16]}
    BY <1>1, <1>3, <2>1, <2>5
  <2> HIDE DEF C
  <2> QED
    BY <1>1, <2>6, <2>7, <2>8, <2>9, <2>10, <2>11, MergeIInv
<1> QED
  BY <1>2, <1>3

LEMMA vfree_foreignIInv ==
  ASSUME IInv, vfree_foreign
  PROVE  IInv'
<1>1. /\ pc = "idle" /\ UNCHANGED <<vmem_current, vmem_list, frames, live, planted, prev, cur, arg>>
  BY DEF vfree_foreign, loop
<1>2. CASE vmem_list = NULL \/ ~MergesFirst(mem)
  <2>1. UNCHANGED heap /\ pc' # "scan" /\ arg' = arg /\ ~Halted
    BY <1>1, <1>2 DEF vfree_foreign, merge_first, heap, loop, Halted
  <2> QED
    BY <2>1, StopIInv DEF IInv, Shape
<1>3. CASE vmem_list # NULL /\ MergesFirst(mem)
  <2>1. mem' = merge_first(mem) /\ blocks' = blocks \ {mem[vmem_list + 16]} /\ pc' = pc
    BY <1>3 DEF vfree_foreign, Next
  <2> DEFINE C == {}
  <2>2. /\ C \in SUBSET blocks /\ mem \in [Region -> Nat]
        /\ \A x \in C : mem[x + 8] = 1 /\ mem[x + 12] = MAGIC_FREED
        /\ \A w \in Region : (\A x \in C : w # x + 8 /\ w # x + 12) => mem[w] = mem[w]
    BY DEF IInv, Shape
  <2>3. /\ DOMAIN live' = DOMAIN live \ {x + 20 : x \in C}
        /\ \A p \in DOMAIN live' : live'[p] = live[p]
    BY <1>1
  <2>4. planted' = planted \ {x + 12 : x \in C}
    BY <1>1
  <2> HIDE DEF C
  <2> QED
    BY <1>1, <1>3, <2>1, <2>2, <2>3, <2>4, MergeIInv
<1> QED
  BY <1>2, <1>3

LEMMA kfreeIInv ==
  ASSUME IInv, NEW ptr \in AllPointers, kfree(ptr), ~Lost'
  PROVE  IInv'
<1>1. /\ pc = "idle" /\ ptr \in DOMAIN live /\ pc' = "idle" /\ Drop(ptr)
      /\ planted' = planted \ {ptr - 8} /\ mem' = Freed(ptr - HEADER)
      /\ UNCHANGED <<vmem_current, vmem_list, frames, blocks, pc, prev, cur, arg>>
  BY DEF kfree, Lost, loop
<1> QED
  BY <1>1, FreedIInv

----------------------------------------------------------------------------
(***************************************************************************)
(* The steps of vmalloc that make a block.                                 *)
(***************************************************************************)
(* What the split writes: the words of block c and of the block n that it  *)
(* leaves behind, all of them inside c as it was.                          *)
LEMMA SplitWrites ==
  ASSUME IInv, vmalloc_split,
         NEW c, c = cur, NEW size, size = RoundUp(arg), NEW n, n = c + 20 + size
  PROVE  /\ c \in blocks /\ Free(c) # 0 /\ arg \in 1 .. Word - 1
         /\ size \in Nat /\ size % 4 = 0
         /\ n \in Nat /\ n % 4 = 0 /\ n + 36 <= End(c) /\ n \notin blocks
         /\ mem' \in [Region -> Nat]
         /\ mem'[n] = Size(c) - size - 20 /\ mem'[n + 8] = 1 /\ mem'[n + 16] = Next(c)
         /\ mem'[c] = size /\ mem'[c + 8] = 0 /\ mem'[c + 12] = MAGIC_ALLOCATED
         /\ mem'[c + 16] = n
         /\ \A w \in Region :
              w \notin {n, n + 8, n + 16, c, c + 8, c + 12, c + 16} => mem'[w] = mem[w]
         /\ blocks' = blocks \cup {n} /\ Hold(c + 20)
         /\ planted' = {w \in planted \ {c + 12} : mem'[w] = MAGIC_ALLOCATED}
         /\ UNCHANGED <<vmem_current, vmem_list, frames>>
         /\ pc = "scan" /\ pc' = "idle" /\ arg' = 0
<1>1. Shape /\ Layout /\ mem \in [Region -> Nat]
  BY DEF IInv, Heap, Shape
<1>2. /\ c \in blocks /\ Free(c) # 0 /\ arg \in 1 .. Word - 1 /\ Size(c) >= size + 20 + 16
      /\ mem' = [mem EXCEPT ![n]      = Size(c) - size - 20,
                            ![n + 8]  = 1,
                            ![n + 16] = Next(c),
                            ![c]      = size,
                            ![c + 8]  = 0,
                            ![c + 12] = MAGIC_ALLOCATED,
                            ![c + 16] = n]
      /\ blocks' = blocks \cup {n} /\ Hold(c + 20)
      /\ planted' = {w \in planted \ {c + 12} : mem'[w] = MAGIC_ALLOCATED}
      /\ UNCHANGED <<vmem_current, vmem_list, frames>>
      /\ pc = "scan" /\ pc' = "idle" /\ arg' = 0
  BY DEF vmalloc_split, Fits, Return, HEADER, IInv, Scan
<1>3. size \in Nat /\ size % 4 = 0
  BY <1>2, RoundUpFacts
<1>4. /\ c \in Nat /\ c % 4 = 0 /\ Size(c) \in Nat /\ End(c) = c + 20 + Size(c)
      /\ End(c) \in Nat /\ End(c) <= KVMEM_END /\ Next(c) \in Nat /\ KVMEM_START <= c
      /\ c \in Region /\ c + 8 \in Region /\ c + 12 \in Region /\ c + 16 \in Region
  BY <1>1, <1>2, BlockFacts
<1>5. n \in Nat /\ n % 4 = 0 /\ n + 36 <= End(c) /\ c + 20 <= n
  BY <1>2, <1>3, <1>4
<1>6. n \notin blocks
  <2> SUFFICES ASSUME n \in blocks PROVE FALSE
    OBVIOUS
  <2>1. c < n /\ End(c) > n
    BY <1>4, <1>5
  <2> QED
    BY <1>1, <1>2, <1>4, <1>5, <2>1, Inside
<1>7. n \in Region /\ n + 8 \in Region /\ n + 16 \in Region
  BY <1>4, <1>5, RegionWord, Constants
<1>8. Size(c) - size - 20 \in Nat /\ 1 \in Nat /\ 0 \in Nat /\ MAGIC_ALLOCATED \in Nat
  BY <1>2, <1>3, <1>4, Constants
<1>9. /\ n # n + 8 /\ n # n + 16 /\ n # c /\ n # c + 8 /\ n # c + 12 /\ n # c + 16
      /\ n + 8 # n + 16 /\ n + 8 # c /\ n + 8 # c + 8 /\ n + 8 # c + 12 /\ n + 8 # c + 16
      /\ n + 16 # c /\ n + 16 # c + 8 /\ n + 16 # c + 12 /\ n + 16 # c + 16
      /\ c # c + 8 /\ c # c + 12 /\ c # c + 16 /\ c + 8 # c + 12 /\ c + 8 # c + 16
      /\ c + 12 # c + 16
  BY <1>4, <1>5
<1>10. /\ mem' \in [Region -> Nat]
       /\ \A w \in Region :
            w \notin {n, n + 8, n + 16, c, c + 8, c + 12, c + 16} => mem'[w] = mem[w]
  BY <1>1, <1>2, <1>3, <1>4, <1>5, <1>7, <1>8
<1>11. /\ mem'[n] = Size(c) - size - 20 /\ mem'[n + 8] = 1 /\ mem'[n + 16] = Next(c)
       /\ mem'[c] = size /\ mem'[c + 8] = 0 /\ mem'[c + 12] = MAGIC_ALLOCATED
       /\ mem'[c + 16] = n
  BY <1>1, <1>2, <1>4, <1>7, <1>9
<1> QED
  BY <1>2, <1>3, <1>5, <1>6, <1>10, <1>11

LEMMA vmalloc_splitIInv ==
  ASSUME IInv, vmalloc_split
  PROVE  IInv'
<1>1. Shape /\ Layout /\ Linked /\ Owned /\ LiveSized /\ NoForged
  BY DEF IInv, Heap
<1>2. PICK c : c = cur
  OBVIOUS
<1>3. PICK size : size = RoundUp(arg)
  OBVIOUS
<1>4. PICK n : n = c + 20 + size
  OBVIOUS
<1>5. /\ c \in blocks /\ Free(c) # 0 /\ arg \in 1 .. Word - 1
      /\ size \in Nat /\ size % 4 = 0
      /\ n \in Nat /\ n % 4 = 0 /\ n + 36 <= End(c) /\ n \notin blocks
      /\ mem' \in [Region -> Nat]
      /\ mem'[n] = Size(c) - size - 20 /\ mem'[n + 8] = 1 /\ mem'[n + 16] = Next(c)
      /\ mem'[c] = size /\ mem'[c + 8] = 0 /\ mem'[c + 12] = MAGIC_ALLOCATED
      /\ mem'[c + 16] = n
      /\ \A w \in Region :
           w \notin {n, n + 8, n + 16, c, c + 8, c + 12, c + 16} => mem'[w] = mem[w]
      /\ blocks' = blocks \cup {n} /\ Hold(c + 20)
      /\ planted' = {w \in planted \ {c + 12} : mem'[w] = MAGIC_ALLOCATED}
      /\ UNCHANGED <<vmem_current, vmem_list, frames>>
      /\ pc = "scan" /\ pc' = "idle" /\ arg' = 0
  BY <1>2, <1>3, <1>4, SplitWrites
<1>6. /\ c \in Nat /\ c >= KVMEM_START /\ Size(c) \in Nat /\ Size(c) % 4 = 0
      /\ End(c) = c + 20 + Size(c) /\ End(c) \in Nat /\ End(c) <= KVMEM_END
      /\ End(c) <= vmem_current /\ c + 4 \in Region /\ c \in Region /\ Next(c) \in Nat
  BY <1>1, <1>5, BlockFacts
<1>7. c + 20 <= n /\ n < End(c) /\ c < n
  BY <1>4, <1>5, <1>6
<1>8. ASSUME NEW b \in blocks, b # c
      PROVE  /\ b \in Nat /\ End(b) \in Nat /\ (End(b) <= c \/ End(c) <= b)
             /\ Size(b)' = Size(b) /\ Capacity(b)' = Capacity(b) /\ Free(b)' = Free(b)
             /\ Next(b)' = Next(b) /\ End(b)' = End(b)
  <2>1. b \in Nat /\ b + 20 <= End(b) /\ End(b) \in Nat
    BY <1>1, BlockFacts
  <2>2. End(b) <= c \/ End(c) <= b
    BY <1>1, <1>5, <1>8, Apart
  <2>3. \A w \in Region : b <= w /\ w < b + 20 =>
          w \notin {n, n + 8, n + 16, c, c + 8, c + 12, c + 16}
    BY <1>5, <1>6, <1>7, <2>1, <2>2
  <2>4. \A w \in Region : b <= w /\ w < b + 20 => mem'[w] = mem[w]
    BY <1>5, <2>3
  <2> QED
    BY <1>1, <2>1, <2>2, <2>4, SameHeader
<1>9. /\ Size(c)' = size /\ Free(c)' = 0 /\ Next(c)' = n /\ End(c)' = n
      /\ Capacity(c)' = Capacity(c)
  <2>1. c + 4 \notin {n, n + 8, n + 16, c, c + 8, c + 12, c + 16}
    BY <1>5, <1>6, <1>7
  <2> QED
    BY <1>4, <1>5, <1>6, <2>1 DEF Size, Free, Next, End, Capacity, HEADER
<1>10. /\ Size(n)' = Size(c) - size - 20 /\ Free(n)' = 1 /\ Next(n)' = Next(c)
       /\ End(n)' = End(c)
  <2>1. Size(n)' = Size(c) - size - 20 /\ Free(n)' = 1 /\ Next(n)' = Next(c)
    BY <1>5 DEF Size, Free, Next
  <2>2. End(n)' = n + 20 + Size(n)'
    BY DEF End, HEADER
  <2>3. n + 20 + (Size(c) - size - 20) = c + 20 + Size(c)
    BY <1>4, <1>5, <1>6
  <2> QED
    BY <1>6, <2>1, <2>2, <2>3
<1>11. \A b \in blocks : b \in Nat /\ (b = c \/ End(b) <= c \/ End(c) <= b)
  BY <1>6, <1>8
<1>12. Layout'
  <2>1. ASSUME NEW b \in blocks'
        PROVE  /\ b \in Region /\ Size(b)' % 4 = 0
               /\ End(b)' <= vmem_current' /\ End(b)' <= KVMEM_END
    <3>1. CASE b = c
      <4>1. n <= vmem_current /\ n <= KVMEM_END
        BY <1>1, <1>5, <1>6, <1>7, Constants DEF Shape
      <4> QED
        BY <1>5, <1>6, <1>9, <3>1, <4>1
    <3>2. CASE b = n
      <4>1. n \in Region
        BY <1>5, <1>6, <1>7, RegionWord, Constants
      <4>2. (Size(c) - size - 20) % 4 = 0
        BY <1>4, <1>5, <1>6
      <4> QED
        BY <1>5, <1>6, <1>10, <3>2, <4>1, <4>2
    <3>3. CASE b \in blocks /\ b # c
      BY <1>1, <1>5, <1>8, <3>3 DEF Layout
    <3> QED
      BY <1>5, <3>1, <3>2, <3>3
  <2>2. ASSUME NEW b \in blocks', NEW d \in blocks', b < d
        PROVE  End(b)' <= d
    <3>1. CASE b = c /\ d = n
      BY <1>5, <1>9, <3>1
    <3>2. CASE b = c /\ d \in blocks
      <4>1. End(c) <= d
        BY <1>1, <1>5, <2>2, <3>2, Inside
      <4> QED
        BY <1>6, <1>7, <1>9, <1>11, <1>5, <3>2, <4>1
    <3>3. CASE b = n /\ d \in blocks
      <4>1. c < d
        BY <1>5, <1>6, <1>7, <1>11, <2>2, <3>3
      <4>2. End(c) <= d
        BY <1>1, <1>5, <3>3, <4>1, Inside
      <4> QED
        BY <1>10, <3>3, <4>2
    <3>4. CASE b \in blocks /\ b # c /\ d = n
      BY <1>5, <1>6, <1>7, <1>8, <2>2, <3>4
    <3>5. CASE b \in blocks /\ b # c /\ d \in blocks
      BY <1>1, <1>8, <2>2, <3>5 DEF Layout
    <3>6. CASE b = n /\ d = n
      BY <1>5, <2>2, <3>6
    <3> QED
      BY <1>5, <3>1, <3>2, <3>3, <3>4, <3>5, <3>6
  <2> QED
    BY <2>1, <2>2 DEF Layout
<1>13. Linked'
  <2>1. vmem_list \in blocks /\ vmem_list # NULL /\ \A b \in blocks : vmem_list <= b
    BY <1>1, <1>5 DEF Linked
  <2>2. vmem_list <= n
    BY <1>5, <1>6, <1>7, <1>11, <2>1
  <2>3. ASSUME NEW b \in blocks'
        PROVE  /\ End(b)' <= vmem_current'
               /\ IF Next(b)' = NULL THEN \A d \in blocks' : d <= b
                  ELSE /\ Next(b)' \in blocks' /\ End(b)' <= Next(b)'
                       /\ \A d \in blocks' : d <= b \/ Next(b)' <= d
    <3>1. End(b)' <= vmem_current'
      BY <1>12 DEF Layout
    <3>2. CASE b = c
      <4>1. \A d \in blocks : d <= c \/ n <= d
        <5> SUFFICES ASSUME NEW d \in blocks, c < d PROVE n <= d
          BY <1>6, <1>11
        <5>1. End(c) <= d
          BY <1>1, <1>5, Inside
        <5> QED
          BY <1>5, <1>6, <1>7, <1>11, <5>1
      <4>2. n # NULL /\ n <= n
        BY <1>5, <1>6, <1>7 DEF NULL
      <4> QED
        BY <1>5, <1>9, <3>1, <3>2, <4>1, <4>2
    <3>3. CASE b = n
      <4>1. CASE Next(c) = NULL
        <5>1. \A d \in blocks : d <= n
          <6> SUFFICES ASSUME NEW d \in blocks PROVE d <= n
            OBVIOUS
          <6>1. d <= c /\ d \in Nat
            BY <1>1, <1>5, <1>11, <4>1 DEF Linked
          <6> QED
            BY <1>5, <1>6, <1>7, <6>1
        <5> QED
          BY <1>5, <1>10, <3>1, <3>3, <4>1, <5>1
      <4>2. CASE Next(c) # NULL
        <5>1. /\ Next(c) \in blocks /\ End(c) <= Next(c)
              /\ \A d \in blocks : d <= c \/ Next(c) <= d
          BY <1>1, <1>5, <4>2, Successor
        <5>2. \A d \in blocks : d <= n \/ Next(c) <= d
          BY <1>5, <1>6, <1>7, <1>11, <5>1
        <5> QED
          BY <1>5, <1>10, <3>1, <3>3, <4>2, <5>1, <5>2
      <4> QED
        BY <4>1, <4>2
    <3>4. CASE b \in blocks /\ b # c
      <4>1. Next(b)' = Next(b) /\ End(b)' = End(b) /\ b \in Nat
            /\ (End(b) <= c \/ End(c) <= b) /\ End(b) \in Nat
        BY <1>8, <3>4
      <4>2. CASE Next(b) = NULL
        <5>1. \A d \in blocks : d <= b
          BY <1>1, <3>4, <4>2 DEF Linked
        <5>2. n <= b
          <6>1. c <= b /\ c # b
            BY <1>5, <3>4, <5>1
          <6>2. End(c) <= b
            BY <1>1, <1>5, <1>6, <3>4, <4>1, <6>1, Inside
          <6> QED
            BY <1>5, <1>6, <1>7, <4>1, <6>2
        <5> QED
          BY <1>5, <3>1, <4>1, <4>2, <5>1, <5>2
      <4>3. CASE Next(b) # NULL
        <5>1. /\ Next(b) \in blocks /\ End(b) <= Next(b)
              /\ \A d \in blocks : d <= b \/ Next(b) <= d
          BY <1>1, <3>4, <4>3, Successor
        <5>2. n <= b \/ Next(b) <= n
          <6>1. CASE Next(b) <= c
            <7>1. Next(b) \in Nat
              BY <1>11, <5>1
            <7> QED
              BY <1>5, <1>6, <1>7, <6>1, <7>1
          <6>2. CASE c <= b
            <7>1. End(c) <= b
              BY <1>1, <1>5, <1>6, <3>4, <4>1, <6>2, Inside
            <7> QED
              BY <1>5, <1>6, <1>7, <4>1, <7>1
          <6> QED
            BY <1>5, <5>1, <6>1, <6>2
        <5> QED
          BY <1>5, <3>1, <4>1, <4>3, <5>1, <5>2
      <4> QED
        BY <4>2, <4>3
    <3> QED
      BY <1>5, <3>2, <3>3, <3>4
  <2> QED
    BY <1>5, <2>1, <2>2, <2>3 DEF Linked
<1>14. Owned' /\ LiveSized'
  <2>1. {b \in blocks' : Free(b)' = 0} = {b \in blocks : Free(b) = 0} \cup {c}
    <3>1. Free(n)' # 0
      BY <1>10
    <3> QED
      BY <1>5, <1>8, <1>9, <3>1
  <2>2. \A b \in blocks : b # c => Size(b)' = Size(b)
    BY <1>8
  <2>3. RoundUp(arg) <= Size(c)'
    BY <1>3, <1>5, <1>9
  <2> QED
    BY <1>1, <1>5, <1>6, <2>1, <2>2, <2>3, Held
<1>15. Extents'
  <2>1. PICK E \in SUBSET Nat : ExtentEnds(E)
    BY DEF IInv, Heap, Extents
  <2>2. \A e \in E : e <= c \/ End(c) <= e
    BY <1>5, <2>1 DEF ExtentEnds
  <2>3. \A e \in E, b \in blocks' : e <= b \/ End(b)' <= e
    <3> SUFFICES ASSUME NEW e \in E, NEW b \in blocks' PROVE e <= b \/ End(b)' <= e
      OBVIOUS
    <3>1. CASE b = c \/ b = n
      BY <1>5, <1>6, <1>7, <1>9, <1>10, <2>2, <3>1
    <3>2. CASE b \in blocks /\ b # c
      BY <1>8, <2>1, <3>2 DEF ExtentEnds
    <3> QED
      BY <1>5, <3>1, <3>2
  <2>4. n \notin E
    BY <1>5, <1>6, <1>7, <2>2
  <2>5. \A b \in blocks : Capacity(b)' = Capacity(b)
    BY <1>8, <1>9
  <2>6. \A e \in E : e \in blocks' => e + 20 + Capacity(e)' \in E
    BY <1>5, <2>1, <2>4, <2>5 DEF ExtentEnds, HEADER
  <2>7. vmem_list # NULL => (vmem_list + HEADER + Capacity(vmem_list))' \in E
    <3>1. vmem_list # NULL => vmem_list \in blocks
      BY <1>1 DEF Linked
    <3>2. vmem_list # NULL => Capacity(vmem_list)' = Capacity(vmem_list)
      BY <1>5, <2>5, <3>1 DEF Capacity
    <3> QED
      BY <1>5, <2>1, <3>2 DEF ExtentEnds
  <2>8. ExtentEnds(E)'
    BY <1>5, <2>1, <2>3, <2>6, <2>7 DEF ExtentEnds, HEADER
  <2> QED
    BY <2>8 DEF Extents
<1>16. NoForged'
  <2> SUFFICES ASSUME NEW w \in Region
               PROVE  /\ w - 12 \in blocks' /\ Free(w - 12)' = 0 => mem'[w] = MAGIC_ALLOCATED
                      /\ mem'[w] = MAGIC_ALLOCATED =>
                           (w - 12 \in blocks' /\ Free(w - 12)' = 0) \/ w \in planted'
    BY DEF NoForged
  <2>1. w \in Nat
    BY RegionWord
  <2>2. \A x \in Nat : c < x /\ x < End(c) => x \notin blocks
    BY <1>1, <1>5, <1>6, Inside
  <2>3. CASE w \in {n, n + 8, n + 16}
    <3>1. w - 12 \notin blocks'
      <4>1. w - 12 \in Nat /\ c < w - 12 /\ w - 12 < End(c) /\ w - 12 # n
        BY <1>5, <1>6, <1>7, <2>3
      <4> QED
        BY <1>5, <2>2, <4>1
    <3>2. Size(c) - size - 20 # MAGIC_ALLOCATED /\ 1 # MAGIC_ALLOCATED
      BY <1>5, <1>6, Constants
    <3>3. Next(c) # MAGIC_ALLOCATED
      <4>1. Next(c) = NULL \/ Next(c) \in Region
        BY <1>1, <1>5, Successor, BlockFacts
      <4> QED
        BY <4>1, RegionWord, Constants DEF NULL
    <3> QED
      BY <1>5, <2>3, <3>1, <3>2, <3>3
  <2>4. CASE w \in {c, c + 8, c + 16}
    <3>1. w - 12 \notin blocks'
      <4>1. w # c + 12 /\ c <= w /\ w < c + 20 /\ w - 12 # n
        BY <1>5, <1>6, <1>7, <2>4
      <4> QED
        BY <1>1, <1>5, <2>1, <4>1, OneMagic
    <3>2. size # MAGIC_ALLOCATED /\ 0 # MAGIC_ALLOCATED /\ n # MAGIC_ALLOCATED
      BY <1>4, <1>5, <1>6, <1>7, Constants
    <3> QED
      BY <1>5, <2>4, <3>1, <3>2
  <2>5. CASE w = c + 12
    <3>1. w - 12 = c
      BY <1>6, <2>5
    <3> QED
      BY <1>5, <1>9, <2>5, <3>1
  <2>6. CASE w \notin {n, n + 8, n + 16, c, c + 8, c + 12, c + 16}
    <3>1. w - 12 # c
      BY <1>6, <2>1, <2>6
    <3>2. mem'[w] = mem[w]
      BY <1>5, <2>6
    <3>3. mem'[w] = MAGIC_ALLOCATED /\ w \in planted => w \in planted'
      BY <1>5, <2>6
    <3>4. CASE w - 12 = n
      <4>1. mem[w] = MAGIC_ALLOCATED => w \in planted
        BY <1>1, <1>5, <3>4 DEF NoForged
      <4>2. Free(n)' # 0
        BY <1>10
      <4> QED
        BY <3>2, <3>3, <3>4, <4>1, <4>2
    <3>5. CASE w - 12 # n
      BY <1>1, <1>5, <1>8, <3>1, <3>2, <3>3, <3>5 DEF NoForged
    <3> QED
      BY <3>4, <3>5
  <2> QED
    BY <2>3, <2>4, <2>5, <2>6
<1>17. Shape' /\ FramesTaken' /\ Scan'
  BY <1>1, <1>5 DEF IInv, Shape, FramesTaken, Scan, Halted
<1> QED
  BY <1>12, <1>13, <1>14, <1>15, <1>16, <1>17 DEF IInv, Heap

(* What the expansion writes: the header of block b at the end of the      *)
(* mapped part, behind every other block, and the link of the last block,  *)
(* if there is one.                                                        *)
LEMMA ExpandWrites ==
  ASSUME IInv, vmalloc_expand, ~Lost', NEW b, b = vmem_current, NEW size, size = RoundUp(arg),
         NEW new, new = NewEnd
  PROVE  /\ arg \in 1 .. Word - 1 /\ size \in Nat /\ size % 4 = 0
         /\ b \in Nat /\ b % 4 = 0 /\ b >= KVMEM_START
         /\ new \in Nat /\ new % PAGE_SIZE = 0 /\ b + 20 + size <= new /\ new <= KVMEM_END
         /\ \A d \in blocks : d \in Nat /\ d + 20 <= End(d) /\ End(d) \in Nat /\ End(d) <= b
         /\ prev # NULL => prev \in blocks /\ \A d \in blocks : d <= prev
         /\ prev = NULL => blocks = {}
         /\ mem' \in [Region -> Nat]
         /\ mem'[b] = size /\ mem'[b + 4] = new - b - 20 /\ mem'[b + 8] = 0
         /\ mem'[b + 12] = MAGIC_ALLOCATED /\ mem'[b + 16] = NULL
         /\ prev # NULL => mem'[prev + 16] = b
         /\ \A w \in Region : w \notin {b, b + 4, b + 8, b + 12, b + 16}
              /\ (prev # NULL => w # prev + 16) => mem'[w] = mem[w]
         /\ vmem_list' = IF prev = NULL THEN b ELSE vmem_list
         /\ vmem_current' = new /\ blocks' = blocks \cup {b} /\ Hold(b + 20)
         /\ planted' = planted \ {b, b + 4, b + 8, b + 12, b + 16}
         /\ pc = "scan" /\ pc' = "idle" /\ arg' = 0
         /\ frames' \in Nat /\ FramesTaken'
<1>1. Shape /\ Layout /\ Linked /\ mem \in [Region -> Nat]
  BY DEF IInv, Heap, Shape
<1>2. PICK k : k = PagesFor(size)
  OBVIOUS
<1>3. PICK m : m = [mem EXCEPT ![b]      = size,
                               ![b + 4]  = (k * PAGE_SIZE - 20) % Word,
                               ![b + 8]  = 0,
                               ![b + 12] = MAGIC_ALLOCATED,
                               ![b + 16] = NULL]
  OBVIOUS
<1>4. /\ pc = "scan" /\ cur = NULL /\ new <= KVMEM_END
      /\ frames >= Mapped /\ frames' = frames - Mapped
      /\ mem' = IF prev = NULL THEN m ELSE [m EXCEPT ![prev + 16] = b]
      /\ vmem_list' = IF prev = NULL THEN b ELSE vmem_list
      /\ vmem_current' = new /\ blocks' = blocks \cup {b} /\ Hold(b + 20)
      /\ planted' = planted \ {b, b + 4, b + 8, b + 12, b + 16}
      /\ b + 20 + size <= new /\ pc' = "idle" /\ arg' = 0
  BY <1>2, <1>3 DEF vmalloc_expand, HEADER, Lost
<1>5. /\ arg \in 1 .. Word - 1 /\ prev \in blocks \cup {NULL}
      /\ NULL = IF prev = NULL THEN vmem_list ELSE Next(prev)
  BY <1>4 DEF IInv, Scan
<1>6. size \in Nat /\ size % 4 = 0
  BY <1>5, RoundUpFacts
<1>7. b \in Nat /\ b % PAGE_SIZE = 0 /\ b >= KVMEM_START /\ b % 4 = 0
  BY <1>1, PageWord, Constants DEF Shape
<1>8. k \in Nat /\ k * PAGE_SIZE \in Nat /\ k * PAGE_SIZE < Word
  BY <1>2, <1>6, PagesForFacts
<1>9. frames \in Nat /\ (Frames - frames) * PAGE_SIZE = b - KVMEM_START
  BY <1>1, <1>4 DEF IInv, FramesTaken, Shape, Halted
<1>10. b < Word
  <2>1. PICK p \in Nat, F \in Nat, f \in Nat : p = PAGE_SIZE /\ F = Frames /\ f = frames
    BY <1>9, Constants
  <2>2. (F - f) * p = F * p - f * p /\ f * p \in Nat /\ F * p \in Nat
    BY <2>1
  <2>3. KVMEM_START \in Nat /\ KVMEM_START + F * p < Word /\ F * p - f * p = b - KVMEM_START
    BY <1>9, <2>1, <2>2, Constants
  <2>4. PICK x \in Nat, y \in Nat : x = F * p /\ y = f * p
    BY <2>2
  <2> QED
    BY <1>7, <2>3, <2>4, Constants
<1>11. new = b + k * PAGE_SIZE
  <2>1. PICK d \in Nat : d = k * PAGE_SIZE /\ d < Word
    BY <1>8
  <2>2. new = (b + d) % Word
    BY <1>2, <2>1 DEF NewEnd
  <2>3. b + d \in Nat /\ (b + d) % Word \in Nat
    BY <1>7, <2>1, Constants
  <2>4. b <= (b + d) % Word
    BY <1>4, <1>6, <1>7, <2>2, <2>3
  <2> QED
    BY <1>7, <1>10, <2>1, <2>2, <2>4, NoWrap, Constants
<1>12. /\ new \in Nat /\ b + 20 + size <= new /\ (k * PAGE_SIZE - 20) % Word = new - b - 20
       /\ new - b - 20 \in Nat
  <2>1. PICK d \in Nat : d = k * PAGE_SIZE /\ d < Word
    BY <1>8
  <2>2. new = b + d /\ d >= 20
    BY <1>4, <1>6, <1>7, <1>11, <2>1
  <2>3. d - 20 \in Nat /\ d - 20 < Word
    BY <2>1, <2>2, Constants
  <2>4. (d - 20) % Word = d - 20
    BY <2>3, Constants
  <2> QED
    BY <1>4, <1>7, <2>1, <2>2, <2>3, <2>4
<1>13. Mapped = k
  <2>1. new - b = k * PAGE_SIZE /\ new > b
    <3>1. PICK d \in Nat : d = k * PAGE_SIZE
      BY <1>8
    <3>2. new = b + d /\ new > b
      BY <1>6, <1>7, <1>11, <1>12, <3>1
    <3> QED
      BY <1>7, <3>1, <3>2
  <2>2. Mapped = (k * PAGE_SIZE) \div PAGE_SIZE
    BY <2>1 DEF Mapped
  <2> QED
    BY <1>8, <2>2, PagesBetween
<1>14. new % PAGE_SIZE = 0
  BY <1>7, <1>8, <1>11, PageMultiple
<1>15. \A d \in blocks : d \in Nat /\ d + 20 <= End(d) /\ End(d) \in Nat /\ End(d) <= b
  BY <1>1, BlockFacts
<1>16. prev # NULL => prev \in blocks /\ \A d \in blocks : d <= prev
  BY <1>1, <1>5 DEF Linked
<1>17. prev = NULL => blocks = {}
  BY <1>1, <1>5 DEF Linked
<1>18. /\ b \in Region /\ b + 4 \in Region /\ b + 8 \in Region /\ b + 12 \in Region
       /\ b + 16 \in Region
  BY <1>4, <1>6, <1>7, <1>12, RegionWord, Constants
<1>19. MAGIC_ALLOCATED \in Nat /\ NULL \in Nat /\ 0 \in Nat
  BY Constants DEF NULL
<1>20. /\ b # b + 4 /\ b # b + 8 /\ b # b + 12 /\ b # b + 16 /\ b + 4 # b + 8
       /\ b + 4 # b + 12 /\ b + 4 # b + 16 /\ b + 8 # b + 12 /\ b + 8 # b + 16
       /\ b + 12 # b + 16
  BY <1>7
<1>21. /\ m \in [Region -> Nat]
       /\ \A w \in Region : w \notin {b, b + 4, b + 8, b + 12, b + 16} => m[w] = mem[w]
  BY <1>1, <1>3, <1>6, <1>12, <1>18, <1>19
<1>22. /\ m[b] = size /\ m[b + 4] = new - b - 20 /\ m[b + 8] = 0
       /\ m[b + 12] = MAGIC_ALLOCATED /\ m[b + 16] = NULL
  BY <1>1, <1>3, <1>12, <1>18, <1>20
<1>23. prev # NULL => /\ prev + 16 \in Region
                      /\ prev + 16 \notin {b, b + 4, b + 8, b + 12, b + 16}
  <2>1. prev # NULL => prev + 16 \in Region
    BY <1>1, <1>16, BlockFacts
  <2> QED
    BY <1>7, <1>15, <1>16, <2>1
<1>24. /\ mem' \in [Region -> Nat]
       /\ mem'[b] = size /\ mem'[b + 4] = new - b - 20 /\ mem'[b + 8] = 0
       /\ mem'[b + 12] = MAGIC_ALLOCATED /\ mem'[b + 16] = NULL
       /\ prev # NULL => mem'[prev + 16] = b
       /\ \A w \in Region : w \notin {b, b + 4, b + 8, b + 12, b + 16}
              /\ (prev # NULL => w # prev + 16) => mem'[w] = mem[w]
  <2>1. CASE prev = NULL
    <3>1. mem' = m
      BY <1>4, <2>1
    <3> QED
      BY <1>21, <1>22, <2>1, <3>1
  <2>2. CASE prev # NULL
    <3>1. mem' = [m EXCEPT ![prev + 16] = b]
      BY <1>4, <2>2
    <3> QED
      BY <1>7, <1>18, <1>21, <1>22, <1>23, <2>2, <3>1
  <2> QED
    BY <2>1, <2>2
<1>25. frames' \in Nat /\ FramesTaken'
  <2>1. PAGE_SIZE \in Nat /\ Frames \in Nat
    BY Constants
  <2>2. frames >= k /\ frames' = frames - k
    BY <1>4, <1>13
  <2>3. (Frames - (frames - k)) * PAGE_SIZE = (Frames - frames) * PAGE_SIZE + k * PAGE_SIZE
    BY <1>8, <1>9, <2>1
  <2>4. frames' \in Nat
    BY <1>8, <1>9, <2>2
  <2>5. (Frames - frames') * PAGE_SIZE = new - KVMEM_START
    BY <1>7, <1>8, <1>11, <1>9, <2>2, <2>3, Constants
  <2> QED
    BY <1>4, <2>4, <2>5 DEF FramesTaken
<1> QED
  BY <1>4, <1>5, <1>6, <1>7, <1>12, <1>14, <1>15, <1>16, <1>17, <1>24, <1>25

LEMMA vmalloc_expandIInv ==
  ASSUME IInv, vmalloc_expand, ~Lost'
  PROVE  IInv'
<1>1. Shape /\ Layout /\ Linked /\ Owned /\ LiveSized /\ NoForged
  BY DEF IInv, Heap
<1>2. PICK b : b = vmem_current
  OBVIOUS
<1>3. PICK size : size = RoundUp(arg)
  OBVIOUS
<1>4. PICK new : new = NewEnd
  OBVIOUS
<1>5. /\ arg \in 1 .. Word - 1 /\ size \in Nat /\ size % 4 = 0
      /\ b \in Nat /\ b % 4 = 0 /\ b >= KVMEM_START
      /\ new \in Nat /\ new % PAGE_SIZE = 0 /\ b + 20 + size <= new /\ new <= KVMEM_END
      /\ \A d \in blocks : d \in Nat /\ d + 20 <= End(d) /\ End(d) \in Nat /\ End(d) <= b
      /\ prev # NULL => prev \in blocks /\ \A d \in blocks : d <= prev
      /\ prev = NULL => blocks = {}
      /\ mem' \in [Region -> Nat]
      /\ mem'[b] = size /\ mem'[b + 4] = new - b - 20 /\ mem'[b + 8] = 0
      /\ mem'[b + 12] = MAGIC_ALLOCATED /\ mem'[b + 16] = NULL
      /\ prev # NULL => mem'[prev + 16] = b
      /\ \A w \in Region : w \notin {b, b + 4, b + 8, b + 12, b + 16}
           /\ (prev # NULL => w # prev + 16) => mem'[w] = mem[w]
      /\ vmem_list' = IF prev = NULL THEN b ELSE vmem_list
      /\ vmem_current' = new /\ blocks' = blocks \cup {b} /\ Hold(b + 20)
      /\ planted' = planted \ {b, b + 4, b + 8, b + 12, b + 16}
      /\ pc = "scan" /\ pc' = "idle" /\ arg' = 0
      /\ frames' \in Nat /\ FramesTaken'
  BY <1>2, <1>3, <1>4, ExpandWrites
<1>6. b \notin blocks /\ b # NULL
  BY <1>5, Constants DEF NULL
<1>7. ASSUME NEW d \in blocks
      PROVE  /\ Size(d)' = Size(d) /\ Capacity(d)' = Capacity(d) /\ Free(d)' = Free(d)
             /\ End(d)' = End(d) /\ (d # prev => Next(d)' = Next(d))
             /\ (d = prev => Next(d)' = b)
  <2>1. /\ d \in Nat /\ d + 20 <= End(d) /\ End(d) \in Nat /\ End(d) <= b
        /\ d \in Region /\ d + 4 \in Region /\ d + 8 \in Region /\ d + 16 \in Region
        /\ d # NULL
    BY <1>1, <1>5, BlockFacts
  <2>2. prev # NULL => /\ prev \in Nat /\ prev \in blocks
                       /\ prev + 20 <= End(prev) /\ End(prev) \in Nat
    BY <1>5
  <2>3. prev # NULL /\ prev # d => End(prev) <= d \/ End(d) <= prev
    BY <1>1, <2>2, Apart
  <2>4. prev # NULL => d # prev + 16 /\ d + 4 # prev + 16 /\ d + 8 # prev + 16
    BY <2>1, <2>2, <2>3
  <2>5. prev # NULL /\ prev # d => d + 16 # prev + 16
    BY <2>1, <2>2
  <2>6. \A x \in {d, d + 4, d + 8, d + 16} : x \notin {b, b + 4, b + 8, b + 12, b + 16}
    BY <1>5, <2>1
  <2>7. mem'[d] = mem[d] /\ mem'[d + 4] = mem[d + 4] /\ mem'[d + 8] = mem[d + 8]
    BY <1>5, <2>1, <2>4, <2>6
  <2>8. (d # prev => mem'[d + 16] = mem[d + 16]) /\ (d = prev => mem'[d + 16] = b)
    BY <1>5, <2>1, <2>5, <2>6
  <2> QED
    BY <2>7, <2>8 DEF Size, Capacity, Free, End, Next
<1>8. /\ Size(b)' = size /\ Capacity(b)' = new - b - 20 /\ Free(b)' = 0 /\ Next(b)' = NULL
      /\ End(b)' = b + 20 + size
  BY <1>5 DEF Size, Capacity, Free, Next, End, HEADER
<1>9. Layout'
  <2>1. ASSUME NEW d \in blocks'
        PROVE  /\ d \in Region /\ Size(d)' % 4 = 0
               /\ End(d)' <= vmem_current' /\ End(d)' <= KVMEM_END
    <3>1. CASE d = b
      <4>1. b \in Region
        BY <1>5, RegionWord, Constants
      <4> QED
        BY <1>5, <1>8, <3>1, <4>1, Constants
    <3>2. CASE d \in blocks
      <4>1. End(d) <= new
        BY <1>5, <3>2
      <4> QED
        BY <1>1, <1>5, <1>7, <3>2, <4>1 DEF Layout
    <3> QED
      BY <1>5, <3>1, <3>2
  <2>2. ASSUME NEW d \in blocks', NEW e \in blocks', d < e
        PROVE  End(d)' <= e
    <3>1. CASE d = b
      <4>1. e \notin blocks /\ e # b
        BY <1>5, <2>2, <3>1
      <4> QED
        BY <1>5, <4>1
    <3>2. CASE d \in blocks
      BY <1>1, <1>5, <1>7, <2>2, <3>2 DEF Layout
    <3> QED
      BY <1>5, <3>1, <3>2
  <2> QED
    BY <2>1, <2>2 DEF Layout
<1>10. vmem_list' # NULL /\ vmem_list' \in blocks' /\ \A d \in blocks' : vmem_list' <= d
  <2>1. CASE prev = NULL
    BY <1>5, <1>6, <2>1
  <2>2. CASE prev # NULL
    <3>1. vmem_list # NULL /\ vmem_list \in blocks /\ \A d \in blocks : vmem_list <= d
      BY <1>1, <1>5, <2>2 DEF Linked
    <3>2. vmem_list <= b
      BY <1>5, <3>1
    <3> QED
      BY <1>5, <2>2, <3>1, <3>2
  <2> QED
    BY <2>1, <2>2
<1>11. Linked'
  <2>1. ASSUME NEW d \in blocks'
        PROVE  /\ End(d)' <= vmem_current'
               /\ IF Next(d)' = NULL THEN \A e \in blocks' : e <= d
                  ELSE /\ Next(d)' \in blocks' /\ End(d)' <= Next(d)'
                       /\ \A e \in blocks' : e <= d \/ Next(d)' <= e
    <3>1. End(d)' <= vmem_current'
      BY <1>9 DEF Layout
    <3>2. CASE d = b
      <4>1. \A e \in blocks' : e <= b
        BY <1>5
      <4> QED
        BY <1>8, <3>1, <3>2, <4>1
    <3>3. CASE d \in blocks /\ d = prev
      <4>1. Next(d)' = b /\ b \in blocks' /\ End(d)' <= b /\ \A e \in blocks : e <= d
        BY <1>1, <1>5, <1>7, <3>3, BlockFacts
      <4>2. \A e \in blocks' : e <= d \/ b <= e
        BY <1>5, <4>1
      <4> QED
        BY <1>6, <3>1, <4>1, <4>2
    <3>4. CASE d \in blocks /\ d # prev
      <4>1. /\ Next(d)' = Next(d) /\ End(d)' = End(d) /\ prev # NULL /\ prev \in blocks
            /\ d <= prev /\ d \in Nat /\ prev \in Nat /\ Next(d) \in Nat
        BY <1>1, <1>5, <1>7, <3>4, BlockFacts
      <4>2. Next(d) # NULL
        <5> SUFFICES ASSUME Next(d) = NULL PROVE FALSE
          OBVIOUS
        <5>1. prev <= d
          BY <1>1, <3>4, <4>1 DEF Linked
        <5> QED
          BY <3>4, <4>1, <5>1
      <4>3. /\ Next(d) \in blocks /\ End(d) <= Next(d)
            /\ \A e \in blocks : e <= d \/ Next(d) <= e
        BY <1>1, <3>4, <4>2, Successor
      <4>4. Next(d) <= b
        BY <1>5, <4>3
      <4> QED
        BY <1>5, <3>1, <4>1, <4>2, <4>3, <4>4
    <3> QED
      BY <1>5, <3>2, <3>3, <3>4
  <2>2. blocks' # {}
    BY <1>5
  <2> QED
    BY <1>10, <2>1, <2>2 DEF Linked
<1>12. Owned' /\ LiveSized'
  <2>1. {d \in blocks' : Free(d)' = 0} = {d \in blocks : Free(d) = 0} \cup {b}
    BY <1>5, <1>7, <1>8
  <2>2. \A d \in blocks : d # b => Size(d)' = Size(d)
    BY <1>7
  <2>3. RoundUp(arg) <= Size(b)'
    BY <1>3, <1>5, <1>8
  <2> QED
    BY <1>1, <1>5, <2>1, <2>2, <2>3, Held
<1>13. Extents'
  <2>1. PICK E \in SUBSET Nat : ExtentEnds(E)
    BY DEF IInv, Heap, Extents
  <2> DEFINE F == E \cup {new}
  <2>2. F \in SUBSET Nat
    BY <1>5
  <2>3. \A e \in F : e % PAGE_SIZE = 0 /\ e <= vmem_current' /\ e <= KVMEM_END
    <3>1. \A e \in E : e \in Nat /\ e % PAGE_SIZE = 0 /\ e <= b /\ e <= KVMEM_END
      BY <1>2, <2>1 DEF ExtentEnds
    <3> QED
      BY <1>5, <3>1
  <2>4. \A e \in F, d \in blocks' : e <= d \/ End(d)' <= e
    <3> SUFFICES ASSUME NEW e \in F, NEW d \in blocks' PROVE e <= d \/ End(d)' <= e
      OBVIOUS
    <3>1. CASE e \in E /\ d = b
      BY <1>2, <2>1, <3>1 DEF ExtentEnds
    <3>2. CASE e \in E /\ d \in blocks
      BY <1>7, <2>1, <3>2 DEF ExtentEnds
    <3>3. CASE e = new /\ d = b
      BY <1>5, <1>8, <3>3
    <3>4. CASE e = new /\ d \in blocks
      <4>1. End(d)' = End(d) /\ End(d) \in Nat /\ End(d) <= b
        BY <1>5, <1>7, <3>4
      <4> QED
        BY <1>5, <3>4, <4>1
    <3> QED
      BY <1>5, <3>1, <3>2, <3>3, <3>4
  <2>5. b + 20 + (new - b - 20) = new
    BY <1>5
  <2>6. \A e \in F : e \in blocks' => e + 20 + Capacity(e)' \in F
    <3> SUFFICES ASSUME NEW e \in F, e \in blocks' PROVE e + 20 + Capacity(e)' \in F
      OBVIOUS
    <3>1. CASE e = b
      BY <1>8, <2>5, <3>1
    <3>2. CASE e \in E /\ e \in blocks
      BY <1>7, <2>1, <3>2 DEF ExtentEnds, HEADER
    <3>3. new \notin blocks'
      BY <1>5
    <3> QED
      BY <1>5, <3>1, <3>2, <3>3
  <2>7. (vmem_list + HEADER + Capacity(vmem_list))' \in F
    <3>1. CASE prev = NULL
      <4>1. vmem_list' = b /\ Capacity(b)' = new - b - 20
        BY <1>5, <1>8, <3>1
      <4>2. (vmem_list + HEADER + Capacity(vmem_list))' = b + 20 + (new - b - 20)
        BY <4>1 DEF Capacity, HEADER
      <4> QED
        BY <2>5, <4>2
    <3>2. CASE prev # NULL
      <4>1. vmem_list' = vmem_list /\ vmem_list \in blocks /\ vmem_list # NULL
        BY <1>1, <1>5, <3>2 DEF Linked
      <4>2. Capacity(vmem_list)' = Capacity(vmem_list)
        BY <1>7, <4>1 DEF Capacity
      <4> QED
        BY <2>1, <4>1, <4>2 DEF ExtentEnds
    <3> QED
      BY <3>1, <3>2
  <2> HIDE DEF F
  <2>8. ExtentEnds(F)'
    BY <2>3, <2>4, <2>6, <2>7 DEF ExtentEnds, HEADER
  <2> QED
    BY <2>2, <2>8 DEF Extents
<1>14. NoForged'
  <2> SUFFICES ASSUME NEW w \in Region
               PROVE  /\ w - 12 \in blocks' /\ Free(w - 12)' = 0 => mem'[w] = MAGIC_ALLOCATED
                      /\ mem'[w] = MAGIC_ALLOCATED =>
                           (w - 12 \in blocks' /\ Free(w - 12)' = 0) \/ w \in planted'
    BY DEF NoForged
  <2>1. w \in Nat
    BY RegionWord
  <2>2. CASE w \in {b, b + 4, b + 8, b + 16}
    <3>1. w - 12 \notin blocks'
      <4>1. w - 12 \in Int /\ w - 12 > b - 20 /\ w - 12 # b
        BY <1>5, <2>2
      <4> QED
        BY <1>5, <4>1
    <3>2. /\ size # MAGIC_ALLOCATED /\ new - b - 20 # MAGIC_ALLOCATED
          /\ 0 # MAGIC_ALLOCATED /\ NULL # MAGIC_ALLOCATED
      BY <1>5, Constants DEF NULL
    <3> QED
      BY <1>5, <2>2, <3>1, <3>2
  <2>3. CASE w = b + 12
    <3>1. w - 12 = b
      BY <1>5, <2>3
    <3> QED
      BY <1>5, <1>8, <2>3, <3>1
  <2>4. CASE prev # NULL /\ w = prev + 16
    <3>1. prev \in blocks /\ prev \in Nat /\ prev + 20 <= End(prev) /\ End(prev) <= b
          /\ End(prev) \in Nat
      BY <1>5, <2>4
    <3>2. w - 12 \notin blocks'
      <4>1. w # prev + 12 /\ prev <= w /\ w < prev + 20 /\ w - 12 # b
        BY <1>5, <2>1, <2>4, <3>1
      <4> QED
        BY <1>1, <1>5, <2>1, <3>1, <4>1, OneMagic
    <3>3. b # MAGIC_ALLOCATED
      BY <1>5, Constants
    <3> QED
      BY <1>5, <2>4, <3>2, <3>3
  <2>5. CASE w \notin {b, b + 4, b + 8, b + 12, b + 16} /\ (prev # NULL => w # prev + 16)
    <3>1. w - 12 # b
      BY <1>5, <2>1, <2>5
    <3>2. mem'[w] = mem[w] /\ (w \in planted => w \in planted')
      BY <1>5, <2>5
    <3> QED
      BY <1>1, <1>5, <1>7, <3>1, <3>2 DEF NoForged
  <2> QED
    BY <2>2, <2>3, <2>4, <2>5
<1>15. Shape' /\ Scan'
  BY <1>1, <1>5, Constants DEF Shape, Scan
<1> QED
  BY <1>5, <1>9, <1>11, <1>12, <1>13, <1>14, <1>15 DEF IInv, Heap

----------------------------------------------------------------------------
(***************************************************************************)
(* The theorems.                                                           *)
(***************************************************************************)
LEMMA NextIInv ==
  ASSUME IInv, [Calls]_vars, ~Lost'
  PROVE  IInv'
<1>1. arg \in Nat
  BY DEF IInv, Shape
<1>2. ASSUME NEW n \in 1 .. Word - 1, vmalloc(n) PROVE IInv'
  BY <1>2, vmallocIInv
<1>3. ASSUME NEW ptr \in AllPointers, vfree(ptr) \/ kfree(ptr) PROVE IInv'
  BY <1>3, vfreeIInv, kfreeIInv
<1>4. ASSUME NEW ptr \in AllPointers, vfree_fail(ptr) PROVE IInv'
  BY <1>1, <1>4, StopIInv DEF vfree_fail, Panic, loop, Halted
<1>5. CASE vfree_foreign
  BY <1>5, vfree_foreignIInv
<1>6. ASSUME NEW new_brk \in 0 .. Word - 1, vbrk(new_brk) PROVE IInv'
  <2>1. new_brk \in Nat
    BY Constants
  <2> QED
    BY <1>6, <2>1, StopIInv DEF vbrk, Halted
<1>7. ASSUME NEW ptr \in AllPointers, NEW v \in Nat \ {MAGIC_ALLOCATED}, cmd_write(ptr, v)
      PROVE  IInv'
  BY <1>7, cmd_writeIInv
<1>8. ASSUME NEW ptr \in DOMAIN live, NEW v \in Nat, store(ptr, v) PROVE IInv'
  BY <1>8, storeIInv
<1>9. CASE vmalloc_next \/ vmalloc_split \/ vmalloc_reuse \/ vmalloc_expand
  BY <1>9, vmalloc_nextIInv, vmalloc_splitIInv, vmalloc_reuseIInv, vmalloc_expandIInv
<1>10. CASE vmalloc_fail
  <2>1. CASE Panic("panic_region")
    BY <1>1, <1>10, <2>1, StopIInv DEF vmalloc_fail, Panic, loop, Halted
  <2>2. CASE /\ pc' = "panic_oom" /\ frames' = 0
             /\ UNCHANGED <<mem, vmem_current, vmem_list, blocks, live, planted, loop>>
    BY <2>2, OutOfFramesIInv
  <2> QED
    BY <1>10, <2>1, <2>2 DEF vmalloc_fail
<1>11. CASE vbrk_fail
  BY <1>1, <1>11, StopIInv DEF vbrk_fail, Panic, loop, Halted
<1>12. CASE vbrk_page
  BY <1>12, vbrk_pageIInv
<1>13. CASE vbrk_return
  BY <1>13, StopIInv DEF vbrk_return, Return, Halted
<1>14. CASE kpanic_fatal \/ lost \/ UNCHANGED vars
  <2>1. UNCHANGED vars
    BY <1>14 DEF kpanic_fatal, lost
  <2>2. Scan' /\ (Halted => Halted')
    BY <2>1 DEF IInv, Scan, vars, Next, Halted
  <2> QED
    BY <1>1, <2>1, <2>2, Quiet DEF vars
<1> QED
  BY <1>2, <1>3, <1>4, <1>5, <1>6, <1>7, <1>8, <1>9, <1>10, <1>11, <1>12, <1>13, <1>14
     DEF Calls, Step

LEMMA LostStays ==
  ASSUME Lost, [Calls]_vars
  PROVE  UNCHANGED vars
BY DEF Lost, Calls, Step, vmalloc, vfree, vfree_fail, kfree, vfree_foreign, vbrk, cmd_write,
       store, vmalloc_next, vmalloc_split, vmalloc_reuse, vmalloc_expand, vmalloc_fail,
       vbrk_page, vbrk_fail, vbrk_return, kpanic_fatal, Halted, lost

LEMMA SafeStep ==
  ASSUME Safe, [Calls]_vars
  PROVE  Safe'
<1>1. CASE Lost
  BY <1>1, LostStays DEF Safe, Lost, vars
<1>2. CASE ~Lost
  BY <1>2, NextIInv DEF Safe
<1> QED
  BY <1>1, <1>2

(* The inductive invariant holds in every state that calls of vmalloc,     *)
(* vfree and vbrk with any arguments and stores of any values in payloads  *)
(* can reach, until a pointer that was never handed out is freed, a sum    *)
(* that wraps gives a block more than its pages, or a block of no bytes is *)
(* written to.                                                             *)
THEOREM Invariance == CallSpec => []Safe
<1>1. Init => Safe
  BY InitIInv DEF Safe
<1>2. Safe /\ [Calls]_vars => Safe'
  BY SafeStep
<1> QED
  BY <1>1, <1>2, PTL DEF CallSpec

(* The list that vmalloc searches visits every block once, in the order of *)
(* their addresses, and no two of them share a byte, after any sequence of *)
(* splits, merges, expansions and calls of vbrk.                           *)
THEOREM ListCorrect == CallSpec => []ListSound
<1>1. Safe => ListSound
  BY DEF Safe, IInv, Heap, ListSound
<1> QED
  BY <1>1, Invariance, PTL

(* The blocks marked in use are those of the pointers that vmalloc gave    *)
(* out and that were not freed: the merge never drops one of them.         *)
THEOREM OwnersExact == CallSpec => []LiveExact
<1>1. Safe => LiveExact
  BY DEF Safe, IInv, Heap, LiveExact
<1> QED
  BY <1>1, Invariance, PTL

(* The magic in front of a pointer.                                        *)
LEMMA MagicMeans ==
  ASSUME IInv, NEW ptr \in AllPointers
  PROVE  /\ ptr \in DOMAIN live => Magic(ptr - HEADER) = MAGIC_ALLOCATED
         /\ Magic(ptr - HEADER) = MAGIC_ALLOCATED => ptr \in DOMAIN live \/ ptr - 8 \in planted
<1>1. Shape /\ Layout /\ Owned /\ NoForged
  BY DEF IInv, Heap
<1>2. /\ ptr \in Nat /\ ptr - HEADER \in Nat /\ ptr = (ptr - HEADER) + 20
      /\ ptr - 8 \in Region /\ ptr - 8 = (ptr - HEADER) + 12
  BY PointerFacts
<1>3. (ptr - 8) - 12 = ptr - HEADER
  BY <1>2
<1>4. ASSUME Magic(ptr - HEADER) = MAGIC_ALLOCATED, ptr - 8 \notin planted
      PROVE  ptr \in DOMAIN live
  <2>1. mem[ptr - 8] = MAGIC_ALLOCATED
    BY <1>2, <1>4 DEF Magic
  <2>2. ptr - HEADER \in blocks /\ Free(ptr - HEADER) = 0
    BY <1>1, <1>2, <1>3, <1>4, <2>1 DEF NoForged
  <2> QED
    BY <1>1, <1>2, <2>2 DEF Owned, HEADER
<1> QED
  BY <1>4, LivePayload

(* vfree takes every live pointer, and no other pointer into the region    *)
(* unless the value of the magic was put in front of it by a store or was  *)
(* in the frame before.                                                    *)
THEOREM FreesDetected == CallSpec => []FreeDetection
<1>1. Pointers \subseteq AllPointers
  BY VMemAssumption DEF AllPointers
<1>2. Safe => FreeDetection
  BY <1>1, MagicMeans DEF Safe, FreeDetection
<1> QED
  BY <1>2, Invariance, PTL

(* The merge of vfree compares and adds capacities that vmalloc wrote: it  *)
(* never reads the one that a split leaves as the frame was found.         *)
THEOREM CapacityCorrect == CallSpec => []CapacityInitialised
<1>1. Safe => CapacityInitialised
  BY DEF Safe, IInv, Heap, Extents, ExtentEnds, CapacityInitialised
<1> QED
  BY <1>1, Invariance, PTL

(* A page frame is taken for every page that the region grows by, by       *)
(* vmalloc and by vbrk, and for no other page.                             *)
THEOREM FramesCorrect == CallSpec => []OneFramePerPage
<1>1. Safe => OneFramePerPage
  BY DEF Safe, IInv, FramesTaken, OneFramePerPage
<1> QED
  BY <1>1, Invariance, PTL

----------------------------------------------------------------------------
(***************************************************************************)
(* The refinement: a vmalloc that takes or makes a block is an allocation, *)
(* a free of a live pointer is a release, and all other steps but the      *)
(* panics are stuttering steps.                                            *)
(***************************************************************************)
LEMMA AllocRefines ==
  ASSUME IInv, arg \in 1 .. Word - 1, NEW c \in Nat, NEW e \in Nat, Hold(c + 20),
         KVMEM_START <= c, c % 4 = 0, c + 20 + RoundUp(arg) <= e, e <= KVMEM_END,
         \A b \in blocks : Free(b) = 0 => b # c /\ (End(b) <= c \/ e <= b),
         pc = "scan", pc' = "idle"
  PROVE  Abstract!Next
<1>1. Shape /\ Layout /\ Owned /\ LiveSized
  BY DEF IInv, Heap
<1>2. PICK n \in Nat : n = RoundUp(arg) /\ n % 8 = 0
  BY RoundUpFacts
<1>3. PICK p \in Nat : p = c + 20
  OBVIOUS
<1>4. ASSUME NEW q \in DOMAIN live
      PROVE  Abstract!Disjoint(p, n, q, RoundUp(live[q])) /\ q # p
  <2>1. q \in Nat /\ q - 20 \in blocks /\ Free(q - 20) = 0 /\ q = (q - 20) + 20
    BY <1>1, LiveBlock
  <2>2. PICK b \in blocks : b = q - 20
    BY <2>1
  <2>3. b \in Nat /\ End(b) = b + 20 + Size(b) /\ Size(b) \in Nat
    BY <1>1, BlockFacts
  <2>4. b # c /\ (End(b) <= c \/ e <= b)
    BY <2>1, <2>2
  <2>5. RoundUp(live[q]) <= Size(b) /\ RoundUp(live[q]) \in Nat
    BY <1>1, <2>2, RoundUpFacts DEF LiveSized, HEADER
  <2> QED
    BY <1>2, <1>3, <2>1, <2>2, <2>3, <2>4, <2>5 DEF Abstract!Disjoint
<1>5. live' = [q \in DOMAIN live \cup {p} |-> IF q = p THEN arg ELSE live[q]]
  BY <1>3 DEF Hold
<1>6. Granted' = [q \in DOMAIN live \cup {p} |-> IF q = p THEN n ELSE Granted[q]]
  BY <1>2, <1>4, <1>5 DEF Granted, RoundUp
<1>7. DOMAIN Granted = DOMAIN live /\ \A q \in DOMAIN live : Granted[q] = RoundUp(live[q])
  BY DEF Granted
<1>8. Halted = FALSE /\ Halted' = FALSE
  BY DEF Halted
<1>9. /\ KVMEM_START <= p /\ p <= KVMEM_END /\ p + n <= KVMEM_END + 1 /\ p % 4 = 0
      /\ n <= KVMEM_END - KVMEM_START
  BY <1>2, <1>3, Constants
<1>10. p \in Region /\ n \in {k \in 0 .. KVMEM_END - KVMEM_START : k % 8 = 0}
  BY <1>2, <1>9, RegionWord, Constants
<1>11. Abstract!Alloc(p, n)
  BY <1>4, <1>6, <1>7, <1>8, <1>9, <1>10 DEF Abstract!Alloc
<1>12. p \in DOMAIN Granted' /\ Granted'[p] = n
  BY <1>6
<1> QED
  BY <1>11, <1>12 DEF Abstract!Next

LEMMA TakesRefine ==
  ASSUME IInv, vmalloc_split \/ vmalloc_reuse
  PROVE  Abstract!Next
<1>1. Shape /\ Layout
  BY DEF IInv, Heap
<1>2. PICK c : c = cur
  OBVIOUS
<1>3. /\ c \in blocks /\ arg \in 1 .. Word - 1 /\ Free(c) # 0 /\ Size(c) >= RoundUp(arg)
      /\ Hold(c + 20) /\ pc = "scan" /\ pc' = "idle"
  BY <1>2 DEF vmalloc_split, vmalloc_reuse, Fits, Return, IInv, Scan, HEADER
<1>4. /\ c \in Nat /\ KVMEM_START <= c /\ End(c) = c + 20 + Size(c) /\ End(c) \in Nat
      /\ End(c) <= KVMEM_END /\ Size(c) \in Nat /\ c % 4 = 0
  BY <1>1, <1>3, BlockFacts
<1>5. c + 20 + RoundUp(arg) <= End(c)
  BY <1>3, <1>4, RoundUpFacts
<1>6. \A b \in blocks : Free(b) = 0 => b # c /\ (End(b) <= c \/ End(c) <= b)
  BY <1>1, <1>3, Apart
<1> QED
  BY <1>3, <1>4, <1>5, <1>6, AllocRefines

LEMMA ExpandRefines ==
  ASSUME IInv, vmalloc_expand, ~Lost'
  PROVE  Abstract!Next
<1>1. PICK b : b = vmem_current
  OBVIOUS
<1>2. PICK size : size = RoundUp(arg)
  OBVIOUS
<1>3. PICK new : new = NewEnd
  OBVIOUS
<1>4. /\ arg \in 1 .. Word - 1 /\ size \in Nat /\ b \in Nat /\ b >= KVMEM_START /\ b % 4 = 0
      /\ new \in Nat /\ b + 20 + size <= new /\ new <= KVMEM_END
      /\ \A d \in blocks : d \in Nat /\ d + 20 <= End(d) /\ End(d) \in Nat /\ End(d) <= b
      /\ Hold(b + 20) /\ pc = "scan" /\ pc' = "idle"
  BY <1>1, <1>2, <1>3, ExpandWrites
<1>5. \A d \in blocks : Free(d) = 0 => d # b /\ (End(d) <= b \/ new <= d)
  BY <1>4
<1> QED
  BY <1>2, <1>4, <1>5, AllocRefines

LEMMA StepRefines ==
  ASSUME Safe, [Calls]_vars
  PROVE  Lost' \/ UNCHANGED <<Granted, Halted>> \/ Abstract!Next
<1>1. CASE Lost
  BY <1>1, LostStays DEF vars, Granted, RoundUp, Halted
<1>2. CASE Lost'
  BY <1>2
<1>3. CASE ~Lost /\ ~Lost' /\ (vmalloc_split \/ vmalloc_reuse \/ vmalloc_expand)
  BY <1>3, TakesRefine, ExpandRefines DEF Safe
<1>4. ASSUME NEW ptr \in AllPointers, vfree(ptr) \/ kfree(ptr), ~Lost' PROVE Abstract!Next
  <2>1. ptr \in DOMAIN live /\ Drop(ptr)
    BY <1>4 DEF vfree, kfree, Lost
  <2>2. Halted = FALSE /\ Halted' = FALSE
    BY <1>4 DEF vfree, kfree, Halted
  <2>3. ptr \in DOMAIN Granted /\ Granted' = [p \in DOMAIN Granted \ {ptr} |-> Granted[p]]
    BY <2>1 DEF Drop, Granted, RoundUp
  <2>4. Abstract!Release(ptr)
    BY <2>2, <2>3 DEF Abstract!Release
  <2> QED
    BY <2>3, <2>4 DEF Abstract!Next
<1>5. ASSUME NEW ptr \in AllPointers, vfree_fail(ptr) PROVE Abstract!Next
  BY <1>5 DEF vfree_fail, Panic, heap, Halted, Granted, RoundUp, Abstract!Next, Abstract!Panic
<1>6. CASE vmalloc_fail \/ vbrk_fail
  BY <1>6 DEF vmalloc_fail, vbrk_fail, Panic, heap, Halted, Granted, RoundUp,
              Abstract!Next, Abstract!Panic
<1>7. CASE vfree_foreign
  <2>1. UNCHANGED live /\ pc = "idle" /\ (pc' = "idle" \/ pc' = "panic_fault")
    BY <1>7 DEF vfree_foreign
  <2> QED
    BY <2>1 DEF Halted, Granted, RoundUp, Abstract!Next, Abstract!Panic
<1>8. CASE \/ \E n \in 1 .. Word - 1 : vmalloc(n)
           \/ \E new_brk \in 0 .. Word - 1 : vbrk(new_brk)
           \/ \E ptr \in AllPointers, v \in Nat \ {MAGIC_ALLOCATED} : cmd_write(ptr, v)
           \/ \E ptr \in DOMAIN live, v \in Nat : store(ptr, v)
           \/ vmalloc_next \/ vbrk_page \/ vbrk_return
           \/ kpanic_fatal \/ lost \/ UNCHANGED vars
  <2>1. UNCHANGED live /\ (Halted' <=> Halted)
    BY <1>8 DEF vmalloc, vbrk, cmd_write, store, vmalloc_next, vbrk_page, vbrk_return, Return,
                kpanic_fatal, lost, vars, heap, Halted
  <2> QED
    BY <2>1 DEF Granted, RoundUp, Halted
<1> QED
  BY <1>1, <1>2, <1>3, <1>4, <1>5, <1>6, <1>7, <1>8 DEF Calls, Step

(* The virtual memory allocator implements the abstract allocator, until   *)
(* its list is lost: ranges in use never overlap and never leave the       *)
(* region.                                                                 *)
THEOREM Refinement == CallSpec => ImplementsAllocator
<1>1. Init => Abstract!Init
  BY DEF Init, Halted, Granted, Abstract!Init
<1>2. Safe /\ [Calls]_vars => [Lost' \/ UNCHANGED <<Granted, Halted>> \/ Abstract!Next]_vars
  BY StepRefines
<1> QED
  BY <1>1, <1>2, Invariance, PTL DEF CallSpec, ImplementsAllocator
----------------------------------------------------------------------------
(***************************************************************************)
(* The test commands vtest and vmalloctest make calls of the allocator.    *)
(* vtest stores through its pointer without the checks of cmd_write, which *)
(* would reject the blocks that are not aligned.                           *)
(***************************************************************************)
(* While vmalloc runs the machine may stop for lack of pages; then the     *)
(* test holds a pointer that is live until vfree takes it back.            *)
TestInv ==
  test # NoTest =>
    /\ test = [sizes |-> test.sizes, value |-> test.value,
               stage |-> test.stage, ptr |-> test.ptr]
    /\ test.sizes \in Seq(1 .. Word - 1) /\ test.sizes # << >>
    /\ test.value \in Nat \cup {None}
    /\ \/ test.stage = "alloc" /\ pc \in {"scan", "panic_region", "panic_oom"}
       \/ test.stage \in {"held", "stored"} /\ pc = "idle" /\ test.ptr \in DOMAIN live
       \/ test.stage = "freed" /\ pc = "idle"

TestSafe == Lost \/ (IInv /\ TestInv)

(* A live pointer may be given to vfree, which accepts it.                 *)
LEMMA LiveUsable ==
  ASSUME IInv, NEW p \in DOMAIN live
  PROVE  p \in AllPointers /\ Magic(p - HEADER) = MAGIC_ALLOCATED
<1>1. Shape /\ Layout
  BY DEF IInv, Heap
<1>2. PICK c \in blocks : c = p - HEADER /\ p = c + 20
  BY LivePayload
<1>3. /\ c \in Nat /\ c >= KVMEM_START /\ c % 4 = 0 /\ c \in Region
      /\ c + 20 <= End(c) /\ End(c) <= KVMEM_END /\ End(c) \in Nat
  BY <1>1, <1>2, BlockFacts
<1>4. p \in Nat /\ p % 4 = 0 /\ KVMEM_START <= p /\ p <= KVMEM_END
  BY <1>2, <1>3, Constants
<1>5. p \in AllPointers
  BY <1>2, <1>3, <1>4, RegionWord DEF AllPointers
<1> QED
  BY <1>5, LivePayload

(* vmalloc returns a pointer that was not live.                            *)
LEMMA TakesPointer ==
  ASSUME IInv, vmalloc_split \/ vmalloc_reuse \/ vmalloc_expand, ~Lost'
  PROVE  pc' = "idle" /\ \E p \in DOMAIN live' : p \notin DOMAIN live
<1>1. Shape /\ Layout /\ Owned /\ Scan
  BY DEF IInv, Heap
<1>2. pc' = "idle"
  BY DEF vmalloc_split, vmalloc_reuse, vmalloc_expand, Return, Lost
<1>3. CASE vmalloc_split \/ vmalloc_reuse
  <2>1. PICK c : c = cur
    OBVIOUS
  <2>2. c \in blocks /\ Free(c) # 0
    BY <1>1, <1>3, <2>1 DEF vmalloc_split, vmalloc_reuse, Fits, Scan
  <2>3. c + 20 \in DOMAIN live'
    BY <1>3, <2>1 DEF vmalloc_split, vmalloc_reuse, Hold, HEADER
  <2>4. c + 20 \notin DOMAIN live
    <3> SUFFICES ASSUME c + 20 \in DOMAIN live PROVE FALSE
      OBVIOUS
    <3>1. Free((c + 20) - 20) = 0
      BY <1>1, LiveBlock
    <3>2. (c + 20) - 20 = c
      BY <1>1, <2>2, BlockFacts
    <3> QED
      BY <2>2, <3>1, <3>2
  <2> QED
    BY <1>2, <2>3, <2>4
<1>4. CASE vmalloc_expand
  <2>1. PICK b : b = vmem_current
    OBVIOUS
  <2>2. b \in Nat /\ b \notin blocks
    <3>1. b \in Nat
      BY <1>1, <2>1 DEF Shape
    <3>2. ASSUME b \in blocks PROVE FALSE
      BY <1>1, <2>1, <3>1, <3>2, BlockFacts
    <3> QED
      BY <3>1, <3>2
  <2>3. b + 20 \in DOMAIN live'
    BY <1>4, <2>1 DEF vmalloc_expand, Hold, HEADER
  <2>4. b + 20 \notin DOMAIN live
    <3> SUFFICES ASSUME b + 20 \in DOMAIN live PROVE FALSE
      OBVIOUS
    <3>1. (b + 20) - 20 \in blocks
      BY <1>1, LiveBlock
    <3> QED
      BY <2>2, <3>1
  <2> QED
    BY <1>2, <2>3, <2>4
<1> QED
  BY <1>3, <1>4

(* The commands make calls of the allocator.                               *)
LEMMA CommandIsCall ==
  ASSUME NextStep
  PROVE  Calls
<1>1. Pointers \subseteq AllPointers
  BY VMemAssumption DEF AllPointers
<1>2. /\ Values \subseteq Nat \ {MAGIC_ALLOCATED}
      /\ Sizes \subseteq 1 .. Word - 1 /\ Breaks \subseteq 0 .. Word - 1
  BY VMemAssumption
<1> QED
  BY <1>1, <1>2 DEF NextStep, Calls

LEMMA Element ==
  ASSUME NEW S, NEW s \in Seq(S), NEW i \in 1 .. Len(s)
  PROVE  s[i] \in S
OBVIOUS

(* Each step of a test is a step of a call of the allocator, or none.      *)
LEMMA TestStepIsCall ==
  ASSUME TestSafe, [TestNext]_testVars
  PROVE  [Calls]_vars
<1>1. ASSUME NEW t \in Tests, test_start(t) PROVE Calls
  <2>1. t.sizes \in Seq(1 .. Word - 1) /\ t.sizes # << >>
    BY TestAssumption
  <2>2. 1 \in 1 .. Len(t.sizes)
    BY <2>1
  <2>3. t.sizes[1] \in 1 .. Word - 1
    BY <2>1, <2>2, Element
  <2> QED
    BY <1>1, <2>3 DEF test_start, Calls
<1>2. CASE test_take
  BY <1>2 DEF test_take, Calls, Step
<1>3. CASE test_store
  <2>1. CASE test.value = None
    BY <1>3, <2>1 DEF test_store, vars
  <2>2. CASE test.value # None
    <3>1. store(test.ptr, test.value) /\ ~Lost
      BY <1>3, <2>2 DEF test_store, store, Lost
    <3>2. test.ptr \in DOMAIN live /\ test.value \in Nat
      BY <1>3, <2>2, <3>1 DEF test_store, TestSafe, TestInv, Testing
    <3> QED
      BY <3>1, <3>2 DEF Calls
  <2> QED
    BY <2>1, <2>2
<1>4. CASE test_free
  <2>1. ~Lost
    BY <1>4 DEF test_free, vfree, vfree_fail, Lost
  <2>2. test.ptr \in DOMAIN live /\ IInv
    BY <1>4, <2>1 DEF test_free, TestSafe, TestInv, Testing
  <2>3. test.ptr \in AllPointers
    BY <2>2, LiveUsable
  <2> QED
    BY <1>4, <2>3 DEF test_free, Calls
<1>5. CASE test_next
  <2>1. ~Lost
    BY <1>5 DEF test_next, vmalloc, Lost
  <2>2. test.sizes \in Seq(1 .. Word - 1) /\ Len(test.sizes) > 1
    BY <1>5, <2>1 DEF test_next, TestSafe, TestInv, Testing
  <2>3. 2 \in 1 .. Len(test.sizes)
    BY <2>2
  <2>4. test.sizes[2] \in 1 .. Word - 1
    BY <2>2, <2>3, Element
  <2> QED
    BY <1>5, <2>4 DEF test_next, Calls
<1>6. CASE test_end
  BY <1>6 DEF test_end
<1>7. CASE test_step
  BY <1>7 DEF test_step, Calls, Step
<1>8. CASE test = NoTest /\ NextStep /\ UNCHANGED test
  BY <1>8, CommandIsCall
<1>9. CASE UNCHANGED testVars
  BY <1>9 DEF testVars
<1> QED
  BY <1>1, <1>2, <1>3, <1>4, <1>5, <1>6, <1>7, <1>8, <1>9 DEF TestNext, TestStep

(* The record of a test after a change.                                    *)
LEMMA Changed ==
  ASSUME NEW r, NEW s, NEW v, NEW g, NEW p, s # << >>,
         r = [sizes |-> s, value |-> v, stage |-> g, ptr |-> p]
  PROVE  /\ r.sizes = s /\ r.value = v /\ r.stage = g /\ r.ptr = p /\ r # NoTest
         /\ r = [sizes |-> r.sizes, value |-> r.value, stage |-> r.stage, ptr |-> r.ptr]
BY DEF NoTest

LEMMA ChangedStage ==
  ASSUME TestInv, test # NoTest, NEW g, test' = [test EXCEPT !.stage = g]
  PROVE  /\ test'.sizes = test.sizes /\ test'.value = test.value /\ test'.stage = g
         /\ test'.ptr = test.ptr /\ test' # NoTest
         /\ test' = [sizes |-> test'.sizes, value |-> test'.value,
                     stage |-> test'.stage, ptr |-> test'.ptr]
<1>1. test' = [sizes |-> test.sizes, value |-> test.value, stage |-> g, ptr |-> test.ptr]
  BY DEF TestInv
<1>2. test.sizes # << >>
  BY DEF TestInv
<1> QED
  BY <1>1, <1>2, Changed

LEMMA TailFacts ==
  ASSUME NEW S, NEW s \in Seq(S), Len(s) > 1
  PROVE  Tail(s) \in Seq(S) /\ Tail(s) # << >>
<1>1. Tail(s) \in Seq(S) /\ Len(Tail(s)) = Len(s) - 1 /\ Len(s) \in Nat
  OBVIOUS
<1>2. Len(Tail(s)) # Len(<< >>)
  <2>1. Len(<< >>) = 0
    OBVIOUS
  <2>2. Len(Tail(s)) # 0
    BY <1>1
  <2> QED
    BY <2>1, <2>2, Zenon
<1>3. Tail(s) # << >>
  BY <1>2, Zenon
<1> QED
  BY <1>1, <1>3

LEMMA TestInvStep ==
  ASSUME IInv, TestInv, [TestNext]_testVars, ~Lost'
  PROVE  TestInv'
<1>1. IInv /\ TestInv
  OBVIOUS
<1>2. ASSUME NEW t \in Tests, test_start(t) PROVE TestInv'
  <2>1. /\ t.sizes \in Seq(1 .. Word - 1) /\ t.sizes # << >> /\ t.value \in Nat \cup {None}
        /\ pc' = "scan"
    BY <1>2, TestAssumption DEF test_start, vmalloc
  <2>2. /\ test' # NoTest /\ test'.sizes = t.sizes /\ test'.value = t.value
        /\ test'.stage = "alloc"
        /\ test' = [sizes |-> test'.sizes, value |-> test'.value,
                    stage |-> test'.stage, ptr |-> test'.ptr]
    BY <1>2, <2>1, Changed DEF test_start
  <2> QED
    BY <2>1, <2>2 DEF TestInv
<1>3. CASE test_take
  <2>1. /\ test # NoTest /\ test.sizes \in Seq(1 .. Word - 1) /\ test.sizes # << >>
        /\ test.value \in Nat \cup {None}
    BY <1>1, <1>3 DEF test_take, TestInv, Testing
  <2>2. PICK p : p = CHOOSE q \in DOMAIN live' : q \notin DOMAIN live
    OBVIOUS
  <2>3. pc' = "idle" /\ \E q \in DOMAIN live' : q \notin DOMAIN live
    BY <1>1, <1>3, TakesPointer DEF test_take
  <2>4. p \in DOMAIN live'
    BY <2>2, <2>3, Zenon
  <2>5. test' = [sizes |-> test.sizes, value |-> test.value, stage |-> "held", ptr |-> p]
    <3>1. test' = [test EXCEPT !.stage = "held", !.ptr = p]
      BY <1>3, <2>2, Zenon DEF test_take
    <3> QED
      BY <1>1, <2>1, <3>1 DEF TestInv
  <2>6. /\ test' # NoTest /\ test'.sizes = test.sizes /\ test'.value = test.value
        /\ test'.stage = "held" /\ test'.ptr = p
        /\ test' = [sizes |-> test'.sizes, value |-> test'.value,
                    stage |-> test'.stage, ptr |-> test'.ptr]
    BY <2>1, <2>5, Changed
  <2> QED
    BY <2>1, <2>3, <2>4, <2>6 DEF TestInv
<1>4. CASE test_store
  <2>1. test # NoTest /\ test.stage = "held"
    BY <1>4 DEF test_store, Testing
  <2>2. UNCHANGED <<pc, live>>
    BY <1>4 DEF test_store, store, Lost, vars
  <2> QED
    BY <1>1, <1>4, <2>1, <2>2, ChangedStage DEF test_store, TestInv
<1>5. CASE test_free
  <2>1. test # NoTest /\ test.stage = "stored"
    BY <1>5 DEF test_free, Testing
  <2>2. test.ptr \in DOMAIN live /\ pc = "idle"
    BY <1>1, <2>1 DEF TestInv
  <2>3. pc' = "idle"
    BY <1>1, <1>5, <2>2, LiveUsable DEF test_free, vfree, vfree_fail, Lost
  <2> QED
    BY <1>1, <1>5, <2>1, <2>3, ChangedStage DEF test_free, TestInv
<1>6. CASE test_next
  <2>1. /\ test # NoTest /\ test.sizes \in Seq(1 .. Word - 1) /\ Len(test.sizes) > 1
        /\ test.value \in Nat \cup {None}
    BY <1>1, <1>6 DEF test_next, TestInv, Testing
  <2>2. Tail(test.sizes) \in Seq(1 .. Word - 1) /\ Tail(test.sizes) # << >>
    BY <2>1, TailFacts
  <2>3. test' = [sizes |-> Tail(test.sizes), value |-> test.value,
                 stage |-> "alloc", ptr |-> NULL]
    BY <1>1, <1>6, <2>1 DEF test_next, TestInv
  <2>4. /\ test' # NoTest /\ test'.sizes = Tail(test.sizes) /\ test'.value = test.value
        /\ test'.stage = "alloc"
        /\ test' = [sizes |-> test'.sizes, value |-> test'.value,
                    stage |-> test'.stage, ptr |-> test'.ptr]
    BY <2>2, <2>3, Changed
  <2>5. pc' = "scan"
    BY <1>6 DEF test_next, vmalloc
  <2> QED
    BY <2>1, <2>2, <2>4, <2>5 DEF TestInv
<1>7. CASE test_step \/ (test # NoTest /\ UNCHANGED testVars)
  <2>1. test # NoTest /\ UNCHANGED test
    BY <1>7 DEF test_step, testVars
  <2>2. CASE test.stage = "alloc"
    <3>1. pc \in {"scan", "panic_region", "panic_oom"}
      BY <1>1, <2>1, <2>2 DEF TestInv
    <3>2. pc' \in {"scan", "panic_region", "panic_oom"}
      BY <1>7, <3>1
         DEF test_step, vmalloc_next, vmalloc_fail, Panic, kpanic_fatal, lost, testVars, vars
    <3> QED
      BY <1>1, <2>1, <2>2, <3>2 DEF TestInv
  <2>3. CASE test.stage # "alloc"
    <3>1. pc = "idle"
      BY <1>1, <2>1, <2>3 DEF TestInv
    <3>2. UNCHANGED <<pc, live>>
      BY <1>7, <3>1
         DEF test_step, vmalloc_next, vmalloc_fail, kpanic_fatal, lost, testVars, vars
    <3> QED
      BY <1>1, <2>1, <3>2 DEF TestInv
  <2> QED
    BY <2>2, <2>3
<1>8. CASE test' = NoTest
  BY <1>8 DEF TestInv
<1> QED
  BY <1>2, <1>3, <1>4, <1>5, <1>6, <1>7, <1>8
     DEF TestNext, TestStep, test_end, testVars

(* Every state of the allocator with its test commands satisfies TestSafe. *)
THEOREM TestInvariance == TestSpec => []TestSafe
<1>1. TestInit => TestSafe
  BY InitIInv DEF TestInit, TestSafe, TestInv
<1>2. ASSUME TestSafe, [TestNext]_testVars PROVE TestSafe'
  <2>1. [Calls]_vars
    BY <1>2, TestStepIsCall
  <2>2. CASE Lost
    BY <2>1, <2>2, LostStays DEF TestSafe, Lost, vars
  <2>3. CASE ~Lost /\ ~Lost'
    BY <1>2, <2>1, <2>3, NextIInv, TestInvStep DEF TestSafe
  <2> QED
    BY <2>2, <2>3 DEF TestSafe
<1> QED
  BY <1>1, <1>2, PTL DEF TestSpec

(* The commands of the shell, its test commands included, make no other    *)
(* use of the allocator than CallSpec, of which the theorems above speak.  *)
THEOREM CommandsAreCalls == (Spec => CallSpec) /\ (TestSpec => CallSpec)
<1>1. [NextStep]_vars => [Calls]_vars
  BY CommandIsCall
<1>2. TestInit => Init
  BY DEF TestInit
<1>3. TestSafe /\ [TestNext]_testVars => [Calls]_vars
  BY TestStepIsCall
<1>4. Spec => CallSpec
  BY <1>1, PTL DEF Spec, CallSpec
<1>5. TestSpec => CallSpec
  BY <1>2, <1>3, TestInvariance, PTL DEF TestSpec, CallSpec
<1> QED
  BY <1>4, <1>5

(* vfree never refuses what vtest or vmalloctest gives back, whatever the  *)
(* list looks like and whatever value vtest has stored in its block.       *)
THEOREM TestsReturnTheirBlock == TestSpec => [](test # NoTest => pc # "panic_free")
<1>1. TestSafe => (test # NoTest => pc # "panic_free")
  BY DEF TestSafe, TestInv, Lost
<1> QED
  BY <1>1, TestInvariance, PTL
=============================================================================
