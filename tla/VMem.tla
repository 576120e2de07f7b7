-------------------------------- MODULE VMem --------------------------------
(***************************************************************************)
(* The virtual memory allocator of src/src/vmem.c.  It takes page frames   *)
(* as requests arrive, maps them behind the region already in use, and     *)
(* keeps its blocks on one list, each with a five-word header (size,       *)
(* capacity, free, magic, next) in front of its payload.                   *)
(*                                                                         *)
(* As in KHeap, memory is a function from word addresses to contents and a *)
(* turn of a loop is a step.  The page frames are a counter here: what     *)
(* pmm.c promises of them is the subject of Pmm.                           *)
(*                                                                         *)
(* The model follows the code until the allocator's own memory is damaged: *)
(* until vfree takes a pointer that was never handed out (pc is "forged"), *)
(* or a block is handed out that is longer than the pages behind it, or a  *)
(* word is stored behind a block of no bytes ("overrun").  What the code   *)
(* does from there depends on what lies in memory, and nothing is claimed. *)
(***************************************************************************)
EXTENDS Integers

CONSTANTS
  PAGE_SIZE,
  KVMEM_START, KVMEM_END,  \* first and last byte of the region
  MAGIC_ALLOCATED, MAGIC_FREED,
  Word,       \* number of values of a size_t, 2^32
  Residue,    \* what the words of the region hold before they are written
  Frames,     \* page frames the physical memory manager has left at boot
  Sizes,      \* arguments of vmalloc
  Pointers,   \* arguments of vfree
  Breaks,     \* arguments of vbrk
  Values      \* values given to write

VARIABLES
  mem,           \* contents of the words of the region
  vmem_current,  \* end of the mapped part
  vmem_list,     \* the first block
  frames,        \* page frames left
  pc,            \* where the running call is, "idle" between calls
  prev, cur,     \* the loop variables of vmalloc
  arg,           \* the argument of the running call
  blocks,        \* history: the headers linked from vmem_list
  live,          \* history: pointers returned and not freed |-> bytes asked for
  planted        \* history: words other than a magic that were given its value

vars == <<mem, vmem_current, vmem_list, frames, pc, prev, cur, arg, blocks, live, planted>>

heap == <<mem, vmem_current, vmem_list, frames, blocks, live, planted>>

loop == <<prev, cur, arg>>

NULL == 0

HEADER == 20  \* sizeof(vmem_block_t) on i386

Region == {w \in KVMEM_START .. KVMEM_END : w % 4 = 0}

ASSUME VMemAssumption ==
  /\ PAGE_SIZE \in Nat \ {0} /\ PAGE_SIZE % 8 = 0 /\ PAGE_SIZE > HEADER
  /\ KVMEM_START \in Nat \ {0} /\ KVMEM_START % PAGE_SIZE = 0
  /\ KVMEM_END \in Nat /\ KVMEM_END >= KVMEM_START
  /\ (KVMEM_END + 1) % PAGE_SIZE = 0
  /\ MAGIC_ALLOCATED \in Nat /\ MAGIC_FREED \in Nat
  /\ MAGIC_ALLOCATED # MAGIC_FREED /\ KVMEM_END < MAGIC_ALLOCATED
  /\ Word \in Nat /\ Word % 8 = 0 /\ KVMEM_END < Word
  /\ Frames \in Nat /\ KVMEM_START + Frames * PAGE_SIZE < Word
  /\ Residue \in [Region -> Nat]
  /\ Sizes \subseteq 1 .. Word - 1 /\ Breaks \subseteq 0 .. Word - 1
  /\ Values \subseteq Nat /\ MAGIC_ALLOCATED \notin Values  \* write refuses 2^31 and above
  /\ Pointers \subseteq {p \in Region : p - HEADER \in Region}

Size(b)     == mem[b]
Capacity(b) == mem[b + 4]
Free(b)     == mem[b + 8]
Magic(b)    == mem[b + 12]
Next(b)     == mem[b + 16]
End(b)      == b + HEADER + Size(b)

(* Sizes are in size_t arithmetic: both sums wrap for requests near 2^32.  *)
RoundUp(n) == IF n % 8 = 0 THEN n ELSE (((n + 7) % Word) \div 8) * 8

PagesFor(size) == ((size + HEADER + PAGE_SIZE - 1) % Word) \div PAGE_SIZE

Init ==
  /\ mem = Residue
  /\ vmem_current = KVMEM_START /\ vmem_list = NULL
  /\ frames = Frames
  /\ pc = "idle" /\ prev = NULL /\ cur = NULL /\ arg = 0
  /\ blocks = {} /\ live = [p \in {} |-> 0]
  /\ planted = {w \in Region : Residue[w] = MAGIC_ALLOCATED}

Return == pc' = "idle" /\ prev' = NULL /\ cur' = NULL /\ arg' = 0

Panic(reason) ==
  /\ pc' = reason
  /\ UNCHANGED <<loop, heap>>

----------------------------------------------------------------------------
(***************************************************************************)
(* vmalloc.                                                                *)
(***************************************************************************)
vmalloc(n) ==
  /\ pc = "idle"
  /\ pc' = "scan" /\ prev' = NULL /\ cur' = vmem_list /\ arg' = n
  /\ UNCHANGED heap

(* A block in use fits as well.                                            *)
Fits_bug(b, size) == Size(b) >= size

Fits(b, size) == Free(b) # 0 /\ Size(b) >= size

(* The loop variable is not advanced.                                      *)
vmalloc_next_bug ==
  /\ pc = "scan" /\ cur # NULL /\ ~Fits(cur, RoundUp(arg))
  /\ prev' = cur
  /\ UNCHANGED <<pc, cur, arg>> /\ UNCHANGED heap

vmalloc_next ==
  /\ pc = "scan" /\ cur # NULL /\ ~Fits(cur, RoundUp(arg))
  /\ prev' = cur /\ cur' = Next(cur)
  /\ UNCHANGED <<pc, arg>> /\ UNCHANGED heap

Hold(p) == live' = [q \in DOMAIN live \cup {p} |-> IF q = p THEN arg ELSE live[q]]

(* The new header's own bytes are not subtracted from its size.            *)
vmalloc_split_bug ==
  LET size == RoundUp(arg)
      n    == cur + HEADER + size
  IN  /\ pc = "scan" /\ cur # NULL /\ Fits(cur, size)
      /\ Size(cur) >= size + HEADER + 16
      /\ mem' = [mem EXCEPT ![n]        = Size(cur) - size,
                            ![n + 8]    = 1,
                            ![n + 16]   = Next(cur),
                            ![cur]      = size,
                            ![cur + 8]  = 0,
                            ![cur + 12] = MAGIC_ALLOCATED,
                            ![cur + 16] = n]
      /\ blocks' = blocks \cup {n}
      /\ Hold(cur + HEADER)
      /\ planted' = {w \in planted \ {cur + 12} : mem'[w] = MAGIC_ALLOCATED}
      /\ Return
      /\ UNCHANGED <<vmem_current, vmem_list, frames>>

(* A free block is split: the capacity and the magic of the new header are *)
(* left as they were found, and so is the capacity of the old one.         *)
vmalloc_split ==
  LET size == RoundUp(arg)
      n    == cur + HEADER + size
  IN  /\ pc = "scan" /\ cur # NULL /\ Fits(cur, size)
      /\ Size(cur) >= size + HEADER + 16
      /\ mem' = [mem EXCEPT ![n]        = Size(cur) - size - HEADER,
                            ![n + 8]    = 1,
                            ![n + 16]   = Next(cur),
                            ![cur]      = size,
                            ![cur + 8]  = 0,
                            ![cur + 12] = MAGIC_ALLOCATED,
                            ![cur + 16] = n]
      /\ blocks' = blocks \cup {n}
      /\ Hold(cur + HEADER)
      /\ planted' = {w \in planted \ {cur + 12} : mem'[w] = MAGIC_ALLOCATED}
      /\ Return
      /\ UNCHANGED <<vmem_current, vmem_list, frames>>

vmalloc_reuse ==
  /\ pc = "scan" /\ cur # NULL /\ Fits(cur, RoundUp(arg))
  /\ Size(cur) < RoundUp(arg) + HEADER + 16
  /\ mem' = [mem EXCEPT ![cur + 8] = 0, ![cur + 12] = MAGIC_ALLOCATED]
  /\ Hold(cur + HEADER)
  /\ planted' = planted \ {cur + 12}
  /\ Return
  /\ UNCHANGED <<vmem_current, vmem_list, frames, blocks>>

NewEnd == (vmem_current + PagesFor(RoundUp(arg)) * PAGE_SIZE) % Word

(* The turns of the loop that maps a page and takes its frame.             *)
Mapped == IF NewEnd > vmem_current THEN (NewEnd - vmem_current) \div PAGE_SIZE ELSE 0

(* No block fits: pages are mapped behind the region, and a block at their *)
(* start is linked behind the last one.  The turns of the loop are one     *)
(* step: nobody sees them, and a panic in the middle is vmalloc_fail.      *)
(* When a sum has wrapped, the pages do not hold the block.                *)
vmalloc_expand ==
  LET size == RoundUp(arg)
      b    == vmem_current
  IN  /\ pc = "scan" /\ cur = NULL
      /\ NewEnd <= KVMEM_END
      /\ frames >= Mapped
      /\ frames' = frames - Mapped
      /\ LET m == [mem EXCEPT ![b]      = size,
                              ![b + 4]  = (PagesFor(size) * PAGE_SIZE - HEADER) % Word,
                              ![b + 8]  = 0,
                              ![b + 12] = MAGIC_ALLOCATED,
                              ![b + 16] = NULL]
         IN  mem' = IF prev = NULL THEN m ELSE [m EXCEPT ![prev + 16] = b]
      /\ vmem_list' = IF prev = NULL THEN b ELSE vmem_list
      /\ vmem_current' = NewEnd
      /\ blocks' = blocks \cup {b}
      /\ Hold(b + HEADER)
      /\ planted' = planted \ {b, b + 4, b + 8, b + 12, b + 16}
      /\ pc' = IF b + HEADER + size <= NewEnd THEN "idle" ELSE "overrun"
      /\ prev' = NULL /\ cur' = NULL /\ arg' = 0

(* The region is full, or the frames end in the middle of the loop.        *)
vmalloc_fail ==
  /\ pc = "scan" /\ cur = NULL
  /\ \/ NewEnd > KVMEM_END /\ Panic("panic_region")
     \/ /\ NewEnd <= KVMEM_END /\ frames < Mapped
        /\ pc' = "panic_oom" /\ frames' = 0
        /\ UNCHANGED <<mem, vmem_current, vmem_list, blocks, live, planted, loop>>

----------------------------------------------------------------------------
(***************************************************************************)
(* vfree.  The merge looks at the first two blocks of the list only, and   *)
(* adds to the capacity, which no search reads, but not to the size.       *)
(***************************************************************************)
MergesFirst_bug(m) ==
  LET second == m[vmem_list + 16]
  IN  second # NULL /\ m[vmem_list + 8] # 0 /\ m[second + 8] # 0

MergesUsed_bug(m) ==
  LET second == m[vmem_list + 16]
  IN  /\ second # NULL /\ m[vmem_list + 8] # 0
      /\ vmem_list + HEADER + m[vmem_list + 4] = second

MergesFirst(m) ==
  LET second == m[vmem_list + 16]
  IN  /\ second # NULL
      /\ m[vmem_list + 8] # 0 /\ m[second + 8] # 0
      /\ vmem_list + HEADER + m[vmem_list + 4] = second

merge_first(m) ==
  LET second == m[vmem_list + 16]
  IN  IF MergesFirst(m)
      THEN [m EXCEPT ![vmem_list + 4]  = @ + HEADER + m[second + 4],
                     ![vmem_list + 16] = m[second + 16]]
      ELSE m

(* The magic still says that the block is in use.                          *)
Freed_bug(blk) == [mem EXCEPT ![blk + 8] = 1]

Freed(blk) == [mem EXCEPT ![blk + 8] = 1, ![blk + 12] = MAGIC_FREED]

Drop(ptr) == live' = [p \in DOMAIN live \ {ptr} |-> live[p]]

vfree(ptr) ==
  LET m == Freed(ptr - HEADER)
  IN  /\ pc = "idle" /\ Magic(ptr - HEADER) = MAGIC_ALLOCATED
      /\ IF ptr \in DOMAIN live
         THEN /\ mem' = merge_first(m)
              /\ blocks' = IF MergesFirst(m) THEN blocks \ {m[vmem_list + 16]} ELSE blocks
              /\ pc' = "idle"
         ELSE mem' = m /\ blocks' = blocks /\ pc' = "forged"
      /\ Drop(ptr)
      /\ planted' = planted \ {ptr - 8}
      /\ UNCHANGED <<vmem_current, vmem_list, frames, loop>>

vfree_fail(ptr) ==
  /\ pc = "idle" /\ Magic(ptr - HEADER) # MAGIC_ALLOCATED
  /\ Panic("panic_free")

(* A pointer of kmalloc, whose magic is at the same place in front of it:  *)
(* only the merge concerns this list.  Without a list it reads through a   *)
(* null pointer, and returns or faults.                                    *)
vfree_foreign ==
  /\ pc = "idle"
  /\ IF vmem_list # NULL
     THEN /\ mem' = merge_first(mem)
          /\ blocks' = IF MergesFirst(mem) THEN blocks \ {Next(vmem_list)} ELSE blocks
          /\ UNCHANGED pc
     ELSE pc' \in {"idle", "panic_fault"} /\ UNCHANGED <<mem, blocks>>
  /\ UNCHANGED <<vmem_current, vmem_list, frames, live, planted, loop>>

(* The other way round: kfree marks a block as freed, and does not merge.  *)
kfree(ptr) ==
  /\ pc = "idle" /\ Magic(ptr - HEADER) = MAGIC_ALLOCATED
  /\ mem' = Freed(ptr - HEADER)
  /\ Drop(ptr)
  /\ planted' = planted \ {ptr - 8}
  /\ pc' = IF ptr \in DOMAIN live THEN "idle" ELSE "forged"
  /\ UNCHANGED <<vmem_current, vmem_list, frames, blocks, loop>>

----------------------------------------------------------------------------
(***************************************************************************)
(* vbrk maps one page a turn until the break is reached.  It never looks   *)
(* at KVMEM_END.                                                           *)
(***************************************************************************)
vbrk(new_brk) ==
  /\ pc = "idle" /\ new_brk >= KVMEM_START /\ new_brk >= vmem_current
  /\ pc' = "brk" /\ arg' = new_brk
  /\ UNCHANGED <<prev, cur>> /\ UNCHANGED heap

(* The region ends at the break, not at the end of the page.               *)
vbrk_page_bug ==
  /\ pc = "brk" /\ vmem_current < arg /\ frames > 0
  /\ frames' = frames - 1
  /\ vmem_current' = arg
  /\ UNCHANGED <<mem, vmem_list, blocks, live, planted, pc, loop>>

vbrk_page ==
  /\ pc = "brk" /\ vmem_current < arg /\ frames > 0
  /\ frames' = frames - 1
  /\ vmem_current' = vmem_current + PAGE_SIZE
  /\ UNCHANGED <<mem, vmem_list, blocks, live, planted, pc, loop>>

vbrk_fail ==
  /\ pc = "brk" /\ vmem_current < arg /\ frames = 0
  /\ Panic("panic_oom")

vbrk_return ==
  /\ pc = "brk" /\ vmem_current >= arg
  /\ Return /\ UNCHANGED heap

(***************************************************************************)
(* vsize, and cmd_write on an address of the region.                       *)
(***************************************************************************)
is_valid_allocated_block(blk) ==
  /\ blk >= KVMEM_START /\ blk < vmem_current
  /\ blk % 8 = 0
  /\ blk \in blocks

vsize(ptr) ==
  IF /\ ptr >= KVMEM_START /\ ptr < vmem_current
     /\ Magic(ptr - HEADER) = MAGIC_ALLOCATED
     /\ is_valid_allocated_block(ptr - HEADER)
  THEN Size(ptr - HEADER) ELSE 0

cmd_write(ptr, v) ==
  /\ pc = "idle" /\ vsize(ptr) >= 4
  /\ mem' = [mem EXCEPT ![ptr] = v]
  /\ planted' = planted \ {ptr}
  /\ UNCHANGED <<vmem_current, vmem_list, frames, blocks, live, pc, loop>>

(***************************************************************************)
(* A store by the owner of a pointer, of any value: vtest has no check.    *)
(***************************************************************************)
store(ptr, v) ==
  /\ pc = "idle" /\ ptr \in DOMAIN live
  /\ mem' = [mem EXCEPT ![ptr] = v]
  /\ planted' = IF v = MAGIC_ALLOCATED THEN planted \cup {ptr} ELSE planted \ {ptr}
  /\ pc' = IF Size(ptr - HEADER) = 0 THEN "overrun" ELSE "idle"
  /\ UNCHANGED <<vmem_current, vmem_list, frames, blocks, live, loop>>

Halted == pc \in {"panic_region", "panic_oom", "panic_free", "panic_fault"}

kpanic_fatal == Halted /\ UNCHANGED vars

Lost == pc \in {"forged", "overrun"}

lost == Lost /\ UNCHANGED vars

----------------------------------------------------------------------------
Step ==
  \/ vmalloc_next \/ vmalloc_split \/ vmalloc_reuse \/ vmalloc_expand \/ vmalloc_fail
  \/ vbrk_page \/ vbrk_fail \/ vbrk_return

NextStep ==
  \/ \E n \in Sizes : vmalloc(n)
  \/ \E ptr \in Pointers : vfree(ptr) \/ vfree_fail(ptr) \/ kfree(ptr)
  \/ vfree_foreign
  \/ \E new_brk \in Breaks : vbrk(new_brk)
  \/ \E ptr \in Pointers, v \in Values : cmd_write(ptr, v)
  \/ Step
  \/ kpanic_fatal
  \/ lost

(* A loop that runs inside the keyboard interrupt, with interrupts off,    *)
(* keeps running.                                                          *)
Spec == Init /\ [][NextStep]_vars /\ WF_vars(Step)

----------------------------------------------------------------------------
(***************************************************************************)
(* Properties.                                                             *)
(***************************************************************************)
Linked ==
  /\ vmem_list = NULL <=> blocks = {}
  /\ vmem_list # NULL => vmem_list \in blocks /\ \A b \in blocks : vmem_list <= b
  /\ \A b \in blocks :
       /\ End(b) <= vmem_current
       /\ IF Next(b) = NULL THEN \A c \in blocks : c <= b
          ELSE /\ Next(b) \in blocks /\ End(b) <= Next(b)
               /\ \A c \in blocks : c <= b \/ Next(b) <= c

(* The list visits the blocks in the order of their addresses, no two of   *)
(* them share a byte, and all lie in the mapped part of the region.        *)
ListSound == ~Lost => Linked

Owned == DOMAIN live = {b + HEADER : b \in {c \in blocks : Free(c) = 0}}

(* No block is lost while in use or handed out twice: the blocks marked in *)
(* use are those of the pointers handed out and not freed.                 *)
LiveExact == ~Lost => Owned

(* Of the pointers into the region vfree takes exactly those that are live *)
(* (kfree makes the same test): no double free and no stray pointer        *)
(* passes, and no valid free panics.  The exception is a pointer in front  *)
(* of which the value of the magic was in memory before or was stored as   *)
(* data, because nothing but the magic is looked at.                       *)
FreeDetection ==
  ~Lost => \A ptr \in Pointers :
             /\ ptr \in DOMAIN live => Magic(ptr - HEADER) = MAGIC_ALLOCATED
             /\ Magic(ptr - HEADER) = MAGIC_ALLOCATED => ptr \in DOMAIN live \/ ptr - 8 \in planted

(* The capacity the merge compares and adds was always written: the first  *)
(* block, with its capacity, ends at a page boundary in the mapped part,   *)
(* although vmalloc leaves the capacity of split blocks uninitialised.     *)
CapacityInitialised ==
  ~Lost /\ vmem_list # NULL =>
    LET end == vmem_list + HEADER + Capacity(vmem_list)
    IN  end <= vmem_current /\ end % PAGE_SIZE = 0

(* Every page of the mapped part took one frame, and no frame is taken for *)
(* a page that is not kept.                                                *)
OneFramePerPage ==
  ~Halted /\ ~Lost => (Frames - frames) * PAGE_SIZE = vmem_current - KVMEM_START

(* The loops end: a call returns or panics.                                *)
CallsReturn == pc \in {"scan", "brk"} ~> pc \notin {"scan", "brk"}

(* The allocator keeps what an allocator promises: the ranges in use never *)
(* overlap and never leave the region.  A range has the bytes that the     *)
(* request rounds to.  Nothing is promised of a step that loses the list.  *)
Granted == [p \in DOMAIN live |-> RoundUp(live[p])]

Abstract == INSTANCE Allocator WITH
              Base <- KVMEM_START, Limit <- KVMEM_END + 1,
              Addresses <- Region,
              Lengths <- {n \in 0 .. KVMEM_END - KVMEM_START : n % 8 = 0},
              live <- Granted, halted <- Halted

ImplementsAllocator ==
  Abstract!Init /\ [][Lost' \/ UNCHANGED <<Granted, Halted>> \/ Abstract!Next]_vars

(* "Check if expansion would exceed vmalloc region", vmem.c:58: every      *)
(* block that is handed out lies in the region.                            *)
BlocksInRegion == \A b \in blocks : End(b) <= KVMEM_END + 1

(* "Merge with adjacent free blocks if possible, to reduce fragmentation", *)
(* vmem.c:113: what a later vmalloc could use before a vfree it can use    *)
(* after it.                                                               *)
Usable == UNION {b + HEADER .. End(b) - 1 : b \in {c \in blocks : Free(c) # 0}}

=============================================================================
