------------------------------- MODULE KHeap -------------------------------
(***************************************************************************)
(* The kernel heap of src/src/kheap.c: a first-fit allocator over one      *)
(* region of memory, with the block headers kept in that memory.           *)
(*                                                                         *)
(* The heap is a function from the addresses of its 32-bit words to their  *)
(* contents.  A header has four words (size, free, magic, next), so a      *)
(* header field is a word at an offset from the block's address, and what  *)
(* a free or a merge leaves behind stays in memory until it is overwritten.*)
(*                                                                         *)
(* A call is a sequence of steps: kmalloc and kfree each contain one loop  *)
(* over the list, and every turn of a loop is a step.  No other call can   *)
(* start before the running one returns (pc is "idle" again), because the  *)
(* commands that call the heap all run inside the keyboard interrupt, with *)
(* interrupts off.                                                         *)
(*                                                                         *)
(* The model follows the code until the heap's own memory is damaged from  *)
(* outside: until kfree or write takes a pointer that was never handed     *)
(* out (pc is "forged"), or a word is stored behind a block of no bytes    *)
(* ("overrun").  What the code does from there depends on what lies in     *)
(* memory, and nothing is claimed of it.                                   *)
(***************************************************************************)
EXTENDS Integers

CONSTANTS
  KHEAP_START,      \* address of the first byte of the heap
  KHEAP_SIZE,       \* bytes of the heap
  MAGIC_ALLOCATED,  \* 0xDEADBEEF
  MAGIC_FREED,      \* 0xFEEED000
  Word,             \* number of values of a size_t, 2^32
  Residue,          \* what the frames of the heap hold at boot
  Sizes,            \* arguments of kmalloc
  Pointers,         \* arguments of kfree
  Breaks,           \* arguments of kbrk
  Values,           \* values given to write
  Capacities        \* capacities of vmalloc blocks that are given to kfree

VARIABLES
  mem,        \* contents of the heap's words
  heap_used,  \* bytes the allocator believes are in use
  pc,         \* where the running call is, "idle" between calls
  cur,        \* the loop variable of kmalloc and of kfree's merge
  arg,        \* the argument of the running call
  blocks,     \* history: the headers linked from free_list
  live,       \* history: pointers returned and not freed |-> bytes asked for
  planted     \* history: words other than a magic that were given its value

vars == <<mem, heap_used, pc, cur, arg, blocks, live, planted>>

NULL == 0

HEADER == 16  \* sizeof(block_header_t) on i386

KHEAP_END == KHEAP_START + KHEAP_SIZE  \* one past the last byte

Heap == {w \in KHEAP_START .. KHEAP_END - 1 : w % 4 = 0}

ASSUME HeapAssumption ==
  /\ KHEAP_START \in Nat \ {0} /\ KHEAP_START % 8 = 0
  /\ KHEAP_SIZE \in Nat /\ KHEAP_SIZE % 8 = 0 /\ KHEAP_SIZE >= HEADER + 8
  /\ Word \in Nat /\ Word % 8 = 0 /\ KHEAP_END < Word
  /\ MAGIC_ALLOCATED \in Nat /\ MAGIC_FREED \in Nat
  /\ MAGIC_ALLOCATED # MAGIC_FREED
  /\ KHEAP_END < MAGIC_ALLOCATED
  /\ Residue \in [Heap -> Nat]
  /\ Sizes \subseteq 0 .. Word - 1
  /\ Pointers \subseteq {p \in KHEAP_START .. KHEAP_END : p - HEADER \in Heap}
  /\ Breaks \subseteq Nat
  /\ Values \subseteq Nat /\ MAGIC_ALLOCATED \notin Values  \* write refuses 2^31 and above
  /\ Capacities \subseteq Nat

----------------------------------------------------------------------------
(***************************************************************************)
(* The fields of a block header in a memory m.                             *)
(***************************************************************************)
SizeOf(m, b)  == m[b]
FreeOf(m, b)  == m[b + 4]
MagicOf(m, b) == m[b + 8]
NextOf(m, b)  == m[b + 12]

Size(b)  == SizeOf(mem, b)
Free(b)  == FreeOf(mem, b)
Magic(b) == MagicOf(mem, b)
Next(b)  == NextOf(mem, b)
End(b)   == b + HEADER + Size(b)

free_list == KHEAP_START

(***************************************************************************)
(* A request rounded up to a multiple of 8, in size_t arithmetic.          *)
(*                                                                         *)
(* An operator whose name ends in _bug is the operator after it with a     *)
(* slip a programmer could make; the runs check that a property notices.   *)
(***************************************************************************)
RoundUp_bug(n) == (n \div 8) * 8

RoundUp(n) == IF n % 8 = 0 THEN n ELSE (((n + 7) % Word) \div 8) * 8

(***************************************************************************)
(* kheap_init: the whole region is one free block.  Its magic is not       *)
(* written.                                                                *)
(***************************************************************************)
Init ==
  /\ mem = [Residue EXCEPT ![KHEAP_START]      = KHEAP_SIZE - HEADER,
                           ![KHEAP_START + 4]  = 1,
                           ![KHEAP_START + 12] = NULL]
  /\ heap_used = 0
  /\ pc = "idle" /\ cur = NULL /\ arg = 0
  /\ blocks = {KHEAP_START}
  /\ live = [p \in {} |-> 0]
  /\ planted = {w \in Heap : Residue[w] = MAGIC_ALLOCATED}

----------------------------------------------------------------------------
(***************************************************************************)
(* kmalloc.                                                                *)
(***************************************************************************)
Splits(m, blk, size) == SizeOf(m, blk) >= size + HEADER + 16

(* The new header's own bytes are not subtracted from its size.            *)
split_block_bug(m, blk, size) ==
  LET n == blk + HEADER + size
  IN  IF Splits(m, blk, size)
      THEN [m EXCEPT ![n]        = SizeOf(m, blk) - size,
                     ![n + 4]    = 1,
                     ![n + 12]   = NextOf(m, blk),
                     ![blk]      = size,
                     ![blk + 12] = n]
      ELSE m

(* The memory after split_block(blk, size).  The magic of the new header   *)
(* is left as it was found.                                                *)
split_block(m, blk, size) ==
  LET n == blk + HEADER + size
  IN  IF Splits(m, blk, size)
      THEN [m EXCEPT ![n]        = SizeOf(m, blk) - size - HEADER,
                     ![n + 4]    = 1,
                     ![n + 12]   = NextOf(m, blk),
                     ![blk]      = size,
                     ![blk + 12] = n]
      ELSE m

(* The scan starts after the first block.                                  *)
kmalloc_bug(n) ==
  /\ pc = "idle" /\ n # 0
  /\ pc' = "scan" /\ cur' = Next(free_list) /\ arg' = n
  /\ UNCHANGED <<mem, heap_used, blocks, live, planted>>

kmalloc(n) ==
  /\ pc = "idle" /\ n # 0
  /\ pc' = "scan" /\ cur' = free_list /\ arg' = n
  /\ UNCHANGED <<mem, heap_used, blocks, live, planted>>

(* A block in use fits as well.                                            *)
Fits_bug(b, size) == Size(b) >= size

Fits(b, size) == Free(b) # 0 /\ Size(b) >= size

kmalloc_next ==
  /\ pc = "scan" /\ cur # NULL /\ ~Fits(cur, RoundUp(arg))
  /\ cur' = Next(cur)
  /\ UNCHANGED <<mem, heap_used, pc, arg, blocks, live, planted>>

kmalloc_take ==
  LET size == RoundUp(arg)
  IN  /\ pc = "scan" /\ cur # NULL /\ Fits(cur, size)
      /\ mem' = [split_block(mem, cur, size) EXCEPT
                    ![cur + 4] = 0, ![cur + 8] = MAGIC_ALLOCATED]
      /\ blocks' = IF Splits(mem, cur, size)
                   THEN blocks \cup {cur + HEADER + size} ELSE blocks
      /\ heap_used' = (heap_used + size + HEADER) % Word
      /\ live' = [p \in DOMAIN live \cup {cur + HEADER} |->
                    IF p = cur + HEADER THEN arg ELSE live[p]]
      /\ pc' = "idle" /\ cur' = NULL /\ arg' = 0
      /\ planted' = {w \in planted \ {cur + 8} : mem'[w] = MAGIC_ALLOCATED}

kmalloc_fail ==
  /\ pc = "scan" /\ cur = NULL
  /\ pc' = "panic_oom"
  /\ UNCHANGED <<mem, heap_used, cur, arg, blocks, live, planted>>

----------------------------------------------------------------------------
(***************************************************************************)
(* kfree.                                                                  *)
(***************************************************************************)
(* The header in front of a pointer once it is marked as freed.            *)
Freed_bug(blk) == [mem EXCEPT ![blk + 4] = 1]

Freed(blk) == [mem EXCEPT ![blk + 4] = 1, ![blk + 8] = MAGIC_FREED]

Drop(ptr) == live' = [p \in DOMAIN live \ {ptr} |-> live[p]]

kfree_accept(ptr) ==
  LET blk == ptr - HEADER
  IN  /\ pc = "idle" /\ Magic(blk) = MAGIC_ALLOCATED
      /\ mem' = Freed(blk)
      /\ heap_used' = (heap_used - (Size(blk) + HEADER)) % Word
      /\ Drop(ptr)
      /\ pc' = IF ptr \in DOMAIN live THEN "merge" ELSE "forged"
      /\ cur' = free_list
      /\ planted' = planted \ {blk + 8}
      /\ UNCHANGED <<arg, blocks>>

(* A pointer of vmalloc: its magic is at the same place in front of it,    *)
(* and the heap takes its capacity for a size.                             *)
kfree_foreign(capacity) ==
  /\ pc = "idle"
  /\ heap_used' = (heap_used - (capacity + HEADER)) % Word
  /\ pc' = "merge" /\ cur' = free_list
  /\ UNCHANGED <<mem, arg, blocks, live, planted>>

(* The other way round: vfree marks a block of the heap as freed, and does *)
(* not merge it.                                                           *)
vfree(ptr) ==
  /\ pc = "idle" /\ Magic(ptr - HEADER) = MAGIC_ALLOCATED
  /\ mem' = Freed(ptr - HEADER)
  /\ Drop(ptr)
  /\ pc' = IF ptr \in DOMAIN live THEN "idle" ELSE "forged"
  /\ planted' = planted \ {ptr - 8}
  /\ UNCHANGED <<heap_used, cur, arg, blocks>>

kfree_reject(ptr) ==
  /\ pc = "idle" /\ Magic(ptr - HEADER) # MAGIC_ALLOCATED
  /\ pc' = "panic_free"
  /\ UNCHANGED <<mem, heap_used, cur, arg, blocks, live, planted>>

(* The second block of the pair may be in use.                             *)
Mergeable_bug(b) == Free(b) # 0 /\ End(b) = Next(b)

Mergeable(b) == Free(b) # 0 /\ Free(Next(b)) # 0 /\ End(b) = Next(b)

(* The loop moves on after a merge, past a pair that is now adjacent.      *)
kfree_merge_bug ==
  /\ pc = "merge" /\ Next(cur) # NULL /\ Mergeable(cur)
  /\ mem' = [mem EXCEPT ![cur]      = @ + HEADER + Size(Next(cur)),
                        ![cur + 12] = Next(Next(cur))]
  /\ blocks' = blocks \ {Next(cur)}
  /\ cur' = IF Next(Next(cur)) = NULL THEN cur ELSE Next(Next(cur))
  /\ UNCHANGED <<heap_used, pc, arg, live, planted>>

kfree_merge ==
  /\ pc = "merge" /\ Next(cur) # NULL /\ Mergeable(cur)
  /\ mem' = [mem EXCEPT ![cur]      = @ + HEADER + Size(Next(cur)),
                        ![cur + 12] = Next(Next(cur))]
  /\ blocks' = blocks \ {Next(cur)}
  /\ UNCHANGED <<heap_used, pc, cur, arg, live, planted>>

(* The loop variable is not advanced.                                      *)
kfree_next_bug ==
  /\ pc = "merge" /\ Next(cur) # NULL /\ ~Mergeable(cur)
  /\ UNCHANGED vars

kfree_next ==
  /\ pc = "merge" /\ Next(cur) # NULL /\ ~Mergeable(cur)
  /\ cur' = Next(cur)
  /\ UNCHANGED <<mem, heap_used, pc, arg, blocks, live, planted>>

kfree_return ==
  /\ pc = "merge" /\ Next(cur) = NULL
  /\ pc' = "idle" /\ cur' = NULL /\ arg' = 0
  /\ UNCHANGED <<mem, heap_used, blocks, live, planted>>

----------------------------------------------------------------------------
(***************************************************************************)
(* ksize, and the validation it relies on.  The list is walked, but a      *)
(* block that is not found on it is accepted all the same.                 *)
(***************************************************************************)
is_valid_kheap_block(blk) == blk >= KHEAP_START /\ blk < KHEAP_END /\ blk % 8 = 0

ksize(ptr) ==
  IF /\ ptr >= KHEAP_START /\ ptr < KHEAP_END
     /\ Magic(ptr - HEADER) = MAGIC_ALLOCATED /\ is_valid_kheap_block(ptr - HEADER)
  THEN Size(ptr - HEADER) ELSE 0

(***************************************************************************)
(* cmd_write on a heap address: the first word of the payload is stored    *)
(* when ksize finds at least four bytes there.                             *)
(***************************************************************************)
cmd_write(ptr, v) ==
  /\ pc = "idle" /\ ksize(ptr) >= 4
  /\ mem' = [mem EXCEPT ![ptr] = v]
  /\ pc' = IF ptr \in DOMAIN live THEN "idle" ELSE "forged"
  /\ planted' = planted \ {ptr}
  /\ UNCHANGED <<heap_used, cur, arg, blocks, live>>

(***************************************************************************)
(* A store by the owner of a pointer, of any value: ktest has no check.    *)
(* Behind a block of no bytes lies the next header.                        *)
(***************************************************************************)
store(ptr, v) ==
  /\ pc = "idle" /\ ptr \in DOMAIN live
  /\ mem' = [mem EXCEPT ![ptr] = v]
  /\ planted' = IF v = MAGIC_ALLOCATED THEN planted \cup {ptr} ELSE planted \ {ptr}
  /\ pc' = IF Size(ptr - HEADER) = 0 THEN "overrun" ELSE "idle"
  /\ UNCHANGED <<heap_used, cur, arg, blocks, live>>

(***************************************************************************)
(* kbrk with an address inside the heap.  An address outside returns -1    *)
(* and changes nothing, and kbrk(0) only reads heap_used.                  *)
(***************************************************************************)
kbrk(a) ==
  /\ pc = "idle" /\ a >= KHEAP_START /\ a <= KHEAP_END
  /\ heap_used' = a - KHEAP_START
  /\ UNCHANGED <<mem, pc, cur, arg, blocks, live, planted>>

(***************************************************************************)
(* kpanic_fatal: the machine halts with interrupts off, for good.          *)
(***************************************************************************)
Halted == pc \in {"panic_oom", "panic_free"}

kpanic_fatal == Halted /\ UNCHANGED vars

Lost == pc \in {"forged", "overrun"}

lost == Lost /\ UNCHANGED vars

----------------------------------------------------------------------------
(* The turns of the loops: what the processor does without a new command.  *)
Step ==
  \/ kmalloc_next \/ kmalloc_take \/ kmalloc_fail
  \/ kfree_merge \/ kfree_next \/ kfree_return

NextStep ==
  \/ \E n \in Sizes : kmalloc(n)
  \/ \E ptr \in Pointers : kfree_accept(ptr) \/ kfree_reject(ptr) \/ vfree(ptr)
  \/ \E capacity \in Capacities : kfree_foreign(capacity)
  \/ \E ptr \in Pointers, v \in Values : cmd_write(ptr, v)
  \/ \E a \in Breaks : kbrk(a)
  \/ Step
  \/ kpanic_fatal
  \/ lost

Spec == Init /\ [][NextStep]_vars

(* A loop in a single-threaded kernel with interrupts off keeps running.   *)
FairSpec == Spec /\ WF_vars(Step)

----------------------------------------------------------------------------
(***************************************************************************)
(* Properties.                                                             *)
(***************************************************************************)
TypeOK ==
  /\ mem \in [Heap -> Nat]
  /\ heap_used \in 0 .. Word - 1
  /\ pc \in {"idle", "scan", "merge", "panic_oom", "panic_free", "forged", "overrun"}
  /\ cur \in Heap \cup {NULL}
  /\ arg \in Nat
  /\ blocks \subseteq Heap /\ planted \subseteq Nat
  /\ DOMAIN live \subseteq KHEAP_START .. KHEAP_END
  /\ \A p \in DOMAIN live : live[p] \in Nat

Tiled ==
  /\ free_list \in blocks
  /\ \A b \in blocks :
       /\ b % 8 = 0 /\ Size(b) % 8 = 0 /\ Free(b) \in {0, 1}
       /\ b + HEADER <= KHEAP_END /\ End(b) <= KHEAP_END
       /\ IF Next(b) = NULL THEN End(b) = KHEAP_END
                            ELSE Next(b) = End(b) /\ Next(b) \in blocks
  /\ \A b, c \in blocks : b < c => End(b) <= c

(* The linked blocks tile the heap: they start at its first byte, each one *)
(* ends where the next one starts, the last one ends at the end of the     *)
(* heap, and none lies inside another.                                     *)
Tiling == ~Lost => Tiled

Owned == DOMAIN live = {b + HEADER : b \in {c \in blocks : Free(c) = 0}}

(* No block is lost or handed out twice: the blocks marked in use are      *)
(* exactly those of the pointers handed out and not freed.                 *)
LiveExact == ~Lost => Owned

(* kfree leaves no two neighbouring blocks that are both free, whatever    *)
(* splits, merges and calls of vfree came before.                          *)
Tidy == \A b \in blocks : Next(b) # NULL => Free(b) = 0 \/ Free(Next(b)) = 0

Coalesced == [][pc = "merge" /\ pc' = "idle" => Tidy']_vars

(* kmalloc's out-of-memory panic is never premature.                       *)
OomJustified ==
  pc = "panic_oom" => \A b \in blocks : ~Fits(b, RoundUp(arg))

(* A pointer is good for the bytes asked for, except for the requests that *)
(* round to zero: those get less than they asked for, and no panic.        *)
SizeHonoured ==
  ~Lost => \A p \in DOMAIN live : ksize(p) >= live[p] <=> live[p] <= Word - 8

(* Of the pointers into the heap kfree takes exactly those that are live:  *)
(* a double free or a stray pointer panics, and a live pointer never does. *)
(* write, ksize and vfree make the same test.  The exception is a pointer  *)
(* in front of which the value of the magic was in memory at boot or was   *)
(* stored as data, because split_block does not write the magic of a new   *)
(* header and nothing but the magic is looked at.                          *)
FreeDetection ==
  ~Lost => \A ptr \in Pointers :
             /\ ptr \in DOMAIN live => Magic(ptr - HEADER) = MAGIC_ALLOCATED
             /\ Magic(ptr - HEADER) = MAGIC_ALLOCATED => ptr \in DOMAIN live \/ ptr - 8 \in planted

(* No step of the allocator writes into the bytes it has handed out.       *)
PayloadUntouched ==
  [][ ~Lost' /\ ~(pc = "idle" /\ pc' = "idle") =>
        \A p \in DOMAIN live \cap DOMAIN live' :
          \A w \in Heap : w >= p /\ w < p + RoundUp(live[p]) => mem'[w] = mem[w] ]_vars

(* The loops over the list end: a call returns or panics.                  *)
CallsReturn == pc \in {"scan", "merge"} ~> pc \notin {"scan", "merge"}

(* The heap keeps what an allocator promises: no caller can tell it from   *)
(* Allocator, in which the ranges in use never overlap.  A range has the   *)
(* bytes that the request rounds to.                                       *)
Granted == [p \in DOMAIN live |-> RoundUp(live[p])]

Abstract == INSTANCE Allocator WITH
              Base <- KHEAP_START, Limit <- KHEAP_END,
              Addresses <- {p \in KHEAP_START .. KHEAP_END : p % 8 = 0},
              Lengths <- {n \in 0 .. KHEAP_SIZE : n % 8 = 0},
              live <- Granted, halted <- Halted

ImplementsAllocator == Abstract!Spec

=============================================================================
