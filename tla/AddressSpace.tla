---------------------------- MODULE AddressSpace ----------------------------
(***************************************************************************)
(* Paging: src/src/paging.c, the way the processor translates addresses,   *)
(* and the code that maps pages, which is vmalloc and the shell commands   *)
(* pageops, present and rotest.                                            *)
(*                                                                         *)
(* Low virtual pages are numbers and are mapped by static tables, first to *)
(* the frame with the same number.  Each command maps one high page, whose *)
(* page table is a frame taken when the page is first mapped.  The code    *)
(* reaches such a table at the virtual address that equals its physical    *)
(* one.  All the words it writes are the first of a page (index 0 of a     *)
(* table), so a frame is modelled by its first word.                       *)
(*                                                                         *)
(* A command is a sequence of steps, one for each access or allocation.    *)
(* Commands do not interleave: they run with interrupts off.               *)
(***************************************************************************)
EXTENDS Integers

CONSTANTS
  PoolStart,  \* first frame of the pool, and first page of the vmalloc region
  PoolEnd,    \* last frame of the pool
  KVMEM_LAST, \* last page of the vmalloc region
  MaxPages    \* pages of the largest vmalloc

VARIABLES
  ram,    \* first word of each frame
  table,  \* the static page tables: low page |-> frame
  pde,    \* page directory: high page |-> frame of its table, NONE if absent
  tlb,    \* translations the processor may still hold
  free,   \* frames the physical memory manager has free
  vmem,   \* vmem_current as a page: the next page vmalloc or vbrk maps
  cmd,    \* the running command
  pc,     \* its next step
  phys,   \* the frame it maps, NONE once given back
  va, end \* the pages vmalloc and vbrk still have to map

vars == <<ram, table, pde, tlb, free, vmem, cmd, pc, phys, va, end>>

ASSUME AddressSpaceAssumption ==
  /\ PoolStart \in Nat \ {0} /\ PoolEnd \in PoolStart .. 3071
  /\ KVMEM_LAST \in PoolStart .. PoolEnd
  /\ MaxPages \in Nat \ {0}

NONE == -1

Low  == 0 .. PoolEnd
Pool == PoolStart .. PoolEnd

(***************************************************************************)
(* The commands: the page each one uses (0x10000000, 0x50000000 and        *)
(* 0x20000000 as page numbers), whether it maps that page writable, and    *)
(* which of its steps follows which.                                       *)
(***************************************************************************)
cmd_page_ops ==
  [virt |-> 65536, writable |-> TRUE,
   map |-> "write", write |-> "unmap", unmap |-> "free", free |-> "idle"]

cmd_present ==
  [virt |-> 327680, writable |-> TRUE,
   map |-> "write", write |-> "unmap", unmap |-> "free", free |-> "flush",
   flush |-> "probe", probe |-> "idle"]

(* The steps after the write clean up, should the write succeed.           *)
cmd_rotest ==
  [virt |-> 327680, writable |-> FALSE,
   map |-> "read", read |-> "write", write |-> "unmap", unmap |-> "free",
   free |-> "idle"]

cmd_pftest == [virt |-> 131072, probe |-> "idle"]

Command(c) ==
  CASE c = "pageops" -> cmd_page_ops
    [] c = "present" -> cmd_present
    [] c = "rotest"  -> cmd_rotest
    [] c = "pftest"  -> cmd_pftest

High == {Command(c).virt : c \in {"pageops", "present", "rotest", "pftest"}}

Virt  == Command(cmd).virt
After == Command(cmd)[pc]

Word(tag, f, w) == [tag |-> tag, frame |-> f, write |-> w]
Data(tag)       == Word(tag, 0, FALSE)
PTE(f, w)       == Word("pte", f, w)

(* The address is not advanced from page to page.                          *)
paging_init_bug(v) == 0

(* The frame paging_init maps at a low page.                               *)
paging_init(v) == v

(* After boot: the heap has taken the frames below the pool.               *)
Init ==
  /\ ram = [f \in Low |-> IF f \in Pool THEN Data("zero") ELSE Data("kernel")]
  /\ table = [v \in Low |-> paging_init(v)]
  /\ pde = [v \in High |-> NONE]
  /\ tlb = [v \in {} |-> Data("zero")]
  /\ free = Pool
  /\ vmem = PoolStart
  /\ cmd = "none" /\ pc = "idle" /\ phys = NONE /\ va = NONE /\ end = NONE

locals == <<cmd, phys, va, end>>
tables == <<table, pde>>

----------------------------------------------------------------------------
(***************************************************************************)
(* The processor.  Walk is the translation in memory; a word that is not a *)
(* page table entry has its present bit clear.  A translation used before  *)
(* is still cached or has been dropped, and the code cannot tell which.    *)
(***************************************************************************)
Walk(v) ==
  IF v \in High
  THEN IF pde[v] = NONE THEN Data("zero") ELSE ram[pde[v]]
  ELSE PTE(table[v], TRUE)

Translations(v) == {Walk(v)} \cup {tlb[x] : x \in DOMAIN tlb \cap {v}}

Cached(v, t) == [x \in DOMAIN tlb \cup {v} |-> IF x = v THEN t ELSE tlb[x]]

Present(t) == t.tag = "pte"

(* page_fault_handler: every path ends in a panic.                         *)
page_fault_handler ==
  /\ pc' = "panic_fault"
  /\ UNCHANGED <<ram, tlb>>

(* A store through v and then step next; CR0.WP makes read-only pages      *)
(* fault in kernel mode too.                                               *)
Store(v, word, next) ==
  \E t \in Translations(v) :
    IF Present(t) /\ t.write
    THEN ram' = [ram EXCEPT ![t.frame] = word] /\ tlb' = Cached(v, t) /\ pc' = next
    ELSE page_fault_handler

Load(v, next) ==
  \E t \in Translations(v) :
    IF Present(t)
    THEN tlb' = Cached(v, t) /\ pc' = next /\ UNCHANGED ram
    ELSE page_fault_handler

(***************************************************************************)
(* The frame pmm_alloc_page takes, or its panic.                           *)
(***************************************************************************)
Lowest_bug(f) == f \in free /\ \A g \in free : f >= g

Lowest(f) == f \in free /\ \A g \in free : f <= g

OutOfMemory ==
  /\ free = {} /\ pc' = "panic_oom"
  /\ UNCHANGED <<ram, tlb, free, vmem>> /\ UNCHANGED tables /\ UNCHANGED locals

----------------------------------------------------------------------------
(***************************************************************************)
(* pageops, present, rotest: map a frame at a high page, use it, unmap it. *)
(***************************************************************************)
alloc_page(c) ==
  /\ pc = "idle"
  /\ \E f \in free : Lowest(f) /\ phys' = f /\ free' = free \ {f}
  /\ cmd' = c /\ pc' = "map"
  /\ UNCHANGED <<ram, tlb, vmem, va, end>> /\ UNCHANGED tables

alloc_page_fails == pc = "idle" /\ OutOfMemory

(* virt_to_pte with create: a table is taken, cleared and linked.          *)
virt_to_pte ==
  /\ pc = "map" /\ pde[Virt] = NONE
  /\ \E t \in free :
       /\ Lowest(t) /\ free' = free \ {t}
       /\ Store(t, Data("zero"), "map")
       /\ pde' = [pde EXCEPT ![Virt] = t]
  /\ UNCHANGED <<table, vmem>> /\ UNCHANGED locals

virt_to_pte_fails == pc = "map" /\ pde[Virt] = NONE /\ OutOfMemory

(* The table is written at the virtual address equal to its frame's.       *)
vmm_map_page ==
  /\ pc = "map" /\ pde[Virt] # NONE
  /\ Store(pde[Virt], PTE(phys, Command(cmd).writable), After)
  /\ UNCHANGED <<free, vmem>> /\ UNCHANGED tables /\ UNCHANGED locals

read_page ==
  /\ pc = "read" /\ Load(Virt, After)
  /\ UNCHANGED <<free, vmem>> /\ UNCHANGED tables /\ UNCHANGED locals

write_page ==
  /\ pc = "write" /\ Store(Virt, Data("data"), After)
  /\ UNCHANGED <<free, vmem>> /\ UNCHANGED tables /\ UNCHANGED locals

vmm_unmap_page ==
  /\ pc = "unmap" /\ Store(pde[Virt], Data("zero"), After)
  /\ UNCHANGED <<free, vmem>> /\ UNCHANGED tables /\ UNCHANGED locals

(* pageops forgets to give its frame back.                                 *)
free_page_bug ==
  /\ pc = "free"
  /\ phys' = NONE
  /\ pc' = After
  /\ UNCHANGED <<ram, tlb, free, vmem, cmd, va, end>> /\ UNCHANGED tables

free_page ==
  /\ pc = "free"
  /\ free' = free \cup {phys} /\ phys' = NONE
  /\ pc' = After
  /\ UNCHANGED <<ram, tlb, vmem, cmd, va, end>> /\ UNCHANGED tables

flush_tlb_bug ==
  /\ pc = "flush" /\ pc' = After
  /\ UNCHANGED <<ram, tlb, free, vmem>> /\ UNCHANGED tables /\ UNCHANGED locals

(* present reloads CR3.                                                    *)
flush_tlb ==
  /\ pc = "flush" /\ pc' = After
  /\ tlb' = [v \in {} |-> Data("zero")]
  /\ UNCHANGED <<ram, free, vmem>> /\ UNCHANGED tables /\ UNCHANGED locals

(* The access that has to fault.                                           *)
probe ==
  /\ pc = "probe" /\ Load(Virt, After)
  /\ UNCHANGED <<free, vmem>> /\ UNCHANGED tables /\ UNCHANGED locals

(* pftest and pftest2 read a page that nothing maps.                       *)
pftest ==
  /\ pc = "idle" /\ cmd' = "pftest" /\ pc' = "probe"
  /\ UNCHANGED <<ram, tlb, free, vmem, phys, va, end>> /\ UNCHANGED tables

----------------------------------------------------------------------------
(***************************************************************************)
(* vmalloc of k new pages, and vbrk by k pages.                            *)
(***************************************************************************)
expand(c, k) ==
  /\ pc = "idle" /\ (c = "vmalloc" => vmem + k <= KVMEM_LAST)
  /\ cmd' = c /\ pc' = "expand" /\ va' = vmem /\ end' = vmem + k
  /\ UNCHANGED <<ram, tlb, free, vmem, phys>> /\ UNCHANGED tables

expand_fails(k) ==
  /\ pc = "idle" /\ vmem + k > KVMEM_LAST
  /\ pc' = "panic_region"
  /\ UNCHANGED <<ram, tlb, free, vmem>> /\ UNCHANGED tables /\ UNCHANGED locals

expand_page ==
  /\ pc = "expand" /\ va < end
  /\ \E f \in free :
       Lowest(f) /\ free' = free \ {f} /\ table' = [table EXCEPT ![va] = f]
  /\ va' = va + 1
  /\ vmem' = IF cmd = "vbrk" THEN vmem + 1 ELSE vmem
  /\ UNCHANGED <<ram, tlb, pde, cmd, pc, phys, end>>

expand_page_fails == pc = "expand" /\ va < end /\ OutOfMemory

(* vmalloc writes the header of the new block.                             *)
vmalloc_header ==
  /\ pc = "expand" /\ va = end /\ cmd = "vmalloc"
  /\ Store(vmem, Data("header"), "idle")
  /\ vmem' = end
  /\ UNCHANGED <<free, cmd, phys, va, end>> /\ UNCHANGED tables

vbrk_return ==
  /\ pc = "expand" /\ va = end /\ cmd = "vbrk"
  /\ pc' = "idle"
  /\ UNCHANGED <<ram, tlb, free, vmem>> /\ UNCHANGED tables /\ UNCHANGED locals

----------------------------------------------------------------------------
Halted == pc \in {"panic_fault", "panic_oom", "panic_region"}

kpanic_fatal == Halted /\ UNCHANGED vars

Step ==
  \/ virt_to_pte \/ virt_to_pte_fails \/ vmm_map_page
  \/ read_page \/ write_page \/ vmm_unmap_page \/ free_page
  \/ flush_tlb \/ probe
  \/ expand_page \/ expand_page_fails \/ vmalloc_header \/ vbrk_return

Next ==
  \/ \E c \in {"pageops", "present", "rotest"} : alloc_page(c)
  \/ alloc_page_fails
  \/ pftest
  \/ \E c \in {"vmalloc", "vbrk"}, k \in 1 .. MaxPages : expand(c, k)
  \/ \E k \in 1 .. MaxPages : expand_fails(k)
  \/ Step
  \/ kpanic_fatal

Spec == Init /\ [][Next]_vars

----------------------------------------------------------------------------
(***************************************************************************)
(* Properties.                                                             *)
(***************************************************************************)
Mapped == {v \in Pool : v < vmem \/ (pc = "expand" /\ v < va)}

Tables == {pde[v] : v \in High} \ {NONE}

(* Every frame of the pool has one use: it is free, a page table, behind   *)
(* one page of the vmalloc region, or the page of the running command.  No *)
(* command loses a frame or leaves one with two uses.                      *)
FramesPartitioned ==
  ~Halted =>
    LET backing == {table[v] : v \in Mapped}
        own     == {phys} \ {NONE}
    IN  /\ free \cup Tables \cup backing \cup own = Pool
        /\ \A v, w \in Mapped : table[v] = table[w] => v = w
        /\ \A v, w \in High : pde[v] = pde[w] => v = w \/ pde[v] = NONE
        /\ free \cap (Tables \cup backing \cup own) = {}
        /\ Tables \cap (backing \cup own) = {} /\ backing \cap own = {}

(* The kernel's own frames are never written through a page that one of    *)
(* these commands maps, whatever stale translations the processor holds.   *)
KernelIntact == \A f \in Low \ Pool : ram[f] = Data("kernel")

(* The commands that show page protection always end in a fault: present   *)
(* and pftest never read an unmapped page and rotest never writes its      *)
(* read-only page, whatever ran before.                                    *)
ProtectionHolds ==
  [][ (cmd \in {"present", "rotest", "pftest"} /\ pc # "idle") => (pc' # "idle") ]_vars

(* virt_to_pte clears a new table at the virtual address that equals its   *)
(* physical one.  That reaches the table although vmalloc has changed the  *)
(* mapping of low pages: a frame that can still become a table is always   *)
(* mapped at its own address.                                              *)
FreshTablesReachable == \A f \in free : table[f] = f

(* "Single happy-path exercise: alloc -> map -> RW test -> get -> unmap -> *)
(* free", shell.c:510: pageops never faults.                               *)
HappyPath == ~(cmd = "pageops" /\ pc = "panic_fault")
=============================================================================
