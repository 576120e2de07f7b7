-------------------------------- MODULE Boot --------------------------------
(***************************************************************************)
(* Boot: memory_init, which kernel_main calls after interrupt_init has     *)
(* enabled interrupts, and a command that the user types meanwhile.        *)
(*                                                                         *)
(* Two actors share the memory structures.  kernel_main initialises them   *)
(* in small steps: what the build (without optimisation) compiles to a     *)
(* load and a store is two steps wherever a command between them is not    *)
(* already known to do harm.  A command runs to its end inside the         *)
(* keyboard interrupt, so it is one step, between any two of the others.   *)
(* The commands are the three that call the memory code in different ways: *)
(* vmalloc of a page, kmalloc, and pageops, which keeps a page table.  The *)
(* tests call the same functions several times; present and rotest also    *)
(* keep a table before paging is enabled, and fault afterwards; frees are  *)
(* left out, write to memory of kernel_main too, and so are stale          *)
(* translations, which AddressSpace is about.                              *)
(*                                                                         *)
(* Frames are numbered from PMM_START, and a low page has the number of    *)
(* the frame at its own address.                                           *)
(***************************************************************************)
EXTENDS Integers, FiniteSets

CONSTANTS
  AvailablePages,  \* frames of the machine
  ReservePages,    \* frames of the kernel
  HeapPages,       \* pages of the heap, which follow the kernel's
  VmemPages,       \* pages of the vmalloc region, which follow the heap's
  MaxCommands      \* bound: commands typed during boot

VARIABLES
  loc,          \* where kernel_main is
  i, page,      \* the loop variables of pmm_alloc_page and of kheap_init
  word, count,  \* registers: the bitmap and the counter as loaded
  bitmap, total_pages, free_pages,
  pde,          \* the first entry of page_directory
  high,         \* the frame in its entry for the page of pageops
  table,        \* the first static page table
  paging,       \* the PG bit of CR0
  free_list,    \* the heap has its list
  heap,         \* what the heap's first header says: "residue", "free" or "taken"
  vmem,         \* vmem_current, as a page
  blocks,       \* the pages of vmalloc's blocks |-> the frame the header is in
  owners,       \* history: who was given which frame
  given,        \* history: kmalloc has returned a block
  torn,         \* history: what a command has run into the middle of
  commands      \* history: the number of commands typed

counters  == <<total_pages, free_pages>>
registers == <<i, page, word, count>>
mappings  == <<pde, high, table, paging>>
heaps     == <<free_list, heap, given>>
region    == <<vmem, blocks>>
history   == <<torn, commands>>
vars == <<loc, registers, bitmap, counters, mappings, heaps, region, owners, history>>

ASSUME BootAssumption ==
  /\ AvailablePages \in Nat /\ ReservePages \in Nat \ {0} /\ HeapPages \in Nat \ {0}
  /\ VmemPages \in Nat /\ ReservePages + HeapPages + VmemPages <= AvailablePages
  /\ MaxCommands \in Nat

Frames      == 0 .. AvailablePages - 1
KHEAP_START == ReservePages
KVMEM_START == ReservePages + HeapPages
KVMEM_END   == KVMEM_START + VmemPages
NoFrame     == -1

(* Static memory is zero.  The kernel lies in the first frames.            *)
Init ==
  /\ loc = "total" /\ i = 0 /\ page = 0 /\ word = {} /\ count = 0
  /\ bitmap = {} /\ total_pages = 0 /\ free_pages = 0
  /\ pde = "absent" /\ high = NoFrame /\ table = [v \in Frames |-> 0] /\ paging = FALSE
  /\ free_list = FALSE /\ heap = "residue" /\ given = FALSE
  /\ vmem = KVMEM_START /\ blocks = [v \in {} |-> 0]
  /\ owners = {<<"kernel", f, f>> : f \in 0 .. ReservePages - 1}
  /\ torn = {} /\ commands = 0

----------------------------------------------------------------------------
(***************************************************************************)
(* kernel_main, one disjunct for each step of each function it calls.      *)
(***************************************************************************)
(* The bit is not set in the word that is written back.                    *)
set_bit_bug(w, n) == w

set_bit(w, n) == w \cup {n}

(* The last page of the kernel is not reserved.                            *)
Reserved_bug == 0 .. ReservePages - 2

Reserved == 0 .. ReservePages - 1

pmm_init ==
  /\ \/ /\ loc = "total" /\ loc' = "count"
        /\ total_pages' = AvailablePages /\ UNCHANGED <<i, bitmap, free_pages>>
     \/ /\ loc = "count" /\ loc' = "fill"
        /\ free_pages' = 0 /\ UNCHANGED <<i, bitmap, total_pages>>
     \/ /\ loc = "fill" /\ loc' = "clear"
        /\ bitmap' = Frames /\ i' = 0 /\ UNCHANGED counters
     \/ /\ loc = "clear" /\ i < AvailablePages
        /\ bitmap' = bitmap \ {i} /\ free_pages' = free_pages + 1 /\ i' = i + 1
        /\ UNCHANGED <<loc, total_pages>>
     \/ /\ loc = "clear" /\ i = AvailablePages /\ loc' = "reserve"
        /\ i' = 0 /\ UNCHANGED <<bitmap, counters>>
     \/ /\ loc = "reserve" /\ i \in Reserved
        /\ bitmap' = set_bit(bitmap, i) /\ i' = i + 1
        /\ free_pages' = IF i \in bitmap THEN free_pages ELSE free_pages - 1
        /\ UNCHANGED <<loc, total_pages>>
     \/ /\ loc = "reserve" /\ i \notin Reserved /\ loc' = "pd_zero"
        /\ UNCHANGED <<i, bitmap, counters>>
  /\ UNCHANGED <<page, word, count, mappings, heaps, owners>>

(* paging_init and paging_enable.  The directory is cleared, the table is  *)
(* filled, and only then is the table put into the directory.              *)
paging_init ==
  /\ \/ /\ loc = "pd_zero" /\ loc' = "table"
        /\ pde' = "absent" /\ high' = NoFrame /\ UNCHANGED <<table, paging>>
     \/ /\ loc = "table" /\ loc' = "pd_set"
        /\ table' = [v \in Frames |-> v] /\ UNCHANGED <<pde, high, paging>>
     \/ /\ loc = "pd_set" /\ loc' = "enable"
        /\ pde' = "static" /\ UNCHANGED <<high, table, paging>>
     \/ /\ loc = "enable" /\ loc' = "scan"
        /\ paging' = TRUE /\ UNCHANGED <<pde, high, table>>
  /\ i' = 0 /\ UNCHANGED <<page, word, count, bitmap, counters, heaps, owners>>


NextFrame == i + 1

(* The counter as loaded is stored.                                        *)
Decremented_bug == count

Decremented == count - 1

(* The test of a bit, the load and the store that set it, and the load and *)
(* the store that decrement the counter.                                   *)
pmm_alloc_page ==
  /\ \/ /\ loc = "scan" /\ i < total_pages /\ i \in bitmap
        /\ i' = NextFrame /\ UNCHANGED <<loc, word, count, bitmap, free_pages, owners>>
     \/ /\ loc = "scan" /\ i < total_pages /\ i \notin bitmap /\ loc' = "load"
        /\ UNCHANGED <<i, word, count, bitmap, free_pages, owners>>
     \/ /\ loc = "scan" /\ i >= total_pages /\ loc' = "halted"
        /\ UNCHANGED <<i, word, count, bitmap, free_pages, owners>>
     \/ /\ loc = "load" /\ loc' = "store"
        /\ word' = bitmap /\ UNCHANGED <<i, count, bitmap, free_pages, owners>>
     \/ /\ loc = "store" /\ loc' = "dec_load"
        /\ bitmap' = set_bit(word, i) /\ owners' = owners \cup {<<"heap", page, i>>}
        /\ UNCHANGED <<i, word, count, free_pages>>
     \/ /\ loc = "dec_load" /\ loc' = "dec_store"
        /\ count' = free_pages /\ UNCHANGED <<i, word, bitmap, free_pages, owners>>
     \/ /\ loc = "dec_store" /\ loc' = "map"
        /\ free_pages' = Decremented /\ UNCHANGED <<i, word, count, bitmap, owners>>
  /\ UNCHANGED <<page, total_pages, mappings, heaps>>

(* The address of the next page is used.                                   *)
HeapPage_bug == KHEAP_START + page + 1

HeapPage == KHEAP_START + page

(* Each page is mapped to the frame just taken; then the list is linked    *)
(* and its header written.                                                 *)
kheap_init ==
  /\ \/ /\ loc = "map" /\ loc' = IF page + 1 < HeapPages THEN "scan" ELSE "link"
        /\ table' = [table EXCEPT ![HeapPage] = i] /\ page' = page + 1 /\ i' = 0
        /\ UNCHANGED <<free_list, heap>>
     \/ /\ loc = "link" /\ loc' = "header"
        /\ free_list' = TRUE /\ UNCHANGED <<i, page, table, heap>>
     \/ /\ loc = "header" /\ loc' = "shell"
        /\ heap' = "free" /\ UNCHANGED <<i, page, table, free_list>>
  /\ UNCHANGED <<word, count, bitmap, counters, pde, high, paging, given, owners>>

(* shell_init only prints here: the line it resets belongs to Console.     *)
shell_init ==
  /\ loc = "shell" /\ loc' = "hlt"
  /\ UNCHANGED <<registers, bitmap, counters, mappings, heaps, owners>>

memory_init == pmm_init \/ paging_init \/ pmm_alloc_page \/ kheap_init

kernel_main == (memory_init \/ shell_init) /\ UNCHANGED <<region, history>>

----------------------------------------------------------------------------
(***************************************************************************)
(* The interrupt.                                                          *)
(***************************************************************************)
(* Where an access to a low page goes at the moment.                       *)
Reach(v) == IF paging THEN table[v] ELSE v

Readable == \A v \in DOMAIN blocks : Reach(v) = blocks[v]

(* The places where a command changes what kernel_main is working on: it   *)
(* takes frames while the bitmap is not yet valid or is in a register, or  *)
(* while the counter is; it writes a block before addresses get their      *)
(* final meaning, or a table before the heap's pages have theirs; it takes *)
(* heap memory before the header is written.                               *)
Unready == {"count", "fill", "clear", "reserve"}
Unpaged == {"pd_zero", "table", "pd_set", "enable"}
Taking  == {"scan", "load", "store"}
Taken   == {"dec_load", "dec_store", "map"}

Window(where) ==
  (IF where \in Unready \cup {"load", "store"} THEN {"frames", "count"} ELSE {})
  \cup (IF where = "dec_store" THEN {"count"} ELSE {})

BlockWindow(where) == IF where \in Unready \cup Unpaged THEN {"blocks"} ELSE {}

TableWindow(where) == IF where \in Unpaged \cup Taking \cup Taken THEN {"tables"} ELSE {}

Typed == loc \notin {"halted", "astray"} /\ commands < MaxCommands /\ commands' = commands + 1

FreeFrames == {f \in 0 .. total_pages - 1 : f \notin bitmap}

Lowest(set) == {f \in set : \A g \in set : f <= g}

(* pmm_alloc_page finds no frame, or the vmalloc region is at its end.     *)
panic ==
  /\ loc' = "halted"
  /\ UNCHANGED <<registers, bitmap, counters, mappings, heaps, region, owners, torn>>

(* The command follows a header that is no longer where it was written, or *)
(* fills in a table whose address leads elsewhere.  It may overwrite the   *)
(* memory of others, fault, or never return, so no step follows this one.  *)
astray ==
  /\ loc' = "astray"
  /\ UNCHANGED <<registers, bitmap, counters, mappings, heaps, region, owners>>

(* The frames vmalloc takes for a page: one for the page and then, when    *)
(* the directory has no table there, one for a table.                      *)
vmalloc ==
  \E f \in Lowest(FreeFrames) :
  LET new == IF pde = "absent" THEN Lowest(FreeFrames \ {f}) ELSE {}
  IN  /\ Typed /\ Readable
      /\ vmem < KVMEM_END /\ (pde = "absent" => new # {})
      /\ bitmap' = bitmap \cup {f} \cup new
      /\ free_pages' = free_pages - Cardinality({f} \cup new)
      /\ owners' = owners \cup {<<"vmem", vmem, f>>} \cup {<<"table", vmem, t>> : t \in new}
      /\ pde' = IF pde = "absent" THEN "early" ELSE pde
      /\ table' = IF pde = "static" THEN [table EXCEPT ![vmem] = f] ELSE table
      /\ blocks' = [v \in DOMAIN blocks \cup {vmem} |->
                      IF v # vmem THEN blocks[v] ELSE IF paging THEN f ELSE vmem]
      /\ vmem' = vmem + 1
      /\ torn' = torn \cup Window(loc) \cup BlockWindow(loc)
      /\ UNCHANGED <<loc, registers, total_pages, high, paging, heaps>>

vmalloc_panic ==
  /\ Typed /\ Readable
  /\ vmem >= KVMEM_END \/ Cardinality(FreeFrames) < IF pde = "absent" THEN 2 ELSE 1
  /\ panic

vmalloc_astray == Typed /\ ~Readable /\ astray /\ UNCHANGED torn

(* pageops maps a page of its own, uses it, unmaps it and gives its frame  *)
(* back; the table it needs the first time is the next free frame, and is  *)
(* kept.                                                                   *)
pageops_again ==
  /\ Typed /\ high # NoFrame /\ FreeFrames # {}
  /\ \/ /\ Reach(high) = high
        /\ UNCHANGED <<loc, registers, bitmap, counters, mappings, heaps, region, owners>>
     \/ Reach(high) # high /\ astray
  /\ UNCHANGED torn

pageops_first ==
  \E f \in Lowest(FreeFrames) : \E t \in Lowest(FreeFrames \ {f}) :
    /\ Typed /\ high = NoFrame
    /\ \/ /\ Reach(t) = t
          /\ high' = t /\ bitmap' = bitmap \cup {t} /\ free_pages' = free_pages - 1
          /\ owners' = owners \cup {<<"pageops", 0, t>>}
          /\ torn' = torn \cup Window(loc) \cup TableWindow(loc)
          /\ UNCHANGED <<loc, registers, total_pages, pde, table, paging, heaps, region>>
       \/ Reach(t) # t /\ astray /\ torn' = torn \cup TableWindow(loc)

pageops_panic ==
  /\ Typed /\ Cardinality(FreeFrames) < IF high = NoFrame THEN 2 ELSE 1
  /\ panic

(* kmalloc finds the list empty, or takes the block whose header it finds; *)
(* what an unwritten header says is not known.                             *)
kmalloc_panic ==
  /\ Typed /\ (~free_list \/ heap = "residue")
  /\ panic

kmalloc ==
  /\ Typed /\ free_list
  /\ heap' = "taken" /\ given' = TRUE
  /\ torn' = torn \cup (IF heap = "residue" THEN {"heap"} ELSE {})
  /\ UNCHANGED <<loc, registers, bitmap, counters, mappings, free_list, region, owners>>

----------------------------------------------------------------------------
(* kernel_main waits for interrupts, or does not run any more.             *)
hlt == loc \in {"hlt", "halted", "astray"} /\ UNCHANGED vars

keyboard_handler ==
  \/ vmalloc \/ vmalloc_panic \/ vmalloc_astray
  \/ pageops_first \/ pageops_again \/ pageops_panic
  \/ kmalloc \/ kmalloc_panic

Next == kernel_main \/ keyboard_handler \/ hlt

(* A command that does not go astray returns, so kernel_main goes on.      *)
Spec == Init /\ [][Next]_vars /\ WF_vars(kernel_main)

----------------------------------------------------------------------------
(***************************************************************************)
(* Properties.                                                             *)
(***************************************************************************)
(* No frame is given to two owners and none of the kernel's is given away, *)
(* unless a command came while the bitmap was being set up or was in a     *)
(* register of pmm_alloc_page.                                             *)
OneOwner ==
  "frames" \notin torn => \A a, b \in owners : a[3] = b[3] => a = b

(* Once boot is over the counter is the number of clear bits, unless a     *)
(* command came while either was in a register.                            *)
CountExact ==
  loc = "hlt" /\ torn \cap {"frames", "count"} = {} =>
    free_pages = Cardinality(FreeFrames)

(* From the moment kmalloc can succeed, the entry of each page of the heap *)
(* holds the frame that was taken for it, and a block that kmalloc         *)
(* returned stays taken; and the entry of each block of vmalloc holds its  *)
(* own frame from paging on, whatever tables pageops has kept.             *)
PagesReachOwners ==
  torn \subseteq {"tables"} =>
    /\ free_list => \A p \in 0 .. HeapPages - 1 : <<"heap", p, table[KHEAP_START + p]>> \in owners
    /\ given => heap = "taken"
    /\ paging => \A v \in DOMAIN blocks : blocks[v] = table[v] /\ <<"vmem", v, table[v]>> \in owners

(* Boot leaves the memory the page-table code relies on: every frame that  *)
(* it may still take for a table is mapped at its own address, whatever    *)
(* was typed outside of the windows of vmalloc; and when nothing was typed *)
(* every low page is, and the frames behind the heap are free.             *)
BootDelivers ==
  loc = "hlt" =>
    /\ torn \subseteq {"tables"} => \A f \in FreeFrames : f >= vmem /\ table[f] = f
    /\ commands = 0 => /\ \A v \in Frames : table[v] = v
                       /\ FreeFrames = {f \in Frames : f >= KVMEM_START}

(* A command goes astray only when an earlier one came before paging or    *)
(* while the bitmap was in a register, when it is pageops and the heap is  *)
(* still being mapped, or when an earlier pageops has left a table, whose  *)
(* address leads elsewhere once the heap or vmalloc maps that page.        *)
AstrayOnlyAfter ==
  loc = "astray" => torn \cap {"frames", "blocks", "tables"} # {} \/ high # NoFrame

=============================================================================
