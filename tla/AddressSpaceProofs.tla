------------------------- MODULE AddressSpaceProofs -------------------------
(***************************************************************************)
(* Proofs about paging, for a pool and a vmalloc region of any size.       *)
(***************************************************************************)
EXTENDS AddressSpace, TLAPS

(***************************************************************************)
(* The inductive invariant.  Its centre is Front, the first low page that  *)
(* vmalloc and vbrk have not mapped yet.  pmm_alloc_page takes the lowest  *)
(* frame, so while pages below Front are given frames, the frames that are *)
(* free stay at or above it, where pages still have their own frames.      *)
(***************************************************************************)
Front == IF va > vmem THEN va ELSE vmem

Words == [tag : {"pte", "zero", "kernel", "data", "header"},
          frame : Low, write : BOOLEAN]

Panics == {"panic_fault", "panic_oom", "panic_region"}

(* Which steps belong to which command.  rotest does not get past its      *)
(* write.                                                                  *)
Control ==
  \/ pc \in {"idle"} \cup Panics
  \/ cmd = "pageops" /\ pc \in {"map", "write", "unmap", "free"}
  \/ cmd = "present" /\ pc \in {"map", "write", "unmap", "free", "flush", "probe"}
  \/ cmd = "rotest" /\ pc \in {"map", "read", "write"}
  \/ cmd = "pftest" /\ pc = "probe"
  \/ cmd \in {"vmalloc", "vbrk"} /\ pc = "expand"

Shape ==
  /\ Control
  /\ ram \in [Low -> Words] /\ table \in [Low -> Low]
  /\ pde \in [High -> Pool \cup {NONE}]
  /\ free \subseteq Pool /\ phys \in Pool \cup {NONE}
  /\ pc \in {"map", "read", "write", "unmap", "free"} => phys \in Pool
  /\ pc \in {"idle", "expand", "flush", "probe"} => phys = NONE
  /\ pc \in {"read", "write", "unmap"} => pde[Virt] # NONE

(* The loops of vmalloc and vbrk.                                          *)
Loop ==
  /\ vmem \in Nat /\ va \in Int /\ end \in Int /\ PoolStart <= vmem
  /\ pc = "expand" =>
       /\ vmem <= va /\ va <= end
       /\ cmd = "vbrk" => vmem = va
       /\ cmd = "vmalloc" => vmem < end /\ end <= KVMEM_LAST
  /\ pc \notin {"expand"} \cup Panics => va <= vmem

(* Pages from Front on, and the frames that are or may become free.        *)
Untouched ==
  /\ \A f \in free : f >= Front
  /\ phys # NONE => phys >= Front
  /\ \A v \in Low : v >= Front => table[v] = v

(* No translation, in memory or cached, leads to a frame of the kernel.    *)
InPool ==
  /\ \A v \in Pool : table[v] \in Pool
  /\ \A f \in Pool : ram[f].tag = "pte" => ram[f].frame \in Pool
  /\ \A f \in Low \ Pool : ram[f] = Data("kernel")

Cache ==
  /\ DOMAIN tlb \subseteq Pool \cup High
  /\ \A v \in DOMAIN tlb : tlb[v] \in Words /\ tlb[v].tag = "pte" /\ tlb[v].frame \in Pool
  /\ \A v \in DOMAIN tlb : v \in Pool => tlb[v].write
  /\ \A v \in DOMAIN tlb : v \in Pool /\ v >= Front => tlb[v].frame = v

(* Each frame of the pool has one use.                                     *)
Partition ==
  /\ \A f \in Pool : f \in free \/ f = phys \/ (\E v \in High : pde[v] = f)
                       \/ (\E v \in Pool : v < Front /\ table[v] = f)
  /\ \A v, w \in Pool : v < Front /\ w < Front /\ table[v] = table[w] => v = w
  /\ \A v, w \in High : pde[v] = pde[w] => v = w \/ pde[v] = NONE
  /\ phys \notin free
  /\ \A v \in High : pde[v] \notin free /\ (pde[v] = phys => phys = NONE)
  /\ \A v \in Pool : v < Front => table[v] \notin free /\ table[v] # phys
                                  /\ \A w \in High : pde[w] # table[v]

(* The pages of pageops, of pftest, and of present and rotest.             *)
OpsPage   == 65536
FaultPage == 131072
TestPage  == 327680

(* The page of pftest never has a table.  That of present and rotest has   *)
(* one only while they run, which then lies at or above Front, so that its *)
(* entry is the one they wrote; and no translation of it is cached when    *)
(* present probes it or, but for a read-only one, when rotest writes it.   *)
Protected ==
  /\ pde[FaultPage] = NONE /\ FaultPage \notin DOMAIN tlb
  /\ pc \notin Panics /\ (pc = "idle" \/ cmd \notin {"present", "rotest"}) =>
       pde[TestPage] = NONE /\ TestPage \notin DOMAIN tlb
  /\ pc \notin {"idle"} \cup Panics /\ cmd \in {"present", "rotest"} =>
       pde[TestPage] = NONE \/ pde[TestPage] >= Front
  /\ cmd \in {"present", "rotest"} /\ pc \in {"map", "read", "probe"} =>
       TestPage \notin DOMAIN tlb
  /\ cmd = "present" /\ pc \in {"free", "flush", "probe"} =>
       ram[pde[TestPage]].tag = "zero" /\ pde[TestPage] # NONE
  /\ cmd = "rotest" /\ pc \in {"read", "write"} => ram[pde[TestPage]] = PTE(phys, FALSE)
  /\ cmd = "rotest" /\ pc = "write" /\ TestPage \in DOMAIN tlb => ~tlb[TestPage].write

IInv == Shape /\ Loop /\ Untouched /\ InPool /\ Cache /\ Partition /\ Protected

----------------------------------------------------------------------------
(* What the tables of the commands say.                                    *)
LEMMA CommandTable ==
  /\ Command("pageops") = cmd_page_ops /\ Command("present") = cmd_present
  /\ Command("rotest") = cmd_rotest /\ Command("pftest") = cmd_pftest
BY Zenon DEF Command

LEMMA CommandPages ==
  /\ Command("pageops").virt = OpsPage /\ Command("present").virt = TestPage
  /\ Command("rotest").virt = TestPage /\ Command("pftest").virt = FaultPage
BY CommandTable
DEF cmd_page_ops, cmd_present, cmd_rotest, cmd_pftest, TestPage, OpsPage, FaultPage

LEMMA HighPages == High = {OpsPage, FaultPage, TestPage}
<1>1. \A x : x \in High <=> x \in {OpsPage, FaultPage, TestPage}
  BY CommandPages DEF High
<1> QED
  BY <1>1

LEMMA Permissions ==
  /\ Command("pageops").writable = TRUE /\ Command("present").writable = TRUE
  /\ Command("rotest").writable = FALSE
BY CommandTable DEF cmd_page_ops, cmd_present, cmd_rotest

LEMMA Order ==
  /\ Command("pageops")["map"] = "write" /\ Command("pageops")["write"] = "unmap"
  /\ Command("pageops")["unmap"] = "free" /\ Command("pageops")["free"] = "idle"
  /\ Command("present")["map"] = "write" /\ Command("present")["write"] = "unmap"
  /\ Command("present")["unmap"] = "free" /\ Command("present")["free"] = "flush"
  /\ Command("present")["flush"] = "probe"
  /\ Command("rotest")["map"] = "read" /\ Command("rotest")["read"] = "write"
BY CommandTable DEF cmd_page_ops, cmd_present, cmd_rotest

(* The pages of the commands lie above the low pages.                      *)
LEMMA Apart ==
  /\ Pool \subseteq Low /\ Low \subseteq Nat /\ Pool \subseteq Nat
  /\ \A v \in High : v \notin Low /\ v \in Nat
  /\ NONE \notin Low
BY HighPages, AddressSpaceAssumption DEF Low, Pool, TestPage, OpsPage, FaultPage, NONE

LEMMA Distinct == OpsPage # TestPage /\ FaultPage # TestPage /\ OpsPage # FaultPage
BY DEF OpsPage, FaultPage, TestPage

(* The step the running command is at determines its page and what follows. *)
LEMMA Running ==
  ASSUME Control
  PROVE  /\ pc \in {"map", "write", "unmap", "free"} /\ cmd = "pageops" => Virt = OpsPage
         /\ pc \in {"map", "read", "write", "unmap", "free", "flush", "probe"}
              /\ cmd # "pageops" /\ cmd # "pftest" => Virt = TestPage
         /\ pc = "probe" /\ cmd = "pftest" => Virt = FaultPage
BY CommandPages DEF Control, Virt, Panics

LEMMA MappingCommand ==
  ASSUME IInv, pc \in {"map", "read", "write", "unmap"}
  PROVE  /\ Virt \in High
         /\ \/ cmd = "pageops" /\ Virt = OpsPage
            \/ cmd \in {"present", "rotest"} /\ Virt = TestPage
<1>1. Control
  BY DEF IInv, Shape
<1>2. cmd \in {"pageops", "present", "rotest"}
  BY <1>1 DEF Control, Panics
<1>3. cmd = "pageops" => Virt = OpsPage
  BY <1>1, Running DEF Control, Panics
<1>4. cmd \in {"present", "rotest"} => Virt = TestPage
  BY <1>1, Running
<1> QED
  BY <1>2, <1>3, <1>4, HighPages

LEMMA InitIInv == Init => IInv
<1> SUFFICES ASSUME Init PROVE IInv
  OBVIOUS
<1> USE AddressSpaceAssumption DEF Init
<1>1. Front = PoolStart
  BY DEF Front, NONE
<1>2. Shape
  BY HighPages, Apart DEF Shape, Control, Words, Data, Word, paging_init, NONE, Low, Pool
<1>3. Loop
  BY DEF Loop, NONE
<1>4. Untouched
  BY <1>1 DEF Untouched, paging_init, Pool
<1>5. InPool
  BY Apart DEF InPool, paging_init, Data, Word
<1>6. Cache
  BY DEF Cache
<1>7. Partition
  BY <1>1, Apart DEF Partition, Pool
<1>8. Protected
  BY HighPages DEF Protected
<1> QED
  BY <1>2, <1>3, <1>4, <1>5, <1>6, <1>7, <1>8 DEF IInv

----------------------------------------------------------------------------
(* A store through a page of the pool never faults.  It changes one frame  *)
(* of the pool, from Front on the frame of the same number.                *)
LEMMA StoreLow ==
  ASSUME IInv, NEW v \in Pool, NEW word, NEW next, Store(v, word, next)
  PROVE  \E g \in Pool :
           /\ v >= Front => g = v
           /\ ram' = [ram EXCEPT ![g] = word] /\ pc' = next
           /\ tlb' = Cached(v, PTE(g, TRUE))
<1>1. PICK t \in Translations(v) :
        IF Present(t) /\ t.write
        THEN ram' = [ram EXCEPT ![t.frame] = word] /\ tlb' = Cached(v, t) /\ pc' = next
        ELSE page_fault_handler
  BY DEF Store
<1>2. v \notin High /\ table[v] \in Pool /\ v \in Low
  BY Apart DEF IInv, InPool
<1>3. t = PTE(table[v], TRUE) \/ (v \in DOMAIN tlb /\ t = tlb[v])
  BY <1>2 DEF Translations, Walk
<1>4. /\ Present(t) /\ t.write = TRUE /\ t.frame \in Pool /\ t = PTE(t.frame, TRUE)
      /\ v >= Front => t.frame = v
  <2>1. CASE t = PTE(table[v], TRUE)
    BY <1>2, <2>1 DEF IInv, Untouched, Present, PTE, Word
  <2>2. CASE v \in DOMAIN tlb /\ t = tlb[v]
    BY <2>2 DEF IInv, Cache, Present, PTE, Word, Words
  <2> QED
    BY <1>3, <2>1, <2>2
<1> QED
  BY <1>1, <1>4

(* A store through the page of a command faults, or changes one frame of   *)
(* the pool.                                                               *)
LEMMA StoreHigh ==
  ASSUME IInv, NEW v \in High, NEW word, NEW next, Store(v, word, next)
  PROVE  \/ page_fault_handler
         \/ \E t \in Translations(v) :
              /\ Present(t) /\ t.write /\ t.frame \in Pool /\ t \in Words
              /\ ram' = [ram EXCEPT ![t.frame] = word] /\ pc' = next
              /\ tlb' = Cached(v, t)
<1>1. PICK t \in Translations(v) :
        IF Present(t) /\ t.write
        THEN ram' = [ram EXCEPT ![t.frame] = word] /\ tlb' = Cached(v, t) /\ pc' = next
        ELSE page_fault_handler
  BY DEF Store
<1>2. \/ t = Data("zero")
      \/ pde[v] \in Pool /\ t = ram[pde[v]]
      \/ v \in DOMAIN tlb /\ t = tlb[v]
  BY DEF Translations, Walk, IInv, Shape
<1>3. Present(t) => t.frame \in Pool /\ t \in Words
  <2>1. CASE t = Data("zero")
    BY <2>1 DEF Present, Data, Word
  <2>2. CASE pde[v] \in Pool /\ t = ram[pde[v]]
    <3>1. ram[pde[v]] \in Words
      BY <2>2, Apart DEF IInv, Shape
    <3> QED
      BY <2>2, <3>1 DEF IInv, InPool, Present
  <2>3. CASE v \in DOMAIN tlb /\ t = tlb[v]
    BY <2>3 DEF IInv, Cache
  <2> QED
    BY <1>2, <2>1, <2>2, <2>3
<1> QED
  BY <1>1, <1>3

LEMMA LoadHigh ==
  ASSUME IInv, NEW v \in High, NEW next, Load(v, next)
  PROVE  \/ page_fault_handler
         \/ \E t \in Translations(v) :
              /\ Present(t) /\ t.frame \in Pool /\ t \in Words
              /\ ram' = ram /\ pc' = next
              /\ tlb' = Cached(v, t)
<1>1. PICK t \in Translations(v) :
        IF Present(t)
        THEN tlb' = Cached(v, t) /\ pc' = next /\ UNCHANGED ram
        ELSE page_fault_handler
  BY DEF Load
<1>2. \/ t = Data("zero")
      \/ pde[v] \in Pool /\ t = ram[pde[v]]
      \/ v \in DOMAIN tlb /\ t = tlb[v]
  BY DEF Translations, Walk, IInv, Shape
<1>3. Present(t) => t.frame \in Pool /\ t \in Words
  <2>1. CASE t = Data("zero")
    BY <2>1 DEF Present, Data, Word
  <2>2. CASE pde[v] \in Pool /\ t = ram[pde[v]]
    <3>1. ram[pde[v]] \in Words
      BY <2>2, Apart DEF IInv, Shape
    <3> QED
      BY <2>2, <3>1 DEF IInv, InPool, Present
  <2>3. CASE v \in DOMAIN tlb /\ t = tlb[v]
    BY <2>3 DEF IInv, Cache
  <2> QED
    BY <1>2, <2>1, <2>2, <2>3
<1> QED
  BY <1>1, <1>3

(* A panic leaves everything as it was.                                    *)
LEMMA PanicStep ==
  ASSUME IInv, pc' \in Panics,
         UNCHANGED <<ram, tlb, free, vmem, table, pde, cmd, phys, va, end>>
  PROVE  IInv'
<1>1. Front' = Front /\ Virt' = Virt
  BY DEF Front, Virt
<1>2. Shape'
  BY DEF IInv, Shape, Control, Panics
<1>3. Loop'
  BY DEF IInv, Loop, Panics
<1>4. Untouched'
  BY <1>1 DEF IInv, Untouched
<1>5. InPool'
  BY DEF IInv, InPool
<1>6. Cache'
  BY <1>1 DEF IInv, Cache
<1>7. Partition'
  BY <1>1 DEF IInv, Partition
<1>8. Protected'
  <2>1. pc' \notin {"idle", "map", "read", "write", "free", "flush", "probe"}
    BY DEF Panics
  <2> QED
    BY <1>1, <2>1 DEF IInv, Protected, Panics
<1> QED
  BY <1>2, <1>3, <1>4, <1>5, <1>6, <1>7, <1>8 DEF IInv

LEMMA AllocStep ==
  ASSUME IInv, NEW c \in {"pageops", "present", "rotest"}, alloc_page(c)
  PROVE  IInv'
<1> USE DEF alloc_page, tables
<1>1. PICK f \in free : Lowest(f) /\ phys' = f /\ free' = free \ {f}
  OBVIOUS
<1>2. Front' = Front /\ f \in Pool /\ f >= Front /\ phys = NONE /\ f # NONE
  BY Apart DEF Front, IInv, Shape, Untouched
<1>3. Shape'
  BY <1>1, <1>2 DEF IInv, Shape, Control
<1>4. Loop'
  BY DEF IInv, Loop, Panics
<1>5. Untouched'
  BY <1>1, <1>2 DEF IInv, Untouched
<1>6. InPool'
  BY DEF IInv, InPool
<1>7. Cache'
  BY <1>2 DEF IInv, Cache
<1>8. Partition'
  BY <1>1, <1>2, Apart DEF IInv, Partition
<1>9. Protected'
  BY <1>2 DEF IInv, Protected, Panics
<1> QED
  BY <1>3, <1>4, <1>5, <1>6, <1>7, <1>8, <1>9 DEF IInv

(* virt_to_pte takes a frame from Front on, so it clears that very frame.  *)
LEMMA TableStep ==
  ASSUME IInv, virt_to_pte
  PROVE  IInv'
<1> USE DEF virt_to_pte, locals
<1>1. PICK f \in free :
        /\ Lowest(f) /\ free' = free \ {f}
        /\ Store(f, Data("zero"), "map")
        /\ pde' = [pde EXCEPT ![Virt] = f]
  OBVIOUS
<1>2. /\ Front' = Front /\ Virt' = Virt /\ f \in Pool /\ f >= Front /\ f # NONE
      /\ phys \in Pool /\ f # phys /\ f \in Low /\ f \notin High
  BY Apart DEF Front, IInv, Shape, Untouched, Virt, Partition
<1>3. /\ ram' = [ram EXCEPT ![f] = Data("zero")] /\ pc' = "map"
      /\ tlb' = Cached(f, PTE(f, TRUE))
  BY <1>1, <1>2, StoreLow
<1>4. /\ Virt \in High
      /\ \/ cmd = "pageops" /\ Virt = OpsPage
         \/ cmd \in {"present", "rotest"} /\ Virt = TestPage
  BY MappingCommand
<1>5. Data("zero") \in Words /\ Data("zero").tag = "zero" /\ PTE(f, TRUE) \in Words
      /\ PTE(f, TRUE).tag = "pte" /\ PTE(f, TRUE).frame = f /\ PTE(f, TRUE).write = TRUE
  BY <1>2, AddressSpaceAssumption DEF Data, Word, Words, PTE, Low
<1>6. Shape'
  BY <1>1, <1>2, <1>3, <1>4, <1>5 DEF IInv, Shape, Control
<1>7. Loop'
  BY <1>3 DEF IInv, Loop, Panics
<1>8. Untouched'
  BY <1>1, <1>2 DEF IInv, Untouched
<1>9. InPool'
  BY <1>2, <1>3, <1>5 DEF IInv, InPool, Shape
<1>10. Cache'
  BY <1>2, <1>3, <1>5, Apart DEF IInv, Cache, Cached
<1>11. Partition'
  BY <1>1, <1>2, <1>4, Apart DEF IInv, Partition, Shape
<1>12. Protected'
  BY <1>1, <1>2, <1>3, <1>4, HighPages, Distinct DEF IInv, Protected, Panics, Shape, Cached
<1> QED
  BY <1>6, <1>7, <1>8, <1>9, <1>10, <1>11, <1>12 DEF IInv

(* What a store through a page of the pool keeps, whatever the step is     *)
(* that makes it.                                                          *)
LEMMA StoreLowKeeps ==
  ASSUME IInv, NEW v \in Pool, NEW g \in Pool, NEW word \in Words,
         v >= Front => g = v,
         word.tag = "pte" => word.frame \in Pool,
         ram' = [ram EXCEPT ![g] = word], tlb' = Cached(v, PTE(g, TRUE)),
         UNCHANGED table, Front' \in Int, Front' >= Front
  PROVE  /\ ram' \in [Low -> Words] /\ InPool' /\ Cache'
         /\ DOMAIN tlb' = DOMAIN tlb \cup {v}
         /\ \A x \in High : x \in DOMAIN tlb => tlb'[x] = tlb[x]
<1>1. /\ PTE(g, TRUE) \in Words /\ PTE(g, TRUE).tag = "pte"
      /\ PTE(g, TRUE).frame = g /\ PTE(g, TRUE).write = TRUE
  BY Apart DEF PTE, Word, Words
<1>2. ram' \in [Low -> Words] /\ InPool'
  BY Apart DEF IInv, Shape, InPool
<1>3. Cache'
  <2>1. /\ DOMAIN tlb' = DOMAIN tlb \cup {v} /\ tlb'[v] = PTE(g, TRUE)
        /\ \A x \in DOMAIN tlb : x # v => tlb'[x] = tlb[x]
    BY DEF Cached
  <2>2. \A x \in Pool : x >= Front' => x >= Front
    BY Apart DEF IInv, Loop, Front
  <2>3. DOMAIN tlb' \subseteq Pool \cup High
    BY <2>1 DEF IInv, Cache
  <2>4. ASSUME NEW x \in DOMAIN tlb'
        PROVE  /\ tlb'[x] \in Words /\ tlb'[x].tag = "pte" /\ tlb'[x].frame \in Pool
               /\ x \in Pool => tlb'[x].write
               /\ x \in Pool /\ x >= Front' => tlb'[x].frame = x
    BY <1>1, <2>1, <2>2 DEF IInv, Cache
  <2> QED
    BY <2>3, <2>4 DEF Cache
<1>4. /\ DOMAIN tlb' = DOMAIN tlb \cup {v}
      /\ \A x \in High : x \in DOMAIN tlb => tlb'[x] = tlb[x]
  BY Apart DEF Cached
<1> QED
  BY <1>2, <1>3, <1>4

(* What an access to the page of a command keeps.                          *)
LEMMA HighAccessKeeps ==
  ASSUME IInv, NEW v \in High, NEW t \in Words, Present(t), t.frame \in Pool,
         tlb' = Cached(v, t), UNCHANGED <<vmem, va>>
  PROVE  Cache' /\ DOMAIN tlb' = DOMAIN tlb \cup {v} /\ tlb'[v] = t
<1>1. Front' = Front
  BY DEF Front
<1> QED
  BY <1>1, Apart DEF IInv, Cache, Cached, Present

LEMMA PartitionKept ==
  ASSUME Partition, UNCHANGED <<free, table, pde, phys, vmem, va>>
  PROVE  Partition'
BY DEF Partition, Front

LEMMA FrontType == ASSUME IInv PROVE Front \in Int
BY DEF IInv, Loop, Front

(* vmm_map_page writes the entry of the page into the table.               *)
LEMMA MapStep ==
  ASSUME IInv, vmm_map_page
  PROVE  IInv'
<1> DEFINE w == Command(cmd).writable
           word == PTE(phys, w)
<1>1. /\ pc = "map" /\ pde[Virt] # NONE /\ Store(pde[Virt], word, After)
      /\ UNCHANGED <<free, vmem, table, pde, cmd, phys, va, end>>
  BY DEF vmm_map_page, tables, locals
<1>2. /\ Virt \in High
      /\ \/ cmd = "pageops" /\ Virt = OpsPage
         \/ cmd \in {"present", "rotest"} /\ Virt = TestPage
  BY <1>1, MappingCommand
<1>3. pde[Virt] \in Pool /\ phys \in Pool /\ Front' = Front /\ Virt' = Virt
  BY <1>1, <1>2 DEF IInv, Shape, Front, Virt
<1>4. After = IF cmd = "rotest" THEN "read" ELSE "write"
  BY <1>1, <1>2, Order DEF After
<1>5. w \in BOOLEAN /\ (cmd = "rotest" => w = FALSE)
  BY <1>2, Permissions
<1>6. word \in Words /\ word.tag = "pte" /\ word.frame = phys
  BY <1>3, <1>5, Apart DEF PTE, Word, Words
<1> HIDE DEF w
<1>7. PICK g \in Pool :
        /\ pde[Virt] >= Front => g = pde[Virt]
        /\ ram' = [ram EXCEPT ![g] = word] /\ pc' = After
        /\ tlb' = Cached(pde[Virt], PTE(g, TRUE))
  BY <1>1, <1>3, StoreLow
<1>8. /\ ram' \in [Low -> Words] /\ InPool' /\ Cache'
      /\ DOMAIN tlb' = DOMAIN tlb \cup {pde[Virt]}
  <2>1. Front' \in Int /\ Front' >= Front /\ UNCHANGED table
    BY <1>1, <1>3, FrontType
  <2>2. word \in Words /\ (word.tag = "pte" => word.frame \in Pool)
    BY <1>3, <1>6
  <2> HIDE DEF word
  <2> QED
    BY <1>3, <1>7, <2>1, <2>2, StoreLowKeeps, Zenon
<1> HIDE DEF word
<1>9. Shape'
  BY <1>1, <1>2, <1>3, <1>4, <1>7, <1>8 DEF IInv, Shape, Control
<1>10. Loop'
  BY <1>1, <1>4, <1>7 DEF IInv, Loop, Panics
<1>11. Untouched'
  BY <1>1, <1>3 DEF IInv, Untouched
<1>12. Partition'
  BY <1>1, PartitionKept DEF IInv
<1>13. Protected'
  <2>1. TestPage \in High /\ FaultPage \in High /\ TestPage \notin Pool /\ FaultPage \notin Pool
    BY HighPages, Apart
  <2>2. CASE cmd = "pageops"
    BY <1>1, <1>3, <1>4, <1>7, <1>8, <2>1, <2>2 DEF IInv, Protected, Panics
  <2>3. CASE cmd \in {"present", "rotest"}
    <3>1. Virt = TestPage /\ pde[TestPage] >= Front /\ pde[TestPage] \in Low
      BY <1>1, <1>2, <1>3, <2>3, Apart DEF IInv, Protected, Panics
    <3>2. ram'[pde[TestPage]] = PTE(phys, w)
      BY <1>7, <3>1 DEF IInv, Shape, word
    <3> QED
      BY <1>1, <1>3, <1>4, <1>5, <1>7, <1>8, <2>1, <2>3, <3>1, <3>2 DEF IInv, Protected, Panics
  <2> QED
    BY <1>2, <2>2, <2>3
<1> QED
  BY <1>8, <1>9, <1>10, <1>11, <1>12, <1>13 DEF IInv

(* Clearing the entry.                                                     *)
LEMMA UnmapStep ==
  ASSUME IInv, vmm_unmap_page
  PROVE  IInv'
<1> DEFINE word == Data("zero")
<1>1. /\ pc = "unmap" /\ Store(pde[Virt], word, After)
      /\ UNCHANGED <<free, vmem, table, pde, cmd, phys, va, end>>
  BY DEF vmm_unmap_page, tables, locals
<1>2. /\ Virt \in High
      /\ \/ cmd = "pageops" /\ Virt = OpsPage
         \/ cmd = "present" /\ Virt = TestPage
  BY <1>1, MappingCommand DEF IInv, Shape, Control, Panics
<1>3. pde[Virt] \in Pool /\ phys \in Pool /\ Front' = Front /\ Virt' = Virt
  BY <1>1, <1>2 DEF IInv, Shape, Front, Virt
<1>4. After = "free"
  BY <1>1, <1>2, Order DEF After
<1>5. word \in Words /\ word.tag = "zero"
  BY AddressSpaceAssumption DEF Data, Word, Words, Low
<1>6. PICK g \in Pool :
        /\ pde[Virt] >= Front => g = pde[Virt]
        /\ ram' = [ram EXCEPT ![g] = word] /\ pc' = After
        /\ tlb' = Cached(pde[Virt], PTE(g, TRUE))
  BY <1>1, <1>3, StoreLow
<1> HIDE DEF word
<1>7. /\ ram' \in [Low -> Words] /\ InPool' /\ Cache'
      /\ DOMAIN tlb' = DOMAIN tlb \cup {pde[Virt]}
  <2>1. Front' \in Int /\ Front' >= Front /\ UNCHANGED table
    BY <1>1, <1>3, FrontType
  <2>2. word \in Words /\ (word.tag = "pte" => word.frame \in Pool)
    BY <1>5
  <2> QED
    BY <1>3, <1>6, <2>1, <2>2, StoreLowKeeps, Zenon
<1>8. Shape'
  BY <1>1, <1>2, <1>3, <1>4, <1>6, <1>7 DEF IInv, Shape, Control
<1>9. Loop'
  BY <1>1, <1>4, <1>6 DEF IInv, Loop, Panics
<1>10. Untouched'
  BY <1>1, <1>3 DEF IInv, Untouched
<1>11. Partition'
  BY <1>1, PartitionKept DEF IInv
<1>12. Protected'
  <2>1. TestPage \in High /\ FaultPage \in High /\ TestPage \notin Pool /\ FaultPage \notin Pool
    BY HighPages, Apart
  <2>2. CASE cmd = "pageops"
    BY <1>1, <1>3, <1>4, <1>6, <1>7, <2>1, <2>2 DEF IInv, Protected, Panics
  <2>3. CASE cmd = "present"
    <3>1. Virt = TestPage /\ pde[TestPage] >= Front /\ pde[TestPage] \in Low /\ pde[TestPage] # NONE
      BY <1>1, <1>2, <1>3, <2>3, Apart DEF IInv, Protected, Panics
    <3>2. ram'[pde[TestPage]].tag = "zero"
      BY <1>5, <1>6, <3>1 DEF IInv, Shape
    <3> QED
      BY <1>1, <1>3, <1>4, <1>6, <1>7, <2>1, <2>3, <3>1, <3>2 DEF IInv, Protected, Panics
  <2> QED
    BY <1>2, <2>2, <2>3
<1> QED
  BY <1>7, <1>8, <1>9, <1>10, <1>11, <1>12 DEF IInv

(* A write through the page of a command.                                  *)
LEMMA WriteStep ==
  ASSUME IInv, write_page
  PROVE  IInv'
<1> DEFINE word == Data("data")
<1>1. /\ pc = "write" /\ Store(Virt, word, After)
      /\ UNCHANGED <<free, vmem, table, pde, cmd, phys, va, end>>
  BY DEF write_page, tables, locals
<1>2. /\ Virt \in High
      /\ \/ cmd = "pageops" /\ Virt = OpsPage
         \/ cmd \in {"present", "rotest"} /\ Virt = TestPage
  BY <1>1, MappingCommand
<1>3. /\ pde[Virt] \in Pool /\ phys \in Pool /\ Front' = Front /\ Virt' = Virt
      /\ pde[Virt] # NONE /\ phys # NONE
  BY <1>1, <1>2, Apart DEF IInv, Shape, Front, Virt
<1>4. word \in Words /\ word.tag = "data"
  BY AddressSpaceAssumption DEF Data, Word, Words, Low
<1>5. CASE page_fault_handler
  BY <1>1, <1>5, PanicStep DEF page_fault_handler, Panics
<1>6. ASSUME NEW t \in Translations(Virt), Present(t), t.write, t.frame \in Pool, t \in Words,
             ram' = [ram EXCEPT ![t.frame] = word], pc' = After, tlb' = Cached(Virt, t)
      PROVE  IInv'
  <2> HIDE DEF word
  <2>1. cmd # "rotest"
    <3> SUFFICES ASSUME cmd = "rotest" PROVE FALSE
      OBVIOUS
    <3>1. Virt = TestPage /\ ram[pde[TestPage]] = PTE(phys, FALSE)
      BY <1>1, <1>2 DEF IInv, Protected
    <3>2. t = ram[pde[TestPage]] \/ (TestPage \in DOMAIN tlb /\ t = tlb[TestPage])
      BY <1>2, <1>3, <3>1 DEF Translations, Walk
    <3>3. ~t.write
      BY <1>1, <3>1, <3>2 DEF IInv, Protected, PTE, Word
    <3> QED
      BY <1>6, <3>3
  <2>2. After = "unmap"
    BY <1>1, <1>2, <2>1, Order DEF After
  <2>3. ram' \in [Low -> Words] /\ InPool'
    BY <1>1, <1>4, <1>6, Apart DEF IInv, Shape, InPool
  <2>4. Cache' /\ DOMAIN tlb' = DOMAIN tlb \cup {Virt}
    BY <1>1, <1>2, <1>6, HighAccessKeeps
  <2>5. Shape'
    BY <1>1, <1>2, <1>3, <1>6, <2>1, <2>2, <2>3 DEF IInv, Shape, Control
  <2>6. Loop'
    BY <1>1, <1>6, <2>2 DEF IInv, Loop, Panics
  <2>7. Untouched'
    BY <1>1, <1>3 DEF IInv, Untouched
  <2>8. Partition'
    BY <1>1, PartitionKept DEF IInv
  <2>9. Protected'
    BY <1>1, <1>2, <1>3, <1>6, <2>1, <2>2, <2>4, Distinct DEF IInv, Protected, Panics
  <2> QED
    BY <2>3, <2>4, <2>5, <2>6, <2>7, <2>8, <2>9 DEF IInv
<1>7. \/ page_fault_handler
      \/ \E t \in Translations(Virt) :
           /\ Present(t) /\ t.write /\ t.frame \in Pool /\ t \in Words
           /\ ram' = [ram EXCEPT ![t.frame] = word] /\ pc' = After
           /\ tlb' = Cached(Virt, t)
  BY <1>1, <1>2, StoreHigh
<1> QED
  BY <1>5, <1>6, <1>7

(* rotest reads the page before it writes it.                              *)
LEMMA ReadStep ==
  ASSUME IInv, read_page
  PROVE  IInv'
<1>1. /\ pc = "read" /\ Load(Virt, After)
      /\ UNCHANGED <<free, vmem, table, pde, cmd, phys, va, end>>
  BY DEF read_page, tables, locals
<1>2. cmd = "rotest" /\ Virt \in High /\ Virt = TestPage
  BY <1>1, MappingCommand DEF IInv, Shape, Control, Panics
<1>3. /\ pde[Virt] \in Pool /\ phys \in Pool /\ Front' = Front /\ Virt' = Virt
      /\ pde[Virt] # NONE /\ phys # NONE
  BY <1>1, <1>2, Apart DEF IInv, Shape, Front, Virt
<1>4. CASE page_fault_handler
  BY <1>1, <1>4, PanicStep DEF page_fault_handler, Panics
<1>5. ASSUME NEW t \in Translations(Virt), Present(t), t.frame \in Pool, t \in Words,
             ram' = ram, pc' = After, tlb' = Cached(Virt, t)
      PROVE  IInv'
  <2>1. t = PTE(phys, FALSE)
    BY <1>1, <1>2, <1>3 DEF Translations, Walk, IInv, Protected
  <2>2. After = "write"
    BY <1>1, <1>2, Order DEF After
  <2>3. InPool'
    BY <1>1, <1>5 DEF IInv, InPool
  <2>4. Cache' /\ DOMAIN tlb' = DOMAIN tlb \cup {Virt} /\ tlb'[Virt] = t
    BY <1>1, <1>2, <1>5, HighAccessKeeps
  <2>5. Shape'
    BY <1>1, <1>2, <1>3, <1>5, <2>2 DEF IInv, Shape, Control
  <2>6. Loop'
    BY <1>1, <1>5, <2>2 DEF IInv, Loop, Panics
  <2>7. Untouched'
    BY <1>1, <1>3 DEF IInv, Untouched
  <2>8. Partition'
    BY <1>1, PartitionKept DEF IInv
  <2>9. Protected'
    <3>1. ~t.write
      BY <2>1 DEF PTE, Word
    <3> QED
      BY <1>1, <1>2, <1>3, <1>5, <2>1, <2>2, <2>4, <3>1, Distinct DEF IInv, Protected, Panics
  <2> QED
    BY <2>3, <2>4, <2>5, <2>6, <2>7, <2>8, <2>9 DEF IInv
<1>6. \/ page_fault_handler
      \/ \E t \in Translations(Virt) :
           /\ Present(t) /\ t.frame \in Pool /\ t \in Words
           /\ ram' = ram /\ pc' = After
           /\ tlb' = Cached(Virt, t)
  BY <1>1, <1>2, LoadHigh
<1> QED
  BY <1>4, <1>5, <1>6

(* The page a probe reads has no translation, in memory or cached.         *)
LEMMA ProbeFaults ==
  ASSUME IInv, probe
  PROVE  page_fault_handler /\ UNCHANGED <<free, vmem, table, pde, cmd, phys, va, end>>
<1>1. /\ pc = "probe" /\ Load(Virt, After)
      /\ UNCHANGED <<free, vmem, table, pde, cmd, phys, va, end>>
  BY DEF probe, tables, locals
<1>2. Control
  BY DEF IInv, Shape
<1>3. (cmd = "present" /\ Virt = TestPage) \/ (cmd = "pftest" /\ Virt = FaultPage)
  BY <1>1, <1>2, Running DEF Control, Panics
<1>4. Virt \in High /\ Virt \notin DOMAIN tlb
  BY <1>1, <1>3, HighPages DEF IInv, Protected
<1>5. Translations(Virt) = {Walk(Virt)}
  BY <1>4 DEF Translations
<1>6. ~Present(Walk(Virt))
  BY <1>1, <1>3, <1>4 DEF Walk, Present, IInv, Protected, Data, Word
<1> QED
  BY <1>1, <1>5, <1>6 DEF Load

(* The frame of the command goes back; it lies at or above Front still.    *)
LEMMA FreeStep ==
  ASSUME IInv, free_page
  PROVE  IInv'
<1>1. /\ pc = "free" /\ free' = free \cup {phys} /\ phys' = NONE /\ pc' = After
      /\ UNCHANGED <<ram, tlb, vmem, table, pde, cmd, va, end>>
  BY DEF free_page, tables
<1>2. /\ cmd \in {"pageops", "present"} /\ phys \in Pool /\ phys # NONE
      /\ Front' = Front /\ Virt' = Virt
  BY <1>1, Apart DEF IInv, Shape, Control, Panics, Front, Virt
<1>3. After = IF cmd = "pageops" THEN "idle" ELSE "flush"
  BY <1>1, <1>2, Order DEF After
<1>4. Shape'
  BY <1>1, <1>2, <1>3 DEF IInv, Shape, Control
<1>5. Loop'
  BY <1>1, <1>3 DEF IInv, Loop, Panics
<1>6. Untouched'
  BY <1>1, <1>2 DEF IInv, Untouched
<1>7. InPool'
  BY <1>1 DEF IInv, InPool
<1>8. Cache'
  BY <1>1, <1>2 DEF IInv, Cache
<1>9. Partition'
  <2>1. free \subseteq Pool /\ table \in [Low -> Low] /\ \A v \in Pool : table[v] # NONE
    BY Apart DEF IInv, Shape
  <2> QED
    BY <1>1, <1>2, <2>1, Apart DEF IInv, Partition
<1>10. Protected'
  BY <1>1, <1>2, <1>3 DEF IInv, Protected, Panics
<1> QED
  BY <1>4, <1>5, <1>6, <1>7, <1>8, <1>9, <1>10 DEF IInv

LEMMA FlushStep ==
  ASSUME IInv, flush_tlb
  PROVE  IInv'
<1>1. /\ pc = "flush" /\ pc' = After /\ DOMAIN tlb' = {}
      /\ UNCHANGED <<ram, free, vmem, table, pde, cmd, phys, va, end>>
  BY DEF flush_tlb, tables, locals
<1>2. cmd = "present" /\ Front' = Front /\ Virt' = Virt
  BY <1>1 DEF IInv, Shape, Control, Panics, Front, Virt
<1>3. After = "probe"
  BY <1>1, <1>2, Order DEF After
<1>4. Shape'
  BY <1>1, <1>2, <1>3 DEF IInv, Shape, Control
<1>5. Loop'
  BY <1>1, <1>3 DEF IInv, Loop, Panics
<1>6. Untouched'
  BY <1>1, <1>2 DEF IInv, Untouched
<1>7. InPool'
  BY <1>1 DEF IInv, InPool
<1>8. Cache'
  BY <1>1 DEF Cache
<1>9. Partition'
  BY <1>1, PartitionKept DEF IInv
<1>10. Protected'
  BY <1>1, <1>2, <1>3 DEF IInv, Protected, Panics
<1> QED
  BY <1>4, <1>5, <1>6, <1>7, <1>8, <1>9, <1>10 DEF IInv

LEMMA PftestStep ==
  ASSUME IInv, pftest
  PROVE  IInv'
<1>1. /\ pc = "idle" /\ cmd' = "pftest" /\ pc' = "probe"
      /\ UNCHANGED <<ram, tlb, free, vmem, table, pde, phys, va, end>>
  BY DEF pftest, tables
<1>2. Front' = Front
  BY <1>1 DEF Front
<1>3. Shape'
  BY <1>1 DEF IInv, Shape, Control
<1>4. Loop'
  BY <1>1 DEF IInv, Loop, Panics
<1>5. Untouched'
  BY <1>1, <1>2 DEF IInv, Untouched
<1>6. InPool'
  BY <1>1 DEF IInv, InPool
<1>7. Cache'
  BY <1>1, <1>2 DEF IInv, Cache
<1>8. Partition'
  BY <1>1, PartitionKept DEF IInv
<1>9. Protected'
  BY <1>1, <1>2 DEF IInv, Protected, Panics
<1> QED
  BY <1>3, <1>4, <1>5, <1>6, <1>7, <1>8, <1>9 DEF IInv

----------------------------------------------------------------------------
(* vmalloc and vbrk start with the first page they have not mapped.        *)
LEMMA ExpandStep ==
  ASSUME IInv, NEW c \in {"vmalloc", "vbrk"}, NEW k \in 1 .. MaxPages, expand(c, k)
  PROVE  IInv'
<1>1. /\ pc = "idle" /\ (c = "vmalloc" => vmem + k <= KVMEM_LAST)
      /\ cmd' = c /\ pc' = "expand" /\ va' = vmem /\ end' = vmem + k
      /\ UNCHANGED <<ram, tlb, free, vmem, table, pde, phys>>
  BY DEF expand, tables
<1>2. k \in Nat /\ k > 0
  BY AddressSpaceAssumption
<1>3. Front' = Front
  BY <1>1 DEF IInv, Loop, Panics, Front
<1>4. Shape'
  BY <1>1 DEF IInv, Shape, Control
<1>5. Loop'
  BY <1>1, <1>2 DEF IInv, Loop, Panics
<1>6. Untouched'
  BY <1>1, <1>3 DEF IInv, Untouched
<1>7. InPool'
  BY <1>1 DEF IInv, InPool
<1>8. Cache'
  BY <1>1, <1>3 DEF IInv, Cache
<1>9. Partition'
  BY <1>1, <1>3 DEF IInv, Partition
<1>10. Protected'
  BY <1>1, <1>3 DEF IInv, Protected, Panics
<1> QED
  BY <1>4, <1>5, <1>6, <1>7, <1>8, <1>9, <1>10 DEF IInv

(* A page is given the lowest free frame.  That frame is at or above       *)
(* Front, and the others are above it: so are they above the next Front.   *)
LEMMA ExpandPageStep ==
  ASSUME IInv, expand_page
  PROVE  IInv'
<1>1. PICK f \in free : Lowest(f) /\ free' = free \ {f} /\ table' = [table EXCEPT ![va] = f]
  BY DEF expand_page
<1>2. /\ pc = "expand" /\ va < end /\ va' = va + 1
      /\ vmem' = (IF cmd = "vbrk" THEN vmem + 1 ELSE vmem)
      /\ UNCHANGED <<ram, tlb, pde, cmd, pc, phys, end>>
  BY DEF expand_page
<1>3. /\ cmd \in {"vmalloc", "vbrk"} /\ phys = NONE /\ Virt' = Virt
      /\ vmem \in Nat /\ va \in Int /\ vmem <= va /\ PoolStart <= va
  BY <1>2, AddressSpaceAssumption DEF IInv, Shape, Control, Panics, Loop, Virt
<1>4. Front = va /\ Front' = va + 1
  BY <1>2, <1>3 DEF IInv, Loop, Front
<1>5. /\ f \in Pool /\ f >= va /\ va \in Pool /\ va \in Low /\ f \in Low
      /\ \A g \in free : f <= g
  BY <1>1, <1>3, <1>4, Apart, AddressSpaceAssumption
  DEF IInv, Shape, Untouched, Lowest, Pool, Low
<1>6. /\ table' \in [Low -> Low] /\ table'[va] = f
      /\ \A v \in Low : v # va => table'[v] = table[v]
  BY <1>1, <1>5 DEF IInv, Shape
<1>7. Shape'
  BY <1>1, <1>2, <1>3, <1>6 DEF IInv, Shape, Control
<1>8. Loop'
  BY <1>2, <1>3, AddressSpaceAssumption DEF IInv, Loop, Panics
<1>9. Untouched'
  <2>1. \A g \in free' : g \in Pool /\ g >= va + 1
    BY <1>1, <1>3, <1>5, Apart DEF IInv, Shape
  <2>2. \A v \in Low : v >= va + 1 => v >= va /\ v # va
    BY <1>3, Apart
  <2> QED
    BY <1>2, <1>3, <1>4, <1>6, <2>1, <2>2 DEF IInv, Untouched
<1>10. InPool'
  BY <1>2, <1>5, <1>6, Apart DEF IInv, InPool
<1>11. Cache'
  <2>1. \A v \in Pool : v >= va + 1 => v >= va
    BY <1>3, Apart
  <2> QED
    BY <1>2, <1>4, <2>1 DEF IInv, Cache
<1>12. Partition'
  <2>1. \A v \in Pool : v < Front' <=> v < Front \/ v = va
    BY <1>3, <1>4, Apart
  <2>2. \A v \in Pool : v < Front => v # va /\ table'[v] = table[v]
    BY <1>3, <1>4, <1>6, Apart
  <2>3. \A v \in Pool : v < Front => table[v] \notin free
    BY DEF IInv, Partition
  <2>4. \A v \in High : pde[v] \notin free
    BY DEF IInv, Partition
  <2>5. ASSUME NEW g \in Pool
        PROVE  g \in free' \/ g = phys' \/ (\E v \in High : pde'[v] = g)
               \/ (\E v \in Pool : v < Front' /\ table'[v] = g)
    <3>1. CASE g = f
      BY <1>5, <1>6, <2>1, <3>1
    <3>2. CASE g # f /\ g \in free
      BY <1>1, <3>2
    <3>3. CASE \E v \in Pool : v < Front /\ table[v] = g
      BY <2>1, <2>2, <3>3
    <3> QED
      BY <1>2, <3>1, <3>2, <3>3 DEF IInv, Partition
  <2>6. \A v, w \in Pool : v < Front' /\ w < Front' /\ table'[v] = table'[w] => v = w
    <3> SUFFICES ASSUME NEW v \in Pool, NEW w \in Pool, v < Front', w < Front',
                        table'[v] = table'[w], v # w
                 PROVE  FALSE
      OBVIOUS
    <3>1. CASE v = va
      BY <1>1, <1>6, <2>1, <2>2, <2>3, <3>1
    <3>2. CASE w = va
      BY <1>1, <1>6, <2>1, <2>2, <2>3, <3>2
    <3>3. CASE v # va /\ w # va
      BY <2>1, <2>2, <3>3 DEF IInv, Partition
    <3> QED
      BY <3>1, <3>2, <3>3
  <2>7. \A v, w \in High : pde'[v] = pde'[w] => v = w \/ pde'[v] = NONE
    BY <1>2 DEF IInv, Partition
  <2>8. phys' \notin free'
    BY <1>1, <1>2 DEF IInv, Partition
  <2>9. \A v \in High : pde'[v] \notin free' /\ (pde'[v] = phys' => phys' = NONE)
    BY <1>1, <1>2 DEF IInv, Partition
  <2>10. ASSUME NEW v \in Pool, v < Front'
         PROVE  table'[v] \notin free' /\ table'[v] # phys'
                /\ \A w \in High : pde'[w] # table'[v]
    <3>1. CASE v = va
      BY <1>1, <1>2, <1>3, <1>5, <1>6, <2>4, <3>1, Apart
    <3>2. CASE v # va
      BY <1>1, <1>2, <2>1, <2>2, <2>10, <3>2 DEF IInv, Partition
    <3> QED
      BY <3>1, <3>2
  <2> QED
    BY <2>5, <2>6, <2>7, <2>8, <2>9, <2>10 DEF Partition
<1>13. Protected'
  BY <1>2, <1>3 DEF IInv, Protected, Panics
<1> QED
  BY <1>7, <1>8, <1>9, <1>10, <1>11, <1>12, <1>13 DEF IInv

(* vmalloc writes its header through the first of its new pages.           *)
LEMMA HeaderStep ==
  ASSUME IInv, vmalloc_header
  PROVE  IInv'
<1> DEFINE word == Data("header")
<1>1. /\ pc = "expand" /\ va = end /\ cmd = "vmalloc" /\ Store(vmem, word, "idle")
      /\ vmem' = end /\ UNCHANGED <<free, table, pde, cmd, phys, va, end>>
  BY DEF vmalloc_header, tables
<1>2. /\ vmem \in Nat /\ va \in Int /\ PoolStart <= vmem /\ vmem < va /\ va <= KVMEM_LAST
      /\ phys = NONE /\ Virt' = Virt
  BY <1>1 DEF IInv, Loop, Shape, Virt
<1>3. vmem \in Pool /\ Front = va /\ Front' = va
  BY <1>1, <1>2, AddressSpaceAssumption DEF Pool, Front
<1>4. word \in Words /\ word.tag = "header"
  BY AddressSpaceAssumption DEF Data, Word, Words, Low
<1> HIDE DEF word
<1>5. PICK g \in Pool :
        /\ vmem >= Front => g = vmem
        /\ ram' = [ram EXCEPT ![g] = word] /\ pc' = "idle"
        /\ tlb' = Cached(vmem, PTE(g, TRUE))
  BY <1>1, <1>3, StoreLow
<1>6. /\ ram' \in [Low -> Words] /\ InPool' /\ Cache'
      /\ DOMAIN tlb' = DOMAIN tlb \cup {vmem}
  <2>1. Front' \in Int /\ Front' >= Front /\ UNCHANGED table
    BY <1>1, <1>2, <1>3
  <2>2. word \in Words /\ (word.tag = "pte" => word.frame \in Pool)
    BY <1>4
  <2> QED
    BY <1>3, <1>5, <2>1, <2>2, StoreLowKeeps, Zenon
<1>7. Shape'
  BY <1>1, <1>2, <1>5, <1>6 DEF IInv, Shape, Control
<1>8. Loop'
  BY <1>1, <1>2, <1>5, AddressSpaceAssumption DEF IInv, Loop, Panics
<1>9. Untouched'
  BY <1>1, <1>3 DEF IInv, Untouched
<1>10. Partition'
  BY <1>1, <1>3 DEF IInv, Partition
<1>11. Protected'
  <2>1. TestPage \notin Pool /\ FaultPage \notin Pool
    BY HighPages, Apart
  <2> QED
    BY <1>1, <1>3, <1>5, <1>6, <2>1 DEF IInv, Protected, Panics
<1> QED
  BY <1>6, <1>7, <1>8, <1>9, <1>10, <1>11 DEF IInv

LEMMA ReturnStep ==
  ASSUME IInv, vbrk_return
  PROVE  IInv'
<1>1. /\ pc = "expand" /\ cmd = "vbrk" /\ pc' = "idle"
      /\ UNCHANGED <<ram, tlb, free, vmem, table, pde, cmd, phys, va, end>>
  BY DEF vbrk_return, tables, locals
<1>2. Front' = Front
  BY <1>1 DEF Front
<1>3. Shape'
  BY <1>1 DEF IInv, Shape, Control
<1>4. Loop'
  BY <1>1 DEF IInv, Loop, Panics
<1>5. Untouched'
  BY <1>1, <1>2 DEF IInv, Untouched
<1>6. InPool'
  BY <1>1 DEF IInv, InPool
<1>7. Cache'
  BY <1>1, <1>2 DEF IInv, Cache
<1>8. Partition'
  BY <1>1, PartitionKept DEF IInv
<1>9. Protected'
  BY <1>1, <1>2 DEF IInv, Protected, Panics
<1> QED
  BY <1>3, <1>4, <1>5, <1>6, <1>7, <1>8, <1>9 DEF IInv

LEMMA OutOfMemoryStep ==
  ASSUME IInv, OutOfMemory
  PROVE  IInv'
BY PanicStep DEF OutOfMemory, tables, locals, Panics

LEMMA NextIInv == IInv /\ [Next]_vars => IInv'
<1> SUFFICES ASSUME IInv, [Next]_vars PROVE IInv'
  OBVIOUS
<1>1. ASSUME NEW c \in {"pageops", "present", "rotest"}, alloc_page(c) PROVE IInv'
  BY <1>1, AllocStep
<1>2. CASE alloc_page_fails \/ virt_to_pte_fails \/ expand_page_fails
  BY <1>2, OutOfMemoryStep DEF alloc_page_fails, virt_to_pte_fails, expand_page_fails
<1>3. CASE pftest
  BY <1>3, PftestStep
<1>4. ASSUME NEW c \in {"vmalloc", "vbrk"}, NEW k \in 1 .. MaxPages, expand(c, k) PROVE IInv'
  BY <1>4, ExpandStep
<1>5. ASSUME NEW k \in 1 .. MaxPages, expand_fails(k) PROVE IInv'
  BY <1>5, PanicStep DEF expand_fails, tables, locals, Panics
<1>6. CASE virt_to_pte
  BY <1>6, TableStep
<1>7. CASE vmm_map_page
  BY <1>7, MapStep
<1>8. CASE read_page
  BY <1>8, ReadStep
<1>9. CASE write_page
  BY <1>9, WriteStep
<1>10. CASE vmm_unmap_page
  BY <1>10, UnmapStep
<1>11. CASE free_page
  BY <1>11, FreeStep
<1>12. CASE flush_tlb
  BY <1>12, FlushStep
<1>13. CASE probe
  BY <1>13, ProbeFaults, PanicStep DEF page_fault_handler, Panics
<1>14. CASE expand_page
  BY <1>14, ExpandPageStep
<1>15. CASE vmalloc_header
  BY <1>15, HeaderStep
<1>16. CASE vbrk_return
  BY <1>16, ReturnStep
<1>17. CASE UNCHANGED vars
  <2>1. UNCHANGED <<ram, table, pde, tlb, free, vmem, cmd, pc, phys, va, end>>
    BY <1>17 DEF vars
  <2>2. Front' = Front /\ Virt' = Virt
    BY <2>1 DEF Front, Virt
  <2>3. Shape' /\ Loop'
    BY <2>1, <2>2 DEF IInv, Shape, Control, Loop
  <2>4. Untouched' /\ InPool' /\ Cache'
    BY <2>1, <2>2 DEF IInv, Untouched, InPool, Cache
  <2>5. Partition' /\ Protected'
    BY <2>1, <2>2, PartitionKept DEF IInv, Protected
  <2> QED
    BY <2>3, <2>4, <2>5 DEF IInv
<1> QED
  BY <1>1, <1>2, <1>3, <1>4, <1>5, <1>6, <1>7, <1>8, <1>9, <1>10, <1>11, <1>12, <1>13,
     <1>14, <1>15, <1>16, <1>17 DEF Next, Step, kpanic_fatal

----------------------------------------------------------------------------
(* The states of paging stay those of the inductive invariant.             *)
THEOREM Invariance == Spec => []IInv
<1>1. Init => IInv
  BY InitIInv
<1>2. IInv /\ [Next]_vars => IInv'
  BY NextIInv
<1> QED
  BY <1>1, <1>2, PTL DEF Spec

(* Every frame of the pool has exactly one use as long as the machine      *)
(* runs: no interleaving of pageops, present, rotest, vmalloc and vbrk     *)
(* loses a frame or gives it away twice.                                   *)
THEOREM FramesCorrect == Spec => []FramesPartitioned
<1>1. IInv => FramesPartitioned
  <2> SUFFICES ASSUME IInv, ~Halted PROVE FramesPartitioned
    BY DEF FramesPartitioned
  <2> DEFINE backing == {table[v] : v \in Mapped}
             own     == {phys} \ {NONE}
  <2>1. Mapped = {v \in Pool : v < Front}
    <3>1. pc # "expand" => Front = vmem
      BY DEF IInv, Loop, Front, Halted, Panics
    <3>2. pc = "expand" => \A v \in Pool : v < vmem \/ v < va <=> v < Front
      BY Apart DEF IInv, Loop, Front
    <3> QED
      BY <3>1, <3>2 DEF Mapped
  <2>2. free \cup Tables \cup backing \cup own = Pool
    <3>1. Tables \subseteq Pool /\ own \subseteq Pool /\ free \subseteq Pool
      BY DEF Tables, IInv, Shape
    <3>2. backing \subseteq Pool
      BY <2>1 DEF IInv, InPool
    <3>3. \A f \in Pool : f \in free \cup Tables \cup backing \cup own
      BY <2>1, Apart DEF Tables, IInv, Partition
    <3> QED
      BY <3>1, <3>2, <3>3
  <2>3. /\ \A v, w \in Mapped : table[v] = table[w] => v = w
        /\ \A v, w \in High : pde[v] = pde[w] => v = w \/ pde[v] = NONE
    BY <2>1 DEF IInv, Partition
  <2>4. free \cap (Tables \cup backing \cup own) = {}
    BY <2>1 DEF Tables, IInv, Partition
  <2>5. Tables \cap (backing \cup own) = {} /\ backing \cap own = {}
    BY <2>1 DEF Tables, IInv, Partition
  <2> QED
    BY <2>2, <2>3, <2>4, <2>5 DEF FramesPartitioned
<1> QED
  BY <1>1, Invariance, PTL

(* The kernel's frames are never written through a page the commands map,  *)
(* even by way of a translation that is out of date.                       *)
THEOREM KernelCorrect == Spec => []KernelIntact
<1>1. IInv => KernelIntact
  BY DEF IInv, InPool, KernelIntact
<1> QED
  BY <1>1, Invariance, PTL

(* virt_to_pte reaches every frame it may take at the frame's own address, *)
(* however much vmalloc has changed the mapping of low pages.              *)
THEOREM TablesCorrect == Spec => []FreshTablesReachable
<1>1. IInv => FreshTablesReachable
  BY Apart DEF IInv, Shape, Untouched, FreshTablesReachable
<1> QED
  BY <1>1, Invariance, PTL

(* present, rotest and pftest never get to the end: the access that has to *)
(* fault does, whatever commands ran before.                               *)
THEOREM ProtectionCorrect == Spec => ProtectionHolds
<1> DEFINE Holds == (cmd \in {"present", "rotest", "pftest"} /\ pc # "idle") => (pc' # "idle")
<1>1. IInv /\ [Next]_vars => [Holds]_vars
  <2> SUFFICES ASSUME IInv, Next, cmd \in {"present", "rotest", "pftest"},
                      pc # "idle", pc' = "idle"
               PROVE  FALSE
    BY DEF vars
  <2>1. Control
    BY DEF IInv, Shape
  <2>2. CASE virt_to_pte
    <3>1. pc = "map" /\ \E t \in free : Store(t, Data("zero"), "map")
      BY <2>2 DEF virt_to_pte
    <3> QED
      BY <3>1 DEF Store, page_fault_handler
  <2>3. CASE vmm_map_page
    <3>1. /\ pc = "map" /\ Store(pde[Virt], PTE(phys, Command(cmd).writable), After)
          /\ cmd \in {"present", "rotest"}
      BY <2>1, <2>3 DEF vmm_map_page, Control, Panics
    <3>2. After # "idle"
      BY <3>1, Order DEF After
    <3> QED
      BY <3>1, <3>2 DEF Store, page_fault_handler
  <2>4. CASE read_page
    <3>1. pc = "read" /\ Load(Virt, After) /\ cmd = "rotest"
      BY <2>1, <2>4 DEF read_page, Control, Panics
    <3>2. After # "idle"
      BY <3>1, Order DEF After
    <3> QED
      BY <3>1, <3>2 DEF Load, page_fault_handler
  <2>5. CASE write_page
    <3>1. pc = "write" /\ cmd \in {"present", "rotest"}
      BY <2>1, <2>5 DEF write_page, Control, Panics
    <3>2. Control' /\ phys' = phys /\ phys \in Pool
      BY <2>5, <3>1, WriteStep DEF IInv, Shape, write_page, locals
    <3>3. phys' = NONE
      BY <2>5, WriteStep DEF IInv, Shape
    <3> QED
      BY <3>2, <3>3, Apart
  <2>6. CASE vmm_unmap_page
    <3>1. pc = "unmap" /\ Store(pde[Virt], Data("zero"), After) /\ cmd = "present"
      BY <2>1, <2>6 DEF vmm_unmap_page, Control, Panics
    <3>2. After # "idle"
      BY <3>1, Order DEF After
    <3> QED
      BY <3>1, <3>2 DEF Store, page_fault_handler
  <2>7. CASE free_page
    <3>1. pc = "free" /\ pc' = After /\ cmd = "present"
      BY <2>1, <2>7 DEF free_page, Control, Panics
    <3> QED
      BY <3>1, Order DEF After
  <2>8. CASE flush_tlb
    <3>1. pc = "flush" /\ pc' = After /\ cmd = "present"
      BY <2>1, <2>8 DEF flush_tlb, Control, Panics
    <3> QED
      BY <3>1, Order DEF After
  <2>9. CASE probe
    BY <2>9, ProbeFaults DEF page_fault_handler
  <2>10. CASE virt_to_pte_fails \/ expand_page_fails
    BY <2>10 DEF virt_to_pte_fails, expand_page_fails, OutOfMemory
  <2>11. CASE expand_page \/ vmalloc_header \/ vbrk_return
    BY <2>11 DEF expand_page, vmalloc_header, vbrk_return
  <2>12. CASE kpanic_fatal
    BY <2>12 DEF kpanic_fatal, Halted, vars
  <2> QED
    BY <2>2, <2>3, <2>4, <2>5, <2>6, <2>7, <2>8, <2>9, <2>10, <2>11, <2>12
    DEF Next, Step, alloc_page, alloc_page_fails, pftest, expand, expand_fails
<1> QED
  BY <1>1, Invariance, PTL DEF Spec, ProtectionHolds
=============================================================================
