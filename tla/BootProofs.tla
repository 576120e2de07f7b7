----------------------------- MODULE BootProofs -----------------------------
(***************************************************************************)
(* Proofs about boot, for a machine, a kernel, a heap and a vmalloc region *)
(* of any size, and any number of commands typed at any moments.           *)
(***************************************************************************)
EXTENDS Boot, FiniteSetTheorems, TLAPS

----------------------------------------------------------------------------
(***************************************************************************)
(* The inductive invariant.  Places in kernel_main: the bitmap is not yet  *)
(* valid; it is, as long as boot goes on; the heap is mapped.              *)
(***************************************************************************)
Early   == {"total"} \cup Unready
Mapped  == {"link", "header", "shell", "hlt"}
Late    == Unpaged \cup Taking \cup Taken \cup Mapped
Stopped == {"halted", "astray"}

(* How far boot has come.                                                  *)
Progress ==
  /\ loc \in Early \cup Late \cup Stopped
  /\ i \in Nat /\ page \in 0 .. HeapPages /\ vmem \in KVMEM_START .. KVMEM_END
  /\ commands \in Nat /\ (commands = 0 => torn = {} /\ vmem = KVMEM_START)
  /\ loc = "total" => total_pages = 0
  /\ loc \in Unready \cup Late => total_pages = AvailablePages
  /\ loc \in Early \cup Unpaged => page = 0 /\ ~paging
  /\ loc \in Taking \cup Taken => page < HeapPages
  /\ loc \in Mapped \/ free_list => page = HeapPages
  /\ loc \in Taking \cup Taken \cup Mapped => paging
  /\ loc \in Taking \cup Taken \cup Mapped \cup {"enable"} => pde = "static"

(* No command has lost a frame, or a block, in the middle of boot.         *)
Clean == torn \cap {"frames", "blocks"} = {}

(* The frames that are taken to be kept, tables apart.  Each was the       *)
(* lowest free one, so at least the first so many frames are taken.        *)
Floor == page + vmem - HeapPages + IF loc \in Taken THEN 1 ELSE 0

(* The counter is exact but for the frame that kernel_main is taking.      *)
Counted ==
  /\ free_pages = Cardinality(Frames \ bitmap) + IF loc \in {"dec_load", "dec_store"} THEN 1 ELSE 0
  /\ loc = "dec_store" => count = free_pages

Valid ==
  /\ bitmap \subseteq Frames
  /\ "count" \notin torn => Counted
  /\ loc \in Taking => \A f \in 0 .. i - 1 : f \in bitmap
  /\ loc \in {"load", "store"} => i \in Frames /\ i \notin bitmap
  /\ loc = "store" => word = bitmap
  /\ Clean => \A f \in 0 .. Floor - 1 : f \in bitmap

Bitmap ==
  "frames" \notin torn =>
    /\ loc = "fill" /\ "count" \notin torn => free_pages = 0
    /\ loc = "clear" =>
         /\ i <= AvailablePages /\ bitmap = i .. AvailablePages - 1
         /\ "count" \notin torn => free_pages = i
    /\ loc = "reserve" =>
         /\ i <= ReservePages /\ bitmap = 0 .. i - 1
         /\ "count" \notin torn => free_pages = AvailablePages - i
    /\ loc \in Late => Valid

(* Whoever holds a frame is the only one, and its bit is set.              *)
Owners ==
  "frames" \notin torn =>
    /\ OneOwner
    /\ loc \in Early => owners = {<<"kernel", f, f>> : f \in 0 .. ReservePages - 1}
    /\ loc \in Late => \A a \in owners : a[3] \in bitmap

(* Each page of the heap that is mapped, and each of vmalloc's, leads to   *)
(* the frame that was taken for it; the pages behind lead to themselves.   *)
Pages ==
  Clean =>
    /\ table \in [Frames -> Nat]
    /\ loc \in Late \ {"pd_zero", "table"} => \A v \in Frames : v >= vmem => table[v] = v
    /\ \A p \in 0 .. page - 1 : <<"heap", p, table[KHEAP_START + p]>> \in owners
    /\ loc \in Taken => <<"heap", page, i>> \in owners
    /\ loc \in Early \cup Unpaged => blocks = [v \in {} |-> 0] /\ vmem = KVMEM_START
    /\ \A v \in DOMAIN blocks : /\ v \in KVMEM_START .. vmem - 1 /\ blocks[v] = table[v]
                                /\ <<"vmem", v, table[v]>> \in owners

(* A block of the heap is given out only when the header is written.       *)
Header ==
  "heap" \notin torn =>
    /\ given => heap = "taken"
    /\ loc \notin {"shell", "hlt"} \cup Stopped => heap = "residue"

(* Without a command every page leads to itself, and the frames are taken  *)
(* in their order.                                                         *)
Identity ==
  commands = 0 =>
    /\ loc \in Late \ {"pd_zero", "table"} => \A v \in Frames : table[v] = v
    /\ loc \in Taken => i = KHEAP_START + page
    /\ loc \in Late => bitmap = 0 .. Floor - 1

IInv == Progress /\ Bitmap /\ Owners /\ Pages /\ Header /\ Identity /\ AstrayOnlyAfter

----------------------------------------------------------------------------
LEMMA Sizes ==
  /\ AvailablePages \in Nat /\ ReservePages \in Nat /\ ReservePages > 0
  /\ HeapPages \in Nat /\ HeapPages > 0 /\ VmemPages \in Nat
  /\ KHEAP_START = ReservePages /\ KVMEM_START = ReservePages + HeapPages
  /\ KVMEM_END = KVMEM_START + VmemPages /\ KVMEM_END <= AvailablePages
  /\ KVMEM_START \in Nat /\ KVMEM_END \in Nat
BY BootAssumption DEF KHEAP_START, KVMEM_START, KVMEM_END

LEMMA Span ==
  ASSUME NEW a \in Nat, NEW b \in Nat, a <= b
  PROVE  Cardinality(a .. b - 1) = b - a
<1>1. PICK c \in Int : c = b - 1
  OBVIOUS
<1>2. PICK size : size = Cardinality(a .. c)
  OBVIOUS
<1>3. a \in Int
  OBVIOUS
<1>4. size = IF a > c THEN 0 ELSE c - a + 1
  BY ONLY <1>2, <1>3, c \in Int, FS_Interval
<1>5. size = b - a
  BY <1>1, <1>4
<1> QED
  BY <1>1, <1>2, <1>5

LEMMA FramesFinite ==
  /\ IsFiniteSet(Frames)
  /\ \A S : IsFiniteSet(Frames \ S) /\ Cardinality(Frames \ S) \in Nat
<1>1. 0 \in Int /\ AvailablePages - 1 \in Int
  BY Sizes
<1>2. IsFiniteSet(Frames)
  BY <1>1, FS_Interval DEF Frames
<1>3. ASSUME NEW S PROVE IsFiniteSet(Frames \ S) /\ Cardinality(Frames \ S) \in Nat
  BY <1>2, FS_Difference, FS_CardinalityType
<1> QED
  BY <1>2, <1>3

(* A set of free frames is taken.                                          *)
LEMMA Take ==
  ASSUME NEW S, NEW T, T \subseteq Frames \ S
  PROVE  /\ Cardinality(Frames \ (S \cup T)) = Cardinality(Frames \ S) - Cardinality(T)
         /\ Cardinality(T) \in Nat
<1>1. IsFiniteSet(Frames \ S) /\ (Frames \ S) \cap T = T
      /\ (Frames \ S) \ T = Frames \ (S \cup T)
  BY FramesFinite
<1>2. Cardinality((Frames \ S) \ T) = Cardinality(Frames \ S) - Cardinality((Frames \ S) \cap T)
  BY <1>1, FS_Difference
<1>3. IsFiniteSet(T)
  BY <1>1, FS_Subset
<1> QED
  BY <1>1, <1>2, <1>3, FS_CardinalityType

LEMMA InitIInv ==
  ASSUME Init
  PROVE  IInv
<1> USE DEF Init, Early, Unpaged, Taking, Taken, Mapped, Late, Unready, Stopped
<1>1. Progress
  BY Sizes DEF Progress
<1>2. Bitmap
  BY DEF Bitmap
<1>3. Owners
  BY DEF Owners, OneOwner
<1>4. Pages
  BY Sizes DEF Pages
<1>5. Header /\ Identity /\ AstrayOnlyAfter
  BY DEF Header, Identity, AstrayOnlyAfter
<1> QED
  BY <1>1, <1>2, <1>3, <1>4, <1>5 DEF IInv

(* A panic, or the end of what is known.                                   *)
LEMMA StopIInv ==
  ASSUME IInv, loc' \in Stopped, commands' \in Nat, commands' # 0 \/ UNCHANGED <<commands, torn>>,
         UNCHANGED <<i, page, vmem, free_list, given, heap, table, blocks, owners>>,
         torn \subseteq torn', AstrayOnlyAfter'
  PROVE  IInv'
<1> USE DEF IInv, Early, Unpaged, Taking, Taken, Mapped, Late, Unready, Stopped
<1>1. Progress'
  BY DEF Progress
<1>2. Bitmap'
  BY DEF Bitmap
<1>3. Owners'
  BY DEF Owners, OneOwner
<1>4. Pages'
  BY DEF Pages, Clean
<1>5. Header' /\ Identity'
  BY DEF Header, Identity
<1> QED
  BY <1>1, <1>2, <1>3, <1>4, <1>5

----------------------------------------------------------------------------
(* The steps of kernel_main.                                               *)
LEMMA pmm_initIInv ==
  ASSUME IInv, pmm_init, UNCHANGED <<region, history>>
  PROVE  IInv'
<1> USE DEF IInv, Early, Unpaged, Taking, Taken, Mapped, Late, Unready, Stopped,
            region, history, counters, mappings, heaps
<1>1. Progress'
  BY Sizes DEF pmm_init, Progress
<1>2. Bitmap'
  <2>1. CASE loc = "total" \/ loc = "count"
    BY <2>1 DEF pmm_init, Bitmap
  <2>2. CASE loc = "fill"
    BY <2>2, Sizes DEF pmm_init, Bitmap, Frames
  <2>3. CASE loc = "clear"
    <3>1. /\ i \in Nat
          /\ \A k \in Nat : (k .. AvailablePages - 1) \ {k} = k + 1 .. AvailablePages - 1
      BY Sizes DEF Progress
    <3>2. AvailablePages .. AvailablePages - 1 = {} /\ 0 .. 0 - 1 = {}
      BY Sizes
    <3> QED
      <4>1. CASE i < AvailablePages
        <5>1. /\ loc' = loc /\ bitmap' = bitmap \ {i} /\ free_pages' = free_pages + 1
              /\ i' = i + 1 /\ torn' = torn
          BY <2>3, <3>1, <4>1, Sizes DEF pmm_init
        <5>2. "frames" \notin torn => bitmap' = i' .. AvailablePages - 1
          BY <2>3, <3>1, <5>1 DEF Bitmap
        <5> QED
          BY <2>3, <3>1, <4>1, <5>1, <5>2, Sizes DEF Bitmap
      <4>2. CASE i = AvailablePages
        BY <2>3, <3>2, <4>2, Sizes DEF pmm_init, Bitmap
      <4>3. i < AvailablePages \/ i = AvailablePages
        BY <2>3 DEF pmm_init
      <4> QED
        BY <4>1, <4>2, <4>3
  <2>4. CASE loc = "reserve"
    <3>1. CASE i \in Reserved
      <4>1. i \in Nat /\ i + 1 <= ReservePages /\ i \notin 0 .. i - 1
            /\ (0 .. i - 1) \cup {i} = 0 .. (i + 1) - 1
        BY <3>1, Sizes DEF Progress, Reserved
      <4> QED
        <5>1. /\ loc' = loc /\ bitmap' = bitmap \cup {i} /\ i' = i + 1 /\ torn' = torn
              /\ free_pages' = IF i \in bitmap THEN free_pages ELSE free_pages - 1
          BY <2>4, <3>1 DEF pmm_init, set_bit
        <5>2. "frames" \notin torn => bitmap' = 0 .. i' - 1 /\ i \notin bitmap
          BY <2>4, <4>1, <5>1 DEF Bitmap
        <5> QED
          BY <2>4, <4>1, <5>1, <5>2, Sizes DEF Bitmap
    <3>2. CASE i \notin Reserved
      <4>1. /\ loc' = "pd_zero" /\ UNCHANGED <<i, bitmap, free_pages, torn, page, vmem>>
            /\ i \in Nat /\ page = 0
        BY <2>4, <3>2 DEF pmm_init, Progress
      <4>2. "frames" \notin torn => i = ReservePages /\ bitmap = 0 .. ReservePages - 1
        BY <2>4, <3>2, <4>1, Sizes DEF Bitmap, Reserved
      <4>3. Frames \ (0 .. ReservePages - 1) = ReservePages .. AvailablePages - 1
        BY Sizes DEF Frames
      <4>4. Cardinality(Frames \ (0 .. ReservePages - 1)) = AvailablePages - ReservePages
        <5>1. ReservePages <= AvailablePages
          BY Sizes
        <5> QED
          BY <4>3, <5>1, Sizes, Span, Zenon
      <4>5. "frames" \notin torn /\ "count" \notin torn => Counted'
        <5>1. "frames" \notin torn /\ "count" \notin torn => free_pages = AvailablePages - ReservePages
          BY <2>4, <4>2 DEF Bitmap
        <5>2. Cardinality(Frames \ (0 .. ReservePages - 1)) \in Nat
          BY FramesFinite
        <5> QED
          BY <4>1, <4>2, <4>4, <5>1, <5>2, Sizes DEF Counted
      <4>6. Clean => Floor' = ReservePages
        BY <2>4, <4>1, Sizes DEF Pages, Floor
      <4>7. "frames" \notin torn => Valid'
        BY <4>1, <4>2, <4>5, <4>6, Sizes DEF Valid, Clean, Frames
      <4> QED
        BY <4>1, <4>7 DEF Bitmap
    <3> QED
      BY <3>1, <3>2
  <2> QED
    BY <2>1, <2>2, <2>3, <2>4 DEF pmm_init
<1>3. Owners'
  <2>1. CASE loc' \in Early
    BY <2>1 DEF pmm_init, Owners, OneOwner
  <2>2. CASE loc' \in Late
    <3>1. loc = "reserve" /\ i \notin Reserved /\ UNCHANGED <<bitmap, owners, torn>>
      BY <2>2 DEF pmm_init
    <3>2. "frames" \notin torn => bitmap = 0 .. ReservePages - 1
      BY <3>1, Sizes DEF Bitmap, Progress, Reserved
    <3> QED
      BY <2>2, <3>1, <3>2 DEF Owners, OneOwner
  <2> QED
    BY <2>1, <2>2 DEF pmm_init
<1>4. Pages'
  BY DEF pmm_init, Pages, Clean
<1>5. Identity'
  <2>1. loc' \notin Taken
    BY DEF pmm_init
  <2>2. ASSUME commands = 0, loc' \in Late PROVE bitmap' = 0 .. Floor' - 1
    <3>1. loc = "reserve" /\ i \notin Reserved /\ loc' = "pd_zero" /\ torn = {} /\ page = 0
          /\ vmem = KVMEM_START /\ UNCHANGED <<i, bitmap, page, vmem>>
      BY <2>2 DEF pmm_init, Progress
    <3>2. i = ReservePages /\ bitmap = 0 .. ReservePages - 1
      <4>1. i \in Nat /\ i <= ReservePages /\ bitmap = 0 .. i - 1
        BY <3>1 DEF Bitmap, Progress
      <4> QED
        BY <3>1, <4>1, Sizes DEF Reserved
    <3>3. Floor' = ReservePages
      BY <3>1, Sizes DEF Floor
    <3> QED
      BY <3>1, <3>2, <3>3
  <2> QED
    BY <2>1, <2>2 DEF pmm_init, Identity
<1>6. Header' /\ AstrayOnlyAfter'
  BY DEF pmm_init, Header, AstrayOnlyAfter
<1> QED
  BY <1>1, <1>2, <1>3, <1>4, <1>5, <1>6

LEMMA paging_initIInv ==
  ASSUME IInv, paging_init, UNCHANGED <<region, history>>
  PROVE  IInv'
<1> USE DEF IInv, Early, Unpaged, Taking, Taken, Mapped, Late, Unready, Stopped,
            region, history, counters, heaps
<1>1. Progress'
  BY Sizes DEF paging_init, Progress
<1>2. Floor' = Floor /\ Clean' = Clean
  BY DEF paging_init, Floor, Clean
<1>3. Bitmap'
  <2>1. loc' \notin {"dec_load", "dec_store"} /\ loc \notin {"dec_load", "dec_store"}
        /\ UNCHANGED <<bitmap, free_pages, torn>> /\ loc \in Late /\ loc' \in Late /\ i' = 0
        /\ loc' \notin {"load", "store", "fill", "clear", "reserve"}
    BY DEF paging_init
  <2>2. Counted => Counted'
    BY <2>1 DEF Counted
  <2>3. "frames" \notin torn => Valid'
    BY <1>2, <2>1, <2>2 DEF Bitmap, Valid
  <2> QED
    BY <2>1, <2>3 DEF Bitmap
<1>4. Owners'
  BY DEF paging_init, Owners, OneOwner
<1>5. Pages'
  BY <1>2, Sizes DEF paging_init, Pages, Frames, Progress
<1>6. Identity'
  BY <1>2 DEF paging_init, Identity, Frames
<1>7. Header' /\ AstrayOnlyAfter'
  BY DEF paging_init, Header, AstrayOnlyAfter
<1> QED
  BY <1>1, <1>3, <1>4, <1>5, <1>6, <1>7

(* Where the bitmap is valid, what a step of kernel_main has to show.      *)
LEMMA LateBitmap ==
  ASSUME IInv, loc' \in Late, UNCHANGED torn, ASSUME "frames" \notin torn PROVE Valid'
  PROVE  Bitmap'
BY DEF Bitmap, Late, Unpaged, Taking, Taken, Mapped

(* The search for the frame of a page of the heap.                         *)
LEMMA alloc_scanIInv ==
  ASSUME IInv, pmm_alloc_page, UNCHANGED <<region, history>>, loc = "scan"
  PROVE  IInv'
<1> USE DEF IInv, Early, Unpaged, Taking, Taken, Mapped, Late, Unready, Stopped,
            region, history, mappings, heaps
<1>1. total_pages = AvailablePages /\ i \in Nat
  BY DEF Progress
<1>2. CASE loc' = "halted"
  <2>1. /\ UNCHANGED <<i, page, vmem, free_list, given, heap, table, blocks, owners, torn, commands>>
        /\ AstrayOnlyAfter'
    BY <1>2 DEF pmm_alloc_page, AstrayOnlyAfter
  <2> QED
    BY <1>2, <2>1, StopIInv DEF Progress
<1>3. CASE loc' # "halted"
  <2>1. /\ UNCHANGED <<page, vmem, free_list, given, heap, table, blocks, owners, torn, bitmap,
                       commands, total_pages, free_pages, pde, high, paging>>
        /\ \/ loc' = "scan" /\ i \in bitmap /\ i' = i + 1
           \/ loc' = "load" /\ i \notin bitmap /\ i' = i /\ i < AvailablePages
    BY <1>1, <1>3 DEF pmm_alloc_page, NextFrame
  <2>2. Progress'
    BY <1>1, <2>1 DEF Progress
  <2>3. Floor' = Floor /\ Clean' = Clean
    BY <2>1 DEF Floor, Clean
  <2>4. ASSUME "frames" \notin torn PROVE Valid'
    <3>1. Valid
      BY <2>4 DEF Bitmap
    <3>2. \A f \in 0 .. i' - 1 : f \in bitmap
      <4>1. \A f \in 0 .. i - 1 : f \in bitmap
        BY <3>1 DEF Valid
      <4> QED
        BY <1>1, <2>1, <4>1
    <3>3. Counted => Counted'
      BY <2>1 DEF Counted
    <3>4. loc' = "load" => i' \in Frames /\ i' \notin bitmap
      BY <1>1, <2>1, Sizes DEF Frames
    <3> QED
      BY <2>1, <2>3, <3>1, <3>2, <3>3, <3>4 DEF Valid
  <2>5. Bitmap'
    BY <2>1, <2>4, LateBitmap
  <2>6. Owners' /\ Pages'
    BY <2>1, <2>3 DEF Owners, OneOwner, Pages
  <2>7. Header' /\ Identity' /\ AstrayOnlyAfter'
    BY <2>1, <2>3 DEF Header, Identity, AstrayOnlyAfter
  <2> QED
    BY <2>2, <2>5, <2>6, <2>7
<1> QED
  BY <1>2, <1>3

(* Setting the bit of frame i: it is the first clear one, and nobody else  *)
(* has taken it since it was tested.                                       *)
LEMMA alloc_setIInv ==
  ASSUME IInv, pmm_alloc_page, UNCHANGED <<region, history>>, loc \in {"load", "store"}
  PROVE  IInv'
<1> USE DEF IInv, Early, Unpaged, Taking, Taken, Mapped, Late, Unready, Stopped,
            region, history, mappings, heaps
<1>1. CASE loc = "load"
  <2>1. /\ UNCHANGED <<page, vmem, free_list, given, heap, table, blocks, owners, torn, bitmap,
                       commands, total_pages, free_pages, pde, high, paging, i>>
        /\ loc' = "store" /\ word' = bitmap
    BY <1>1 DEF pmm_alloc_page
  <2>2. Progress'
    BY <1>1, <2>1 DEF Progress
  <2>3. Floor' = Floor /\ Clean' = Clean
    BY <1>1, <2>1 DEF Floor, Clean
  <2>4. ASSUME "frames" \notin torn PROVE Valid'
    <3>1. Counted => Counted'
      BY <1>1, <2>1 DEF Counted
    <3> QED
      BY <1>1, <2>1, <2>3, <2>4, <3>1 DEF Bitmap, Valid
  <2>5. Bitmap'
    BY <2>1, <2>4, LateBitmap
  <2>6. Owners' /\ Pages'
    BY <1>1, <2>1, <2>3 DEF Owners, OneOwner, Pages
  <2>7. Header' /\ Identity' /\ AstrayOnlyAfter'
    BY <1>1, <2>1, <2>3 DEF Header, Identity, AstrayOnlyAfter
  <2> QED
    BY <2>2, <2>5, <2>6, <2>7
<1>2. CASE loc = "store"
  <2>1. /\ UNCHANGED <<page, vmem, free_list, given, heap, table, blocks, torn,
                       commands, total_pages, free_pages, pde, high, paging, i>>
        /\ loc' = "dec_load" /\ bitmap' = word \cup {i}
        /\ owners' = owners \cup {<<"heap", page, i>>}
    BY <1>2 DEF pmm_alloc_page, set_bit
  <2>2. Progress'
    BY <1>2, <2>1 DEF Progress
  <2>3. Clean' = Clean /\ Floor' = Floor + 1 /\ Floor \in Int /\ i \in Nat
    BY <1>2, <2>1, Sizes DEF Floor, Clean, Progress
  <2>4. ASSUME "frames" \notin torn
        PROVE  /\ Valid /\ i \in Frames /\ i \notin bitmap /\ bitmap' = bitmap \cup {i}
               /\ \A f \in 0 .. i - 1 : f \in bitmap
               /\ Clean => i >= Floor
    <3>1. /\ Valid /\ i \in Frames /\ i \notin bitmap /\ bitmap' = bitmap \cup {i}
          /\ \A f \in 0 .. i - 1 : f \in bitmap
          /\ Clean => \A f \in 0 .. Floor - 1 : f \in bitmap
      BY <1>2, <2>1, <2>4 DEF Bitmap, Valid
    <3> QED
      BY <2>3, <3>1
  <2>5. ASSUME "frames" \notin torn PROVE Valid'
    <3>1. "count" \notin torn => Counted'
      <4>1. {i} \subseteq Frames \ bitmap
        BY <2>4, <2>5
      <4>2. Cardinality(Frames \ (bitmap \cup {i})) = Cardinality(Frames \ bitmap) - Cardinality({i})
        BY <4>1, Take
      <4>3. Cardinality({i}) = 1
        BY FS_Singleton
      <4>4. Cardinality(Frames \ bitmap) \in Nat
        BY FramesFinite
      <4>5. "count" \notin torn => free_pages = Cardinality(Frames \ bitmap) + 0
        BY <1>2, <2>4, <2>5 DEF Valid, Counted
      <4>6. Cardinality(Frames \ bitmap') = Cardinality(Frames \ bitmap) - 1
        BY <2>4, <2>5, <4>2, <4>3
      <4>7. "count" \notin torn => free_pages = Cardinality(Frames \ bitmap') + 1
        BY <4>4, <4>5, <4>6
      <4> QED
        BY <2>1, <4>7 DEF Counted
    <3>2. Clean => \A f \in 0 .. Floor' - 1 : f \in bitmap'
      BY <2>3, <2>4, <2>5
    <3> QED
      BY <2>1, <2>3, <2>4, <2>5, <3>1, <3>2 DEF Valid
  <2>6. Bitmap'
    BY <2>1, <2>5, LateBitmap
  <2>7. Owners'
    <3> SUFFICES ASSUME "frames" \notin torn
                 PROVE  /\ \A a, b \in owners' : a[3] = b[3] => a = b
                        /\ \A a \in owners' : a[3] \in bitmap'
      BY <2>1 DEF Owners, OneOwner
    <3>1. i \notin bitmap /\ bitmap' = bitmap \cup {i}
      BY <2>4
    <3>2. \A a \in owners : a[3] \in bitmap
      BY <1>2 DEF Owners
    <3>3. \A a, b \in owners : a[3] = b[3] => a = b
      BY DEF Owners, OneOwner
    <3>4. <<"heap", page, i>>[3] = i
      OBVIOUS
    <3> QED
      BY <2>1, <3>1, <3>2, <3>3, <3>4
  <2>8. Pages'
    BY <1>2, <2>1, <2>3 DEF Pages
  <2>9. Identity'
    <3>1. ASSUME commands = 0
          PROVE  i = KHEAP_START + page /\ bitmap' = 0 .. Floor' - 1
      <4>1. "frames" \notin torn /\ Clean /\ Floor = KHEAP_START + page /\ bitmap = 0 .. Floor - 1
        BY <1>2, <3>1, Sizes DEF Progress, Clean, Floor, Identity
      <4>2. i \notin bitmap /\ bitmap' = bitmap \cup {i} /\ \A f \in 0 .. i - 1 : f \in bitmap
        BY <2>4, <4>1
      <4>3. i = Floor
        <5>1. Floor \in Nat
          BY <2>3, <4>1, Sizes DEF Progress
        <5>2. i >= Floor
          BY <2>3, <4>1, <4>2, <5>1
        <5>3. ~(Floor \in 0 .. i - 1)
          BY <4>1, <4>2, <5>1
        <5> QED
          BY <2>3, <5>1, <5>2, <5>3
      <4> QED
        BY <2>3, <4>1, <4>2, <4>3
    <3> QED
      BY <1>2, <2>1, <3>1 DEF Identity
  <2>10. Header' /\ AstrayOnlyAfter'
    BY <1>2, <2>1 DEF Header, AstrayOnlyAfter
  <2> QED
    BY <2>2, <2>6, <2>7, <2>8, <2>9, <2>10
<1> QED
  BY <1>1, <1>2

(* The counter.                                                            *)
LEMMA alloc_countIInv ==
  ASSUME IInv, pmm_alloc_page, UNCHANGED <<region, history>>, loc \in {"dec_load", "dec_store"}
  PROVE  IInv'
<1> USE DEF IInv, Early, Unpaged, Taking, Taken, Mapped, Late, Unready, Stopped,
            region, history, mappings, heaps
<1>1. /\ UNCHANGED <<page, vmem, free_list, given, heap, table, blocks, owners, torn, bitmap,
                     commands, total_pages, pde, high, paging, i>>
      /\ \/ /\ loc = "dec_load" /\ loc' = "dec_store"
            /\ count' = free_pages /\ free_pages' = free_pages
         \/ loc = "dec_store" /\ loc' = "map" /\ free_pages' = count - 1
  BY DEF pmm_alloc_page, Decremented
<1>2. Progress'
  BY <1>1 DEF Progress
<1>3. Floor' = Floor /\ Clean' = Clean
  BY <1>1 DEF Floor, Clean
<1>4. ASSUME "frames" \notin torn PROVE Valid'
  <2>1. Counted => Counted'
    <3>1. Cardinality(Frames \ bitmap) \in Nat
      BY FramesFinite
    <3> QED
      BY <1>1, <3>1 DEF Counted
  <2> QED
    BY <1>1, <1>3, <1>4, <2>1 DEF Bitmap, Valid
<1>5. Bitmap'
  BY <1>1, <1>4, LateBitmap
<1>6. Owners' /\ Pages'
  BY <1>1, <1>3 DEF Owners, OneOwner, Pages
<1>7. Header' /\ Identity' /\ AstrayOnlyAfter'
  BY <1>1, <1>3 DEF Header, Identity, AstrayOnlyAfter
<1> QED
  BY <1>2, <1>5, <1>6, <1>7

LEMMA pmm_alloc_pageIInv ==
  ASSUME IInv, pmm_alloc_page, UNCHANGED <<region, history>>
  PROVE  IInv'
<1>1. loc \in {"scan", "load", "store", "dec_load", "dec_store"}
  BY DEF pmm_alloc_page
<1> QED
  BY <1>1, alloc_scanIInv, alloc_setIInv, alloc_countIInv

(* The frame is mapped, and the heap gets its list.                        *)
LEMMA kheap_initIInv ==
  ASSUME IInv, kheap_init, UNCHANGED <<region, history>>
  PROVE  IInv'
<1> USE DEF IInv, Early, Unpaged, Taking, Taken, Mapped, Late, Unready, Stopped,
            region, history, counters
<1>1. CASE loc = "map"
  <2>1. /\ UNCHANGED <<vmem, free_list, given, heap, blocks, owners, torn, bitmap,
                       commands, total_pages, free_pages, pde, high, paging>>
        /\ loc' = IF page + 1 < HeapPages THEN "scan" ELSE "link"
        /\ table' = [table EXCEPT ![ReservePages + page] = i] /\ page' = page + 1 /\ i' = 0
    BY <1>1, Sizes DEF kheap_init, HeapPage
  <2>2. page \in Nat /\ page < HeapPages
    BY <1>1, Sizes DEF Progress
  <2>3. Progress'
    BY <1>1, <2>1, <2>2, Sizes DEF Progress
  <2>4. Clean' = Clean /\ Floor' = Floor
    BY <1>1, <2>1, <2>2, Sizes DEF Clean, Floor, Progress
  <2>5. ASSUME "frames" \notin torn PROVE Valid'
    <3>1. Counted => Counted'
      BY <1>1, <2>1 DEF Counted
    <3>2. \A f \in 0 .. i' - 1 : f \in bitmap'
      BY <2>1
    <3> QED
      BY <1>1, <2>1, <2>4, <2>5, <3>1, <3>2 DEF Bitmap, Valid
  <2>6. Bitmap'
    BY <2>1, <2>5, LateBitmap
  <2>7. Owners'
    BY <1>1, <2>1 DEF Owners, OneOwner
  <2>8. Pages'
    <3> SUFFICES ASSUME Clean PROVE Pages'
      BY <2>4 DEF Pages
    <3>1. table \in [Frames -> Nat] /\ ReservePages + page \in Frames /\ i \in Nat
      BY <2>2, Sizes DEF Pages, Progress, Frames
    <3>2. /\ table' \in [Frames -> Nat] /\ table'[ReservePages + page] = i
          /\ \A v \in Frames : v # ReservePages + page => table'[v] = table[v]
      BY <2>1, <3>1
    <3>3. vmem \in Nat /\ vmem >= ReservePages + HeapPages /\ vmem <= AvailablePages
      BY Sizes DEF Progress
    <3>4. \A v \in Frames : v >= vmem => table'[v] = v
      BY <1>1, <2>2, <3>2, <3>3, Sizes DEF Pages, Frames
    <3>5. \A p \in 0 .. page : <<"heap", p, table'[ReservePages + p]>> \in owners
      <4> SUFFICES ASSUME NEW p \in 0 .. page
                   PROVE  <<"heap", p, table'[ReservePages + p]>> \in owners
        OBVIOUS
      <4>1. CASE p = page
        BY <1>1, <3>2, <4>1 DEF Pages
      <4>2. CASE p # page
        <5>1. p \in 0 .. page - 1 /\ ReservePages + p # ReservePages + page
              /\ ReservePages + p \in Frames
          BY <2>2, <4>2, Sizes DEF Frames
        <5> QED
          BY <3>2, <5>1, Sizes DEF Pages
      <4> QED
        BY <4>1, <4>2
    <3>6. \A v \in DOMAIN blocks : table'[v] = table[v]
      <4> SUFFICES ASSUME NEW v \in DOMAIN blocks PROVE table'[v] = table[v]
        OBVIOUS
      <4>1. v \in KVMEM_START .. vmem - 1
        BY DEF Pages
      <4>2. v \in Frames /\ v # ReservePages + page
        BY <2>2, <3>3, <4>1, Sizes DEF Frames
      <4> QED
        BY <3>2, <4>2
    <3>7. 0 .. page' - 1 = 0 .. page
      BY <2>1, <2>2
    <3>8. loc' \in {"scan", "link"}
      BY <1>1, <2>1
    <3>9. \A p \in 0 .. page' - 1 : <<"heap", p, table'[KHEAP_START + p]>> \in owners'
      <4>1. owners' = owners /\ KHEAP_START = ReservePages
        BY <2>1, Sizes
      <4> QED
        BY <3>5, <3>7, <4>1, Zenon
    <3>10. \A v \in DOMAIN blocks' : /\ v \in KVMEM_START .. vmem' - 1 /\ blocks'[v] = table'[v]
                                      /\ <<"vmem", v, table'[v]>> \in owners'
      BY <2>1, <3>6 DEF Pages
    <3> QED
      BY <2>1, <3>2, <3>4, <3>8, <3>9, <3>10 DEF Pages
  <2>9. Identity'
    <3>1. ASSUME commands = 0 PROVE \A v \in Frames : table'[v] = v
      <4>1. table \in [Frames -> Nat] /\ i = ReservePages + page
        BY <1>1, <3>1, Sizes DEF Pages, Progress, Identity, Clean
      <4>2. \A v \in Frames : table[v] = v
        BY <1>1, <3>1 DEF Identity
      <4> QED
        BY <2>1, <4>1, <4>2
    <3> QED
      BY <1>1, <2>1, <2>4, <3>1 DEF Identity
  <2>10. Header' /\ AstrayOnlyAfter'
    BY <1>1, <2>1 DEF Header, AstrayOnlyAfter
  <2> QED
    BY <2>3, <2>6, <2>7, <2>8, <2>9, <2>10
<1>2. CASE loc = "link" \/ loc = "header"
  <2>1. /\ UNCHANGED <<vmem, given, blocks, owners, torn, bitmap, i, page, table,
                       commands, total_pages, free_pages, pde, high, paging>>
        /\ \/ loc = "link" /\ loc' = "header" /\ free_list' = TRUE /\ heap' = heap
           \/ loc = "header" /\ loc' = "shell" /\ heap' = "free" /\ free_list' = free_list
    BY <1>2 DEF kheap_init
  <2>2. Progress'
    BY <2>1 DEF Progress
  <2>3. Clean' = Clean /\ Floor' = Floor
    BY <2>1 DEF Clean, Floor
  <2>4. ASSUME "frames" \notin torn PROVE Valid'
    <3>1. Counted => Counted'
      BY <2>1 DEF Counted
    <3> QED
      BY <2>1, <2>3, <2>4, <3>1 DEF Bitmap, Valid
  <2>5. Bitmap'
    BY <2>1, <2>4, LateBitmap
  <2>6. Owners' /\ Identity'
    BY <2>1, <2>3 DEF Owners, OneOwner, Identity
  <2>7. Pages'
    BY <2>1, <2>3 DEF Pages
  <2>8. Header' /\ AstrayOnlyAfter'
    BY <2>1 DEF Header, AstrayOnlyAfter
  <2> QED
    BY <2>2, <2>5, <2>6, <2>7, <2>8
<1> QED
  BY <1>1, <1>2 DEF kheap_init

LEMMA shell_initIInv ==
  ASSUME IInv, shell_init, UNCHANGED <<region, history>>
  PROVE  IInv'
<1> USE DEF IInv, Early, Unpaged, Taking, Taken, Mapped, Late, Unready, Stopped,
            region, history, counters, mappings, heaps, registers
<1>1. Progress'
  BY DEF shell_init, Progress
<1>2. Clean' = Clean /\ Floor' = Floor
  BY DEF shell_init, Clean, Floor
<1>3. ASSUME "frames" \notin torn PROVE Valid'
  <2>1. Counted => Counted'
    BY DEF shell_init, Counted
  <2> QED
    BY <1>2, <1>3, <2>1 DEF shell_init, Bitmap, Valid
<1>4. Bitmap'
  BY <1>3, LateBitmap DEF shell_init
<1>5. Owners' /\ Pages'
  BY <1>2 DEF shell_init, Owners, OneOwner, Pages
<1>6. Header' /\ Identity' /\ AstrayOnlyAfter'
  BY <1>2 DEF shell_init, Header, Identity, AstrayOnlyAfter
<1> QED
  BY <1>1, <1>4, <1>5, <1>6

----------------------------------------------------------------------------
(* The commands.                                                           *)

(* What a command finds free where the bitmap is valid, and before.        *)
LEMMA FreeFacts ==
  ASSUME IInv, NEW f \in Lowest(FreeFrames)
  PROVE  /\ f \in FreeFrames /\ f \in Nat /\ loc # "total" /\ \A g \in FreeFrames : f <= g
         /\ loc \in Late => FreeFrames = Frames \ bitmap
         /\ loc \in Late /\ "frames" \notin torn /\ Clean => f >= Floor
         /\ loc \in Late => \A g \in 0 .. f - 1 : g \in bitmap
<1>1. f \in FreeFrames /\ \A g \in FreeFrames : f <= g
  BY DEF Lowest
<1>2. loc = "total" => FreeFrames = {}
  BY DEF FreeFrames, IInv, Progress
<1>3. f \in Nat
  BY <1>1 DEF FreeFrames
<1>4. ASSUME loc \in Late PROVE FreeFrames = Frames \ bitmap
  <2>1. total_pages = AvailablePages
    BY <1>4 DEF IInv, Progress
  <2> QED
    BY <2>1 DEF FreeFrames, Frames
<1>5. ASSUME loc \in Late, "frames" \notin torn, Clean PROVE f >= Floor
  <2>1. (\A g \in 0 .. Floor - 1 : g \in bitmap) /\ f \notin bitmap
    BY <1>1, <1>4, <1>5 DEF IInv, Bitmap, Valid
  <2>2. Floor \in Int
    BY Sizes DEF Floor, IInv, Progress
  <2> QED
    BY <1>3, <2>1, <2>2
<1>6. ASSUME loc \in Late, NEW g \in 0 .. f - 1 PROVE g \in bitmap
  <2>1. f \in Frames
    BY <1>1, <1>4, <1>6
  <2>2. g \in Frames /\ ~(f <= g)
    BY <1>3, <2>1, Sizes DEF Frames
  <2> QED
    BY <1>1, <1>4, <1>6, <2>2
<1> QED
  BY <1>1, <1>2, <1>3, <1>4, <1>5, <1>6

(* Frames are taken from the free ones, and each gets its own owner.       *)
LEMMA NewOwners ==
  ASSUME IInv, loc \in Late, "frames" \notin torn,
         NEW new, owners' = owners \cup new,
         \A a \in new : a[3] \in bitmap' /\ a[3] \notin bitmap,
         \A a, b \in new : a[3] = b[3] => a = b,
         bitmap \subseteq bitmap', loc' = loc
  PROVE  Owners'
<1>1. (\A a \in owners : a[3] \in bitmap) /\ \A a, b \in owners : a[3] = b[3] => a = b
  BY DEF IInv, Owners, OneOwner
<1>2. \A a \in owners' : a[3] \in bitmap'
  BY <1>1
<1>3. \A a, b \in owners' : a[3] = b[3] => a = b
  BY <1>1
<1>4. loc' \notin Early
  BY DEF Early, Late, Unready, Unpaged, Taking, Taken, Mapped
<1> QED
  BY <1>2, <1>3, <1>4 DEF Owners, OneOwner

LEMMA vmallocIInv ==
  ASSUME IInv, vmalloc
  PROVE  IInv'
<1> USE DEF Early, Unpaged, Taking, Taken, Mapped, Late, Unready, Stopped,
            registers, heaps
<1>1. PICK f, new :
        /\ f \in Lowest(FreeFrames)
        /\ new = IF pde = "absent" THEN Lowest(FreeFrames \ {f}) ELSE {}
        /\ bitmap' = bitmap \cup {f} \cup new
        /\ free_pages' = free_pages - Cardinality({f} \cup new)
        /\ owners' = owners \cup {<<"vmem", vmem, f>>} \cup {<<"table", vmem, t>> : t \in new}
        /\ table' = IF pde = "static" THEN [table EXCEPT ![vmem] = f] ELSE table
        /\ blocks' = [v \in DOMAIN blocks \cup {vmem} |->
                        IF v # vmem THEN blocks[v] ELSE IF paging THEN f ELSE vmem]
        /\ UNCHANGED <<loc, i, page, word, count, total_pages, high, paging, free_list, heap, given>>
        /\ commands' = commands + 1 /\ vmem' = vmem + 1 /\ vmem < KVMEM_END
        /\ pde' = IF pde = "absent" THEN "early" ELSE pde
        /\ torn' = torn \cup Window(loc) \cup BlockWindow(loc) /\ loc \notin {"halted", "astray"}
  BY DEF vmalloc, Typed
<1>2. vmem \in Nat /\ KVMEM_START <= vmem /\ vmem < AvailablePages /\ vmem \in Frames
  BY <1>1, Sizes DEF IInv, Progress, Frames
<1>3. commands' \in Nat /\ commands' # 0
  BY <1>1 DEF IInv, Progress
<1>4. Progress'
  BY <1>1, <1>2, <1>3, Sizes DEF IInv, Progress
<1>5. Identity'
  BY <1>3 DEF Identity
<1>6. Header' /\ AstrayOnlyAfter'
  BY <1>1 DEF IInv, Header, AstrayOnlyAfter, Window, BlockWindow
<1>7. CASE "frames" \in torn'
  BY <1>4, <1>5, <1>6, <1>7 DEF IInv, Bitmap, Owners, Pages, Clean
<1>8. CASE "frames" \notin torn'
  <2>1. loc # "total"
    BY <1>1, FreeFacts
  <2>2. loc \in Late \ {"load", "store"} /\ "frames" \notin torn /\ Valid
    BY <1>1, <1>8, <2>1 DEF Window, IInv, Progress, Bitmap
  <2>3. /\ f \in Nat /\ FreeFrames = Frames \ bitmap /\ f \in Frames \ bitmap
        /\ \A g \in 0 .. f - 1 : g \in bitmap
        /\ Clean => f >= Floor
    BY <1>1, <2>2, FreeFacts
  <2>4. new \subseteq (Frames \ bitmap) \ {f}
    BY <1>1, <2>3 DEF Lowest
  <2>5. Clean' => /\ Clean /\ paging /\ pde = "static" /\ new = {}
                  /\ loc \in {"scan"} \cup Taken \cup Mapped
    <3>1. Clean' => Clean /\ loc \in {"scan"} \cup Taken \cup Mapped
      BY <1>1, <2>2 DEF Clean, BlockWindow
    <3>2. loc \in {"scan"} \cup Taken \cup Mapped => paging /\ pde = "static" /\ new = {}
      BY <1>1 DEF IInv, Progress
    <3> QED
      BY <3>1, <3>2
  <2>6. Clean => Floor \in Int /\ Floor' = Floor + 1
    BY <1>1, <1>2, Sizes DEF Floor, IInv, Progress
  <2>7. Valid'
    <3>1. "count" \notin torn' => Counted'
      <4>1. "count" \notin torn' => "count" \notin torn /\ loc # "dec_store"
        BY <1>1 DEF Window
      <4>2. {f} \cup new \subseteq Frames \ bitmap
        BY <2>3, <2>4
      <4>3. PICK k \in Nat : k = Cardinality({f} \cup new)
        BY <4>2, Take
      <4>4. Cardinality(Frames \ (bitmap \cup ({f} \cup new))) = Cardinality(Frames \ bitmap) - k
        BY <4>2, <4>3, Take
      <4>5. bitmap' = bitmap \cup ({f} \cup new)
        BY <1>1
      <4>6. PICK n \in Nat : n = Cardinality(Frames \ bitmap)
        BY FramesFinite
      <4>7. Cardinality(Frames \ bitmap') = n - k
        BY <4>4, <4>5, <4>6
      <4>8. "count" \notin torn =>
              free_pages = n + IF loc \in {"dec_load", "dec_store"} THEN 1 ELSE 0
        BY <2>2, <4>6 DEF Valid, Counted
      <4>9. "count" \notin torn =>
              free_pages' = (n - k) + IF loc \in {"dec_load", "dec_store"} THEN 1 ELSE 0
        BY <1>1, <4>3, <4>8
      <4> QED
        BY <1>1, <4>1, <4>7, <4>9 DEF Counted
    <3>2. bitmap' \subseteq Frames
      BY <1>1, <2>2, <2>3, <2>4 DEF Valid
    <3>3. loc \in Taking => \A g \in 0 .. i - 1 : g \in bitmap'
      BY <1>1, <2>2 DEF Valid
    <3>4. Clean' => \A g \in 0 .. Floor' - 1 : g \in bitmap'
      BY <1>1, <2>3, <2>5, <2>6
    <3> QED
      BY <1>1, <2>2, <3>1, <3>2, <3>3, <3>4 DEF Valid
  <2>8. Bitmap'
    BY <1>1, <2>2, <2>7 DEF Bitmap
  <2>9. Owners'
    <3> DEFINE own == {<<"vmem", vmem, f>>} \cup {<<"table", vmem, t>> : t \in new}
    <3>1. owners' = owners \cup own /\ bitmap \subseteq bitmap' /\ loc' = loc
      BY <1>1
    <3>2. \A a \in own : a[3] \in bitmap' /\ a[3] \notin bitmap
      <4>1. \A a \in own : a[3] \in {f} \cup new
        OBVIOUS
      <4>2. \A g \in {f} \cup new : g \in bitmap' /\ g \notin bitmap
        BY <1>1, <2>3, <2>4
      <4> QED
        BY <4>1, <4>2
    <3>3. \A a, b \in own : a[3] = b[3] => a = b
      BY <2>4
    <3> HIDE DEF own
    <3> QED
      BY <2>2, <3>1, <3>2, <3>3, NewOwners
  <2>10. Pages'
    <3> SUFFICES ASSUME Clean' PROVE Pages'
      BY DEF Pages
    <3>1. Pages /\ Clean /\ paging /\ pde = "static" /\ loc \in {"scan"} \cup Taken \cup Mapped
      BY <2>5 DEF IInv
    <3>2. /\ table \in [Frames -> Nat] /\ table' = [table EXCEPT ![vmem] = f]
          /\ blocks' = [v \in DOMAIN blocks \cup {vmem} |-> IF v # vmem THEN blocks[v] ELSE f]
      BY <1>1, <3>1 DEF Pages
    <3>3. /\ table' \in [Frames -> Nat] /\ table'[vmem] = f
          /\ \A v \in Frames : v # vmem => table'[v] = table[v]
      BY <1>2, <2>3, <3>2
    <3>4. \A v \in Frames : v >= vmem + 1 => table'[v] = v
      <4>1. \A v \in Frames : v >= vmem => table[v] = v
        BY <3>1 DEF Pages
      <4> QED
        BY <1>2, <3>3, <4>1, Sizes DEF Frames
    <3>5. owners \subseteq owners' /\ <<"vmem", vmem, f>> \in owners'
      BY <1>1
    <3>6. \A p \in 0 .. page - 1 : <<"heap", p, table'[KHEAP_START + p]>> \in owners'
      <4> SUFFICES ASSUME NEW p \in 0 .. page - 1
                   PROVE  <<"heap", p, table'[KHEAP_START + p]>> \in owners'
        OBVIOUS
      <4>1. KHEAP_START + p \in Frames /\ KHEAP_START + p # vmem
        BY <1>2, Sizes DEF IInv, Progress, Frames
      <4>2. <<"heap", p, table[KHEAP_START + p]>> \in owners
        BY <3>1 DEF Pages
      <4> QED
        BY <3>3, <3>5, <4>1, <4>2
    <3>7. \A v \in DOMAIN blocks' :
            /\ v \in KVMEM_START .. (vmem + 1) - 1 /\ blocks'[v] = table'[v]
            /\ <<"vmem", v, table'[v]>> \in owners'
      <4> SUFFICES ASSUME NEW v \in DOMAIN blocks'
                   PROVE  /\ v \in KVMEM_START .. (vmem + 1) - 1 /\ blocks'[v] = table'[v]
                          /\ <<"vmem", v, table'[v]>> \in owners'
        OBVIOUS
      <4>1. CASE v = vmem
        <5>1. v \in KVMEM_START .. (vmem + 1) - 1
          BY <1>2, <4>1, Sizes
        <5>2. blocks'[v] = f
          BY <3>2, <4>1
        <5> QED
          BY <3>3, <3>5, <4>1, <5>1, <5>2
      <4>2. CASE v # vmem
        <5>1. v \in DOMAIN blocks /\ blocks'[v] = blocks[v]
          BY <3>2, <4>2
        <5>2. /\ v \in KVMEM_START .. vmem - 1 /\ blocks[v] = table[v]
              /\ <<"vmem", v, table[v]>> \in owners
          BY <3>1, <5>1 DEF Pages
        <5>3. v \in Frames /\ v \in KVMEM_START .. (vmem + 1) - 1
          BY <1>2, <5>2, Sizes DEF Frames
        <5> QED
          BY <3>3, <3>5, <4>2, <5>1, <5>2, <5>3
      <4> QED
        BY <4>1, <4>2
    <3>8. loc \in Taken => <<"heap", page, i>> \in owners
      BY <3>1 DEF Pages
    <3> QED
      BY <1>1, <3>1, <3>3, <3>4, <3>5, <3>6, <3>7, <3>8 DEF Pages
  <2> QED
    BY <1>4, <1>5, <1>6, <2>8, <2>9, <2>10 DEF IInv
<1> QED
  BY <1>7, <1>8

LEMMA vmalloc_astrayIInv ==
  ASSUME IInv, vmalloc_astray
  PROVE  IInv'
<1>1. /\ UNCHANGED <<i, page, vmem, free_list, given, heap, table, blocks, owners, torn>>
      /\ loc' = "astray" /\ commands' = commands + 1 /\ ~Readable /\ loc \notin Stopped
  BY DEF vmalloc_astray, astray, Typed, registers, counters, mappings, heaps, region, Stopped
<1>2. commands' \in Nat /\ commands' # 0
  BY <1>1 DEF IInv, Progress
<1>3. Clean => Readable
  <2>1. CASE loc \in Early \cup Unpaged
    BY <2>1 DEF IInv, Pages, Readable
  <2>2. CASE loc \in Taking \cup Taken \cup Mapped
    BY <2>2 DEF IInv, Progress, Pages, Readable, Reach
  <2> QED
    BY <1>1, <2>1, <2>2 DEF IInv, Progress, Late
<1>4. AstrayOnlyAfter'
  BY <1>1, <1>3 DEF AstrayOnlyAfter, Clean
<1> QED
  BY <1>1, <1>2, <1>4, StopIInv DEF Stopped

(* A frame for a table leads to itself once the heap is mapped.            *)
LEMMA pageops_astrayIInv ==
  ASSUME IInv, astray, Typed,
         \/ high # NoFrame /\ UNCHANGED torn
         \/ \E f \in Lowest(FreeFrames) : \E t \in Lowest(FreeFrames \ {f}) :
              Reach(t) # t /\ torn' = torn \cup TableWindow(loc)
  PROVE  IInv'
<1> USE DEF Early, Unpaged, Taking, Taken, Mapped, Late, Unready, Stopped
<1>1. /\ UNCHANGED <<i, page, vmem, free_list, given, heap, table, blocks, owners, high>>
      /\ loc' = "astray" /\ commands' = commands + 1 /\ loc \notin Stopped /\ torn \subseteq torn'
  BY DEF astray, Typed, registers, counters, mappings, heaps, region
<1>2. commands' \in Nat /\ commands' # 0
  BY <1>1 DEF IInv, Progress
<1>3. ASSUME NEW f \in Lowest(FreeFrames), NEW t \in Lowest(FreeFrames \ {f}), Reach(t) # t, Clean
      PROVE  loc \notin Early \cup Mapped
  <2>1. loc \notin Early
    BY <1>3 DEF IInv, Progress, Reach
  <2>2. CASE loc \in Mapped
    <3>1. t \in Frames /\ t \notin bitmap /\ t \in Nat
      BY <2>2, FreeFacts DEF Lowest, Frames
    <3>2. \A g \in 0 .. Floor - 1 : g \in bitmap
      BY <1>3, <2>2 DEF IInv, Bitmap, Valid, Clean
    <3>3. Floor = vmem /\ vmem \in Nat
      BY <2>2, Sizes DEF Floor, IInv, Progress
    <3>4. t >= vmem
      BY <3>1, <3>2, <3>3
    <3>5. table[t] = t
      BY <1>3, <2>2, <3>1, <3>4 DEF IInv, Pages
    <3> QED
      BY <1>3, <3>5 DEF Reach
  <2> QED
    BY <2>1, <2>2
<1>4. AstrayOnlyAfter'
  BY <1>1, <1>3 DEF AstrayOnlyAfter, Clean, TableWindow, IInv, Progress
<1> QED
  BY <1>1, <1>2, <1>4, StopIInv

LEMMA pageops_firstIInv ==
  ASSUME IInv, pageops_first
  PROVE  IInv'
<1> USE DEF Early, Unpaged, Taking, Taken, Mapped, Late, Unready, Stopped,
            registers, heaps, region
<1>1. PICK f, t :
        /\ f \in Lowest(FreeFrames) /\ t \in Lowest(FreeFrames \ {f}) /\ Typed /\ high = NoFrame
        /\ \/ /\ Reach(t) = t
              /\ high' = t /\ bitmap' = bitmap \cup {t} /\ free_pages' = free_pages - 1
              /\ owners' = owners \cup {<<"pageops", 0, t>>}
              /\ torn' = torn \cup Window(loc) \cup TableWindow(loc)
              /\ UNCHANGED <<loc, registers, total_pages, pde, table, paging, heaps, region>>
           \/ Reach(t) # t /\ astray /\ torn' = torn \cup TableWindow(loc)
  BY DEF pageops_first
<1>2. CASE astray /\ Reach(t) # t /\ torn' = torn \cup TableWindow(loc)
  BY <1>1, <1>2, pageops_astrayIInv
<1>3. CASE /\ bitmap' = bitmap \cup {t} /\ free_pages' = free_pages - 1
           /\ owners' = owners \cup {<<"pageops", 0, t>>}
           /\ torn' = torn \cup Window(loc) \cup TableWindow(loc)
           /\ UNCHANGED <<loc, registers, total_pages, pde, table, paging, heaps, region>>
  <2>1. /\ UNCHANGED <<loc, i, page, word, count, total_pages, pde, table, paging, free_list, heap,
                       given, vmem, blocks>>
        /\ commands' = commands + 1 /\ loc \notin Stopped
    BY <1>1, <1>3 DEF Typed
  <2>2. commands' \in Nat /\ commands' # 0
    BY <2>1 DEF IInv, Progress
  <2>3. Progress'
    BY <2>1, <2>2 DEF IInv, Progress
  <2>4. Identity' /\ Header' /\ AstrayOnlyAfter'
    BY <1>3, <2>1, <2>2 DEF IInv, Identity, Header, AstrayOnlyAfter, Window, TableWindow
  <2>5. Floor' = Floor /\ (Clean' => Clean)
    BY <1>3, <2>1 DEF Floor, Clean
  <2>6. Pages'
    BY <1>3, <2>1, <2>5 DEF IInv, Pages
  <2>7. CASE "frames" \in torn'
    BY <2>3, <2>4, <2>6, <2>7 DEF IInv, Bitmap, Owners
  <2>8. CASE "frames" \notin torn'
    <3>1. loc # "total"
      BY <1>1, FreeFacts
    <3>2. loc \in Late \ {"load", "store"} /\ "frames" \notin torn /\ Valid
      BY <1>3, <2>1, <2>8, <3>1 DEF Window, IInv, Progress, Bitmap
    <3>3. t \in Frames \ bitmap
      BY <1>1, <3>2, FreeFacts DEF Lowest
    <3>4. "count" \notin torn' => Counted'
      <4>1. "count" \notin torn' => "count" \notin torn /\ loc # "dec_store"
        BY <1>3 DEF Window
      <4>2. {t} \subseteq Frames \ bitmap
        BY <3>3
      <4>3. Cardinality(Frames \ (bitmap \cup {t})) = Cardinality(Frames \ bitmap) - Cardinality({t})
        BY <4>2, Take
      <4>4. Cardinality({t}) = 1
        BY FS_Singleton
      <4>5. PICK n \in Nat : n = Cardinality(Frames \ bitmap)
        BY FramesFinite
      <4>6. Cardinality(Frames \ bitmap') = n - 1
        BY <1>3, <4>3, <4>4, <4>5
      <4>7. "count" \notin torn =>
              free_pages = n + IF loc \in {"dec_load", "dec_store"} THEN 1 ELSE 0
        BY <3>2, <4>5 DEF Valid, Counted
      <4>8. "count" \notin torn =>
              free_pages' = (n - 1) + IF loc \in {"dec_load", "dec_store"} THEN 1 ELSE 0
        BY <1>3, <4>7
      <4> QED
        BY <2>1, <4>1, <4>6, <4>8 DEF Counted
    <3>5. Valid'
      BY <1>3, <2>1, <2>5, <3>2, <3>3, <3>4 DEF Valid
    <3>6. Bitmap'
      BY <2>1, <3>2, <3>5 DEF Bitmap
    <3>7. Owners'
      <4> DEFINE own == {<<"pageops", 0, t>>}
      <4>1. owners' = owners \cup own /\ bitmap \subseteq bitmap' /\ loc' = loc
        BY <1>3, <2>1
      <4>2. \A a \in own : a[3] \in bitmap' /\ a[3] \notin bitmap
        BY <1>3, <3>3
      <4>3. \A a, b \in own : a[3] = b[3] => a = b
        OBVIOUS
      <4> HIDE DEF own
      <4> QED
        BY <3>2, <4>1, <4>2, <4>3, NewOwners
    <3> QED
      BY <2>3, <2>4, <2>6, <3>6, <3>7 DEF IInv
  <2> QED
    BY <2>7, <2>8
<1> QED
  BY <1>1, <1>2, <1>3

(* A step that changes nothing but the number of commands.                 *)
LEMMA SameIInv ==
  ASSUME IInv, commands' = commands \/ (commands' \in Nat /\ commands' # 0),
         UNCHANGED <<loc, i, page, word, count, bitmap, total_pages, free_pages, pde, high, table,
                     paging, free_list, heap, given, vmem, blocks, owners, torn>>
  PROVE  IInv'
<1>1. Floor' = Floor /\ Clean' = Clean /\ Counted' = Counted
  BY DEF Floor, Clean, Counted
<1>2. Valid' = Valid
  BY <1>1 DEF Valid
<1>3. Progress' /\ Bitmap'
  BY <1>2 DEF IInv, Progress, Bitmap
<1>4. Owners' /\ Pages'
  BY <1>1 DEF IInv, Owners, OneOwner, Pages
<1>5. Header' /\ Identity' /\ AstrayOnlyAfter'
  BY <1>1 DEF IInv, Header, Identity, AstrayOnlyAfter
<1> QED
  BY <1>3, <1>4, <1>5 DEF IInv

LEMMA pageops_againIInv ==
  ASSUME IInv, pageops_again
  PROVE  IInv'
<1>1. commands' = commands + 1 /\ commands \in Nat
  BY DEF pageops_again, Typed, IInv, Progress
<1>2. CASE astray
  BY <1>2, pageops_astrayIInv DEF pageops_again
<1>3. CASE UNCHANGED <<loc, registers, bitmap, counters, mappings, heaps, region, owners>>
  <2>1. UNCHANGED <<loc, i, page, word, count, bitmap, total_pages, free_pages, pde, high, table,
                    paging, free_list, heap, given, vmem, blocks, owners, torn>>
    BY <1>3 DEF pageops_again, registers, counters, mappings, heaps, region
  <2> QED
    BY <1>1, <2>1, SameIInv
<1> QED
  BY <1>2, <1>3 DEF pageops_again

LEMMA kmallocIInv ==
  ASSUME IInv, kmalloc
  PROVE  IInv'
<1> USE DEF Early, Unpaged, Taking, Taken, Mapped, Late, Unready, Stopped
<1>1. /\ UNCHANGED <<loc, i, page, word, count, bitmap, total_pages, free_pages, pde, high, table,
                     paging, free_list, vmem, blocks, owners>>
      /\ commands' = commands + 1 /\ heap' = "taken" /\ given' = TRUE
      /\ torn' = torn \cup (IF heap = "residue" THEN {"heap"} ELSE {})
      /\ loc \notin Stopped
  BY DEF kmalloc, Typed, registers, counters, mappings, region
<1>2. commands' \in Nat /\ commands' # 0
  BY <1>1 DEF IInv, Progress
<1>3. Progress'
  BY <1>1, <1>2 DEF IInv, Progress
<1>4. /\ "frames" \in torn' <=> "frames" \in torn
      /\ "count" \in torn' <=> "count" \in torn
      /\ Clean' = Clean /\ Floor' = Floor /\ Counted' = Counted
  BY <1>1 DEF Clean, Floor, Counted
<1>5. Valid' = Valid
  BY <1>1, <1>4 DEF Valid
<1>6. Bitmap' /\ Owners'
  BY <1>1, <1>4, <1>5 DEF IInv, Bitmap, Owners, OneOwner
<1>7. Pages'
  BY <1>1, <1>4 DEF IInv, Pages
<1>8. Header' /\ Identity' /\ AstrayOnlyAfter'
  BY <1>1, <1>2 DEF IInv, Header, Identity, AstrayOnlyAfter
<1> QED
  BY <1>3, <1>6, <1>7, <1>8 DEF IInv

LEMMA NextIInv ==
  ASSUME IInv, [Next]_vars
  PROVE  IInv'
<1>1. ASSUME kernel_main PROVE IInv'
  <2>1. UNCHANGED <<region, history>>
    BY <1>1 DEF kernel_main
  <2> QED
    BY <1>1, <2>1, pmm_initIInv, paging_initIInv, pmm_alloc_pageIInv, kheap_initIInv,
       shell_initIInv DEF kernel_main, memory_init
<1>2. CASE vmalloc \/ vmalloc_astray
  BY <1>2, vmallocIInv, vmalloc_astrayIInv
<1>3. CASE pageops_first \/ pageops_again
  BY <1>3, pageops_firstIInv, pageops_againIInv
<1>4. CASE kmalloc
  BY <1>4, kmallocIInv
<1>5. CASE vmalloc_panic \/ pageops_panic \/ kmalloc_panic
  <2>1. /\ UNCHANGED <<i, page, vmem, free_list, given, heap, table, blocks, owners, torn>>
        /\ loc' = "halted" /\ commands' = commands + 1
    BY <1>5 DEF vmalloc_panic, pageops_panic, kmalloc_panic, panic, Typed, registers, mappings,
                heaps, region
  <2>2. commands' \in Nat /\ commands' # 0 /\ AstrayOnlyAfter'
    BY <2>1 DEF IInv, Progress, AstrayOnlyAfter
  <2> QED
    BY <2>1, <2>2, StopIInv DEF Stopped
<1>6. CASE hlt \/ UNCHANGED vars
  <2>1. UNCHANGED <<loc, i, page, word, count, bitmap, total_pages, free_pages, pde, high, table,
                    paging, free_list, heap, given, vmem, blocks, owners, torn, commands>>
    BY <1>6 DEF hlt, vars, registers, counters, mappings, heaps, region, history
  <2> QED
    BY <2>1, SameIInv
<1> QED
  BY <1>1, <1>2, <1>3, <1>4, <1>5, <1>6 DEF Next, keyboard_handler

(* The inductive invariant holds in every state that boot and the commands *)
(* typed meanwhile can reach.                                              *)
THEOREM Invariance == Spec => []IInv
<1>1. Init => IInv
  BY InitIInv
<1>2. IInv /\ [Next]_vars => IInv'
  BY NextIInv
<1> QED
  BY <1>1, <1>2, PTL DEF Spec

(* No frame has two owners, unless a command came while the bitmap was     *)
(* being set up or was in a register of pmm_alloc_page.                    *)
THEOREM FramesCorrect == Spec => []OneOwner
<1>1. IInv => OneOwner
  BY DEF IInv, Owners, OneOwner
<1> QED
  BY <1>1, Invariance, PTL

(* At the prompt free_pages is the number of frames that pmm_alloc_page    *)
(* can still find, unless a command came while the bitmap or the counter   *)
(* was in a register.                                                      *)
THEOREM CountCorrect == Spec => []CountExact
<1>1. ASSUME IInv PROVE CountExact
  <2> SUFFICES ASSUME loc = "hlt", torn \cap {"frames", "count"} = {}
               PROVE  free_pages = Cardinality(FreeFrames)
    BY DEF CountExact
  <2>1. loc \in Late /\ total_pages = AvailablePages
    BY <1>1 DEF IInv, Progress, Late, Mapped
  <2>2. free_pages = Cardinality(Frames \ bitmap) + 0
    BY <1>1, <2>1 DEF IInv, Bitmap, Valid, Counted
  <2>3. FreeFrames = Frames \ bitmap
    BY <2>1 DEF FreeFrames, Frames
  <2>4. Cardinality(Frames \ bitmap) \in Nat
    BY FramesFinite
  <2>5. free_pages = Cardinality(Frames \ bitmap)
    BY <2>2, <2>4
  <2> QED
    BY <2>3, <2>5
<1> QED
  BY <1>1, Invariance, PTL

(* From the moment kmalloc can succeed the entries of the heap's pages     *)
(* hold the frames taken for them, the block it gave out stays taken, and  *)
(* the entry of each block of vmalloc holds its own frame, whatever was    *)
(* typed outside of the windows of vmalloc and kmalloc.                    *)
THEOREM PagesCorrect == Spec => []PagesReachOwners
<1>1. IInv => PagesReachOwners
  BY DEF IInv, Pages, Header, Progress, Clean, PagesReachOwners
<1> QED
  BY <1>1, Invariance, PTL

(* Boot leaves what the code for page tables relies on: any frame it may   *)
(* still take is mapped at its own address, whatever was typed outside of  *)
(* the windows of vmalloc and kmalloc.                                     *)
THEOREM BootCorrect == Spec => []BootDelivers
<1>1. ASSUME IInv PROVE BootDelivers
  <2> SUFFICES ASSUME loc = "hlt"
               PROVE  /\ torn \subseteq {"tables"} => \A f \in FreeFrames : f >= vmem /\ table[f] = f
                      /\ commands = 0 => /\ \A v \in Frames : table[v] = v
                                         /\ FreeFrames = {f \in Frames : f >= KVMEM_START}
    BY DEF BootDelivers
  <2>1. loc \in Late /\ FreeFrames = Frames \ bitmap
    BY <1>1 DEF IInv, Progress, Late, Mapped, FreeFrames, Frames
  <2>2. Floor = vmem /\ vmem \in Nat
    BY <1>1, Sizes DEF IInv, Progress, Floor, Mapped, Taken
  <2>3. ASSUME torn \subseteq {"tables"}, NEW f \in FreeFrames PROVE f >= vmem /\ table[f] = f
    <3>1. Clean /\ "frames" \notin torn
      BY <2>3 DEF Clean
    <3>2. \A g \in 0 .. vmem - 1 : g \in bitmap
      BY <1>1, <2>1, <2>2, <3>1 DEF IInv, Bitmap, Valid
    <3>3. f \in Frames /\ f \in Nat /\ f \notin bitmap
      BY <2>1, <2>3 DEF Frames
    <3>4. f >= vmem
      BY <2>2, <3>2, <3>3
    <3> QED
      BY <1>1, <2>1, <3>1, <3>3, <3>4 DEF IInv, Pages
  <2>4. ASSUME commands = 0
        PROVE  (\A v \in Frames : table[v] = v) /\ FreeFrames = {f \in Frames : f >= KVMEM_START}
    <3>1. bitmap = 0 .. KVMEM_START - 1 /\ \A v \in Frames : table[v] = v
      BY <1>1, <2>1, <2>2, <2>4 DEF IInv, Identity, Progress
    <3> QED
      BY <2>1, <3>1, Sizes DEF Frames
  <2> QED
    BY <2>3, <2>4
<1> QED
  BY <1>1, Invariance, PTL

(* A command reads a header or a table that is not where it was written    *)
(* only after a command in one of the windows, or after a pageops that     *)
(* kept its table.                                                         *)
THEOREM StraysExplained == Spec => []AstrayOnlyAfter
<1>1. IInv => AstrayOnlyAfter
  BY DEF IInv
<1> QED
  BY <1>1, Invariance, PTL
=============================================================================
