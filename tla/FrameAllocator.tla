--------------------------- MODULE FrameAllocator ---------------------------
(***************************************************************************)
(* What the allocator of physical page frames promises: a frame has at     *)
(* most one owner, only frames of the pool are ever granted, a grant is    *)
(* refused only when every frame of the pool has an owner, and giving back *)
(* a frame that has none stops the kernel.                                 *)
(***************************************************************************)

CONSTANT Frames   \* the frames that could ever be in the pool

VARIABLES
  ready,    \* the pool has been set up
  pool,     \* the frames that may be granted
  granted,  \* the frames that have an owner
  panic     \* why the kernel has stopped, "none" while it runs

vars == <<ready, pool, granted, panic>>

Init == ready = FALSE /\ pool = {} /\ granted = {} /\ panic = "none"

Start ==
  /\ panic = "none" /\ ~ready
  /\ ready' = TRUE
  /\ pool' \subseteq Frames
  /\ UNCHANGED <<granted, panic>>

Grant(f) ==
  /\ panic = "none" /\ ready
  /\ f \in pool \ granted
  /\ granted' = granted \cup {f}
  /\ UNCHANGED <<ready, pool, panic>>

Release(f) ==
  /\ panic = "none" /\ ready
  /\ f \in granted
  /\ granted' = granted \ {f}
  /\ UNCHANGED <<ready, pool, panic>>

Stop(reason) ==
  /\ panic = "none"
  /\ panic' = reason
  /\ UNCHANGED <<ready, pool, granted>>

(* The machine has no frame to manage.                                     *)
NoMemory == ~ready /\ Stop("no memory")

(* A grant before Start, or with no frame left.                            *)
Exhausted == (ready => granted = pool) /\ Stop("out of memory")

(* A release of a frame that has no owner.                                 *)
Misuse(f) == ready /\ f \in pool \ granted /\ Stop("double free")

Next ==
  \/ Start
  \/ \E f \in pool : Grant(f) \/ Release(f) \/ Misuse(f)
  \/ NoMemory
  \/ Exhausted

Spec == Init /\ [][Next]_vars
=============================================================================
