----------------------------- MODULE Allocator -----------------------------
(***************************************************************************)
(* What a dynamic memory allocator promises the code that calls it,        *)
(* whatever its data structures are: a request is answered with a range of *)
(* bytes of the region that overlaps no range in use, a range stays with   *)
(* its owner until the owner gives it back, and a request or a release     *)
(* that cannot be served stops the kernel and changes nothing.             *)
(***************************************************************************)
EXTENDS Integers

CONSTANTS
  Base, Limit,  \* the region is the addresses Base .. Limit - 1
  Addresses,    \* where a range may start
  Lengths       \* the bytes it may have

VARIABLES
  live,    \* the ranges in use: first address |-> length
  halted   \* the kernel has panicked

vars == <<live, halted>>

Init == live = [p \in {} |-> 0] /\ halted = FALSE

Disjoint(p, n, q, m) == p + n <= q \/ q + m <= p

Alloc(p, n) ==
  /\ ~halted
  /\ p \in Addresses /\ n \in Lengths
  /\ p \notin DOMAIN live /\ Base <= p /\ p + n <= Limit
  /\ \A q \in DOMAIN live : Disjoint(p, n, q, live[q])
  /\ live' = [q \in DOMAIN live \cup {p} |-> IF q = p THEN n ELSE live[q]]
  /\ UNCHANGED halted

Release(p) ==
  /\ ~halted
  /\ p \in DOMAIN live
  /\ live' = [q \in DOMAIN live \ {p} |-> live[q]]
  /\ UNCHANGED halted

Panic ==
  /\ ~halted
  /\ halted' = TRUE
  /\ UNCHANGED live

(* A new range is one of those in use after the step.                      *)
Next ==
  \/ \E p \in DOMAIN live' : Alloc(p, live'[p])
  \/ \E p \in DOMAIN live : Release(p)
  \/ Panic

Spec == Init /\ [][Next]_vars
=============================================================================
