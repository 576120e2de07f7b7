----------------------------- MODULE HeapTests -----------------------------
(***************************************************************************)
(* The shell commands ktest, kmalloctest and panictest: each one is a      *)
(* fixed sequence of calls of the heap in KHeap.  The steps of its calls   *)
(* are those of KHeap; no other command runs in between.                   *)
(***************************************************************************)
EXTENDS KHeap, Sequences

CONSTANT Tests  \* the test commands, with their arguments

VARIABLE test   \* the running test, NoTest if there is none

(* Requests still to make, whether ktest stores a value (None: no), and    *)
(* whether the block is given back; then where the test is, its pointer,   *)
(* and, as history, the blocks before it.                                  *)
None == -1

cmd_ktest(n, v)          == [sizes |-> <<n>>, value |-> v, frees |-> TRUE]
cmd_kmalloc_test(n1, n2) == [sizes |-> <<n1, n2>>, value |-> None, frees |-> TRUE]
cmd_panic_test(n)        == [sizes |-> <<n>>, value |-> None, frees |-> FALSE]

NoTest == [sizes |-> << >>]

ASSUME TestAssumption ==
  \A t \in Tests : /\ t.sizes \in Seq(1 .. Word - 1) /\ t.sizes # << >>
                   /\ t.value \in Nat \cup {None} /\ t.frees \in BOOLEAN
                   /\ ~t.frees => t.sizes[1] \in KHEAP_SIZE .. Word - 8

testVars == <<vars, test>>

TestInit == Init /\ test = NoTest

Testing(stage) == test # NoTest /\ test.stage = stage

(* The blocks in use and the blocks of the list, by size.                  *)
Shape == [used |-> live, sizes |-> [b \in blocks |-> Size(b)], tidy |-> Tidy]

test_start(t) ==
  /\ test = NoTest /\ kmalloc(t.sizes[1])
  /\ test' = [sizes |-> t.sizes, value |-> t.value, frees |-> t.frees,
              stage |-> "alloc", ptr |-> NULL, before |-> Shape]

(* kmalloc returns.                                                        *)
test_take ==
  /\ Testing("alloc") /\ kmalloc_take
  /\ test' = [test EXCEPT !.stage = "held", !.ptr = cur + HEADER]

(* ktest stores its value; the calls of ksize only read.                   *)
test_store ==
  /\ Testing("held") /\ pc = "idle"
  /\ IF test.value = None THEN UNCHANGED vars ELSE store(test.ptr, test.value)
  /\ test' = [test EXCEPT !.stage = "stored"]

test_free ==
  /\ Testing("stored") /\ test.frees
  /\ kfree_accept(test.ptr) \/ kfree_reject(test.ptr)
  /\ test' = [test EXCEPT !.stage = "freeing"]

(* kfree returns, and the test goes on or ends.                            *)
test_next ==
  /\ Testing("freeing") /\ pc = "idle" /\ Len(test.sizes) > 1
  /\ kmalloc(test.sizes[2])
  /\ test' = [test EXCEPT !.stage = "alloc", !.sizes = Tail(@), !.ptr = NULL]

test_end ==
  /\ \/ Testing("freeing") /\ Len(test.sizes) = 1
     \/ Testing("stored") /\ ~test.frees
  /\ pc = "idle"
  /\ test' = NoTest /\ UNCHANGED vars

(* The other steps of the heap.                                            *)
test_step ==
  /\ test # NoTest /\ UNCHANGED test
  /\ kmalloc_next \/ kmalloc_fail \/ kfree_merge \/ kfree_next \/ kfree_return \/ kpanic_fatal \/ lost

TestStep == test_take \/ test_store \/ test_free \/ test_next \/ test_end \/ test_step

(* A loop of another command goes on.                                      *)
OtherStep == test = NoTest /\ Step /\ UNCHANGED test

TestNext ==
  \/ test = NoTest /\ NextStep /\ UNCHANGED test
  \/ \E t \in Tests : test_start(t)
  \/ TestStep

TestSpec == TestInit /\ [][TestNext]_testVars /\ WF_testVars(OtherStep \/ TestStep)

----------------------------------------------------------------------------
(* A test leaves the list as it found it, however the free blocks lay: the *)
(* same blocks, of the same sizes, and the same ones in use, if no two     *)
(* neighbours were free before; otherwise its kfree merges them.  It never *)
(* frees a pointer that kfree rejects; and panictest, which asks for more  *)
(* than the heap, always panics.                                           *)
TestsLeaveNoTrace ==
  [][ /\ test # NoTest /\ test' = NoTest =>
           test.frees /\ (test.before.tidy => Shape = test.before)
      /\ test # NoTest => pc' # "panic_free" ]_testVars
=============================================================================
