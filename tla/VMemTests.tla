----------------------------- MODULE VMemTests -----------------------------
(***************************************************************************)
(* The shell commands vtest and vmalloctest: fixed sequences of calls of   *)
(* the allocator in VMem, with no other command in between.                *)
(***************************************************************************)
EXTENDS VMem, Sequences

CONSTANT Tests  \* the test commands, with their arguments

VARIABLE test   \* the running test, NoTest if there is none

(* Requests still to make and the value vtest stores (None: none); then    *)
(* where the test is and its pointer.                                      *)
None == -1

cmd_vtest(n, v)          == [sizes |-> <<n>>, value |-> v]
cmd_vmalloc_test(n1, n2) == [sizes |-> <<n1, n2>>, value |-> None]

NoTest == [sizes |-> << >>]

ASSUME TestAssumption ==
  \A t \in Tests : /\ t.sizes \in Seq(1 .. Word - 1) /\ t.sizes # << >>
                   /\ t.value \in Nat \cup {None}

testVars == <<vars, test>>

TestInit == Init /\ test = NoTest

Testing(stage) == test # NoTest /\ test.stage = stage

test_start(t) ==
  /\ test = NoTest /\ vmalloc(t.sizes[1])
  /\ test' = [sizes |-> t.sizes, value |-> t.value, stage |-> "alloc", ptr |-> NULL]

(* vmalloc returns the pointer it has added to live.                       *)
test_take ==
  /\ Testing("alloc")
  /\ vmalloc_split \/ vmalloc_reuse \/ vmalloc_expand
  /\ test' = [test EXCEPT !.stage = "held",
                          !.ptr = CHOOSE p \in DOMAIN live' : p \notin DOMAIN live]

(* vtest stores its value; the calls of vsize only read.                   *)
test_store ==
  /\ Testing("held") /\ pc = "idle"
  /\ IF test.value = None THEN UNCHANGED vars ELSE store(test.ptr, test.value)
  /\ test' = [test EXCEPT !.stage = "stored"]

test_free ==
  /\ Testing("stored")
  /\ vfree(test.ptr) \/ vfree_fail(test.ptr)
  /\ test' = [test EXCEPT !.stage = "freed"]

(* vfree returns, and the test goes on or ends.                            *)
test_next ==
  /\ Testing("freed") /\ Len(test.sizes) > 1 /\ vmalloc(test.sizes[2])
  /\ test' = [test EXCEPT !.stage = "alloc", !.sizes = Tail(@), !.ptr = NULL]

test_end ==
  /\ Testing("freed") /\ pc = "idle" /\ Len(test.sizes) = 1
  /\ test' = NoTest /\ UNCHANGED vars

(* The other steps of the allocator.                                       *)
test_step ==
  /\ test # NoTest /\ UNCHANGED test
  /\ vmalloc_next \/ vmalloc_fail \/ kpanic_fatal \/ lost

TestStep == test_take \/ test_store \/ test_free \/ test_next \/ test_end \/ test_step

(* A loop of another command goes on.                                      *)
OtherStep == test = NoTest /\ Step /\ UNCHANGED test

TestNext ==
  \/ test = NoTest /\ NextStep /\ UNCHANGED test
  \/ \E t \in Tests : test_start(t)
  \/ TestStep

TestSpec == TestInit /\ [][TestNext]_testVars /\ WF_testVars(OtherStep \/ TestStep)
=============================================================================
