----------------------------- MODULE MCConsole -----------------------------
(* Two screens of two rows and three columns, and lines of four letters.   *)
EXTENDS Console

MCOutputs == {<<"o", NL>>, <<"o", "o", "o", "o", NL>>}
=============================================================================
