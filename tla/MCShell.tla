------------------------------ MODULE MCShell ------------------------------
(* Two-digit words, an array of four arguments and a buffer of eleven      *)
(* bytes.  A name is one or two letters, and one is a prefix of another.   *)
EXTENDS Shell, TLC

MCcommands ==
  <<"k">> :> "kmalloc" @@ <<"k", "k">> :> "ksize" @@ <<"b">> :> "kbrk"
  @@ <<"w">> :> "write" @@ <<"r">> :> "read" @@ <<"t">> :> "ktest"
  @@ <<"h">> :> "plain" @@ <<"p">> :> "reboot" @@ <<"p", "h">> :> "halt"
  @@ <<"p", "s">> :> "shutdown"

MCRegions == {[start |-> 32, end |-> 48], [start |-> 48, end |-> 95]}

(* Every way to place blanks in a short line, and a few longer ones.       *)
Spaced ==
  UNION {[1 .. n -> {" ", "k"}] : n \in 0 .. 3}
  \cup {<<"k", " ", "9", " ", "9", " ", "9", " ", "9">>, <<" ", "k", " ", "9", " ">>,
        <<"k", "k", "k", "k", "k", "k", "k", "k", "k", "k">>, <<"h", " ", "k">>}

(* Numbers in both bases, that wrap, that end early, that are no numbers.  *)
Numbered ==
  {<<"k", " ">> \o n :
     n \in {<<"2", "6", "0">>, <<"0", "X", "a", "F">>, <<"0", "x", "1", "2", "3">>,
            <<"1", "x">>, <<"0", "x">>, <<"9", "g">>}}

Others ==
  {<<"w", " ", "3", "2", " ", "9">>, <<"w", " ", "4", "8", " ", "2", "0", "0">>,
   <<"w", " ", "9", " ", "9">>, <<"w", " ", "9", "9", " ", "9">>, <<"w", " ", "9">>,
   <<"t", " ", "9", "\t", "8">>, <<"r", " ", "3", "2">>, <<"r", " ", "9">>,
   <<"b">>, <<"b", " ", "0">>, <<"b", " ", "8">>, <<"p">>, <<"p", "h">>, <<"p", "s">>}

MCLines == Spaced \cup Numbered \cup Others
============================================================================
