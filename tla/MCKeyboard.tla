----------------------------- MODULE MCKeyboard -----------------------------
(* A keyboard with one key of each kind that the handler tells apart.      *)
EXTENDS Keyboard
=============================================================================
