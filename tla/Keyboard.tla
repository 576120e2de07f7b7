------------------------------ MODULE Keyboard ------------------------------
(***************************************************************************)
(* The keyboard interrupt of src/src/keyboard.c.                           *)
(*                                                                         *)
(* A key sends scan codes when it goes down and when it comes up: one, or  *)
(* the prefix and one more if it belongs to the extended block.  The       *)
(* handler takes one code for each interrupt, so a key of that block is    *)
(* two runs of the handler with the flag extended between them.  A code is *)
(* [key, up] here, and the prefix is a key of its own.                     *)
(*                                                                         *)
(* The handler ends in at most one call of the console; the calls are the  *)
(* actions of Console, and here their names.  The interrupt controller     *)
(* raises no interrupt while one is in service, that is, until the handler *)
(* has sent it the end-of-interrupt command.                               *)
(***************************************************************************)
EXTENDS Integers, Sequences

CONSTANT Keys  \* the keys of this keyboard

VARIABLES
  shift_pressed, ctrl_pressed, caps_lock,  \* keyboard_state
  extended,    \* the last code was the prefix
  in_service,  \* the controller waits for the end of an interrupt
  stopped,     \* a command has halted the machine
  wire,      \* codes sent and not yet taken
  call,      \* the console operation the last key led to
  meant,     \* history: what the last key stands for
  held       \* history: the modifier keys that are down

vars == <<shift_pressed, ctrl_pressed, caps_lock, extended, in_service, stopped,
          wire, call, meant, held>>

flags == <<shift_pressed, ctrl_pressed, caps_lock>>

machine == <<extended, in_service, stopped>>

PREFIX == "0xE0"

(* The keys of the extended block, with the key whose code they share.     *)
Shared == [left |-> "keypad4", right |-> "keypad6", right_ctrl |-> "left_ctrl"]

Shifts       == {"left_shift", "right_shift"}
Modifiers    == Shifts \cup {"left_ctrl", "caps_lock"}
FunctionKeys == {"f1", "f2", "f3", "f4"}  \* f5 to f10 behave as f4

ASSUME KeyboardAssumption ==
  Keys \subseteq Modifiers \cup FunctionKeys \cup DOMAIN Shared
                 \cup {"a", "1", "backspace", "enter", "keypad4", "keypad6"}

Code(key, up) == [key |-> key, up |-> up]

Codes(key, up) ==
  IF key \in DOMAIN Shared THEN <<Code(PREFIX, FALSE), Code(Shared[key], up)>>
                           ELSE <<Code(key, up)>>

----------------------------------------------------------------------------
(* The two tables, and caps lock, which turns letters over.                *)
scancode_to_ascii(key) ==
  CASE key = "a" -> IF shift_pressed # caps_lock THEN "A" ELSE "a"
    [] key = "1" -> IF shift_pressed THEN "!" ELSE "1"
    [] OTHER     -> "nul"

(* What f1, f2, f3 and the others do.                                      *)
FunctionCall(key) ==
  IF ctrl_pressed \/ key \notin {"f1", "f2", "f3"} THEN <<"mark", key>>
                                                   ELSE <<"switch_screen", key>>

CharacterCall(key) ==
  CASE key = "backspace" -> <<"delete", key>>
    [] key = "enter"     -> <<"newline", key>>
    [] OTHER             -> <<"insert", scancode_to_ascii(key)>>

NoCall == <<"none", "">>

(* What a key means to the user when it is pressed.                        *)
Meaning(key) ==
  CASE key \in {"left", "right"}                  -> <<"move", key>>
    [] key \in FunctionKeys                       -> FunctionCall(key)
    [] key \in Modifiers \cup {"right_ctrl"}      -> NoCall
    [] key \in Keys \ (Modifiers \cup FunctionKeys \cup DOMAIN Shared) -> CharacterCall(key)

(* The controller starts with nothing in service, and the keyboard alone   *)
(* may interrupt.                                                          *)
pic_init == in_service = FALSE

Init ==
  /\ pic_init /\ stopped = FALSE
  /\ shift_pressed = FALSE /\ ctrl_pressed = FALSE /\ caps_lock = FALSE
  /\ extended = FALSE /\ wire = << >>
  /\ call = NoCall /\ meant = NoCall /\ held = {}

(* A key goes down, or repeats while it is down.                           *)
Press(key) ==
  /\ wire = << >> /\ ~stopped
  /\ wire' = Codes(key, FALSE)
  /\ call' = NoCall /\ meant' = Meaning(key)
  /\ held' = held \cup ({key} \cap (Modifiers \cup {"right_ctrl"}))
  /\ UNCHANGED <<flags, machine>>

Release(key) ==
  /\ wire = << >> /\ ~stopped /\ (key \in Modifiers \cup {"right_ctrl"} => key \in held)
  /\ wire' = Codes(key, TRUE)
  /\ call' = NoCall /\ meant' = NoCall
  /\ held' = held \ {key}
  /\ UNCHANGED <<flags, machine>>

----------------------------------------------------------------------------
(***************************************************************************)
(* keyboard_handler, one action for each way through it.                   *)
(***************************************************************************)
code == Head(wire)

(* An interrupt is accepted, which puts it in service until the handler    *)
(* ends it.                                                                *)
Interrupt == wire # << >> /\ ~in_service /\ ~stopped

pic_send_eoi == in_service' = FALSE /\ UNCHANGED stopped

(* The prefix outlives the code it belongs to.                             *)
Taken_bug == wire' = Tail(wire) /\ pic_send_eoi /\ UNCHANGED <<extended, meant, held>>

(* The code is taken, the interrupt ended and the prefix forgotten.        *)
Taken ==
  wire' = Tail(wire) /\ pic_send_eoi /\ extended' = FALSE /\ UNCHANGED <<meant, held>>

(* The handler returns without ending the interrupt.                       *)
prefix_bug ==
  /\ Interrupt /\ code.key = PREFIX
  /\ wire' = Tail(wire) /\ extended' = TRUE /\ in_service' = TRUE
  /\ UNCHANGED <<stopped, meant, held, call, flags>>

prefix ==
  /\ Interrupt /\ code.key = PREFIX
  /\ wire' = Tail(wire) /\ extended' = TRUE /\ pic_send_eoi
  /\ UNCHANGED <<meant, held, call, flags>>

(* After the prefix only the arrows do something.                          *)
extended_press ==
  /\ Interrupt /\ code.key # PREFIX /\ ~code.up /\ extended
  /\ call' = CASE code.key = "keypad4" -> <<"move", "left">>
               [] code.key = "keypad6" -> <<"move", "right">>
               [] OTHER                -> NoCall
  /\ Taken /\ UNCHANGED flags

modifier_press ==
  /\ Interrupt /\ ~code.up /\ ~extended /\ code.key \in Modifiers
  /\ shift_pressed' = (shift_pressed \/ code.key \in Shifts)
  /\ ctrl_pressed' = (ctrl_pressed \/ code.key = "left_ctrl")
  /\ caps_lock' = (caps_lock # (code.key = "caps_lock"))
  /\ Taken /\ UNCHANGED call

function_press ==
  /\ Interrupt /\ ~code.up /\ ~extended /\ code.key \in FunctionKeys
  /\ call' = FunctionCall(code.key)
  /\ Taken /\ UNCHANGED flags

character_press ==
  /\ Interrupt /\ ~code.up /\ ~extended
  /\ code.key \notin Modifiers \cup FunctionKeys \cup {PREFIX}
  /\ call' = CharacterCall(code.key)
  /\ Taken /\ UNCHANGED flags

(* The line that Enter runs halts the machine: the handler does not return *)
(* and interrupts are off.                                                 *)
newline_stops ==
  /\ Interrupt /\ ~code.up /\ ~extended /\ code.key = "enter"
  /\ call' = CharacterCall(code.key) /\ wire' = Tail(wire)
  /\ in_service' = TRUE /\ stopped' = TRUE
  /\ UNCHANGED <<extended, meant, held, flags>>

(* The release of the right shift key is not looked at.                    *)
key_release_bug ==
  /\ Interrupt /\ code.key # PREFIX /\ code.up
  /\ shift_pressed' = (shift_pressed /\ code.key # "left_shift")
  /\ ctrl_pressed' = (ctrl_pressed /\ code.key # "left_ctrl")
  /\ Taken /\ UNCHANGED <<caps_lock, call>>

(* A release does not look at the prefix, nor at the other shift key.      *)
key_release ==
  /\ Interrupt /\ code.key # PREFIX /\ code.up
  /\ shift_pressed' = (shift_pressed /\ code.key \notin Shifts)
  /\ ctrl_pressed' = (ctrl_pressed /\ code.key # "left_ctrl")
  /\ Taken /\ UNCHANGED <<caps_lock, call>>

keyboard_handler ==
  \/ prefix \/ extended_press \/ modifier_press \/ function_press
  \/ character_press \/ newline_stops \/ key_release

hlt == stopped /\ UNCHANGED vars

Next == (\E key \in Keys : Press(key) \/ Release(key)) \/ keyboard_handler \/ hlt

(* The processor accepts an interrupt that stays pending: kernel_main      *)
(* waits with interrupts on, and the handler never takes another.          *)
Spec == Init /\ [][Next]_vars /\ WF_vars(keyboard_handler)

----------------------------------------------------------------------------
(***************************************************************************)
(* Properties.                                                             *)
(***************************************************************************)
(* No modifier sticks and no prefix leaks into the next key: between keys, *)
(* shift or control is on only while a key for it is down.                 *)
NoStuckModifier ==
  wire = << >> =>
    /\ shift_pressed => held \cap Shifts # {}
    /\ ctrl_pressed => "left_ctrl" \in held
    /\ ~extended

(* Each key has the effect it stands for, once and whatever came before:   *)
(* an arrow, whose code is that of a keypad key behind the prefix, is never *)
(* taken for the keypad key, nor the other way round.                      *)
KeyMeansCall == wire = << >> => call = meant

(* The keyboard never goes dead: every code that is sent is taken, because *)
(* each way through the handler ends its interrupt, unless a command has   *)
(* halted the machine.                                                     *)
CodesTaken == wire # << >> ~> wire = << >> \/ stopped
=============================================================================
