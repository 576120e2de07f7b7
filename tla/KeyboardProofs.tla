--------------------------- MODULE KeyboardProofs ---------------------------
(***************************************************************************)
(* Proofs about the keyboard interrupt, for any set of keys.               *)
(***************************************************************************)
EXTENDS Keyboard, TLAPS

(***************************************************************************)
(* The inductive invariant.  What NoStuckModifier and KeyMeansCall say     *)
(* holds between keys.  In the middle of one, the wire holds what is left  *)
(* of the codes of that key, and the flag extended is set exactly when the *)
(* prefix of it has been taken.                                            *)
(***************************************************************************)
ModifierKeys == Modifiers \cup {"right_ctrl"}

Pending(key, up) ==
  /\ call = NoCall /\ meant = IF up THEN NoCall ELSE Meaning(key)
  /\ key \in ModifierKeys => IF up THEN key \notin held ELSE key \in held
  /\ \/ ~extended /\ wire = Codes(key, up)
     \/ extended /\ key \in DOMAIN Shared /\ wire = <<Code(Shared[key], up)>>

Between == wire = << >> /\ ~extended /\ call = meant

(* A flag that is on belongs to a key that is down, or whose release is on *)
(* its way.                                                                *)
FlagsHeld ==
  /\ shift_pressed => \/ held \cap Shifts # {}
                      \/ \E key \in Shifts : wire = <<Code(key, TRUE)>>
  /\ ctrl_pressed => "left_ctrl" \in held \/ wire = <<Code("left_ctrl", TRUE)>>

IInv ==
  /\ Between \/ (~stopped /\ \E key \in Keys, up \in BOOLEAN : Pending(key, up))
  /\ FlagsHeld

----------------------------------------------------------------------------
(* The keys that share a code with another.                                *)
LEMMA SharedKeys ==
  /\ DOMAIN Shared = {"left", "right", "right_ctrl"}
  /\ Shared["left"] = "keypad4" /\ Shared["right"] = "keypad6"
  /\ Shared["right_ctrl"] = "left_ctrl"
BY DEF Shared

LEMMA CodeFields ==
  ASSUME NEW key, NEW up
  PROVE  Code(key, up).key = key /\ Code(key, up).up = up
BY DEF Code

LEMMA MeaningKept ==
  ASSUME UNCHANGED <<shift_pressed, ctrl_pressed, caps_lock>>, NEW key
  PROVE  Meaning(key)' = Meaning(key)
BY Zenon DEF Meaning, FunctionCall, CharacterCall, scancode_to_ascii

LEMMA ArrowMeaning ==
  ASSUME NEW key \in {"left", "right"}
  PROVE  Meaning(key) = <<"move", key>>
BY Zenon DEF Meaning, FunctionKeys, Modifiers, Shifts, Shared

LEMMA ModifierMeaning ==
  ASSUME NEW key \in ModifierKeys
  PROVE  Meaning(key) = NoCall
BY Zenon DEF Meaning, FunctionKeys, Modifiers, Shifts, Shared, ModifierKeys

LEMMA FunctionMeaning ==
  ASSUME NEW key \in FunctionKeys
  PROVE  Meaning(key) = FunctionCall(key)
BY Zenon DEF Meaning, FunctionKeys, Modifiers, Shifts, Shared

LEMMA CharacterMeaning ==
  ASSUME NEW key \in Keys, key \notin Modifiers \cup FunctionKeys, key \notin DOMAIN Shared
  PROVE  Meaning(key) = CharacterCall(key)
<1>1. key \notin {"left", "right"} /\ key # "right_ctrl"
  BY SharedKeys
<1> QED
  BY <1>1, Zenon DEF Meaning

LEMMA Singleton ==
  ASSUME NEW x
  PROVE  Head(<<x>>) = x /\ Tail(<<x>>) = << >> /\ <<x>> # << >>
OBVIOUS

LEMMA Pair ==
  ASSUME NEW x, NEW y
  PROVE  Head(<<x, y>>) = x /\ Tail(<<x, y>>) = <<y>> /\ <<x, y>> # << >>
OBVIOUS

LEMMA KeyKinds ==
  /\ PREFIX \notin Keys /\ \A key \in DOMAIN Shared : Shared[key] # PREFIX
  /\ PREFIX \notin Modifiers \cup FunctionKeys
  /\ Modifiers \cap FunctionKeys = {}
  /\ DOMAIN Shared \cap (Modifiers \cup FunctionKeys) = {}
BY SharedKeys, KeyboardAssumption DEF PREFIX, Modifiers, Shifts, FunctionKeys

(* The three situations a handler can find a key in.                       *)
Plain(key, up)  == ~extended /\ key \notin DOMAIN Shared /\ code = Code(key, up)
Prefix(key)     == ~extended /\ key \in DOMAIN Shared /\ code = Code(PREFIX, FALSE)
Second(key, up) == extended /\ key \in DOMAIN Shared /\ code = Code(Shared[key], up)

LEMMA Situation ==
  ASSUME NEW key \in Keys, NEW up \in BOOLEAN, Pending(key, up)
  PROVE  /\ wire # << >>
         /\ \/ Plain(key, up) /\ Tail(wire) = << >> /\ wire = <<Code(key, up)>>
            \/ Prefix(key) /\ Tail(wire) = <<Code(Shared[key], up)>>
            \/ Second(key, up) /\ Tail(wire) = << >> /\ wire = <<Code(Shared[key], up)>>
<1>1. CASE ~extended /\ wire = Codes(key, up) /\ key \in DOMAIN Shared
  <2>1. wire = <<Code(PREFIX, FALSE), Code(Shared[key], up)>>
    BY <1>1 DEF Codes
  <2> QED
    BY <1>1, <2>1, Pair DEF Prefix, code
<1>2. CASE ~extended /\ wire = Codes(key, up) /\ key \notin DOMAIN Shared
  <2>1. wire = <<Code(key, up)>>
    BY <1>2 DEF Codes
  <2> QED
    BY <1>2, <2>1, Singleton DEF Plain, code
<1>3. CASE extended /\ key \in DOMAIN Shared /\ wire = <<Code(Shared[key], up)>>
  BY <1>3, Singleton DEF Second, code
<1> QED
  BY <1>1, <1>2, <1>3 DEF Pending

LEMMA InitIInv == Init => IInv
BY DEF Init, IInv, Between, FlagsHeld

LEMMA BetweenOnly ==
  ASSUME IInv, wire = << >>
  PROVE  Between
<1>1. ASSUME NEW key \in Keys, NEW up \in BOOLEAN, Pending(key, up) PROVE FALSE
  BY <1>1, Situation
<1> QED
  BY <1>1 DEF IInv

LEMMA PressStep ==
  ASSUME IInv, NEW key \in Keys, Press(key)
  PROVE  IInv'
<1>1. Between
  BY BetweenOnly DEF Press
<1>2. /\ ~stopped' /\ ~extended' /\ wire' = Codes(key, FALSE) /\ call' = NoCall
      /\ meant' = Meaning(key) /\ held' = held \cup ({key} \cap ModifierKeys)
      /\ UNCHANGED <<shift_pressed, ctrl_pressed, caps_lock>>
  BY <1>1 DEF Press, flags, machine, Between, ModifierKeys
<1>3. Meaning(key)' = Meaning(key)
  BY <1>2, MeaningKept
<1>4. Pending(key, FALSE)'
  BY <1>2, <1>3 DEF Pending
<1>5. FlagsHeld'
  <2>1. wire = << >> /\ held \subseteq held'
    BY <1>1, <1>2 DEF Between
  <2>2. /\ shift_pressed => held \cap Shifts # {}
        /\ ctrl_pressed => "left_ctrl" \in held
    BY <2>1, Singleton DEF IInv, FlagsHeld
  <2> QED
    BY <1>2, <2>1, <2>2 DEF FlagsHeld
<1> QED
  BY <1>2, <1>4, <1>5 DEF IInv

LEMMA ReleaseStep ==
  ASSUME IInv, NEW key \in Keys, Release(key)
  PROVE  IInv'
<1>1. Between
  BY BetweenOnly DEF Release
<1>2. /\ ~stopped' /\ ~extended' /\ wire' = Codes(key, TRUE) /\ call' = NoCall
      /\ meant' = NoCall /\ held' = held \ {key}
      /\ UNCHANGED <<shift_pressed, ctrl_pressed, caps_lock>>
  BY <1>1 DEF Release, flags, machine, Between
<1>3. Pending(key, TRUE)'
  BY <1>2 DEF Pending
<1>4. FlagsHeld'
  <2>1. wire = << >>
    BY <1>1 DEF Between
  <2>2. /\ shift_pressed => held \cap Shifts # {}
        /\ ctrl_pressed => "left_ctrl" \in held
    BY <2>1, Singleton DEF IInv, FlagsHeld
  <2>3. key \in Modifiers => wire' = <<Code(key, TRUE)>>
    BY <1>2, KeyKinds DEF Codes
  <2>4. ASSUME shift_pressed'
        PROVE  held' \cap Shifts # {} \/ \E k \in Shifts : wire' = <<Code(k, TRUE)>>
    BY <1>2, <2>2, <2>3, <2>4 DEF Modifiers
  <2>5. ASSUME ctrl_pressed'
        PROVE  "left_ctrl" \in held' \/ wire' = <<Code("left_ctrl", TRUE)>>
    BY <1>2, <2>2, <2>3, <2>5 DEF Modifiers
  <2> QED
    BY <2>4, <2>5 DEF FlagsHeld
<1> QED
  BY <1>2, <1>3, <1>4 DEF IInv

----------------------------------------------------------------------------
(* A release that is on the wire is the code the handler takes.            *)
LEMMA ReleaseOnWire ==
  ASSUME NEW k, wire = <<Code(k, TRUE)>>
  PROVE  code.key = k /\ code.up = TRUE
<1>1. code = Code(k, TRUE)
  BY Singleton DEF code
<1> QED
  BY <1>1 DEF Code

LEMMA FlagsAfter ==
  ASSUME FlagsHeld
  PROVE  /\ shift_pressed => held \cap Shifts # {} \/ (code.up /\ code.key \in Shifts)
         /\ ctrl_pressed => "left_ctrl" \in held \/ (code.up /\ code.key = "left_ctrl")
<1>1. ASSUME NEW k \in Shifts, wire = <<Code(k, TRUE)>> PROVE code.up /\ code.key \in Shifts
  BY <1>1, ReleaseOnWire
<1>2. ASSUME wire = <<Code("left_ctrl", TRUE)>> PROVE code.up /\ code.key = "left_ctrl"
  BY <1>2, ReleaseOnWire
<1> QED
  BY <1>1, <1>2 DEF FlagsHeld

LEMMA PrefixStep ==
  ASSUME IInv, prefix
  PROVE  IInv'
<1>1. PICK key \in Keys, up \in BOOLEAN : Pending(key, up)
  BY DEF IInv, Between, prefix, Interrupt
<1>2. Prefix(key) /\ Tail(wire) = <<Code(Shared[key], up)>>
  BY <1>1, Situation, CodeFields, KeyKinds DEF prefix, Plain, Second
<1>3. /\ ~stopped' /\ extended' /\ wire' = <<Code(Shared[key], up)>>
      /\ UNCHANGED <<meant, held, call, shift_pressed, ctrl_pressed, caps_lock>>
  BY <1>2 DEF prefix, pic_send_eoi, flags, Interrupt
<1>4. Meaning(key)' = Meaning(key)
  BY <1>3, MeaningKept
<1>5. Pending(key, up)'
  BY <1>1, <1>2, <1>3, <1>4 DEF Pending, Prefix
<1>6. FlagsHeld'
  <2>1. code.up = FALSE
    BY <1>2, CodeFields DEF Prefix
  <2> QED
    BY <1>3, <2>1, FlagsAfter DEF IInv, FlagsHeld
<1> QED
  BY <1>3, <1>5, <1>6 DEF IInv

(* After the prefix the arrows, and nothing else, have an effect.          *)
LEMMA ExtendedPressStep ==
  ASSUME IInv, extended_press
  PROVE  IInv'
<1>1. PICK key \in Keys, up \in BOOLEAN : Pending(key, up)
  BY DEF IInv, Between, extended_press, Interrupt
<1>2. Second(key, up) /\ Tail(wire) = << >>
  BY <1>1, Situation DEF extended_press, Plain, Prefix
<1>3. key \in DOMAIN Shared /\ code.key = Shared[key] /\ up = FALSE
  BY <1>2, CodeFields DEF extended_press, Second
<1>4. /\ ~extended' /\ wire' = << >>
      /\ UNCHANGED <<meant, held, shift_pressed, ctrl_pressed, caps_lock>>
  BY <1>2 DEF extended_press, Taken, flags
<1>5. call' = meant
  <2> DEFINE effect == CASE code.key = "keypad4" -> <<"move", "left">>
                         [] code.key = "keypad6" -> <<"move", "right">>
                         [] OTHER                -> NoCall
  <2>1. call' = effect
    BY DEF extended_press
  <2>2. meant = Meaning(key)
    BY <1>1, <1>3 DEF Pending
  <2>3. CASE key = "left"
    <3>1. effect = <<"move", "left">>
      BY <1>3, <2>3, SharedKeys, Zenon
    <3> QED
      BY <2>1, <2>2, <2>3, <3>1, ArrowMeaning
  <2>4. CASE key = "right"
    <3>1. effect = <<"move", "right">>
      BY <1>3, <2>4, SharedKeys, Zenon
    <3> QED
      BY <2>1, <2>2, <2>4, <3>1, ArrowMeaning
  <2>5. CASE key = "right_ctrl"
    <3>1. effect = NoCall
      BY <1>3, <2>5, SharedKeys, Zenon
    <3> QED
      BY <2>1, <2>2, <2>5, <3>1, ModifierMeaning DEF ModifierKeys
  <2> QED
    BY <1>3, <2>3, <2>4, <2>5, SharedKeys
<1>6. FlagsHeld'
  <2>1. ~code.up
    BY DEF extended_press
  <2> QED
    BY <1>4, <2>1, FlagsAfter DEF IInv, FlagsHeld
<1> QED
  BY <1>4, <1>5, <1>6 DEF IInv, Between

(* A key that is pressed and has no prefix.                                *)
LEMMA PlainPress ==
  ASSUME IInv, Interrupt, ~code.up, ~extended, code.key # PREFIX
  PROVE  /\ code.key \in Keys /\ code.key \notin DOMAIN Shared /\ Tail(wire) = << >>
         /\ call = NoCall /\ meant = Meaning(code.key)
         /\ code.key \in ModifierKeys => code.key \in held
<1>1. PICK key \in Keys, up \in BOOLEAN : Pending(key, up)
  BY DEF IInv, Between, Interrupt
<1>2. Plain(key, up) /\ Tail(wire) = << >>
  BY <1>1, Situation, CodeFields DEF Prefix, Second
<1>3. code.key = key /\ up = FALSE /\ key \notin DOMAIN Shared
  BY <1>2, CodeFields DEF Plain
<1> QED
  BY <1>1, <1>2, <1>3 DEF Pending

LEMMA ModifierPressStep ==
  ASSUME IInv, modifier_press
  PROVE  IInv'
<1>1. Interrupt /\ ~code.up /\ ~extended /\ code.key \in Modifiers /\ code.key # PREFIX
  BY KeyKinds DEF modifier_press
<1>2. /\ ~extended' /\ wire' = << >> /\ UNCHANGED <<meant, held, call>>
      /\ call = NoCall /\ meant = Meaning(code.key) /\ code.key \in held
  BY <1>1, PlainPress DEF modifier_press, Taken, ModifierKeys
<1>3. meant = NoCall
  BY <1>1, <1>2, ModifierMeaning DEF ModifierKeys
<1>4. FlagsHeld'
  <2>1. shift_pressed' = (shift_pressed \/ code.key \in Shifts)
    BY DEF modifier_press
  <2>2. ctrl_pressed' = (ctrl_pressed \/ code.key = "left_ctrl")
    BY DEF modifier_press
  <2>3. FlagsHeld
    BY DEF IInv
  <2>4. shift_pressed' => held \cap Shifts # {}
    BY <1>1, <1>2, <2>1, <2>3, FlagsAfter
  <2>5. ctrl_pressed' => "left_ctrl" \in held
    BY <1>1, <1>2, <2>2, <2>3, FlagsAfter
  <2> QED
    BY <1>2, <2>4, <2>5 DEF FlagsHeld
<1> QED
  BY <1>2, <1>3, <1>4 DEF IInv, Between

(* Function keys and characters.                                           *)
LEMMA CallStep ==
  ASSUME IInv, Interrupt, ~code.up, ~extended, code.key \notin Modifiers \cup {PREFIX},
         call' = IF code.key \in FunctionKeys THEN FunctionCall(code.key)
                                              ELSE CharacterCall(code.key),
         wire' = Tail(wire), ~extended',
         UNCHANGED <<meant, held, shift_pressed, ctrl_pressed, caps_lock>>
  PROVE  IInv'
<1>1. /\ code.key \in Keys /\ code.key \notin DOMAIN Shared /\ wire' = << >>
      /\ meant = Meaning(code.key)
  BY PlainPress
<1>2. call' = meant'
  <2>1. CASE code.key \in FunctionKeys
    BY <1>1, <2>1, FunctionMeaning
  <2>2. CASE code.key \notin FunctionKeys
    BY <1>1, <2>2, CharacterMeaning
  <2> QED
    BY <2>1, <2>2
<1>3. FlagsHeld'
  BY FlagsAfter DEF IInv, FlagsHeld
<1> QED
  BY <1>1, <1>2, <1>3 DEF IInv, Between

LEMMA ReleaseCodeStep ==
  ASSUME IInv, key_release
  PROVE  IInv'
<1>1. PICK key \in Keys, up \in BOOLEAN : Pending(key, up)
  BY DEF IInv, Between, key_release, Interrupt
<1>2. (Plain(key, up) \/ Second(key, up)) /\ Tail(wire) = << >>
  BY <1>1, Situation, CodeFields DEF key_release, Prefix
<1>3. up = TRUE
  BY <1>2, CodeFields DEF key_release, Plain, Second
<1>4. /\ ~extended' /\ wire' = << >> /\ UNCHANGED <<meant, held, call>>
      /\ call = meant
  BY <1>1, <1>2, <1>3 DEF key_release, Taken, Pending
<1>5. FlagsHeld'
  <2>1. shift_pressed' = (shift_pressed /\ code.key \notin Shifts)
    BY DEF key_release
  <2>2. ctrl_pressed' = (ctrl_pressed /\ code.key # "left_ctrl")
    BY DEF key_release
  <2>3. FlagsHeld
    BY DEF IInv
  <2>4. shift_pressed' => held \cap Shifts # {}
    BY <2>1, <2>3, FlagsAfter
  <2>5. ctrl_pressed' => "left_ctrl" \in held
    BY <2>2, <2>3, FlagsAfter
  <2> QED
    BY <1>4, <2>4, <2>5 DEF FlagsHeld
<1> QED
  BY <1>4, <1>5 DEF IInv, Between

LEMMA NextIInv == IInv /\ [Next]_vars => IInv'
<1> SUFFICES ASSUME IInv, [Next]_vars PROVE IInv'
  OBVIOUS
<1>1. ASSUME NEW key \in Keys, Press(key) \/ Release(key) PROVE IInv'
  BY <1>1, PressStep, ReleaseStep
<1>2. CASE prefix
  BY <1>2, PrefixStep
<1>3. CASE extended_press
  BY <1>3, ExtendedPressStep
<1>4. CASE modifier_press
  BY <1>4, ModifierPressStep
<1>5. CASE function_press
  <2>1. code.key \notin Modifiers \cup {PREFIX}
    BY <1>5, KeyKinds DEF function_press
  <2> QED
    BY <1>5, <2>1, CallStep DEF function_press, Taken, flags
<1>6. CASE character_press
  BY <1>6, CallStep DEF character_press, Taken, flags
<1>7. CASE newline_stops
  <2>1. code.key \notin Modifiers \cup FunctionKeys \cup {PREFIX}
    BY <1>7 DEF newline_stops, Modifiers, Shifts, FunctionKeys, PREFIX
  <2> QED
    BY <1>7, <2>1, CallStep DEF newline_stops, flags
<1>8. CASE key_release
  BY <1>8, ReleaseCodeStep
<1>9. CASE UNCHANGED vars
  <2>1. /\ UNCHANGED <<shift_pressed, ctrl_pressed, caps_lock>>
        /\ UNCHANGED <<extended, stopped, wire, call, meant, held>>
    BY <1>9 DEF vars
  <2>2. FlagsHeld' /\ (Between => Between')
    BY <2>1 DEF IInv, FlagsHeld, Between
  <2>3. ASSUME NEW key \in Keys, NEW up \in BOOLEAN, Pending(key, up)
        PROVE  Pending(key, up)'
    <3>1. Meaning(key)' = Meaning(key)
      BY <2>1, MeaningKept
    <3> QED
      BY <2>1, <2>3, <3>1 DEF Pending
  <2> QED
    BY <2>1, <2>2, <2>3 DEF IInv
<1> QED
  BY <1>1, <1>2, <1>3, <1>4, <1>5, <1>6, <1>7, <1>8, <1>9 DEF Next, keyboard_handler, hlt

----------------------------------------------------------------------------
(* The states of the keyboard stay those of the inductive invariant.       *)
THEOREM Invariance == Spec => []IInv
<1>1. Init => IInv
  BY InitIInv
<1>2. IInv /\ [Next]_vars => IInv'
  BY NextIInv
<1> QED
  BY <1>1, <1>2, PTL DEF Spec

(* However keys overlap, between two keys no modifier is on without a key  *)
(* for it being down, and no prefix is left over.                          *)
THEOREM ModifiersCorrect == Spec => []NoStuckModifier
<1>1. IInv => NoStuckModifier
  <2> SUFFICES ASSUME IInv, wire = << >> PROVE NoStuckModifier
    BY DEF NoStuckModifier
  <2>1. Between
    BY BetweenOnly
  <2> QED
    BY <2>1, Singleton DEF IInv, FlagsHeld, Between, NoStuckModifier
<1> QED
  BY <1>1, Invariance, PTL

(* Each key leads to the console call it stands for, and to no other, with *)
(* whatever modifiers and whatever keys before it.                         *)
THEOREM KeysCorrect == Spec => []KeyMeansCall
<1>1. IInv => KeyMeansCall
  BY BetweenOnly DEF KeyMeansCall, Between
<1> QED
  BY <1>1, Invariance, PTL
=============================================================================
