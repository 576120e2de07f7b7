------------------------------ MODULE Console ------------------------------
(***************************************************************************)
(* The screens and the line editor of src/src/screen.c, with the part of   *)
(* the shell that prints the prompt and runs a line.                       *)
(*                                                                         *)
(* The display is a grid of cells shared by all screens.  Each screen has  *)
(* one buffer of bytes with two uses: the text of its input line while the *)
(* screen is shown, and its image, two bytes a cell, while it is not.      *)
(*                                                                         *)
(* A function of screen.c is an operator from the display and the current  *)
(* screen, together a record [vga, s], to the ones it leaves.  Colours are *)
(* one attribute byte: no decision reads them.                             *)
(***************************************************************************)
EXTENDS Integers, Sequences, SequencesExt

CONSTANTS
  SCREEN_WIDTH, SCREEN_HEIGHT,
  MAX_SCREENS,
  Chars,     \* printable characters
  Outputs,   \* what a command may print: sequences of characters and newlines
  MaxInput,  \* bound: the longest line that is typed
  MaxKeys    \* bound: the number of keys that are typed

VARIABLES
  vga,        \* the cells of the display, and the one behind the last
  states,     \* the screens
  current,    \* current_screen
  line,       \* history: what the user has typed since the prompt, by screen
  disturbed,  \* history: what has happened to a line since its prompt
  keys        \* history: keys typed so far

vars == <<vga, states, current, line, disturbed, keys>>

NL  == "newline"
BS  == "backspace"
NUL == "nul"

(* What a cell of the display or a byte of a buffer may hold.              *)
Glyphs == Chars \cup {" ", ">", "o", NUL, "attr"}

(* Whatever a command prints ends with a newline.                          *)
ASSUME ConsoleAssumption ==
  /\ SCREEN_WIDTH \in Nat \ {0, 1} /\ SCREEN_HEIGHT \in Nat \ {0}
  /\ MAX_SCREENS \in Nat \ {0}
  /\ MaxKeys \in Nat /\ MaxInput \in Nat /\ MaxInput + 1 < SCREEN_WIDTH * SCREEN_HEIGHT
  /\ Chars \cap {NL, BS, NUL} = {}
  /\ \A out \in Outputs :
       out \in Seq(Glyphs \cup {NL}) /\ (out = << >> \/ out[Len(out)] = NL)

W       == SCREEN_WIDTH
H       == SCREEN_HEIGHT
Cells   == 0 .. W * H  \* the last one is past the end of the display
Bytes   == 0 .. 2 * W * H - 1
Screens == 0 .. MAX_SCREENS - 1

Prompt == <<">">>
Banner == <<"o", NL>>

----------------------------------------------------------------------------
(***************************************************************************)
(* Output.                                                                 *)
(***************************************************************************)
screen_scroll(t) ==
  [t EXCEPT !.vga = [i \in Cells |-> CASE i < W * (H - 1) -> t.vga[i + W]
                                       [] i = W * H       -> t.vga[i]
                                       [] OTHER           -> " "],
            !.s.cursor_y = H - 1]

screen_clear(t) ==
  [t EXCEPT !.vga = [i \in Cells |-> IF i < W * H THEN " " ELSE t.vga[i]],
            !.s.cursor_x = 0, !.s.cursor_y = 0]

(* What a character does before the tests for overflow.                    *)
Place(t, c) ==
  LET index == t.s.cursor_y * W + t.s.cursor_x
  IN  CASE c = NL -> [t EXCEPT !.s.cursor_x = 0, !.s.cursor_y = @ + 1]
        [] c = BS -> IF t.s.cursor_x > 0
                     THEN [t EXCEPT !.vga[index - 1] = " ", !.s.cursor_x = @ - 1] ELSE t
        [] OTHER  -> [t EXCEPT !.vga[index] = c, !.s.cursor_x = @ + 1]

(* The line wraps one column late: only when cursor_x exceeds the width.   *)
screen_putchar(t, c) ==
  LET p == Place(t, c)
      q == IF p.s.cursor_x > W
           THEN [p EXCEPT !.s.cursor_x = 0, !.s.cursor_y = @ + 1] ELSE p
  IN  IF q.s.cursor_y >= H THEN screen_scroll(q) ELSE q

screen_putstring(t, str) == FoldLeft(screen_putchar, t, str)

input_set_start_position(t) ==
  [t EXCEPT !.s.input_start_x = t.s.cursor_x, !.s.input_start_y = t.s.cursor_y,
            !.s.input_length = 0, !.s.input_cursor = 0]

shell_print_prompt(t) == input_set_start_position(screen_putstring(t, Prompt))

----------------------------------------------------------------------------
(***************************************************************************)
(* The input line.  Its i-th character is at a row and a column relative   *)
(* to where the line starts.                                               *)
(***************************************************************************)
Row(s, i) == s.input_start_y + (s.input_start_x + i) \div W
Col(s, i) == (s.input_start_x + i) % W

LastRow(s, i) == IF Row(s, i) >= H THEN H - 1 ELSE Row(s, i)

(* The start of the line does not move with the scrolled text.             *)
KeepRow_bug(t, i) == IF Row(t.s, i) >= H THEN screen_scroll(t) ELSE t

(* Beyond the bottom the display scrolls, and the start of the line moves. *)
KeepRow(t, i) ==
  IF Row(t.s, i) >= H
  THEN [screen_scroll(t) EXCEPT !.s.input_start_y = IF @ > 0 THEN @ - 1 ELSE @]
  ELSE t

Draw(t, i, c) ==
  [KeepRow(t, i) EXCEPT !.vga[LastRow(t.s, i) * W + Col(t.s, i)] = c]

DrawInside(t, i, c) == IF Row(t.s, i) < H THEN Draw(t, i, c) ELSE t

MoveCursor(t) ==
  [t EXCEPT !.s.cursor_x = Col(t.s, t.s.input_cursor),
            !.s.cursor_y = Row(t.s, t.s.input_cursor)]

(* The indices from i to the last character.                               *)
From(s, i) == [k \in 1 .. s.input_length - i |-> i + k - 1]

(* The text is not moved to make room.                                     *)
insert_text_bug(s, c) ==
  [s EXCEPT !.buffer = [i \in Bytes |-> CASE i = s.input_cursor     -> c
                                          [] i = s.input_length + 1 -> NUL
                                          [] OTHER                  -> s.buffer[i]],
            !.input_length = @ + 1]

insert_text(s, c) ==
  [s EXCEPT !.buffer = [i \in Bytes |->
                          CASE i = s.input_cursor     -> c
                            [] i = s.input_length + 1 -> NUL
                            [] i > s.input_cursor /\ i <= s.input_length -> s.buffer[i - 1]
                            [] OTHER -> s.buffer[i]],
            !.input_length = @ + 1]

(* Characters that are not printable, and a full buffer, change nothing.   *)
input_insert_char_at_cursor(t, c) ==
  IF c \in Chars /\ t.s.input_length < 2 * W * H - 1
  THEN LET a    == [t EXCEPT !.s = insert_text(t.s, c)]
           b    == FoldLeft(LAMBDA u, i : Draw(u, i, u.s.buffer[i]),
                            a, From(a.s, a.s.input_cursor))
           d    == Draw(b, b.s.input_length, " ")
           e    == [d EXCEPT !.s.input_cursor = @ + 1]
           y    == LastRow(e.s, e.s.input_cursor)
           x    == Col(e.s, e.s.input_cursor)
       IN  [KeepRow(e, e.s.input_cursor) EXCEPT !.s.cursor_x = x, !.s.cursor_y = y]
  ELSE t

delete_text(s) ==
  [s EXCEPT !.buffer = [i \in Bytes |->
                          CASE i = s.input_length - 1  -> NUL
                            [] i >= s.input_cursor - 1 /\ i < s.input_length - 1 -> s.buffer[i + 1]
                            [] OTHER -> s.buffer[i]],
            !.input_length = @ - 1, !.input_cursor = @ - 1]

input_delete_char_at_cursor(t) ==
  IF t.s.input_cursor > 0 /\ t.s.input_length > 0
  THEN LET a == [t EXCEPT !.s = delete_text(t.s)]
           b == FoldLeft(LAMBDA u, i : DrawInside(u, i, u.s.buffer[i]),
                         a, From(a.s, a.s.input_cursor))
       IN  MoveCursor(DrawInside(b, b.s.input_length, " "))
  ELSE t

input_move_cursor_left(t) ==
  IF t.s.input_cursor > 0 THEN MoveCursor([t EXCEPT !.s.input_cursor = @ - 1]) ELSE t

(* The caret can leave the end of the line.                                *)
input_move_cursor_right_bug(t) == MoveCursor([t EXCEPT !.s.input_cursor = @ + 1])

input_move_cursor_right(t) ==
  IF t.s.input_cursor < t.s.input_length
  THEN MoveCursor([t EXCEPT !.s.input_cursor = @ + 1]) ELSE t

(* A command prints something and may then clear the screen.               *)
shell_process_input(t, out, clear) ==
  LET p == screen_putstring(t, out)
  IN  shell_print_prompt(IF clear THEN screen_clear(p) ELSE p)

input_newline(t, out, clear) ==
  LET a == [t EXCEPT !.s.buffer[t.s.input_length] = NUL]
      b == screen_putchar(a, NL)
      c == IF t.s.input_length > 0 THEN shell_process_input(b, out, clear)
                                   ELSE shell_print_prompt(b)
  IN  [c EXCEPT !.s.input_length = 0, !.s.input_cursor = 0]

----------------------------------------------------------------------------
(***************************************************************************)
(* Screens.                                                                *)
(***************************************************************************)
Image(v) == [b \in Bytes |-> IF b % 2 = 0 THEN v[b \div 2] ELSE "attr"]

Shown(v, buffer) == [i \in Cells |-> IF i < W * H THEN buffer[2 * i] ELSE v[i]]

(* screen_init: a screen is cleared, gets its prompt and is saved; screen  *)
(* 0, which is shown, also gets what shell_init prints.                    *)
screen_init ==
  LET blank == [vga |-> [i \in Cells |-> " "],
                s   |-> [buffer |-> [b \in Bytes |-> NUL],
                         cursor_x |-> 0, cursor_y |-> 0,
                         input_length |-> 0, input_cursor |-> 0,
                         input_start_x |-> 0, input_start_y |-> 0]]
      t     == shell_print_prompt(screen_clear(blank))
  IN  [t EXCEPT !.s.buffer = Image(t.vga)]

shell_init(t) == shell_print_prompt(screen_putstring(t, Banner))

Init ==
  /\ vga = shell_init(screen_init).vga
  /\ states = [n \in Screens |-> IF n = 0 THEN shell_init(screen_init).s ELSE screen_init.s]
  /\ current = 0
  /\ line = [n \in Screens |-> << >>]
  /\ disturbed = [n \in Screens |-> {}]
  /\ keys = 0

Terminal == [vga |-> vga, s |-> states[current]]

Become(t) ==
  /\ vga' = t.vga /\ states' = [states EXCEPT ![current] = t.s]
  /\ UNCHANGED current

(* The user's view of an edit: the line and where the caret is in it.      *)
Caret == states[current].input_cursor

(***************************************************************************)
(* The operations the keyboard calls.  The line as typed is kept beside    *)
(* the buffer, by what each key means to the user.                         *)
(***************************************************************************)
Insert(c) ==
  /\ Become(input_insert_char_at_cursor(Terminal, c))
  /\ line' = [line EXCEPT ![current] = IF c \in Chars THEN InsertAt(@, Caret + 1, c) ELSE @]
  /\ UNCHANGED disturbed

Delete ==
  /\ Become(input_delete_char_at_cursor(Terminal))
  /\ line' = [line EXCEPT ![current] = IF Caret > 0 THEN RemoveAt(@, Caret) ELSE @]
  /\ UNCHANGED disturbed

Left  == Become(input_move_cursor_left(Terminal)) /\ UNCHANGED <<line, disturbed>>
Right == Become(input_move_cursor_right(Terminal)) /\ UNCHANGED <<line, disturbed>>

Enter ==
  /\ \E out \in Outputs, clear \in BOOLEAN : Become(input_newline(Terminal, out, clear))
  /\ line' = [line EXCEPT ![current] = << >>]
  /\ disturbed' = [disturbed EXCEPT ![current] = {}]

(* A function key prints its name at the cursor.                           *)
Mark ==
  /\ Become(screen_putstring(Terminal, <<"o">>))
  /\ disturbed' = [disturbed EXCEPT ![current] = @ \cup {"image"}]
  /\ UNCHANGED line

(* The image on the display goes into the buffer, over the text there.     *)
switch_screen(n) ==
  /\ IF n \in Screens /\ n # current
     THEN /\ states' = [states EXCEPT ![current].buffer = Image(vga)]
          /\ vga' = Shown(vga, states[n].buffer)
          /\ current' = n
          /\ disturbed' = IF states[current].input_length > 0
                          THEN [disturbed EXCEPT ![current] = @ \cup {"text"}]
                          ELSE disturbed
     ELSE UNCHANGED <<vga, states, current, disturbed>>
  /\ UNCHANGED line

Key ==
  \/ Len(line[current]) < MaxInput /\ \E c \in Chars : Insert(c)
  \/ Insert(NUL)
  \/ Delete \/ Left \/ Right \/ Enter \/ Mark
  \/ \E n \in 0 .. MAX_SCREENS : switch_screen(n)

(* The kernel waits for the next interrupt.                                *)
hlt == UNCHANGED vars

Next ==
  \/ keys < MaxKeys /\ keys' = keys + 1 /\ Key
  \/ hlt

Spec == Init /\ [][Next]_vars

----------------------------------------------------------------------------
(***************************************************************************)
(* Properties.                                                             *)
(***************************************************************************)
TypeOK ==
  /\ vga \in [Cells -> Glyphs]
  /\ current \in Screens
  /\ \A n \in Screens :
       LET s == states[n]
       IN  /\ s.buffer \in [Bytes -> Glyphs]
           /\ s.cursor_x \in 0 .. W /\ s.cursor_y \in 0 .. H - 1
           /\ s.input_start_x \in 0 .. W /\ s.input_start_y \in 0 .. H - 1
           /\ s.input_length \in 0 .. MaxInput
           /\ s.input_cursor \in 0 .. s.input_length
  /\ \A n \in Screens : disturbed[n] \subseteq {"image", "text"}

(* What input_newline hands to the shell: the bytes before the first NUL.  *)
Command(s) ==
  LET ended == [s.buffer EXCEPT ![s.input_length] = NUL]
      n     == CHOOSE i \in Bytes : ended[i] = NUL /\ \A j \in 0 .. i - 1 : ended[j] # NUL
  IN  [i \in 1 .. n |-> ended[i - 1]]

(* The command that Enter would run is the line as the user typed and      *)
(* edited it, unless the user left the screen in the middle of the line.   *)
CommandIsLine ==
  "text" \notin disturbed[current] => Command(states[current]) = line[current]

(* What the user sees is what the user typed: each character of the line   *)
(* is at its place on the display, a blank follows, and the cursor is at   *)
(* the caret, however the line has wrapped and the display scrolled.       *)
LineShown ==
  LET s == states[current]
  IN  disturbed[current] = {} =>
        /\ \A i \in 0 .. s.input_length - 1 :
             /\ Row(s, i) < H
             /\ vga[Row(s, i) * W + Col(s, i)] = line[current][i + 1]
        /\ s.input_length > 0 => vga[Row(s, s.input_length) * W + Col(s, s.input_length)] = " "
        /\ s.cursor_y = Row(s, s.input_cursor) /\ s.cursor_x = Col(s, s.input_cursor)
=============================================================================
