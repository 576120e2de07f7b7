--------------------------- MODULE ConsoleProofs ---------------------------
(***************************************************************************)
(* Theorems about the screens and the line editor: the line in the buffer, *)
(* the line on the display and the line that was typed are the same, for   *)
(* every size of the display and every sequence of keys.                   *)
(***************************************************************************)
EXTENDS Console, FiniteSetTheorems, TLAPS

Screen ==
  [buffer : [Bytes -> Glyphs], cursor_x : 0 .. W, cursor_y : 0 .. H - 1,
   input_length : Nat, input_cursor : Nat,
   input_start_x : Nat, input_start_y : 0 .. H - 1]

Terminals == [vga : [Cells -> Glyphs], s : Screen]

(* The cell of the i-th character of a line.                               *)
Cell(s, i) == s.input_start_y * W + s.input_start_x + i

AtCaret(s) == s.cursor_y = Row(s, s.input_cursor) /\ s.cursor_x = Col(s, s.input_cursor)

(***************************************************************************)
(* The inductive invariant.  On every screen the line starts behind the    *)
(* prompt, and the cell behind its end is on the display: it is there that *)
(* the next key needs room, or makes the display scroll.                   *)
(***************************************************************************)
Shape ==
  /\ vga \in [Cells -> Glyphs] /\ states \in [Screens -> Screen] /\ current \in Screens
  /\ line \in [Screens -> Seq(Chars)]
  /\ disturbed \in [Screens -> SUBSET {"image", "text"}]

Fits(n) ==
  LET s == states[n]
  IN  /\ s.input_start_x = 1
      /\ s.input_length = Len(line[n]) /\ s.input_length <= MaxInput
      /\ s.input_cursor <= s.input_length
      /\ Cell(s, s.input_length) < W * H

(* The cursor of a screen that is not shown matters too: it comes back.    *)
CursorKept(n) == disturbed[n] = {} => AtCaret(states[n])

TextKept ==
  "text" \notin disturbed[current] =>
    \A i \in 0 .. states[current].input_length - 1 :
      states[current].buffer[i] = line[current][i + 1]

LineDrawn ==
  LET s == states[current]
  IN  disturbed[current] = {} =>
        /\ \A i \in 0 .. s.input_length - 1 : vga[Cell(s, i)] = line[current][i + 1]
        /\ s.input_length > 0 => vga[Cell(s, s.input_length)] = " "

(* On the screens that are not shown only an empty line is undisturbed.    *)
Hidden(n) == n # current => states[n].input_length = 0 \/ "text" \in disturbed[n]

IInv ==
  /\ Shape
  /\ \A n \in Screens : Fits(n) /\ CursorKept(n) /\ Hidden(n)
  /\ TextKept /\ LineDrawn
----------------------------------------------------------------------------
(***************************************************************************)
(* Folds.  What FoldLeft computes is the last element of a chain that      *)
(* begins with its base and in which each element is made from the one     *)
(* before it.  Induction is by the least number that is a counterexample.  *)
(***************************************************************************)
LEMMA LeastNumber ==
  ASSUME NEW S \in SUBSET Nat, S # {}
  PROVE  \E m \in S : \A k \in S : m <= k
<1> DEFINE Upto(m) == {k \in S : k <= m}
           T == {Upto(m) : m \in S}
<1>1. ASSUME NEW m \in S
      PROVE  Upto(m) \in FiniteSubsetsOf(Nat)
  <2>1. IsFiniteSet(0 .. m)
    BY FS_Interval
  <2>2. \A k \in Upto(m) : k \in 0 .. m /\ k \in Nat
    OBVIOUS
  <2> HIDE DEF Upto
  <2>3. IsFiniteSet(Upto(m)) /\ Upto(m) \subseteq Nat
    BY <2>1, <2>2, FS_Subset
  <2> QED
    BY <2>3 DEF FiniteSubsetsOf
<1>2. IsWellFoundedOn(StrictSubsetOrdering(Nat), FiniteSubsetsOf(Nat))
  BY FS_StrictSubsetOrderingWellFounded
<1>3. T \subseteq FiniteSubsetsOf(Nat) /\ T # {}
  <2> HIDE DEF Upto
  <2> QED
    BY <1>1
<1> HIDE DEF T
<1>5. PICK x \in T : \A y \in T : ~(<<y, x>> \in StrictSubsetOrdering(Nat))
  BY <1>2, <1>3, WFMin
<1>6. PICK m \in S : x = Upto(m)
  BY DEF T
<1>7. ASSUME NEW k \in S, k < m
      PROVE  FALSE
  <2>1. Upto(k) \in T
    BY DEF T
  <2>2. Upto(k) \subseteq Nat /\ x \subseteq Nat
    BY <1>6, Zenon
  <2>3. ASSUME NEW i \in Upto(k)
        PROVE  i \in x
    BY <1>6, <1>7
  <2>4. m \in x /\ m \notin Upto(k)
    BY <1>6, <1>7
  <2> HIDE DEF Upto
  <2>5. <<Upto(k), x>> \in StrictSubsetOrdering(Nat)
    BY <2>2, <2>3, <2>4 DEF StrictSubsetOrdering
  <2> QED
    BY <1>5, <2>1, <2>5
<1> QED
  BY <1>7

(* What holds of the first number and passes on to the next one holds up   *)
(* to n: a set of numbers stands for the predicate.                        *)
LEMMA UpTo ==
  ASSUME NEW n \in Nat, NEW S, 0 \in S, \A k \in 1 .. n : k - 1 \in S => k \in S
  PROVE  \A k \in 0 .. n : k \in S
<1> DEFINE D == {k \in 0 .. n : k \notin S}
<1>1. SUFFICES ASSUME D # {} PROVE FALSE
  OBVIOUS
<1>2. PICK m \in D : \A k \in D : m <= k
  <2>1. D \in SUBSET Nat
    OBVIOUS
  <2> HIDE DEF D
  <2> QED
    BY <1>1, <2>1, LeastNumber
<1>3. m \in 1 .. n /\ m - 1 \in 0 .. n /\ ~(m <= m - 1)
  BY <1>2
<1>4. m - 1 \in S
  BY <1>2, <1>3
<1> QED
  BY <1>2, <1>3, <1>4

LEMMA MaxIs ==
  ASSUME NEW m \in Nat, NEW s, m \in s, s \subseteq 1 .. m
  PROVE  Max(s) = m
<1>1. \A y \in s : m >= y /\ y \in Int
  OBVIOUS
<1>2. \A x \in s : (\A y \in s : x >= y) => x = m
  BY <1>1
<1> QED
  BY <1>1, <1>2 DEF Max

LEMMA MaxIn ==
  ASSUME NEW n \in Nat, NEW s \in SUBSET (1 .. n), s # {}
  PROVE  Max(s) \in s
<1> DEFINE D == {d \in 0 .. n : n - d \in s}
<1>1. D \in SUBSET Nat /\ D # {}
  <2>1. PICK y \in s : TRUE
    OBVIOUS
  <2>2. n - y \in 0 .. n /\ n - (n - y) = y
    BY <2>1
  <2>3. n - y \in D
    BY <2>1, <2>2
  <2>4. D \subseteq Nat
    OBVIOUS
  <2> HIDE DEF D
  <2> QED
    BY <2>3, <2>4
<1>2. PICK m \in D : \A k \in D : m <= k
  <2> HIDE DEF D
  <2> QED
    BY <1>1, LeastNumber
<1>3. n - m \in s /\ n - m \in Nat
  BY <1>2
<1>4. \A y \in s : y \in 1 .. (n - m)
  <2>1. ASSUME NEW y \in s
        PROVE  n - y \in D
    OBVIOUS
  <2> QED
    BY <1>2, <1>3, <2>1
<1> QED
  BY <1>3, <1>4, MaxIs

(* A fold has an iteration: F says how an element follows from the one     *)
(* before it and its place.                                                *)
Iteration(iter, n, A, a, F) ==
  /\ iter \in [SUBSET (1 .. n) -> A]
  /\ \A s \in SUBSET (1 .. n) :
       iter[s] = IF s = {} THEN a ELSE F[<<iter[s \ {Max(s)}], Max(s)>>]

LEMMA IterationExists ==
  ASSUME NEW n \in Nat, NEW A, NEW a \in A, NEW F \in [A \X (1 .. n) -> A]
  PROVE  \E iter : Iteration(iter, n, A, a, F)
<1> DEFINE Good(m, iter) ==
             /\ iter \in [SUBSET (1 .. m) -> A]
             /\ \A s \in SUBSET (1 .. m) :
                  iter[s] = IF s = {} THEN a ELSE F[<<iter[s \ {Max(s)}], Max(s)>>]
           S == {m \in 0 .. n : \E iter : Good(m, iter)}
<1>1. 0 \in S
  <2>1. Good(0, [s \in SUBSET (1 .. 0) |-> a])
    OBVIOUS
  <2> HIDE DEF Good
  <2> QED
    BY <2>1
<1>2. ASSUME NEW k \in 1 .. n, k - 1 \in S
      PROVE  k \in S
  <2>1. PICK h : Good(k - 1, h)
    BY <1>2
  <2> DEFINE g == [s \in SUBSET (1 .. k) |->
                     IF k \in s THEN F[<<h[s \ {k}], k>>] ELSE h[s]]
  <2>2. ASSUME NEW s \in SUBSET (1 .. k)
        PROVE  s \ {k} \in SUBSET (1 .. k - 1)
    OBVIOUS
  <2>3. ASSUME NEW s \in SUBSET (1 .. k)
        PROVE  g[s] \in A
    <3>1. CASE k \in s
      <4>1. h[s \ {k}] \in A
        BY <2>1, <2>2
      <4> QED
        BY <3>1, <4>1
    <3>2. CASE k \notin s
      <4>1. s \in SUBSET (1 .. k - 1)
        BY <3>2, <2>2
      <4> QED
        BY <3>2, <4>1, <2>1
    <3> QED
      BY <3>1, <3>2
  <2>4. ASSUME NEW s \in SUBSET (1 .. k)
        PROVE  g[s] = IF s = {} THEN a ELSE F[<<g[s \ {Max(s)}], Max(s)>>]
    <3>1. CASE k \in s
      <4>1. Max(s) = k
        <5>1. k \in Nat /\ s \subseteq 1 .. k
          OBVIOUS
        <5> QED
          BY <3>1, <5>1, MaxIs
      <4>2. s \ {k} \in SUBSET (1 .. k) /\ k \notin s \ {k} /\ s # {}
        BY <3>1
      <4>3. g[s \ {k}] = h[s \ {k}]
        BY <4>2
      <4>4. g[s] = F[<<h[s \ {k}], k>>]
        BY <3>1
      <4> HIDE DEF g
      <4> QED
        BY <4>1, <4>2, <4>3, <4>4, Zenon
    <3>2. CASE k \notin s
      <4>1. s \in SUBSET (1 .. k - 1)
        BY <3>2, <2>2
      <4>2. g[s] = h[s]
        BY <3>2
      <4>3. s \ {Max(s)} \in SUBSET (1 .. k) /\ k \notin s \ {Max(s)}
        BY <3>2
      <4>4. g[s \ {Max(s)}] = h[s \ {Max(s)}]
        BY <4>3
      <4>5. h[s] = IF s = {} THEN a ELSE F[<<h[s \ {Max(s)}], Max(s)>>]
        BY <4>1, <2>1
      <4> HIDE DEF g
      <4> QED
        BY <4>2, <4>4, <4>5, Zenon
    <3> QED
      BY <3>1, <3>2
  <2>5. g \in [SUBSET (1 .. k) -> A]
    <3>1. DOMAIN g = SUBSET (1 .. k) /\ g = [s \in SUBSET (1 .. k) |-> g[s]]
      BY Zenon
    <3> HIDE DEF g
    <3> QED
      BY <2>3, <3>1, Zenon
  <2> HIDE DEF g
  <2>6. Good(k, g)
    BY <2>4, <2>5, Zenon
  <2> HIDE DEF Good
  <2> QED
    BY <2>6
<1>3. n \in S
  <2> HIDE DEF S
  <2> QED
    BY <1>1, <1>2, UpTo
<1>4. \A iter : Good(n, iter) => Iteration(iter, n, A, a, F)
  BY Zenon DEF Iteration
<1> QED
  BY <1>3, <1>4
----------------------------------------------------------------------------
(***************************************************************************)
(* Sizes and characters.                                                   *)
(***************************************************************************)
LEMMA Sizes ==
  /\ W \in Nat /\ W >= 2 /\ H \in Nat /\ H >= 1 /\ W * H \in Nat /\ H * W = W * H
  /\ W * (H - 1) = W * H - W /\ (H - 1) * W = W * H - W
  /\ W * (H - 1) \in Nat /\ 2 * W * H = 2 * (W * H)
  BY ConsoleAssumption DEF W, H

LEMMA RowFits ==
  ASSUME NEW y \in 0 .. H - 1
  PROVE  y * W \in Nat /\ y * W + W <= W * H
<1>1. y * W \in Nat
  BY Sizes
<1>2. y * W <= (H - 1) * W
  BY Sizes
<1> QED
  BY <1>1, <1>2, Sizes

LEMMA Characters ==
  /\ NL # BS /\ \A c \in Glyphs : c # NL /\ c # BS
  /\ \A c \in Chars : c # NUL /\ c \in Glyphs
  /\ {" ", ">", "o", NUL, "attr"} \subseteq Glyphs /\ NUL \notin Chars
  BY ConsoleAssumption DEF NL, BS, NUL, Glyphs

----------------------------------------------------------------------------
(***************************************************************************)
(* Output.                                                                 *)
(***************************************************************************)
(* A screen whose cursor may have left the display.                        *)
Loose ==
  [buffer : [Bytes -> Glyphs], cursor_x : Nat, cursor_y : Nat,
   input_length : Nat, input_cursor : Nat,
   input_start_x : Nat, input_start_y : 0 .. H - 1]

(* Output leaves the input line alone.                                     *)
SameInput(s, r) ==
  /\ r.buffer = s.buffer /\ r.input_length = s.input_length /\ r.input_cursor = s.input_cursor
  /\ r.input_start_x = s.input_start_x /\ r.input_start_y = s.input_start_y

LEMMA ScreenLoose ==
  ASSUME NEW s \in Screen
  PROVE  s \in Loose
  BY Sizes DEF Screen, Loose

Moved(s, x, y) == [s EXCEPT !.cursor_x = x, !.cursor_y = y]

LEMMA CursorMoved ==
  ASSUME NEW s \in Loose, NEW x \in Nat, NEW y \in Nat
  PROVE  /\ Moved(s, x, y) \in Loose /\ SameInput(s, Moved(s, x, y))
         /\ Moved(s, x, y).cursor_x = x /\ Moved(s, x, y).cursor_y = y
  BY DEF Loose, SameInput, Moved

LEMMA ScrollIs ==
  ASSUME NEW t \in [vga : [Cells -> Glyphs], s : Loose]
  PROVE  /\ screen_scroll(t).s = [t.s EXCEPT !.cursor_y = H - 1]
         /\ screen_scroll(t).vga \in [Cells -> Glyphs]
         /\ \A i \in 0 .. W * H - W - 1 : screen_scroll(t).vga[i] = t.vga[i + W]
         /\ \A i \in W * H - W .. W * H - 1 : screen_scroll(t).vga[i] = " "
         /\ screen_scroll(t) = [vga |-> screen_scroll(t).vga, s |-> screen_scroll(t).s]
<1>0. PICK v \in [Cells -> Glyphs], s \in Loose : t = [vga |-> v, s |-> s]
  OBVIOUS
<1> t.vga = v /\ t.s = s
  BY <1>0
<1> DEFINE cell(i) == CASE i < W * (H - 1) -> t.vga[i + W]
                        [] i = W * H       -> t.vga[i]
                        [] OTHER           -> " "
           q == [i \in Cells |-> cell(i)]
<1>1. screen_scroll(t) = [t EXCEPT !.vga = q, !.s.cursor_y = H - 1]
  BY Zenon DEF screen_scroll
<1>2. \A i \in Cells : i < W * (H - 1) /\ i # W * H => cell(i) = v[i + W]
  BY Zenon
<1>3. \A i \in Cells : ~(i < W * (H - 1)) /\ i = W * H => cell(i) = v[i]
  BY Zenon
<1>4. \A i \in Cells : ~(i < W * (H - 1)) /\ i # W * H => cell(i) = " "
  BY Zenon
<1> HIDE DEF cell
<1>5. \A i \in Cells : cell(i) \in Glyphs
  <2> TAKE i \in Cells
  <2>1. CASE i < W * (H - 1)
    <3>1. i # W * H /\ i + W \in Cells
      BY <2>1, Sizes DEF Cells
    <3> QED
      BY <2>1, <3>1, <1>2
  <2>2. CASE i = W * H
    <3>1. ~(i < W * (H - 1))
      BY <2>2, Sizes
    <3> QED
      BY <2>2, <3>1, <1>3
  <2>3. CASE ~(i < W * (H - 1)) /\ i # W * H
    BY <2>3, <1>4, Characters
  <2> QED
    BY <2>1, <2>2, <2>3
<1>6. q \in [Cells -> Glyphs]
  BY <1>5
<1>7. \A i \in 0 .. W * H - W - 1 : q[i] = v[i + W]
  BY <1>2, Sizes DEF Cells
<1>8. ASSUME NEW i \in W * H - W .. W * H - 1
      PROVE  q[i] = " "
  <2>1. i \in Cells /\ ~(i < W * H - W) /\ i # W * H
    BY Sizes DEF Cells
  <2>2. ~(i < W * (H - 1))
    BY <2>1, Sizes
  <2> QED
    BY <2>1, <2>2, <1>4
<1> HIDE DEF q
<1>9. screen_scroll(t) = [vga |-> q, s |-> [s EXCEPT !.cursor_y = H - 1]]
  BY <1>0, <1>1
<1>10. screen_scroll(t).vga = q /\ screen_scroll(t).s = [s EXCEPT !.cursor_y = H - 1]
  BY <1>9
<1> QED
  BY <1>6, <1>7, <1>8, <1>9, <1>10, Zenon

(* What a character does: a newline returns the cursor, and a character    *)
(* inside a row moves it by one.                                           *)
LEMMA PutChar ==
  ASSUME NEW t \in Terminals, NEW c \in Glyphs \cup {NL}
  PROVE  /\ screen_putchar(t, c) \in Terminals
         /\ SameInput(t.s, screen_putchar(t, c).s)
         /\ c = NL => screen_putchar(t, c).s.cursor_x = 0
         /\ c # NL /\ t.s.cursor_x = 0 =>
              screen_putchar(t, c).s.cursor_x = 1 /\ screen_putchar(t, c).s.cursor_y = t.s.cursor_y
<1> DEFINE x == t.s.cursor_x
           y == t.s.cursor_y
           p == Place(t, c)
           q == IF p.s.cursor_x > W
                THEN [p EXCEPT !.s.cursor_x = 0, !.s.cursor_y = @ + 1] ELSE p
<1>1. t = [vga |-> t.vga, s |-> t.s] /\ t.vga \in [Cells -> Glyphs] /\ t.s \in Screen
  BY DEF Terminals
<1>2. x \in 0 .. W /\ y \in 0 .. H - 1 /\ t.s \in Loose
  BY <1>1, ScreenLoose DEF Screen
<1>3. \E v \in [Cells -> Glyphs] :
         p = [vga |-> v, s |-> [t.s EXCEPT !.cursor_x = IF c = NL THEN 0 ELSE x + 1,
                                           !.cursor_y = IF c = NL THEN y + 1 ELSE y]]
  <2>1. CASE c = NL
    <3>1. p = [t EXCEPT !.s.cursor_x = 0, !.s.cursor_y = @ + 1]
      BY <2>1, Characters, Zenon DEF Place
    <3> HIDE DEF p
    <3>2. p = [vga |-> t.vga, s |-> [t.s EXCEPT !.cursor_x = 0, !.cursor_y = y + 1]]
      BY <1>1, <3>1
    <3> QED
      BY <1>1, <2>1, <3>2
  <2>2. CASE c # NL
    <3>0. c \in Glyphs /\ c # BS
      BY <2>2, Characters
    <3>1. p = [t EXCEPT !.vga[y * W + x] = c, !.s.cursor_x = @ + 1]
      BY <2>2, <3>0, Zenon DEF Place
    <3>2. y * W + x \in Cells
      BY <1>2, RowFits, Sizes DEF Cells
    <3> DEFINE v == [t.vga EXCEPT ![y * W + x] = c]
    <3>3. v \in [Cells -> Glyphs]
      BY <1>1, <3>0, <3>2
    <3> HIDE DEF p
    <3>4. p = [vga |-> v, s |-> [t.s EXCEPT !.cursor_x = x + 1]]
      BY <1>1, <3>1
    <3>5. [t.s EXCEPT !.cursor_x = x + 1] = [t.s EXCEPT !.cursor_x = x + 1, !.cursor_y = y]
      BY <1>1 DEF Screen
    <3> QED
      BY <2>2, <3>3, <3>4, <3>5
  <2> QED
    BY <2>1, <2>2
<1>4. PICK v \in [Cells -> Glyphs] :
         p = [vga |-> v, s |-> [t.s EXCEPT !.cursor_x = IF c = NL THEN 0 ELSE x + 1,
                                           !.cursor_y = IF c = NL THEN y + 1 ELSE y]]
  BY <1>3
<1>5. PICK s : s = [t.s EXCEPT !.cursor_x = IF c = NL THEN 0 ELSE x + 1,
                               !.cursor_y = IF c = NL THEN y + 1 ELSE y]
  OBVIOUS
<1>6. /\ p = [vga |-> v, s |-> s] /\ s \in Loose /\ SameInput(t.s, s)
      /\ s.cursor_x = (IF c = NL THEN 0 ELSE x + 1) /\ s.cursor_y = (IF c = NL THEN y + 1 ELSE y)
  <2>1. p = [vga |-> v, s |-> s]
    BY <1>4, <1>5
  <2>2. (IF c = NL THEN 0 ELSE x + 1) \in Nat /\ (IF c = NL THEN y + 1 ELSE y) \in Nat
    BY <1>2, Sizes
  <2>3. PICK nx \in Nat, ny \in Nat : nx = (IF c = NL THEN 0 ELSE x + 1) /\ ny = (IF c = NL THEN y + 1 ELSE y)
    BY <2>2
  <2>4. s = Moved(t.s, nx, ny)
    BY <1>5, <2>3, Zenon DEF Moved
  <2>5. s \in Loose /\ s.cursor_x = nx /\ s.cursor_y = ny /\ SameInput(t.s, s)
    <3>1. t.s \in Loose
      BY <1>2
    <3> HIDE DEF q, p, x, y
    <3> HIDE <1>5, <2>3
    <3>2. /\ Moved(t.s, nx, ny) \in Loose /\ SameInput(t.s, Moved(t.s, nx, ny))
          /\ Moved(t.s, nx, ny).cursor_x = nx /\ Moved(t.s, nx, ny).cursor_y = ny
      BY <3>1, CursorMoved
    <3> QED
      BY <2>4, <3>2, Zenon
  <2> QED
    BY <2>1, <2>3, <2>5
<1> HIDE DEF p
<1>7. PICK r : r = q.s
  OBVIOUS
<1>8. /\ q = [vga |-> v, s |-> r] /\ r \in Loose /\ SameInput(t.s, r) /\ r.cursor_x \in 0 .. W
      /\ c = NL => r.cursor_x = 0
      /\ c # NL /\ x = 0 => r.cursor_x = 1 /\ r.cursor_y = y
  <2>1. CASE p.s.cursor_x > W
    <3>1. q = [vga |-> v, s |-> [s EXCEPT !.cursor_x = 0, !.cursor_y = @ + 1]]
      BY <2>1, <1>6
    <3> HIDE DEF q
    <3>2. r = [s EXCEPT !.cursor_x = 0, !.cursor_y = s.cursor_y + 1]
      BY <3>1, <1>7
    <3>6. r = Moved(s, 0, s.cursor_y + 1)
      BY <3>2, Zenon DEF Moved
    <3>3. q = [vga |-> v, s |-> r]
      BY <3>1, <3>2
    <3>4. r \in Loose /\ r.cursor_x = 0 /\ SameInput(s, r)
      <4>1. s.cursor_y + 1 \in Nat
        BY <1>6 DEF Loose
      <4>2. 0 \in Nat
        OBVIOUS
      <4> QED
        BY <3>6, <4>1, <4>2, <1>6, CursorMoved
    <3>5. c # NL /\ x # 0
      BY <2>1, <1>6, <1>2, Sizes
    <3> QED
      BY <3>3, <3>4, <3>5, <1>6, Sizes DEF SameInput
  <2>2. CASE ~(p.s.cursor_x > W)
    <3>1. q = [vga |-> v, s |-> s]
      BY <2>2, <1>6
    <3> HIDE DEF q
    <3> QED
      BY <2>2, <3>1, <1>2, <1>6, <1>7, Sizes DEF Loose
  <2> QED
    BY <2>1, <2>2
<1>9. screen_putchar(t, c) = IF q.s.cursor_y >= H THEN screen_scroll(q) ELSE q
  BY Zenon DEF screen_putchar, p
<1> HIDE DEF q
<1>10. CASE r.cursor_y >= H
  <2>1. screen_putchar(t, c) = screen_scroll(q)
    BY <1>7, <1>9, <1>10
  <2>2. /\ screen_scroll(q).s = [r EXCEPT !.cursor_y = H - 1]
        /\ screen_scroll(q).vga \in [Cells -> Glyphs]
        /\ screen_scroll(q) = [vga |-> screen_scroll(q).vga, s |-> screen_scroll(q).s]
    <3>1. q \in [vga : [Cells -> Glyphs], s : Loose] /\ q.s = r
      BY <1>8
    <3> QED
      BY <3>1, ScrollIs
  <2>3. PICK u : u = screen_scroll(q)
    OBVIOUS
  <2>4. u.s \in Screen /\ SameInput(r, u.s) /\ u.s.cursor_x = r.cursor_x
    BY <2>2, <2>3, <1>8, Sizes DEF Loose, Screen, SameInput
  <2>5. u \in Terminals
    BY <2>2, <2>3, <2>4 DEF Terminals
  <2>6. ~(c # NL /\ x = 0)
    BY <1>2, <1>8, <1>10, Sizes
  <2> QED
    BY <2>1, <2>3, <2>4, <2>5, <2>6, <1>8 DEF SameInput
<1>11. CASE ~(r.cursor_y >= H)
  <2>1. screen_putchar(t, c) = q
    BY <1>7, <1>9, <1>11
  <2>2. r \in Screen
    BY <1>8, <1>11, Sizes DEF Loose, Screen
  <2> QED
    BY <2>1, <2>2, <1>2, <1>8 DEF Terminals
<1> QED
  BY <1>10, <1>11
(* The sets that the iteration of a fold goes through.                     *)
LEMMA FirstPlaces ==
  ASSUME NEW n \in Nat
  PROVE  /\ 1 .. 0 = {} /\ \A k \in 0 .. n : 1 .. k \in SUBSET (1 .. n)
         /\ \A k \in 1 .. n : 1 .. k # {} /\ Max(1 .. k) = k /\ (1 .. k) \ {k} = 1 .. k - 1
<1>1. 1 .. 0 = {} /\ \A k \in 0 .. n : 1 .. k \in SUBSET (1 .. n)
  OBVIOUS
<1>2. ASSUME NEW k \in 1 .. n
      PROVE  1 .. k # {} /\ Max(1 .. k) = k /\ (1 .. k) \ {k} = 1 .. k - 1
  <2>1. k \in Nat /\ k \in 1 .. k /\ 1 .. k \subseteq 1 .. k
    OBVIOUS
  <2>2. Max(1 .. k) = k
    BY <2>1, MaxIs
  <2>3. (1 .. k) \ {k} = 1 .. k - 1
    OBVIOUS
  <2> QED
    BY <2>1, <2>2, <2>3
<1> QED
  BY <1>1, <1>2

(* The last character of a set of places.                                  *)
LEMMA LastPlace ==
  ASSUME NEW n \in Nat, NEW s \in SUBSET (1 .. n), s # {}
  PROVE  Max(s) \in 1 .. n /\ s \ {Max(s)} \in SUBSET (1 .. n)
  BY MaxIn

LEMMA PutStringChain ==
  ASSUME NEW t \in Terminals, NEW str \in Seq(Glyphs \cup {NL})
  PROVE  \E f : /\ f[0] = t /\ f[Len(str)] = screen_putstring(t, str)
                /\ \A k \in 1 .. Len(str) : f[k] = screen_putchar(f[k - 1], str[k])
<1> DEFINE n == Len(str)
           F == [w \in Terminals \X (1 .. n) |-> screen_putchar(w[1], str[w[2]])]
           Eq(iter) == iter = [s \in SUBSET (1 .. n) |->
                                IF s = {} THEN t
                                ELSE screen_putchar(iter[s \ {Max(s)}], str[Max(s)])]
<1>1. n \in Nat /\ DOMAIN str = 1 .. n /\ \A k \in 1 .. n : str[k] \in Glyphs \cup {NL}
  OBVIOUS
<1>2. F \in [Terminals \X (1 .. n) -> Terminals]
  <2>1. ASSUME NEW w \in Terminals \X (1 .. n)
        PROVE  screen_putchar(w[1], str[w[2]]) \in Terminals
    <3>1. w[1] \in Terminals /\ str[w[2]] \in Glyphs \cup {NL}
      BY <1>1
    <3> QED
      BY <3>1, PutChar
  <2> QED
    BY <2>1
<1> HIDE DEF n
<1>3. PICK g \in [SUBSET (1 .. n) -> Terminals] :
        \A s \in SUBSET (1 .. n) :
          g[s] = IF s = {} THEN t ELSE F[<<g[s \ {Max(s)}], Max(s)>>]
  <2> HIDE DEF F
  <2>1. \E g : Iteration(g, n, Terminals, t, F)
    BY <1>1, <1>2, IterationExists
  <2> QED
    BY <2>1, Zenon DEF Iteration
<1>4. Eq(g)
  <2>1. ASSUME NEW s \in SUBSET (1 .. n)
        PROVE  g[s] = IF s = {} THEN t
                      ELSE screen_putchar(g[s \ {Max(s)}], str[Max(s)])
    <3>1. CASE s # {}
      <4>1. Max(s) \in 1 .. n /\ s \ {Max(s)} \in SUBSET (1 .. n)
        BY <3>1, <1>1, LastPlace
      <4>2. <<g[s \ {Max(s)}], Max(s)>> \in Terminals \X (1 .. n)
        BY <4>1, <1>3
      <4>3. F[<<g[s \ {Max(s)}], Max(s)>>] = screen_putchar(g[s \ {Max(s)}], str[Max(s)])
        BY <4>2
      <4> QED
        BY <3>1, <4>3, <1>3, Zenon
    <3>2. CASE s = {}
      BY <3>2, <1>3, Zenon
    <3> QED
      BY <3>1, <3>2
  <2>2. g = [s \in SUBSET (1 .. n) |-> g[s]]
    BY <1>3
  <2> QED
    BY <2>1, <2>2, Zenon
<1>5. PICK iter : Eq(iter) /\ screen_putstring(t, str) = iter[1 .. n]
  <2>1. screen_putstring(t, str) = (CHOOSE iter : Eq(iter))[1 .. n]
    BY <1>1, Zenon DEF screen_putstring, FoldLeft, MapThenFoldSet
  <2>2. Eq(CHOOSE iter : Eq(iter))
    <3> HIDE DEF Eq
    <3> QED
      BY <1>4, Zenon
  <2> QED
    BY <2>1, <2>2, Zenon
<1> DEFINE f == [k \in 0 .. n |-> iter[1 .. k]]
<1>6. f[0] = t /\ f[n] = screen_putstring(t, str)
  <2>1. 1 .. 0 = {} /\ {} \in SUBSET (1 .. n) /\ f[0] = iter[1 .. 0] /\ f[n] = iter[1 .. n]
    BY <1>1, FirstPlaces
  <2> HIDE DEF f
  <2>2. iter[{}] = t
    BY <2>1, <1>5, Zenon
  <2> QED
    BY <2>1, <2>2, <1>5, Zenon
<1>7. ASSUME NEW k \in 1 .. n
      PROVE  f[k] = screen_putchar(f[k - 1], str[k])
  <2>1. 1 .. k \in SUBSET (1 .. n) /\ 1 .. k # {} /\ Max(1 .. k) = k /\ (1 .. k) \ {k} = 1 .. k - 1
    BY <1>1, FirstPlaces
  <2>2. iter[1 .. k] = screen_putchar(iter[(1 .. k) \ {Max(1 .. k)}], str[Max(1 .. k)])
    BY <2>1, <1>5, Zenon
  <2>3. f[k] = iter[1 .. k] /\ f[k - 1] = iter[1 .. k - 1]
    BY <1>1
  <2> HIDE DEF f
  <2> QED
    BY <2>1, <2>2, <2>3, Zenon
<1> HIDE DEF f
<1> QED
  BY <1>6, <1>7, Zenon DEF n

(* What a string does: the cursor stays on the display, the input line is  *)
(* left alone, and behind a newline the cursor is at the left margin.      *)
LEMMA PutString ==
  ASSUME NEW t \in Terminals, NEW str \in Seq(Glyphs \cup {NL})
  PROVE  /\ screen_putstring(t, str) \in Terminals
         /\ SameInput(t.s, screen_putstring(t, str).s)
         /\ str = << >> => screen_putstring(t, str) = t
         /\ Len(str) > 0 /\ str[Len(str)] = NL => screen_putstring(t, str).s.cursor_x = 0
<1>1. PICK f : /\ f[0] = t /\ f[Len(str)] = screen_putstring(t, str)
               /\ \A k \in 1 .. Len(str) : f[k] = screen_putchar(f[k - 1], str[k])
  BY PutStringChain
<1> DEFINE S == {k \in 0 .. Len(str) : f[k] \in Terminals /\ SameInput(t.s, f[k].s)}
<1>2. 0 \in S
  BY <1>1 DEF SameInput
<1>3. ASSUME NEW k \in 1 .. Len(str), k - 1 \in S
      PROVE  k \in S
  <2>1. f[k - 1] \in Terminals /\ SameInput(t.s, f[k - 1].s) /\ str[k] \in Glyphs \cup {NL}
    BY <1>3
  <2>2. f[k] \in Terminals /\ SameInput(f[k - 1].s, f[k].s)
    BY <2>1, <1>1, PutChar
  <2>3. SameInput(t.s, f[k].s)
    BY <2>1, <2>2, Zenon DEF SameInput
  <2> QED
    BY <2>2, <2>3
<1>4. \A k \in 0 .. Len(str) : k \in S
  <2> HIDE DEF S
  <2>1. Len(str) \in Nat
    OBVIOUS
  <2> QED
    BY <1>2, <1>3, <2>1, UpTo
<1>5. ASSUME Len(str) > 0, str[Len(str)] = NL
      PROVE  f[Len(str)].s.cursor_x = 0
  <2>1. Len(str) \in 1 .. Len(str) /\ Len(str) - 1 \in 0 .. Len(str)
    BY <1>5
  <2>2. f[Len(str) - 1] \in Terminals /\ f[Len(str)] = screen_putchar(f[Len(str) - 1], NL)
    BY <2>1, <1>1, <1>4, <1>5
  <2>3. NL \in Glyphs \cup {NL}
    OBVIOUS
  <2> QED
    BY <2>2, <2>3, PutChar
<1>6. Len(str) \in 0 .. Len(str) /\ (str = << >> => Len(str) = 0)
  OBVIOUS
<1> QED
  BY <1>1, <1>4, <1>5, <1>6
(* A screen that shows a new prompt and nothing behind it.                 *)
Fresh(s) ==
  /\ s.input_start_x = 1 /\ s.input_length = 0 /\ s.input_cursor = 0
  /\ s.cursor_x = 1 /\ s.cursor_y = s.input_start_y

LEMMA PrintPrompt ==
  ASSUME NEW t \in Terminals, t.s.cursor_x = 0
  PROVE  /\ shell_print_prompt(t) \in Terminals
         /\ Fresh(shell_print_prompt(t).s) /\ shell_print_prompt(t).s.buffer = t.s.buffer
<1>1. Prompt \in Seq(Glyphs \cup {NL}) /\ Len(Prompt) = 1 /\ Prompt[1] = ">"
  <2>1. ">" \in Glyphs \cup {NL}
    BY Characters
  <2> QED
    BY <2>1 DEF Prompt
<1>2. PICK f : /\ f[0] = t /\ f[Len(Prompt)] = screen_putstring(t, Prompt)
               /\ \A k \in 1 .. Len(Prompt) : f[k] = screen_putchar(f[k - 1], Prompt[k])
  BY <1>1, PutStringChain
<1>3. screen_putstring(t, Prompt) = screen_putchar(t, ">")
  BY <1>1, <1>2
<1>4. ">" \in Glyphs \cup {NL} /\ ">" # NL
  BY Characters
<1>5. PICK p : p = screen_putchar(t, ">")
  OBVIOUS
<1>6. p \in Terminals /\ SameInput(t.s, p.s) /\ p.s.cursor_x = 1
  BY <1>4, <1>5, PutChar
<1>7. PICK r : r = [p.s EXCEPT !.input_start_x = p.s.cursor_x, !.input_start_y = p.s.cursor_y,
                              !.input_length = 0, !.input_cursor = 0]
  OBVIOUS
<1>8. p = [vga |-> p.vga, s |-> p.s] /\ p.vga \in [Cells -> Glyphs] /\ p.s \in Screen
  BY <1>6 DEF Terminals
<1>9. r \in Screen /\ Fresh(r) /\ r.buffer = t.s.buffer
  <2>1. PICK s \in Screen : s = p.s
    BY <1>8
  <2>2. s.cursor_x = 1 /\ s.buffer = t.s.buffer
    BY <1>6, <2>1 DEF SameInput
  <2>3. r = [s EXCEPT !.input_start_x = 1, !.input_start_y = s.cursor_y,
                      !.input_length = 0, !.input_cursor = 0]
    BY <1>7, <2>1, <2>2, Zenon
  <2>4. r \in Screen /\ Fresh(r) /\ r.buffer = s.buffer
    BY <2>2, <2>3 DEF Screen, Fresh
  <2> QED
    BY <2>2, <2>4
<1>10. shell_print_prompt(t) = [p EXCEPT !.s.input_start_x = p.s.cursor_x,
                                         !.s.input_start_y = p.s.cursor_y,
                                         !.s.input_length = 0, !.s.input_cursor = 0]
  BY <1>3, <1>5, Zenon DEF shell_print_prompt, input_set_start_position
<1>11. shell_print_prompt(t) = [vga |-> p.vga, s |-> r]
  BY <1>7, <1>8, <1>10
<1> QED
  BY <1>8, <1>9, <1>11 DEF Terminals

LEMMA Clear ==
  ASSUME NEW t \in Terminals
  PROVE  screen_clear(t) \in Terminals /\ screen_clear(t).s.cursor_x = 0
<1>1. t = [vga |-> t.vga, s |-> t.s] /\ t.vga \in [Cells -> Glyphs] /\ t.s \in Screen
  BY DEF Terminals
<1> DEFINE v == [i \in Cells |-> IF i < W * H THEN " " ELSE t.vga[i]]
           r == [t.s EXCEPT !.cursor_x = 0, !.cursor_y = 0]
<1>2. v \in [Cells -> Glyphs]
  BY <1>1, Characters
<1>3. r \in Screen /\ r.cursor_x = 0
  <2>1. PICK s \in Screen : s = t.s
    BY <1>1
  <2>2. 0 \in 0 .. W /\ 0 \in 0 .. H - 1
    BY Sizes
  <2>3. r = [s EXCEPT !.cursor_x = 0, !.cursor_y = 0]
    BY <2>1
  <2> HIDE DEF r
  <2> QED
    BY <2>2, <2>3 DEF Screen
<1>4. screen_clear(t) = [t EXCEPT !.vga = v, !.s.cursor_x = 0, !.s.cursor_y = 0]
  BY Zenon DEF screen_clear
<1> HIDE DEF v
<1>5. screen_clear(t) = [vga |-> v, s |-> r]
  BY <1>1, <1>4
<1> HIDE DEF r
<1> QED
  BY <1>2, <1>3, <1>5 DEF Terminals

----------------------------------------------------------------------------
(***************************************************************************)
(* Where the characters of a line are.                                     *)
(***************************************************************************)
LEMMA Division ==
  ASSUME NEW a \in Nat
  PROVE  /\ a \div W \in Nat /\ a % W \in 0 .. W - 1
         /\ (a \div W) * W \in Nat /\ a = (a \div W) * W + (a % W)
  BY Sizes

(* The quotient is the only one.                                           *)
LEMMA Quotient ==
  ASSUME NEW q \in Nat, NEW r \in Nat, NEW k \in Nat, k * W <= q * W + r, r < W
  PROVE  k <= q
<1>1. SUFFICES ASSUME k >= q + 1 PROVE FALSE
  OBVIOUS
<1>2. k * W >= (q + 1) * W
  BY <1>1, Sizes
<1>3. (q + 1) * W = q * W + W
  BY Sizes
<1> QED
  BY <1>2, <1>3, Sizes

LEMMA LinePlace ==
  ASSUME NEW s \in Loose, NEW i \in Nat
  PROVE  /\ Cell(s, i) \in Nat /\ Row(s, i) \in Nat /\ Col(s, i) \in 0 .. W - 1
         /\ Row(s, i) * W \in Nat /\ Row(s, i) * W + Col(s, i) = Cell(s, i)
         /\ Row(s, i) < H <=> Cell(s, i) < W * H
<1> DEFINE y == s.input_start_y
           x == s.input_start_x + i
           q == x \div W
<1>1. y \in Nat /\ x \in Nat /\ y * W \in Nat /\ Cell(s, i) = y * W + x
  BY Sizes DEF Loose, Cell
<1>2. q \in Nat /\ x % W \in 0 .. W - 1 /\ q * W \in Nat /\ x = q * W + (x % W)
  BY <1>1, Division
<1>3. Row(s, i) = y + q /\ Col(s, i) = x % W
  BY DEF Row, Col
<1> HIDE DEF y, x, q
<1>4. (y + q) * W = y * W + q * W
  BY <1>1, <1>2, Sizes
<1>5. Row(s, i) * W + Col(s, i) = Cell(s, i) /\ Row(s, i) * W \in Nat
  BY <1>1, <1>2, <1>3, <1>4
<1>6. ASSUME Row(s, i) < H
      PROVE  Cell(s, i) < W * H
  <2>1. Row(s, i) \in 0 .. H - 1
    BY <1>6, <1>1, <1>2, <1>3, Sizes
  <2>2. Row(s, i) * W + W <= W * H
    BY <2>1, RowFits
  <2> QED
    BY <2>2, <1>2, <1>3, <1>5, Sizes
<1>7. ASSUME Row(s, i) >= H
      PROVE  Cell(s, i) >= W * H
  <2>1. Row(s, i) * W >= H * W
    BY <1>7, <1>1, <1>2, <1>3, Sizes
  <2> QED
    BY <2>1, <1>1, <1>2, <1>3, <1>5, Sizes
<1>8. Row(s, i) \in Nat /\ Cell(s, i) \in Nat
  BY <1>1, <1>2, <1>3
<1> QED
  BY <1>2, <1>3, <1>5, <1>6, <1>7, <1>8, Sizes

(* The next character is on the same row or on the next one.               *)
LEMMA NextPlace ==
  ASSUME NEW s \in Loose, NEW i \in Nat, Row(s, i) < H, Row(s, i + 1) >= H
  PROVE  Row(s, i + 1) = H
<1>1. /\ Row(s, i) \in Nat /\ Col(s, i) \in 0 .. W - 1 /\ Row(s, i) * W \in Nat
      /\ Row(s, i) * W + Col(s, i) = Cell(s, i)
  BY LinePlace
<1>2. /\ i + 1 \in Nat /\ Row(s, i + 1) \in Nat /\ Col(s, i + 1) \in 0 .. W - 1 /\ Row(s, i + 1) * W \in Nat
      /\ Row(s, i + 1) * W + Col(s, i + 1) = Cell(s, i + 1)
  BY LinePlace
<1>3. Cell(s, i + 1) = Cell(s, i) + 1
  BY Sizes DEF Cell, Loose
<1>4. Row(s, i + 1) * W <= (Row(s, i) + 1) * W + 0
  <2>1. (Row(s, i) + 1) * W = Row(s, i) * W + W
    BY <1>1, Sizes
  <2> QED
    BY <1>1, <1>2, <1>3, <2>1, Sizes
<1>5. Row(s, i + 1) <= Row(s, i) + 1
  <2>1. Row(s, i) + 1 \in Nat /\ 0 \in Nat /\ 0 < W
    BY <1>1, Sizes
  <2> QED
    BY <2>1, <1>2, <1>4, Quotient
<1> QED
  BY <1>1, <1>2, <1>5, Sizes

(* Behind the prompt the cursor is at the caret, and the line has room.    *)
LEMMA FreshLine ==
  ASSUME NEW s \in Screen, Fresh(s)
  PROVE  AtCaret(s) /\ Cell(s, s.input_length) < W * H
<1>1. s \in Loose /\ s.input_start_y \in 0 .. H - 1 /\ 0 \in Nat
  BY ScreenLoose DEF Screen
<1>2. 1 \div W = 0 /\ 1 % W = 1
  BY Sizes
<1>3. Row(s, 0) = s.input_start_y /\ Col(s, 0) = 1
  BY <1>1, <1>2, Sizes DEF Fresh, Row, Col
<1>4. Row(s, 0) < H
  BY <1>1, <1>3, Sizes
<1> QED
  BY <1>1, <1>3, <1>4, LinePlace DEF Fresh, AtCaret
----------------------------------------------------------------------------
(***************************************************************************)
(* Redrawing a line from a place to its end.                               *)
(***************************************************************************)
(* The chain of a fold, made from its iteration.                           *)
Follows(iter, n, A, a, F) ==
  /\ iter[{}] = a
  /\ \A s \in SUBSET (1 .. n) :
       s # {} /\ iter[s \ {Max(s)}] \in A => iter[s] = F[<<iter[s \ {Max(s)}], Max(s)>>]

ChainOf(f, n, A, a, F, z) ==
  /\ f \in [0 .. n -> A] /\ f[0] = a /\ f[n] = z
  /\ \A k \in 1 .. n : f[k] = F[<<f[k - 1], k>>]

LEMMA Chain ==
  ASSUME NEW n \in Nat, NEW A, NEW a \in A, NEW F \in [A \X (1 .. n) -> A], NEW iter,
         Follows(iter, n, A, a, F)
  PROVE  \E f : ChainOf(f, n, A, a, F, iter[1 .. n])
<1>0. /\ iter[{}] = a
      /\ \A s \in SUBSET (1 .. n) :
           s # {} /\ iter[s \ {Max(s)}] \in A => iter[s] = F[<<iter[s \ {Max(s)}], Max(s)>>]
  BY Zenon DEF Follows
<1> DEFINE S == {k \in 0 .. n : iter[1 .. k] \in A}
           f == [k \in 0 .. n |-> iter[1 .. k]]
<1>1. 0 \in S
  <2>1. 1 .. 0 = {} /\ 0 \in 0 .. n
    OBVIOUS
  <2>2. iter[1 .. 0] \in A
    BY <2>1, <1>0, Zenon
  <2> QED
    BY <2>1, <2>2, Zenon
<1>2. ASSUME NEW k \in 1 .. n, iter[1 .. k - 1] \in A
      PROVE  iter[1 .. k] = F[<<iter[1 .. k - 1], k>>] /\ iter[1 .. k] \in A
  <2>1. 1 .. k \in SUBSET (1 .. n) /\ 1 .. k # {} /\ Max(1 .. k) = k /\ (1 .. k) \ {k} = 1 .. k - 1
    BY FirstPlaces
  <2>2. iter[1 .. k] = F[<<iter[1 .. k - 1], k>>]
    BY <2>1, <1>0, <1>2, Zenon
  <2>3. <<iter[1 .. k - 1], k>> \in A \X (1 .. n)
    BY <1>2
  <2> QED
    BY <2>2, <2>3
<1>3. ASSUME NEW k \in 1 .. n, k - 1 \in S
      PROVE  k \in S
  <2>1. iter[1 .. k - 1] \in A /\ k \in 0 .. n
    BY <1>3
  <2>2. iter[1 .. k] \in A
    BY <1>2, <2>1
  <2> QED
    BY <2>1, <2>2, Zenon
<1>4. \A k \in 0 .. n : iter[1 .. k] \in A
  <2>1. \A k \in 0 .. n : k \in S
    <3> HIDE DEF S
    <3> QED
      BY <1>1, <1>3, UpTo
  <2> QED
    BY <2>1
<1>5. f \in [0 .. n -> A] /\ f[0] = iter[1 .. 0] /\ f[n] = iter[1 .. n]
  BY <1>4
<1>6. \A k \in 1 .. n : k - 1 \in 0 .. n /\ k \in 0 .. n
  OBVIOUS
<1>7. \A k \in 1 .. n : f[k] = F[<<f[k - 1], k>>]
  <2> TAKE k \in 1 .. n
  <2>1. f[k] = iter[1 .. k] /\ f[k - 1] = iter[1 .. k - 1] /\ iter[1 .. k - 1] \in A
    BY <1>4, <1>6
  <2> HIDE DEF f
  <2> QED
    BY <2>1, <1>2, Zenon
<1>8. f[0] = a
  <2>1. 1 .. 0 = {}
    OBVIOUS
  <2> HIDE DEF f
  <2> QED
    BY <2>1, <1>0, <1>5, Zenon
<1> HIDE DEF f
<1> QED
  BY <1>5, <1>7, <1>8, Zenon DEF ChainOf

(* The displays with the screen s.                                         *)
With(s) == [vga : [Cells -> Glyphs], s : {s}]

(* A character on the display is drawn at its cell, and nothing scrolls.   *)
LEMMA DrawIs ==
  ASSUME NEW s \in Loose, NEW u \in With(s), NEW i \in Nat, Cell(s, i) < W * H, NEW c
  PROVE  /\ Draw(u, i, c) = [vga |-> [u.vga EXCEPT ![Cell(s, i)] = c], s |-> s]
         /\ DrawInside(u, i, c) = [vga |-> [u.vga EXCEPT ![Cell(s, i)] = c], s |-> s]
<1>1. PICK v \in [Cells -> Glyphs] : u = [vga |-> v, s |-> s]
  BY DEF With
<1>2. u.s = s /\ u.vga = v
  BY <1>1
<1>3. Row(s, i) < H /\ ~(Row(s, i) >= H) /\ Row(s, i) * W + Col(s, i) = Cell(s, i)
  BY LinePlace, Sizes
<1>4. KeepRow(u, i) = u
  BY <1>2, <1>3, Zenon DEF KeepRow
<1>5. LastRow(u.s, i) * W + Col(u.s, i) = Cell(s, i)
  BY <1>2, <1>3, Zenon DEF LastRow
<1>6. Draw(u, i, c) = [u EXCEPT !.vga[Cell(s, i)] = c]
  BY <1>4, <1>5, Zenon DEF Draw
<1>7. Draw(u, i, c) = [vga |-> [v EXCEPT ![Cell(s, i)] = c], s |-> s]
  BY <1>1, <1>6
<1>8. DrawInside(u, i, c) = Draw(u, i, c)
  BY <1>2, <1>3, Zenon DEF DrawInside
<1> QED
  BY <1>2, <1>7, <1>8, Zenon

Redraw(a, i) ==
  FoldLeft(LAMBDA u, j : Draw(u, j, u.s.buffer[j]), a, From(a.s, i))

RedrawInside(a, i) ==
  FoldLeft(LAMBDA u, j : DrawInside(u, j, u.s.buffer[j]), a, From(a.s, i))

(* One character of s drawn.                                               *)
Drawn(u, s, j) == [vga |-> [u.vga EXCEPT ![Cell(s, j)] = s.buffer[j]], s |-> s]

(* The line from its i-th character on is on the display.                  *)
LineFits(s, i) ==
  /\ s \in Loose /\ i \in Nat /\ i <= s.input_length
  /\ \A j \in i .. s.input_length - 1 : j \in Bytes /\ Cell(s, j) < W * H

LEMMA DrawnIs ==
  ASSUME NEW s, NEW i, LineFits(s, i), NEW u \in With(s), NEW j \in i .. s.input_length - 1
  PROVE  /\ Drawn(u, s, j) \in With(s)
         /\ Draw(u, j, u.s.buffer[j]) = Drawn(u, s, j)
         /\ DrawInside(u, j, u.s.buffer[j]) = Drawn(u, s, j)
<1>1. s \in Loose /\ j \in Nat /\ j \in Bytes /\ Cell(s, j) < W * H
  BY DEF LineFits, Loose
<1>2. Cell(s, j) \in Cells /\ s.buffer[j] \in Glyphs
  BY <1>1, LinePlace, Sizes DEF Cells, Loose
<1>3. u.vga \in [Cells -> Glyphs] /\ u.s = s
  BY DEF With
<1>4. [u.vga EXCEPT ![Cell(s, j)] = s.buffer[j]] \in [Cells -> Glyphs]
  BY <1>2, <1>3
<1>5. Drawn(u, s, j) \in With(s)
  BY <1>4 DEF Drawn, With
<1>6. PICK c : c = u.s.buffer[j] /\ c = s.buffer[j]
  BY <1>3
<1>7. Draw(u, j, c) = Drawn(u, s, j) /\ DrawInside(u, j, c) = Drawn(u, s, j)
  <2>1. Drawn(u, s, j) = [vga |-> [u.vga EXCEPT ![Cell(s, j)] = c], s |-> s]
    BY <1>6, Zenon DEF Drawn
  <2>2. /\ Draw(u, j, c) = [vga |-> [u.vga EXCEPT ![Cell(s, j)] = c], s |-> s]
        /\ DrawInside(u, j, c) = [vga |-> [u.vga EXCEPT ![Cell(s, j)] = c], s |-> s]
    BY <1>1, DrawIs
  <2> QED
    BY <2>1, <2>2, Zenon
<1> QED
  BY <1>5, <1>6, <1>7, Zenon
(* The displays between the characters that are drawn.                     *)
DrawChain(f, s, i, a) ==
  /\ f \in [0 .. s.input_length - i -> With(s)] /\ f[0] = a
  /\ \A k \in 1 .. s.input_length - i : f[k] = Drawn(f[k - 1], s, i + k - 1)

LEMMA RedrawChain ==
  ASSUME NEW s, NEW i, LineFits(s, i), NEW a \in With(s)
  PROVE  \E f : DrawChain(f, s, i, a) /\ f[s.input_length - i] = Redraw(a, i)
<1> DEFINE n == s.input_length - i
           q == From(a.s, i)
           F == [w \in With(s) \X (1 .. n) |-> Drawn(w[1], s, i + w[2] - 1)]
           Eq(iter) == iter = [x \in SUBSET (1 .. n) |->
                                IF x = {} THEN a
                                ELSE Draw(iter[x \ {Max(x)}], q[Max(x)],
                                          iter[x \ {Max(x)}].s.buffer[q[Max(x)]])]
<1>1. n \in Nat /\ \A k \in 1 .. n : i + k - 1 \in i .. s.input_length - 1
  BY DEF LineFits, Loose
<1>4. a.s = s
  BY DEF With
<1>2. DOMAIN q = 1 .. n /\ \A k \in 1 .. n : q[k] = i + k - 1
  BY <1>4 DEF From
<1>3. F \in [With(s) \X (1 .. n) -> With(s)]
  <2>1. ASSUME NEW w \in With(s) \X (1 .. n)
        PROVE  Drawn(w[1], s, i + w[2] - 1) \in With(s)
    <3>1. w[1] \in With(s) /\ i + w[2] - 1 \in i .. s.input_length - 1
      BY <1>1
    <3> QED
      BY <3>1, DrawnIs
  <2> QED
    BY <2>1
<1>5. Redraw(a, i) = (CHOOSE iter : Eq(iter))[1 .. n]
  BY <1>2, Zenon DEF Redraw, FoldLeft, MapThenFoldSet
<1> HIDE DEF n, q
<1>6. ASSUME NEW g, NEW x \in SUBSET (1 .. n), x # {}, g[x \ {Max(x)}] \in With(s)
      PROVE  /\ Max(x) \in 1 .. n /\ x \ {Max(x)} \in SUBSET (1 .. n)
             /\ Draw(g[x \ {Max(x)}], q[Max(x)], g[x \ {Max(x)}].s.buffer[q[Max(x)]])
                  = F[<<g[x \ {Max(x)}], Max(x)>>]
  <2>1. Max(x) \in 1 .. n /\ x \ {Max(x)} \in SUBSET (1 .. n)
    BY <1>6, <1>1, LastPlace
  <2>2. PICK m, u : m = Max(x) /\ u = g[x \ {Max(x)}]
    OBVIOUS
  <2>3. m \in 1 .. n /\ u \in With(s)
    BY <1>6, <2>1, <2>2
  <2>4. q[m] = i + m - 1 /\ i + m - 1 \in i .. s.input_length - 1
    BY <1>1, <1>2, <2>3
  <2>5. F[<<u, m>>] = Drawn(u, s, i + m - 1)
    BY <2>3
  <2>6. Draw(u, q[m], u.s.buffer[q[m]]) = Drawn(u, s, i + m - 1)
    BY <2>3, <2>4, DrawnIs
  <2> QED
    BY <2>1, <2>2, <2>5, <2>6, Zenon
<1> HIDE DEF F
<1>7. \E g : Eq(g)
  <2>1. PICK g : Iteration(g, n, With(s), a, F)
    BY <1>1, <1>3, IterationExists
  <2>2. /\ g = [x \in SUBSET (1 .. n) |-> g[x]] /\ \A x \in SUBSET (1 .. n) : g[x] \in With(s)
        /\ \A x \in SUBSET (1 .. n) :
             g[x] = IF x = {} THEN a ELSE F[<<g[x \ {Max(x)}], Max(x)>>]
    BY <2>1, Zenon DEF Iteration
  <2>3. ASSUME NEW x \in SUBSET (1 .. n)
        PROVE  g[x] = IF x = {} THEN a
                      ELSE Draw(g[x \ {Max(x)}], q[Max(x)],
                                g[x \ {Max(x)}].s.buffer[q[Max(x)]])
    <3>1. CASE x # {}
      <4>1. x \ {Max(x)} \in SUBSET (1 .. n)
        OBVIOUS
      <4>2. g[x \ {Max(x)}] \in With(s)
        BY <2>2, <4>1
      <4> QED
        BY <3>1, <4>2, <1>6, <2>2, Zenon
    <3>2. CASE x = {}
      BY <3>2, <2>2, Zenon
    <3> QED
      BY <3>1, <3>2
  <2>4. Eq(g)
    BY <2>2, <2>3, Zenon
  <2> QED
    BY <2>4
<1>8. PICK iter : Eq(iter) /\ Redraw(a, i) = iter[1 .. n]
  <2>1. Eq(CHOOSE iter : Eq(iter))
    <3> HIDE DEF Eq
    <3> QED
      BY <1>7, Zenon
  <2> QED
    BY <1>5, <2>1, Zenon DEF n
<1>9. /\ iter[{}] = a
      /\ \A x \in SUBSET (1 .. n) :
           x # {} /\ iter[x \ {Max(x)}] \in With(s)
             => iter[x] = F[<<iter[x \ {Max(x)}], Max(x)>>]
  <2>1. {} \in SUBSET (1 .. n)
    OBVIOUS
  <2>2. iter[{}] = a
    BY <2>1, <1>8, Zenon
  <2>3. ASSUME NEW x \in SUBSET (1 .. n), x # {}, iter[x \ {Max(x)}] \in With(s)
        PROVE  iter[x] = F[<<iter[x \ {Max(x)}], Max(x)>>]
    <3>1. iter[x] = Draw(iter[x \ {Max(x)}], q[Max(x)], iter[x \ {Max(x)}].s.buffer[q[Max(x)]])
      BY <2>3, <1>8, Zenon
    <3> QED
      BY <3>1, <2>3, <1>6, Zenon
  <2> QED
    BY <2>2, <2>3
<1> HIDE DEF Eq
<1>10. PICK f \in [0 .. n -> With(s)] :
         /\ f[0] = a /\ f[n] = iter[1 .. n]
         /\ \A k \in 1 .. n : f[k] = F[<<f[k - 1], k>>]
  <2>1. Follows(iter, n, With(s), a, F)
    BY <1>9, Zenon DEF Follows
  <2>2. \E f : ChainOf(f, n, With(s), a, F, iter[1 .. n])
    BY <2>1, <1>1, <1>3, Chain
  <2> QED
    BY <2>2, Zenon DEF ChainOf
<1>11. ASSUME NEW k \in 1 .. n
       PROVE  f[k] = Drawn(f[k - 1], s, i + k - 1)
  <2>1. k - 1 \in 0 .. n
    BY <1>1
  <2>2. <<f[k - 1], k>> \in With(s) \X (1 .. n)
    BY <2>1, <1>10
  <2>3. F[<<f[k - 1], k>>] = Drawn(f[k - 1], s, i + k - 1)
    BY <2>2 DEF F
  <2> QED
    BY <2>3, <1>10, Zenon
<1> QED
  BY <1>8, <1>10, <1>11, Zenon DEF DrawChain, n

LEMMA RedrawInsideChain ==
  ASSUME NEW s, NEW i, LineFits(s, i), NEW a \in With(s)
  PROVE  \E f : DrawChain(f, s, i, a) /\ f[s.input_length - i] = RedrawInside(a, i)
<1> DEFINE n == s.input_length - i
           q == From(a.s, i)
           F == [w \in With(s) \X (1 .. n) |-> Drawn(w[1], s, i + w[2] - 1)]
           Eq(iter) == iter = [x \in SUBSET (1 .. n) |->
                                IF x = {} THEN a
                                ELSE DrawInside(iter[x \ {Max(x)}], q[Max(x)],
                                          iter[x \ {Max(x)}].s.buffer[q[Max(x)]])]
<1>1. n \in Nat /\ \A k \in 1 .. n : i + k - 1 \in i .. s.input_length - 1
  BY DEF LineFits, Loose
<1>4. a.s = s
  BY DEF With
<1>2. DOMAIN q = 1 .. n /\ \A k \in 1 .. n : q[k] = i + k - 1
  BY <1>4 DEF From
<1>3. F \in [With(s) \X (1 .. n) -> With(s)]
  <2>1. ASSUME NEW w \in With(s) \X (1 .. n)
        PROVE  Drawn(w[1], s, i + w[2] - 1) \in With(s)
    <3>1. w[1] \in With(s) /\ i + w[2] - 1 \in i .. s.input_length - 1
      BY <1>1
    <3> QED
      BY <3>1, DrawnIs
  <2> QED
    BY <2>1
<1>5. RedrawInside(a, i) = (CHOOSE iter : Eq(iter))[1 .. n]
  BY <1>2, Zenon DEF RedrawInside, FoldLeft, MapThenFoldSet
<1> HIDE DEF n, q
<1>6. ASSUME NEW g, NEW x \in SUBSET (1 .. n), x # {}, g[x \ {Max(x)}] \in With(s)
      PROVE  /\ Max(x) \in 1 .. n /\ x \ {Max(x)} \in SUBSET (1 .. n)
             /\ DrawInside(g[x \ {Max(x)}], q[Max(x)], g[x \ {Max(x)}].s.buffer[q[Max(x)]])
                  = F[<<g[x \ {Max(x)}], Max(x)>>]
  <2>1. Max(x) \in 1 .. n /\ x \ {Max(x)} \in SUBSET (1 .. n)
    BY <1>6, <1>1, LastPlace
  <2>2. PICK m, u : m = Max(x) /\ u = g[x \ {Max(x)}]
    OBVIOUS
  <2>3. m \in 1 .. n /\ u \in With(s)
    BY <1>6, <2>1, <2>2
  <2>4. q[m] = i + m - 1 /\ i + m - 1 \in i .. s.input_length - 1
    BY <1>1, <1>2, <2>3
  <2>5. F[<<u, m>>] = Drawn(u, s, i + m - 1)
    BY <2>3
  <2>6. DrawInside(u, q[m], u.s.buffer[q[m]]) = Drawn(u, s, i + m - 1)
    BY <2>3, <2>4, DrawnIs
  <2> QED
    BY <2>1, <2>2, <2>5, <2>6, Zenon
<1> HIDE DEF F
<1>7. \E g : Eq(g)
  <2>1. PICK g : Iteration(g, n, With(s), a, F)
    BY <1>1, <1>3, IterationExists
  <2>2. /\ g = [x \in SUBSET (1 .. n) |-> g[x]] /\ \A x \in SUBSET (1 .. n) : g[x] \in With(s)
        /\ \A x \in SUBSET (1 .. n) :
             g[x] = IF x = {} THEN a ELSE F[<<g[x \ {Max(x)}], Max(x)>>]
    BY <2>1, Zenon DEF Iteration
  <2>3. ASSUME NEW x \in SUBSET (1 .. n)
        PROVE  g[x] = IF x = {} THEN a
                      ELSE DrawInside(g[x \ {Max(x)}], q[Max(x)],
                                g[x \ {Max(x)}].s.buffer[q[Max(x)]])
    <3>1. CASE x # {}
      <4>1. x \ {Max(x)} \in SUBSET (1 .. n)
        OBVIOUS
      <4>2. g[x \ {Max(x)}] \in With(s)
        BY <2>2, <4>1
      <4> QED
        BY <3>1, <4>2, <1>6, <2>2, Zenon
    <3>2. CASE x = {}
      BY <3>2, <2>2, Zenon
    <3> QED
      BY <3>1, <3>2
  <2>4. Eq(g)
    BY <2>2, <2>3, Zenon
  <2> QED
    BY <2>4
<1>8. PICK iter : Eq(iter) /\ RedrawInside(a, i) = iter[1 .. n]
  <2>1. Eq(CHOOSE iter : Eq(iter))
    <3> HIDE DEF Eq
    <3> QED
      BY <1>7, Zenon
  <2> QED
    BY <1>5, <2>1, Zenon DEF n
<1>9. /\ iter[{}] = a
      /\ \A x \in SUBSET (1 .. n) :
           x # {} /\ iter[x \ {Max(x)}] \in With(s)
             => iter[x] = F[<<iter[x \ {Max(x)}], Max(x)>>]
  <2>1. {} \in SUBSET (1 .. n)
    OBVIOUS
  <2>2. iter[{}] = a
    BY <2>1, <1>8, Zenon
  <2>3. ASSUME NEW x \in SUBSET (1 .. n), x # {}, iter[x \ {Max(x)}] \in With(s)
        PROVE  iter[x] = F[<<iter[x \ {Max(x)}], Max(x)>>]
    <3>1. iter[x] = DrawInside(iter[x \ {Max(x)}], q[Max(x)], iter[x \ {Max(x)}].s.buffer[q[Max(x)]])
      BY <2>3, <1>8, Zenon
    <3> QED
      BY <3>1, <2>3, <1>6, Zenon
  <2> QED
    BY <2>2, <2>3
<1> HIDE DEF Eq
<1>10. PICK f \in [0 .. n -> With(s)] :
         /\ f[0] = a /\ f[n] = iter[1 .. n]
         /\ \A k \in 1 .. n : f[k] = F[<<f[k - 1], k>>]
  <2>1. Follows(iter, n, With(s), a, F)
    BY <1>9, Zenon DEF Follows
  <2>2. \E f : ChainOf(f, n, With(s), a, F, iter[1 .. n])
    BY <2>1, <1>1, <1>3, Chain
  <2> QED
    BY <2>2, Zenon DEF ChainOf
<1>11. ASSUME NEW k \in 1 .. n
       PROVE  f[k] = Drawn(f[k - 1], s, i + k - 1)
  <2>1. k - 1 \in 0 .. n
    BY <1>1
  <2>2. <<f[k - 1], k>> \in With(s) \X (1 .. n)
    BY <2>1, <1>10
  <2>3. F[<<f[k - 1], k>>] = Drawn(f[k - 1], s, i + k - 1)
    BY <2>2 DEF F
  <2> QED
    BY <2>3, <1>10, Zenon
<1> QED
  BY <1>8, <1>10, <1>11, Zenon DEF DrawChain, n
LEMMA CellIs ==
  ASSUME NEW s \in Loose
  PROVE  \E base \in Nat : base = Cell(s, 0) /\ \A i \in Nat : Cell(s, i) = base + i
<1>1. s.input_start_y * W \in Nat /\ s.input_start_x \in Nat
  BY Sizes DEF Loose
<1> QED
  BY <1>1 DEF Cell

(* What a chain of drawn characters leaves on the display.                 *)
IsPainted(b, s, i, a) ==
  /\ b \in With(s)
  /\ \A j \in i .. s.input_length - 1 : b.vga[Cell(s, j)] = s.buffer[j]
  /\ \A x \in Cells : x < Cell(s, i) \/ x >= Cell(s, s.input_length) => b.vga[x] = a.vga[x]

LEMMA Painted ==
  ASSUME NEW s, NEW i, LineFits(s, i), NEW a \in With(s), NEW f, DrawChain(f, s, i, a)
  PROVE  IsPainted(f[s.input_length - i], s, i, a)
<1> DEFINE n == s.input_length - i
           Kept(k) == \A x \in Cells : x < Cell(s, i) \/ x >= Cell(s, i) + k => f[k].vga[x] = a.vga[x]
           Done(k) == \A j \in i .. i + k - 1 : f[k].vga[Cell(s, j)] = s.buffer[j]
           S == {k \in 0 .. n : Kept(k) /\ Done(k)}
<1>1. s \in Loose /\ i \in Nat /\ s.input_length \in Nat /\ n \in Nat
  BY DEF LineFits, Loose
<1>2. PICK base \in Nat : \A j \in Nat : Cell(s, j) = base + j
  BY <1>1, CellIs
<1>3. \A j \in i .. i + n - 1 : j \in Nat /\ Cell(s, j) \in Cells
  <2> TAKE j \in i .. i + n - 1
  <2>1. j \in Nat /\ Cell(s, j) < W * H
    BY <1>1 DEF LineFits
  <2> QED
    BY <2>1, <1>2, Sizes DEF Cells
<1> HIDE DEF n
<1>4. f[0] = a /\ (\A k \in 0 .. n : f[k] \in With(s)) /\ \A k \in 1 .. n : f[k] = Drawn(f[k - 1], s, i + k - 1)
  BY DEF DrawChain, n
<1>5. 0 \in S
  BY <1>1, <1>4
<1>6. ASSUME NEW k \in 1 .. n, k - 1 \in S
      PROVE  k \in S
  <2>1. k - 1 \in 0 .. n /\ k \in 0 .. n /\ i + k - 1 \in i .. i + n - 1 /\ k \in Nat
    BY <1>1
  <2>2. PICK h : h = f[k - 1].vga
    OBVIOUS
  <2>3. h \in [Cells -> Glyphs]
    BY <2>1, <2>2, <1>4 DEF With
  <2>4. f[k].vga = [h EXCEPT ![Cell(s, i + k - 1)] = s.buffer[i + k - 1]]
    <3>1. f[k] = [vga |-> [h EXCEPT ![Cell(s, i + k - 1)] = s.buffer[i + k - 1]], s |-> s]
      BY <2>2, <1>4, Zenon DEF Drawn
    <3> QED
      BY <3>1
  <2>5. Cell(s, i + k - 1) = base + i + k - 1 /\ Cell(s, i + k - 1) \in Cells /\ Cell(s, i) = base + i
    BY <2>1, <1>1, <1>2, <1>3
  <2>6. Kept(k)
    <3> SUFFICES ASSUME NEW x \in Cells, x < Cell(s, i) \/ x >= Cell(s, i) + k
                 PROVE  f[k].vga[x] = a.vga[x]
      OBVIOUS
    <3>1. x \in Int /\ x # Cell(s, i + k - 1) /\ (x < Cell(s, i) \/ x >= Cell(s, i) + (k - 1))
      BY <2>1, <2>5, <1>1, Sizes DEF Cells
    <3>2. f[k].vga[x] = h[x]
      BY <2>3, <2>4, <2>5, <3>1
    <3>3. h[x] = a.vga[x]
      BY <1>6, <2>2, <3>1
    <3> QED
      BY <3>2, <3>3
  <2>7. Done(k)
    <3> SUFFICES ASSUME NEW j \in i .. i + k - 1
                 PROVE  f[k].vga[Cell(s, j)] = s.buffer[j]
      OBVIOUS
    <3>1. j \in Nat /\ Cell(s, j) \in Cells /\ Cell(s, j) = base + j
      BY <2>1, <1>1, <1>2, <1>3
    <3>2. CASE j = i + k - 1
      BY <3>2, <2>3, <2>4, <2>5
    <3>3. CASE j # i + k - 1
      <4>1. j \in i .. i + (k - 1) - 1 /\ Cell(s, j) # Cell(s, i + k - 1)
        BY <3>1, <3>3, <2>1, <2>5, <1>1
      <4>2. f[k].vga[Cell(s, j)] = h[Cell(s, j)]
        BY <2>3, <2>4, <2>5, <3>1, <4>1
      <4>3. h[Cell(s, j)] = s.buffer[j]
        BY <1>6, <2>2, <4>1
      <4> QED
        BY <4>2, <4>3
    <3> QED
      BY <3>2, <3>3
  <2> HIDE DEF Kept, Done
  <2> QED
    BY <2>1, <2>6, <2>7
<1>7. \A k \in 0 .. n : k \in S
  <2> HIDE DEF S
  <2> QED
    BY <1>1, <1>5, <1>6, UpTo
<1>8. n \in 0 .. n /\ i + n - 1 = s.input_length - 1 /\ Cell(s, i) + n = Cell(s, s.input_length)
  BY <1>1, <1>2 DEF n
<1>9. Kept(n) /\ Done(n) /\ f[n] \in With(s)
  BY <1>4, <1>7, <1>8
<1> QED
  BY <1>8, <1>9, Zenon DEF n, IsPainted
----------------------------------------------------------------------------
(***************************************************************************)
(* The keys that edit the line.                                            *)
(***************************************************************************)
(* The text of a line with a character inserted.                           *)
LEMMA InsertText ==
  ASSUME NEW s \in Screen, NEW c \in Chars, s.input_cursor <= s.input_length,
         s.input_length + 1 \in Bytes
  PROVE  LET r == insert_text(s, c)
         IN  /\ r \in Screen /\ r.input_length = s.input_length + 1 /\ r.input_cursor = s.input_cursor
             /\ r.input_start_x = s.input_start_x /\ r.input_start_y = s.input_start_y
             /\ r.buffer[s.input_cursor] = c
             /\ \A i \in 0 .. s.input_cursor - 1 : r.buffer[i] = s.buffer[i]
             /\ \A i \in s.input_cursor + 1 .. s.input_length : r.buffer[i] = s.buffer[i - 1]
<1> DEFINE m == s.input_cursor
           L == s.input_length
           byte(i) == CASE i = s.input_cursor     -> c
                        [] i = s.input_length + 1 -> NUL
                        [] i > s.input_cursor /\ i <= s.input_length -> s.buffer[i - 1]
                        [] OTHER -> s.buffer[i]
           b == [i \in Bytes |-> byte(i)]
<1>1. m \in Nat /\ L \in Nat /\ m <= L /\ L + 1 \in Bytes /\ s.buffer \in [Bytes -> Glyphs]
  BY DEF Screen
<1>2. insert_text(s, c) = [s EXCEPT !.buffer = b, !.input_length = @ + 1]
  BY Zenon DEF insert_text
<1>3. \A i : i = m /\ i # L + 1 /\ ~(i > m /\ i <= L) => byte(i) = c
  BY Zenon
<1>4. \A i : i # m /\ i = L + 1 /\ ~(i > m /\ i <= L) => byte(i) = NUL
  BY Zenon
<1>5. \A i : i # m /\ i # L + 1 /\ i > m /\ i <= L => byte(i) = s.buffer[i - 1]
  BY Zenon
<1>6. \A i : i # m /\ i # L + 1 /\ ~(i > m /\ i <= L) => byte(i) = s.buffer[i]
  BY Zenon
<1> HIDE DEF byte
<1>7. byte(m) = c /\ byte(L + 1) = NUL
  <2>1. m # L + 1 /\ ~(m > m /\ m <= L) /\ ~(L + 1 > m /\ L + 1 <= L)
    BY <1>1
  <2> QED
    BY <2>1, <1>3, <1>4
<1>8. \A i \in m + 1 .. L : byte(i) = s.buffer[i - 1] /\ i \in Bytes /\ i - 1 \in Bytes
  <2> TAKE i \in m + 1 .. L
  <2>1. i # m /\ i # L + 1 /\ i > m /\ i <= L /\ i \in Bytes /\ i - 1 \in Bytes
    BY <1>1, Sizes DEF Bytes
  <2> QED
    BY <2>1, <1>5
<1>9. \A i \in Bytes : i < m \/ i > L + 1 => byte(i) = s.buffer[i]
  <2> SUFFICES ASSUME NEW i \in Bytes, i < m \/ i > L + 1 PROVE byte(i) = s.buffer[i]
    OBVIOUS
  <2>0. i \in Int
    BY DEF Bytes
  <2> HIDE DEF b
  <2>1. i # m /\ i # L + 1 /\ ~(i > m /\ i <= L)
    BY <2>0, <1>1
  <2> QED
    BY <2>1, <1>6
<1>10. \A i \in Bytes : byte(i) \in Glyphs
  <2> TAKE i \in Bytes
  <2>0. i \in Int
    BY DEF Bytes
  <2> HIDE DEF b
  <2>1. i = m \/ i = L + 1 \/ i \in m + 1 .. L \/ i < m \/ i > L + 1
    BY <2>0, <1>1
  <2>2. CASE i = m
    BY <2>2, <1>7, Characters
  <2>3. CASE i = L + 1
    BY <2>3, <1>7, Characters
  <2>4. CASE i \in m + 1 .. L
    BY <2>4, <1>1, <1>8
  <2>5. CASE i < m \/ i > L + 1
    BY <2>5, <1>1, <1>9
  <2> QED
    BY <2>1, <2>2, <2>3, <2>4, <2>5
<1>11. b \in [Bytes -> Glyphs]
  BY <1>10
<1>12. m \in Bytes /\ b[m] = c
  BY <1>1, <1>7, Sizes DEF Bytes
<1>13. \A i \in 0 .. m - 1 : b[i] = s.buffer[i]
  <2> TAKE i \in 0 .. m - 1
  <2>1. i \in Bytes /\ i < m
    BY <1>1, Sizes DEF Bytes
  <2> QED
    BY <2>1, <1>9
<1>14. \A i \in m + 1 .. L : b[i] = s.buffer[i - 1]
  BY <1>8
<1> HIDE DEF b
<1>15. PICK r : r = insert_text(s, c)
  OBVIOUS
<1>16. /\ r \in Screen /\ r.buffer = b /\ r.input_length = L + 1 /\ r.input_cursor = m
       /\ r.input_start_x = s.input_start_x /\ r.input_start_y = s.input_start_y
  <2>1. PICK d \in [Bytes -> Glyphs], k \in Nat : d = b /\ k = L + 1
    BY <1>1, <1>11
  <2>2. r = [s EXCEPT !.buffer = d, !.input_length = k]
    BY <2>1, <1>2, <1>15, Zenon
  <2>3. /\ r \in Screen /\ r.buffer = d /\ r.input_length = k /\ r.input_cursor = m
        /\ r.input_start_x = s.input_start_x /\ r.input_start_y = s.input_start_y
    BY <2>2 DEF Screen
  <2> QED
    BY <2>1, <2>3
<1> QED
  BY <1>12, <1>13, <1>14, <1>15, <1>16, Zenon

(* The lines of s and r differ at most in the row they start on.           *)
SameLine(s, r) ==
  /\ r.buffer = s.buffer /\ r.input_length = s.input_length /\ r.input_cursor = s.input_cursor
  /\ r.input_start_x = s.input_start_x

(* Beyond the bottom the text and the start of the line move up together.  *)
LEMMA KeepRowScrolls ==
  ASSUME NEW s \in Screen, NEW u \in With(s), NEW i \in Nat, Row(s, i) >= H,
         s.input_start_y > 0
  PROVE  \E r \in Screen, v \in [Cells -> Glyphs] :
           /\ KeepRow(u, i) = [vga |-> v, s |-> r]
           /\ SameLine(s, r) /\ r.input_start_y = s.input_start_y - 1
           /\ \A x \in 0 .. W * H - W - 1 : v[x] = u.vga[x + W]
<1>1. u \in [vga : [Cells -> Glyphs], s : Loose] /\ u.s = s
  BY ScreenLoose DEF With
<1>2. PICK z, v : z = screen_scroll(u) /\ v = screen_scroll(u).vga
  OBVIOUS
<1>3. /\ z = [vga |-> v, s |-> [s EXCEPT !.cursor_y = H - 1]] /\ v \in [Cells -> Glyphs]
      /\ \A x \in 0 .. W * H - W - 1 : v[x] = u.vga[x + W]
  BY <1>1, <1>2, ScrollIs
<1>4. KeepRow(u, i) = [z EXCEPT !.s.input_start_y = IF @ > 0 THEN @ - 1 ELSE @]
  BY <1>1, <1>2, Zenon DEF KeepRow
<1> DEFINE r == [s EXCEPT !.cursor_y = H - 1, !.input_start_y = s.input_start_y - 1]
<1>5. r \in Screen /\ SameLine(s, r) /\ r.input_start_y = s.input_start_y - 1
  <2>1. s.input_start_y - 1 \in 0 .. H - 1
    BY Sizes DEF Screen
  <2>2. PICK y \in 0 .. H - 1, z2 \in 0 .. H - 1 : y = s.input_start_y - 1 /\ z2 = H - 1
    BY <2>1, Sizes
  <2>3. r = [s EXCEPT !.cursor_y = z2, !.input_start_y = y]
    BY <2>2, Zenon
  <2> HIDE DEF r
  <2>4. r \in Screen /\ SameLine(s, r) /\ r.input_start_y = y
    BY <2>3 DEF Screen, SameLine
  <2> QED
    BY <2>2, <2>4
<1>6. z.s.input_start_y = s.input_start_y /\ z.s = [s EXCEPT !.cursor_y = H - 1]
  BY <1>3 DEF Screen
<1>7. KeepRow(u, i) = [vga |-> v, s |-> r]
  BY <1>3, <1>4, <1>6
<1> HIDE DEF r
<1> QED
  BY <1>3, <1>5, <1>7
(* A line that starts one row higher has all its cells one row higher.     *)
LEMMA CellUp ==
  ASSUME NEW s \in Screen, NEW r \in Screen, r.input_start_x = s.input_start_x,
         r.input_start_y = s.input_start_y - 1, NEW i \in Nat
  PROVE  Cell(r, i) = Cell(s, i) - W /\ Cell(r, i) \in Nat
<1>1. s.input_start_y \in Nat /\ s.input_start_x \in Nat /\ s.input_start_y - 1 \in Nat
  BY Sizes DEF Screen
<1>2. (s.input_start_y - 1) * W = s.input_start_y * W - W /\ (s.input_start_y - 1) * W \in Nat
  BY <1>1, Sizes
<1> QED
  BY <1>1, <1>2, Sizes DEF Cell

(* The blank behind the end of the line is the one character that may make *)
(* the display scroll, and then by one row.                                *)
LEMMA LastBlank ==
  ASSUME NEW s \in Screen, NEW u \in With(s), NEW i \in Nat, i > 0, Cell(s, i - 1) < W * H,
         s.input_start_y = 0 => Cell(s, i) < W * H
  PROVE  \E r \in Screen, v \in [Cells -> Glyphs] :
           /\ Draw(u, i, " ") = [vga |-> v, s |-> r] /\ SameLine(s, r)
           /\ Cell(r, i) < W * H /\ v[Cell(r, i)] = " "
           /\ \A j \in 0 .. i - 1 : v[Cell(r, j)] = u.vga[Cell(s, j)]
<1>1. s \in Loose /\ u.s = s /\ u.vga \in [Cells -> Glyphs] /\ " " \in Glyphs
  BY ScreenLoose, Characters DEF With
<1>2. PICK base \in Nat : \A j \in Nat : Cell(s, j) = base + j
  BY <1>1, CellIs
<1>3. i - 1 \in Nat /\ \A j \in 0 .. i - 1 : j \in Nat /\ Cell(s, j) < W * H /\ Cell(s, j) \in Cells /\ Cell(s, j) < Cell(s, i)
  BY <1>2, Sizes DEF Cells
<1>4. CASE Cell(s, i) < W * H
  <2> DEFINE v == [u.vga EXCEPT ![Cell(s, i)] = " "]
  <2>1. Draw(u, i, " ") = [vga |-> v, s |-> s]
    BY <1>1, <1>4, DrawIs
  <2>2. Cell(s, i) \in Cells
    BY <1>2, <1>4, Sizes DEF Cells
  <2>3. v \in [Cells -> Glyphs] /\ v[Cell(s, i)] = " "
    BY <1>1, <2>2
  <2>4. \A j \in 0 .. i - 1 : v[Cell(s, j)] = u.vga[Cell(s, j)]
    <3> TAKE j \in 0 .. i - 1
    <3>1. Cell(s, j) \in Cells /\ Cell(s, j) # Cell(s, i)
      BY <1>2, <1>3
    <3> QED
      BY <1>1, <2>2, <3>1
  <2>5. SameLine(s, s)
    BY DEF SameLine
  <2> HIDE DEF v
  <2> QED
    BY <1>4, <2>1, <2>3, <2>4, <2>5
<1>5. CASE Cell(s, i) >= W * H
  <2>0. /\ Cell(s, i) \in Nat /\ Row(s, i) \in Nat /\ Col(s, i) \in 0 .. W - 1
        /\ Row(s, i) * W \in Nat /\ Row(s, i) * W + Col(s, i) = Cell(s, i)
        /\ Row(s, i) < H <=> Cell(s, i) < W * H
    BY <1>1, LinePlace
  <2>1. Row(s, i) >= H /\ Row(s, i) * W + Col(s, i) = Cell(s, i) /\ Col(s, i) \in Nat /\ Col(s, i) < W
    BY <1>5, <2>0, Sizes
  <2>2. Row(s, i - 1) < H
    <3>1. Row(s, i - 1) < H <=> Cell(s, i - 1) < W * H
      BY <1>1, <1>3, LinePlace
    <3> QED
      BY <3>1
  <2>3. Row(s, i) = H
    <3>1. PICK k \in Nat : k = i - 1 /\ i = k + 1
      BY <1>3
    <3>2. Row(s, k) < H /\ Row(s, k + 1) >= H
      BY <2>1, <2>2, <3>1
    <3>3. Row(s, k + 1) = H
      BY <1>1, <3>2, NextPlace
    <3> QED
      BY <3>1, <3>3
  <2>4. s.input_start_y > 0
    BY <1>2, <1>5, Sizes DEF Screen
  <2>5. PICK r \in Screen, w \in [Cells -> Glyphs] :
           /\ KeepRow(u, i) = [vga |-> w, s |-> r]
           /\ SameLine(s, r) /\ r.input_start_y = s.input_start_y - 1
           /\ \A x \in 0 .. W * H - W - 1 : w[x] = u.vga[x + W]
    BY <2>1, <2>4, KeepRowScrolls
  <2>6. \A j \in Nat : Cell(r, j) = Cell(s, j) - W /\ Cell(r, j) \in Nat
    BY <2>5, CellUp DEF SameLine
  <2>7. LastRow(u.s, i) * W + Col(u.s, i) = Cell(r, i) /\ Cell(r, i) < W * H
    <3>1. LastRow(u.s, i) = H - 1
      BY <1>1, <2>1 DEF LastRow
    <3>2. (H - 1) * W + Col(s, i) = Cell(s, i) - W
      BY <2>1, <2>3, Sizes
    <3>3. LastRow(u.s, i) * W + Col(u.s, i) = Cell(s, i) - W
      BY <1>1, <3>1, <3>2, Zenon
    <3>4. Cell(r, i) = Cell(s, i) - W
      BY <2>6
    <3>5. (H - 1) * W = W * H - W
      BY Sizes
    <3>6. Cell(s, i) - W < W * H
      BY <2>1, <3>2, <3>5, Sizes
    <3> QED
      BY <3>3, <3>4, <3>6
  <2> DEFINE v == [w EXCEPT ![Cell(r, i)] = " "]
  <2>8. Draw(u, i, " ") = [vga |-> v, s |-> r]
    <3>1. Draw(u, i, " ") = [[vga |-> w, s |-> r] EXCEPT !.vga[Cell(r, i)] = " "]
      BY <2>5, <2>7, Zenon DEF Draw
    <3> QED
      BY <3>1
  <2>9. Cell(r, i) \in Cells
    BY <2>6, <2>7, Sizes DEF Cells
  <2>10. v \in [Cells -> Glyphs] /\ v[Cell(r, i)] = " "
    BY <1>1, <2>5, <2>9
  <2>11. \A j \in 0 .. i - 1 : v[Cell(r, j)] = u.vga[Cell(s, j)]
    <3> TAKE j \in 0 .. i - 1
    <3>1. Cell(r, j) = Cell(s, j) - W /\ Cell(r, j) \in Nat /\ Cell(r, i) = Cell(s, i) - W
      BY <1>3, <2>6
    <3>2. /\ Cell(r, j) \in Cells /\ Cell(r, j) # Cell(r, i)
          /\ Cell(r, j) \in 0 .. W * H - W - 1 /\ Cell(r, j) + W = Cell(s, j)
      <4>1. /\ Cell(s, j) \in Nat /\ Cell(s, i) \in Nat /\ Cell(s, j) < Cell(s, i)
            /\ Cell(s, j) < W * H
        BY <1>2, <1>3
      <4> QED
        BY <3>1, <4>1, Sizes DEF Cells
    <3>3. v[Cell(r, j)] = w[Cell(r, j)]
      BY <2>5, <2>9, <3>2
    <3> QED
      BY <2>5, <3>2, <3>3
  <2> HIDE DEF v
  <2> QED
    BY <2>5, <2>7, <2>8, <2>10, <2>11
<1>6. Cell(s, i) < W * H \/ Cell(s, i) >= W * H
  BY <1>2, Sizes
<1> QED
  BY <1>4, <1>5, <1>6

(* A line that has room for one more character.                            *)
Ready(s) ==
  /\ s \in Screen /\ s.input_start_x = 1 /\ s.input_cursor <= s.input_length
  /\ s.input_length < MaxInput /\ Cell(s, s.input_length) < W * H

LEMMA ReadyBytes ==
  ASSUME NEW s, Ready(s)
  PROVE  /\ s.input_length \in Nat /\ s.input_cursor \in Nat /\ s.input_length < 2 * W * H - 1
         /\ \A i \in 0 .. s.input_length + 1 : i \in Bytes
         /\ s.input_start_y = 0 => Cell(s, s.input_length + 1) < W * H
<1>1. MaxInput \in Nat /\ MaxInput + 1 < W * H
  BY ConsoleAssumption DEF W, H
<1>2. s.input_length \in Nat /\ s.input_cursor \in Nat /\ s.input_length < MaxInput /\ s.input_start_x = 1
  BY DEF Ready, Screen
<1>3. s.input_start_y = 0 => Cell(s, s.input_length + 1) = s.input_length + 2
  BY <1>2, Sizes DEF Cell
<1> QED
  BY <1>1, <1>2, <1>3, Sizes DEF Bytes
(* The place of a character depends on where the line starts only.         *)
LEMMA SamePlace ==
  ASSUME NEW s, NEW r, r.input_start_x = s.input_start_x, r.input_start_y = s.input_start_y, NEW i
  PROVE  Row(r, i) = Row(s, i) /\ Col(r, i) = Col(s, i) /\ Cell(r, i) = Cell(s, i)
  BY Zenon DEF Row, Col, Cell

(* A screen whose cursor is put at the caret.                              *)
AtPlace(s) == [s EXCEPT !.cursor_x = Col(s, s.input_cursor), !.cursor_y = Row(s, s.input_cursor)]

LEMMA AtPlaceIs ==
  ASSUME NEW s \in Screen, Cell(s, s.input_cursor) < W * H
  PROVE  /\ AtPlace(s) \in Screen /\ SameInput(s, AtPlace(s)) /\ AtCaret(AtPlace(s))
         /\ \A i : Cell(AtPlace(s), i) = Cell(s, i)
<1>1. s \in Loose /\ s.input_cursor \in Nat
  BY ScreenLoose DEF Screen
<1>2. PICK x, y : x = Col(s, s.input_cursor) /\ y = Row(s, s.input_cursor)
  OBVIOUS
<1>3. y \in Nat /\ x \in 0 .. W - 1 /\ (y < H <=> Cell(s, s.input_cursor) < W * H)
  BY <1>1, <1>2, LinePlace
<1>4. x \in 0 .. W /\ y \in 0 .. H - 1
  BY <1>3, Sizes
<1>5. PICK r : r = AtPlace(s)
  OBVIOUS
<1>6. r = [s EXCEPT !.cursor_x = x, !.cursor_y = y]
  BY <1>2, <1>5, Zenon DEF AtPlace
<1>7. r \in Screen /\ SameInput(s, r) /\ r.cursor_x = x /\ r.cursor_y = y
  BY <1>4, <1>6 DEF Screen, SameInput
<1>8. \A i : Row(r, i) = Row(s, i) /\ Col(r, i) = Col(s, i) /\ Cell(r, i) = Cell(s, i)
  BY <1>7, SamePlace, Zenon DEF SameInput
<1>9. AtCaret(r)
  BY <1>2, <1>7, <1>8, Zenon DEF AtCaret, SameInput
<1> QED
  BY <1>5, <1>7, <1>8, <1>9, Zenon

(* Inserting a character: the line is longer by it, in the buffer and on   *)
(* the display, and the caret is behind it.                                *)
Inserted(t, c, r) ==
  LET s == t.s
      m == t.s.input_cursor
      L == t.s.input_length
  IN  /\ r \in Terminals /\ r.s.input_start_x = 1
      /\ r.s.input_length = L + 1 /\ r.s.input_cursor = m + 1
      /\ Cell(r.s, L + 1) < W * H /\ AtCaret(r.s)
      /\ r.s.buffer = insert_text(s, c).buffer
      /\ r.vga[Cell(r.s, L + 1)] = " "
      /\ \A i \in m .. L : r.vga[Cell(r.s, i)] = r.s.buffer[i]
      /\ \A i \in 0 .. m - 1 : r.vga[Cell(r.s, i)] = t.vga[Cell(s, i)]

LEMMA InsertChar ==
  ASSUME NEW t \in Terminals, NEW c \in Chars, Ready(t.s)
  PROVE  Inserted(t, c, input_insert_char_at_cursor(t, c))
<1>1. PICK v0 \in [Cells -> Glyphs], s \in Screen : t = [vga |-> v0, s |-> s]
  BY DEF Terminals
<1>2. t.s = s /\ t.vga = v0 /\ Ready(s)
  BY <1>1
<1>3. PICK L \in Nat, m \in Nat : L = s.input_length /\ m = s.input_cursor
  BY DEF Screen
<1>4. /\ m <= L /\ L < 2 * W * H - 1 /\ (\A i \in 0 .. L + 1 : i \in Bytes)
      /\ s.input_start_x = 1 /\ Cell(s, L) < W * H
      /\ s.input_start_y = 0 => Cell(s, L + 1) < W * H
  BY <1>2, <1>3, ReadyBytes DEF Ready
<1>5. PICK s1 : s1 = insert_text(s, c)
  OBVIOUS
<1>6. /\ s1 \in Screen /\ s1 \in Loose /\ s1.input_length = L + 1 /\ s1.input_cursor = m
      /\ s1.input_start_x = s.input_start_x /\ s1.input_start_y = s.input_start_y
  <2>1. s.input_cursor <= s.input_length /\ s.input_length + 1 \in Bytes
    BY <1>3, <1>4
  <2> QED
    BY <2>1, <1>3, <1>5, InsertText, ScreenLoose
<1>7. \A i : Cell(s1, i) = Cell(s, i)
  BY <1>6, SamePlace, Zenon
<1>8. PICK a : a = [vga |-> v0, s |-> s1]
  OBVIOUS
<1>9. a \in With(s1) /\ a.s = s1 /\ a.vga = v0 /\ a = [t EXCEPT !.s = insert_text(t.s, c)]
  BY <1>1, <1>2, <1>5, <1>8 DEF With
<1>10. PICK base \in Nat : \A j \in Nat : Cell(s, j) = base + j
  BY CellIs, ScreenLoose
<1>11. LineFits(s1, m)
  <2>1. ASSUME NEW j \in m .. s1.input_length - 1
        PROVE  j \in Bytes /\ Cell(s1, j) < W * H
    <3>1. j \in 0 .. L + 1 /\ j \in Nat /\ j <= L
      BY <1>6
    <3>2. Cell(s1, j) = base + j /\ base + L < W * H
      BY <3>1, <1>4, <1>7, <1>10
    <3> QED
      BY <3>1, <3>2, <1>4, Sizes
  <2> QED
    BY <2>1, <1>4, <1>6 DEF LineFits
<1>12. PICK b : b = Redraw(a, m)
  OBVIOUS
<1>13. /\ b \in With(s1) /\ b.s = s1
       /\ \A j \in m .. L : b.vga[Cell(s1, j)] = s1.buffer[j]
       /\ \A x \in Cells : x < Cell(s1, m) \/ x >= Cell(s1, L + 1) => b.vga[x] = v0[x]
  <2>1. PICK f : DrawChain(f, s1, m, a) /\ f[s1.input_length - m] = b
    BY <1>9, <1>11, <1>12, RedrawChain
  <2>2. /\ b \in With(s1)
        /\ \A j \in m .. s1.input_length - 1 : b.vga[Cell(s1, j)] = s1.buffer[j]
        /\ \A x \in Cells : x < Cell(s1, m) \/ x >= Cell(s1, s1.input_length)
                              => b.vga[x] = a.vga[x]
    <3>1. IsPainted(f[s1.input_length - m], s1, m, a)
      BY <2>1, <1>9, <1>11, Painted
    <3> QED
      BY <2>1, <3>1, Zenon DEF IsPainted
  <2>3. s1.input_length - 1 = L
    BY <1>6
  <2> QED
    BY <2>2, <2>3, <1>6, <1>9 DEF With
<1>14. PICK r \in Screen, v \in [Cells -> Glyphs] :
         /\ Draw(b, L + 1, " ") = [vga |-> v, s |-> r] /\ SameLine(s1, r)
         /\ Cell(r, L + 1) < W * H /\ v[Cell(r, L + 1)] = " "
         /\ \A j \in 0 .. L : v[Cell(r, j)] = b.vga[Cell(s1, j)]
  <2>1. PICK k \in Nat : k = L + 1 /\ k > 0 /\ k - 1 = L
    OBVIOUS
  <2>2. Cell(s1, k - 1) < W * H /\ (s1.input_start_y = 0 => Cell(s1, k) < W * H)
    BY <2>1, <1>4, <1>6, <1>7
  <2>3. \E r \in Screen, v \in [Cells -> Glyphs] :
         /\ Draw(b, k, " ") = [vga |-> v, s |-> r] /\ SameLine(s1, r)
         /\ Cell(r, k) < W * H /\ v[Cell(r, k)] = " "
         /\ \A j \in 0 .. k - 1 : v[Cell(r, j)] = b.vga[Cell(s1, j)]
    BY <2>1, <2>2, <1>6, <1>13, LastBlank
  <2> QED
    BY <2>1, <2>3
<1>15. PICK r1 : r1 = [r EXCEPT !.input_cursor = m + 1]
  OBVIOUS
<1>16. /\ r1 \in Screen /\ r1.input_cursor = m + 1 /\ r1.input_length = L + 1
       /\ r1.buffer = s1.buffer /\ r1.input_start_x = 1
       /\ r1.input_start_x = r.input_start_x /\ r1.input_start_y = r.input_start_y
       /\ r.input_cursor = m
  <2>1. PICK k \in Nat : k = m + 1
    OBVIOUS
  <2>2. r1 = [r EXCEPT !.input_cursor = k]
    BY <1>15, <2>1, Zenon
  <2>3. /\ r1 \in Screen /\ r1.input_cursor = k /\ r1.input_length = r.input_length
        /\ r1.buffer = r.buffer
        /\ r1.input_start_x = r.input_start_x /\ r1.input_start_y = r.input_start_y
    BY <2>2 DEF Screen
  <2> QED
    BY <2>1, <2>3, <1>4, <1>6, <1>14 DEF SameLine
<1>17. \A i : Cell(r1, i) = Cell(r, i)
  BY <1>16, SamePlace, Zenon
<1>18. Cell(r1, m + 1) < W * H
  <2>1. PICK top \in Nat : \A j \in Nat : Cell(r1, j) = top + j
    BY <1>16, CellIs, ScreenLoose
  <2>2. Cell(r1, L + 1) < W * H
    BY <1>14, <1>17
  <2>3. Cell(r1, m + 1) = top + m + 1 /\ Cell(r1, L + 1) = top + L + 1
    BY <2>1
  <2> QED
    BY <2>2, <2>3, <1>4, Sizes
<1>19. PICK e : e = [vga |-> v, s |-> r1]
  OBVIOUS
<1>20. /\ e.s = r1 /\ e.vga = v
       /\ Draw(b, b.s.input_length, " ") = [vga |-> v, s |-> r]
       /\ e = [Draw(b, b.s.input_length, " ") EXCEPT !.s.input_cursor = @ + 1]
  <2>1. Draw(b, b.s.input_length, " ") = [vga |-> v, s |-> r]
    BY <1>6, <1>13, <1>14, Zenon
  <2>2. r1 = [r EXCEPT !.input_cursor = r.input_cursor + 1]
    BY <1>15, <1>16, Zenon
  <2>3. [[vga |-> v, s |-> r] EXCEPT !.s.input_cursor = @ + 1] = [vga |-> v, s |-> r1]
    BY <2>2
  <2> QED
    BY <2>1, <2>3, <1>19
<1>21. Row(r1, m + 1) < H /\ ~(Row(r1, m + 1) >= H)
  <2>1. Row(r1, m + 1) \in Nat /\ (Row(r1, m + 1) < H <=> Cell(r1, m + 1) < W * H)
    BY <1>16, ScreenLoose, LinePlace
  <2> QED
    BY <2>1, <1>18, Sizes
<1>22. KeepRow(e, m + 1) = e /\ LastRow(r1, m + 1) = Row(r1, m + 1)
  BY <1>20, <1>21, Zenon DEF KeepRow, LastRow
<1>23. PICK z : z = input_insert_char_at_cursor(t, c)
  OBVIOUS
<1>24. z = [KeepRow(e, e.s.input_cursor) EXCEPT !.s.cursor_x = Col(e.s, e.s.input_cursor),
                                                !.s.cursor_y = LastRow(e.s, e.s.input_cursor)]
  <2>1. c \in Chars /\ t.s.input_length < 2 * W * H - 1
    BY <1>2, <1>3, <1>4
  <2>2. a.s.input_cursor = m
    BY <1>6, <1>9
  <2>3. b = FoldLeft(LAMBDA u, i : Draw(u, i, u.s.buffer[i]), a, From(a.s, a.s.input_cursor))
    BY <2>2, <1>12, Zenon DEF Redraw
  <2> QED
    BY <2>1, <2>3, <1>9, <1>20, <1>23, Zenon DEF input_insert_char_at_cursor
<1>25. z = [e EXCEPT !.s.cursor_x = Col(r1, m + 1), !.s.cursor_y = Row(r1, m + 1)]
  BY <1>16, <1>20, <1>22, <1>24, Zenon
<1>26. PICK y : y = AtPlace(r1)
  OBVIOUS
<1>27. y = [r1 EXCEPT !.cursor_x = Col(r1, m + 1), !.cursor_y = Row(r1, m + 1)]
  BY <1>16, <1>26, Zenon DEF AtPlace
<1>28. z = [vga |-> v, s |-> y]
  BY <1>19, <1>25, <1>27
<1>29. y \in Screen /\ SameInput(r1, y) /\ AtCaret(y) /\ \A i : Cell(y, i) = Cell(r1, i)
  <2>1. Cell(r1, r1.input_cursor) < W * H
    BY <1>16, <1>18
  <2> QED
    BY <2>1, <1>16, <1>26, AtPlaceIs
<1>30. z.vga = v /\ z.s = y /\ z \in Terminals
  BY <1>14, <1>28, <1>29 DEF Terminals
<1>31. /\ y.input_start_x = 1 /\ y.input_length = L + 1 /\ y.input_cursor = m + 1
       /\ y.buffer = s1.buffer /\ Cell(y, L + 1) < W * H /\ v[Cell(y, L + 1)] = " "
  BY <1>14, <1>16, <1>17, <1>29 DEF SameInput
<1>32. ASSUME NEW i \in m .. L
       PROVE  v[Cell(y, i)] = y.buffer[i]
  <2>1. i \in 0 .. L /\ Cell(y, i) = Cell(r, i)
    BY <1>4, <1>17, <1>29
  <2> QED
    BY <2>1, <1>13, <1>14, <1>31
<1>33. ASSUME NEW i \in 0 .. m - 1
       PROVE  v[Cell(y, i)] = v0[Cell(s, i)]
  <2>1. i \in 0 .. L /\ Cell(y, i) = Cell(r, i) /\ i \in Nat
    BY <1>4, <1>17, <1>29
  <2>2. Cell(s1, i) = base + i /\ Cell(s1, m) = base + m /\ base + L < W * H /\ Cell(s, i) = Cell(s1, i)
    BY <2>1, <1>4, <1>7, <1>10
  <2>3. Cell(s1, i) \in Cells /\ Cell(s1, i) < Cell(s1, m)
    BY <2>1, <2>2, <1>4, Sizes DEF Cells
  <2> QED
    BY <2>1, <2>2, <2>3, <1>13, <1>14
<1>34. z.s.buffer = insert_text(s, c).buffer
  BY <1>5, <1>30, <1>31
<1> QED
  BY <1>2, <1>3, <1>23, <1>29, <1>30, <1>31, <1>32, <1>33, <1>34, Zenon DEF Inserted
(* The text of a line with the character before the caret removed.         *)
LEMMA DeleteText ==
  ASSUME NEW s \in Screen, s.input_cursor <= s.input_length, s.input_cursor > 0,
         s.input_length \in Bytes
  PROVE  LET r == delete_text(s)
         IN  /\ r \in Screen /\ r.input_length = s.input_length - 1
             /\ r.input_cursor = s.input_cursor - 1
             /\ r.input_start_x = s.input_start_x /\ r.input_start_y = s.input_start_y
             /\ \A i \in 0 .. s.input_cursor - 2 : r.buffer[i] = s.buffer[i]
             /\ \A i \in s.input_cursor - 1 .. s.input_length - 2 : r.buffer[i] = s.buffer[i + 1]
<1> DEFINE m == s.input_cursor
           L == s.input_length
           byte(i) == CASE i = s.input_length - 1  -> NUL
                        [] i >= s.input_cursor - 1 /\ i < s.input_length - 1 -> s.buffer[i + 1]
                        [] OTHER -> s.buffer[i]
           b == [i \in Bytes |-> byte(i)]
<1>1. m \in Nat /\ L \in Nat /\ m <= L /\ m > 0 /\ L \in Bytes /\ s.buffer \in [Bytes -> Glyphs]
  BY DEF Screen
<1>2. delete_text(s) = [s EXCEPT !.buffer = b, !.input_length = @ - 1, !.input_cursor = @ - 1]
  BY Zenon DEF delete_text
<1>3. \A i : i = L - 1 /\ ~(i >= m - 1 /\ i < L - 1) => byte(i) = NUL
  BY Zenon
<1>4. \A i : i # L - 1 /\ i >= m - 1 /\ i < L - 1 => byte(i) = s.buffer[i + 1]
  BY Zenon
<1>5. \A i : i # L - 1 /\ ~(i >= m - 1 /\ i < L - 1) => byte(i) = s.buffer[i]
  BY Zenon
<1> HIDE DEF byte
<1>6. byte(L - 1) = NUL
  <2>1. ~(L - 1 >= m - 1 /\ L - 1 < L - 1)
    BY <1>1
  <2> QED
    BY <2>1, <1>3
<1>7. \A i \in m - 1 .. L - 2 : byte(i) = s.buffer[i + 1] /\ i \in Bytes /\ i + 1 \in Bytes
  <2> TAKE i \in m - 1 .. L - 2
  <2>1. i # L - 1 /\ i >= m - 1 /\ i < L - 1 /\ i \in Bytes /\ i + 1 \in Bytes
    BY <1>1, Sizes DEF Bytes
  <2> QED
    BY <2>1, <1>4
<1>8. \A i \in Bytes : i < m - 1 \/ i > L - 1 => byte(i) = s.buffer[i]
  <2> SUFFICES ASSUME NEW i \in Bytes, i < m - 1 \/ i > L - 1 PROVE byte(i) = s.buffer[i]
    OBVIOUS
  <2>0. i \in Int
    BY DEF Bytes
  <2> HIDE DEF b
  <2>1. i # L - 1 /\ ~(i >= m - 1 /\ i < L - 1)
    BY <2>0, <1>1
  <2> QED
    BY <2>1, <1>5
<1>9. \A i \in Bytes : byte(i) \in Glyphs
  <2> TAKE i \in Bytes
  <2>0. i \in Int
    BY DEF Bytes
  <2> HIDE DEF b
  <2>1. i = L - 1 \/ i \in m - 1 .. L - 2 \/ i < m - 1 \/ i > L - 1
    BY <2>0, <1>1
  <2>2. CASE i = L - 1
    BY <2>2, <1>6, Characters
  <2>3. CASE i \in m - 1 .. L - 2
    BY <2>3, <1>1, <1>7
  <2>4. CASE i < m - 1 \/ i > L - 1
    BY <2>4, <1>1, <1>8
  <2> QED
    BY <2>1, <2>2, <2>3, <2>4
<1>10. b \in [Bytes -> Glyphs]
  BY <1>9
<1>11. \A i \in 0 .. m - 2 : b[i] = s.buffer[i]
  <2> TAKE i \in 0 .. m - 2
  <2>1. i \in Bytes /\ i < m - 1
    BY <1>1, Sizes DEF Bytes
  <2> QED
    BY <2>1, <1>8
<1>12. \A i \in m - 1 .. L - 2 : b[i] = s.buffer[i + 1]
  BY <1>7
<1> HIDE DEF b
<1>13. PICK r : r = delete_text(s)
  OBVIOUS
<1>14. /\ r \in Screen /\ r.buffer = b /\ r.input_length = L - 1 /\ r.input_cursor = m - 1
       /\ r.input_start_x = s.input_start_x /\ r.input_start_y = s.input_start_y
  <2>1. PICK d \in [Bytes -> Glyphs], k \in Nat, l \in Nat : d = b /\ k = L - 1 /\ l = m - 1
    BY <1>1, <1>10
  <2>2. r = [s EXCEPT !.buffer = d, !.input_length = k, !.input_cursor = l]
    BY <2>1, <1>2, <1>13, Zenon
  <2>3. /\ r \in Screen /\ r.buffer = d /\ r.input_length = k /\ r.input_cursor = l
        /\ r.input_start_x = s.input_start_x /\ r.input_start_y = s.input_start_y
    BY <2>2 DEF Screen
  <2> QED
    BY <2>1, <2>3
<1> QED
  BY <1>11, <1>12, <1>13, <1>14, Zenon

LEMMA MoveCursorIs ==
  ASSUME NEW s \in Screen, NEW u \in With(s)
  PROVE  MoveCursor(u) = [vga |-> u.vga, s |-> AtPlace(s)]
<1>1. PICK v \in [Cells -> Glyphs] : u = [vga |-> v, s |-> s]
  BY DEF With
<1>2. u.s = s /\ u.vga = v
  BY <1>1
<1>3. PICK x, y : x = Col(s, s.input_cursor) /\ y = Row(s, s.input_cursor)
  OBVIOUS
<1>4. MoveCursor(u) = [u EXCEPT !.s.cursor_x = x, !.s.cursor_y = y]
  BY <1>2, <1>3, Zenon DEF MoveCursor
<1>5. MoveCursor(u) = [vga |-> v, s |-> [s EXCEPT !.cursor_x = x, !.cursor_y = y]]
  BY <1>1, <1>4
<1> QED
  BY <1>2, <1>3, <1>5, Zenon DEF AtPlace

(* A line that is on the display.                                          *)
Held(s) ==
  /\ s \in Screen /\ s.input_start_x = 1 /\ s.input_cursor <= s.input_length
  /\ s.input_length <= MaxInput /\ Cell(s, s.input_length) < W * H

LEMMA HeldBytes ==
  ASSUME NEW s, Held(s)
  PROVE  /\ s.input_length \in Nat /\ s.input_cursor \in Nat
         /\ \A i \in 0 .. s.input_length : i \in Bytes /\ Cell(s, i) < W * H /\ Cell(s, i) \in Cells
         /\ \A i, j \in Nat : i # j => Cell(s, i) # Cell(s, j)
         /\ \A i, j \in Nat : i < j => Cell(s, i) < Cell(s, j)
<1>1. MaxInput \in Nat /\ MaxInput + 1 < W * H
  BY ConsoleAssumption DEF W, H
<1>2. s.input_length \in Nat /\ s.input_cursor \in Nat /\ s.input_length <= MaxInput /\ s \in Loose
  BY ScreenLoose DEF Held, Screen
<1>3. PICK base \in Nat : \A j \in Nat : Cell(s, j) = base + j
  BY <1>2, CellIs
<1>4. base + s.input_length < W * H
  BY <1>2, <1>3 DEF Held
<1> QED
  BY <1>1, <1>2, <1>3, <1>4, Sizes DEF Bytes, Cells

(* Deleting a character: the line is shorter by it, in the buffer and on   *)
(* the display, and the caret is where it was.                             *)
Deleted(t, r) ==
  LET s == t.s
      m == t.s.input_cursor
      L == t.s.input_length
  IN  /\ r \in Terminals /\ r.s.input_start_x = 1
      /\ r.s.input_length = L - 1 /\ r.s.input_cursor = m - 1
      /\ AtCaret(r.s) /\ r.s.buffer = delete_text(s).buffer
      /\ \A i : Cell(r.s, i) = Cell(s, i)
      /\ r.vga[Cell(s, L - 1)] = " "
      /\ \A i \in m - 1 .. L - 2 : r.vga[Cell(s, i)] = r.s.buffer[i]
      /\ \A i \in 0 .. m - 2 : r.vga[Cell(s, i)] = t.vga[Cell(s, i)]

LEMMA DeleteChar ==
  ASSUME NEW t \in Terminals, Held(t.s), t.s.input_cursor > 0
  PROVE  Deleted(t, input_delete_char_at_cursor(t))
<1>1. PICK v0 \in [Cells -> Glyphs], s \in Screen : t = [vga |-> v0, s |-> s]
  BY DEF Terminals
<1>2. t.s = s /\ t.vga = v0 /\ Held(s)
  BY <1>1
<1>3. PICK L \in Nat, m \in Nat : L = s.input_length /\ m = s.input_cursor
  BY DEF Screen
<1>4. m > 0 /\ m <= L /\ L > 0 /\ s.input_start_x = 1
  BY <1>2, <1>3 DEF Held
<1>5. /\ \A i \in 0 .. L : i \in Bytes /\ Cell(s, i) < W * H /\ Cell(s, i) \in Cells
      /\ \A i, j \in Nat : i # j => Cell(s, i) # Cell(s, j)
      /\ \A i, j \in Nat : i < j => Cell(s, i) < Cell(s, j)
  BY <1>2, <1>3, HeldBytes
<1>6. PICK s1 : s1 = delete_text(s)
  OBVIOUS
<1>7. /\ s1 \in Screen /\ s1 \in Loose /\ s1.input_length = L - 1 /\ s1.input_cursor = m - 1
      /\ s1.input_start_x = s.input_start_x /\ s1.input_start_y = s.input_start_y
  <2>1. s.input_cursor <= s.input_length /\ s.input_cursor > 0 /\ s.input_length \in Bytes
    BY <1>3, <1>4, <1>5
  <2> QED
    BY <2>1, <1>3, <1>6, DeleteText, ScreenLoose
<1>8. \A i : Cell(s1, i) = Cell(s, i)
  BY <1>7, SamePlace, Zenon
<1>9. PICK a : a = [vga |-> v0, s |-> s1]
  OBVIOUS
<1>10. a \in With(s1) /\ a.s = s1 /\ a.vga = v0 /\ a = [t EXCEPT !.s = delete_text(t.s)]
  BY <1>1, <1>2, <1>6, <1>9 DEF With
<1>11. PICK k \in Nat, n \in Nat : k = m - 1 /\ n = L - 1 /\ k <= n /\ n <= L /\ n - 1 = L - 2 /\ k - 1 = m - 2
  BY <1>4
<1>12. LineFits(s1, k)
  <2>1. ASSUME NEW j \in k .. s1.input_length - 1
        PROVE  j \in Bytes /\ Cell(s1, j) < W * H
    <3>1. j \in 0 .. L
      BY <1>7, <1>11
    <3> QED
      BY <3>1, <1>5, <1>8
  <2> QED
    BY <2>1, <1>7, <1>11 DEF LineFits
<1>13. PICK b : b = RedrawInside(a, k)
  OBVIOUS
<1>14. IsPainted(b, s1, k, a)
  <2>1. PICK f : DrawChain(f, s1, k, a) /\ f[s1.input_length - k] = b
    BY <1>10, <1>12, <1>13, RedrawInsideChain
  <2> QED
    BY <2>1, <1>10, <1>12, Painted
<1>15. /\ b \in With(s1) /\ b.s = s1 /\ b.vga \in [Cells -> Glyphs]
       /\ \A j \in k .. n - 1 : b.vga[Cell(s, j)] = s1.buffer[j]
       /\ \A x \in Cells : x < Cell(s, k) \/ x >= Cell(s, n) => b.vga[x] = v0[x]
  BY <1>7, <1>8, <1>10, <1>11, <1>14 DEF IsPainted, With
<1>16. PICK v : v = [b.vga EXCEPT ![Cell(s, n)] = " "]
  OBVIOUS
<1>17. Cell(s, n) < W * H /\ Cell(s, n) \in Cells /\ Cell(s, k) < W * H
  BY <1>5, <1>11
<1>18. PICK d : d = DrawInside(b, n, " ")
  OBVIOUS
<1>19. d = [vga |-> v, s |-> s1]
  <2>1. Cell(s1, n) < W * H
    BY <1>8, <1>17
  <2>2. \A c : DrawInside(b, n, c) = [vga |-> [b.vga EXCEPT ![Cell(s1, n)] = c], s |-> s1]
    BY <2>1, <1>7, <1>15, DrawIs
  <2> QED
    BY <2>2, <1>8, <1>16, <1>18, Zenon
<1>20. v \in [Cells -> Glyphs] /\ v[Cell(s, n)] = " " /\ d \in With(s1) /\ d.vga = v
  BY <1>15, <1>16, <1>17, <1>19, Characters DEF With
<1>21. \A x \in Cells : x # Cell(s, n) => v[x] = b.vga[x]
  BY <1>15, <1>16, <1>17
<1>22. PICK z, y : z = input_delete_char_at_cursor(t) /\ y = AtPlace(s1)
  OBVIOUS
<1>23. z = MoveCursor(d)
  <2>1. t.s.input_cursor > 0 /\ t.s.input_length > 0
    BY <1>2, <1>3, <1>4
  <2>2. a.s.input_cursor = k /\ b.s.input_length = n
    BY <1>7, <1>10, <1>11, <1>15
  <2>3. b = FoldLeft(LAMBDA u, i : DrawInside(u, i, u.s.buffer[i]), a, From(a.s, a.s.input_cursor))
    BY <2>2, <1>13, Zenon DEF RedrawInside
  <2> QED
    BY <2>1, <2>2, <2>3, <1>10, <1>18, <1>22, Zenon DEF input_delete_char_at_cursor
<1>24. z = [vga |-> v, s |-> y]
  BY <1>7, <1>20, <1>22, <1>23, MoveCursorIs
<1>25. y \in Screen /\ SameInput(s1, y) /\ AtCaret(y) /\ \A i : Cell(y, i) = Cell(s1, i)
  <2>1. Cell(s1, s1.input_cursor) < W * H
    BY <1>7, <1>8, <1>11, <1>17
  <2> QED
    BY <2>1, <1>7, <1>22, AtPlaceIs
<1>26. z.vga = v /\ z.s = y /\ z \in Terminals
  BY <1>20, <1>24, <1>25 DEF Terminals
<1>27. /\ y.input_start_x = 1 /\ y.input_length = n /\ y.input_cursor = k
       /\ y.buffer = s1.buffer /\ \A i : Cell(y, i) = Cell(s, i)
  BY <1>4, <1>7, <1>8, <1>11, <1>25 DEF SameInput
<1>28. ASSUME NEW i \in k .. n - 1
       PROVE  v[Cell(s, i)] = y.buffer[i]
  <2>1. i \in 0 .. L /\ i \in Nat /\ i # n
    BY <1>11
  <2> QED
    BY <2>1, <1>5, <1>15, <1>21, <1>27
<1>29. ASSUME NEW i \in 0 .. k - 1
       PROVE  v[Cell(s, i)] = v0[Cell(s, i)]
  <2>1. i \in 0 .. L /\ i \in Nat /\ i # n /\ i < k
    BY <1>11
  <2>2. Cell(s, i) \in Cells /\ Cell(s, i) # Cell(s, n) /\ Cell(s, i) < Cell(s, k)
    BY <2>1, <1>5
  <2> QED
    BY <2>2, <1>15, <1>21
<1>30. z.s.buffer = delete_text(s).buffer
  BY <1>6, <1>26, <1>27
<1> QED
  <2>1. /\ z.s.input_length = L - 1 /\ z.s.input_cursor = m - 1 /\ v[Cell(s, L - 1)] = " "
        /\ \A i \in m - 1 .. L - 2 : v[Cell(s, i)] = y.buffer[i]
        /\ \A i \in 0 .. m - 2 : v[Cell(s, i)] = v0[Cell(s, i)]
    BY <1>11, <1>20, <1>26, <1>27, <1>28, <1>29
  <2> QED
    BY <2>1, <1>2, <1>3, <1>22, <1>25, <1>26, <1>27, <1>30, Zenon DEF Deleted
LEMMA CharInserted ==
  ASSUME NEW q \in Seq(Chars), NEW m \in 0 .. Len(q), NEW c \in Chars
  PROVE  /\ InsertAt(q, m + 1, c) \in Seq(Chars) /\ Len(InsertAt(q, m + 1, c)) = Len(q) + 1
         /\ InsertAt(q, m + 1, c)[m + 1] = c
         /\ \A i \in 1 .. m : InsertAt(q, m + 1, c)[i] = q[i]
         /\ \A i \in m + 2 .. Len(q) + 1 : InsertAt(q, m + 1, c)[i] = q[i - 1]
<1>1. PICK n \in Nat : n = Len(q)
  OBVIOUS
<1>2. PICK a, b : a = SubSeq(q, 1, m) /\ b = SubSeq(q, m + 1, n)
  OBVIOUS
<1>3. a \in Seq(Chars) /\ Len(a) = m /\ \A i \in 1 .. m : a[i] = q[i]
  BY <1>1, <1>2
<1>4. b \in Seq(Chars) /\ Len(b) = n - m /\ \A i \in 1 .. n - m : b[i] = q[m + i]
  BY <1>1, <1>2
<1>5. (m + 1) - 1 = m
  OBVIOUS
<1>6. InsertAt(q, m + 1, c) = a \o <<c>> \o b
  BY <1>1, <1>2, <1>5, Zenon DEF InsertAt
<1>7. PICK d : d = a \o <<c>>
  OBVIOUS
<1>8. d \in Seq(Chars) /\ Len(d) = m + 1 /\ d[m + 1] = c /\ \A i \in 1 .. m : d[i] = q[i]
  <2>1. PICK e : e = <<c>>
    OBVIOUS
  <2>2. e \in Seq(Chars) /\ Len(e) = 1 /\ e[1] = c
    BY <2>1
  <2>3. d \in Seq(Chars) /\ Len(d) = m + 1
    BY <1>3, <1>7, <2>1, <2>2
  <2>4. \A i \in 1 .. m : d[i] = a[i]
    BY <1>3, <1>7, <2>1, <2>2
  <2>5. d[m + 1] = e[(m + 1) - m]
    BY <1>3, <1>7, <2>1, <2>2
  <2>6. (m + 1) - m = 1
    OBVIOUS
  <2> QED
    BY <1>3, <2>2, <2>3, <2>4, <2>5, <2>6
<1>9. PICK r : r = d \o b
  OBVIOUS
<1>10. /\ r \in Seq(Chars) /\ Len(r) = n + 1 /\ \A i \in 1 .. m + 1 : r[i] = d[i]
       /\ \A i \in m + 2 .. n + 1 : r[i] = b[i - (m + 1)]
  BY <1>1, <1>4, <1>8, <1>9
<1>11. \A i \in m + 2 .. n + 1 : i - (m + 1) \in 1 .. n - m /\ m + (i - (m + 1)) = i - 1
  BY <1>1
<1>12. \A i \in m + 2 .. n + 1 : r[i] = q[i - 1]
  BY <1>4, <1>10, <1>11
<1>13. r[m + 1] = c /\ \A i \in 1 .. m : r[i] = q[i]
  BY <1>8, <1>10
<1>14. r = InsertAt(q, m + 1, c)
  BY <1>6, <1>7, <1>9, Zenon
<1> QED
  BY <1>1, <1>10, <1>12, <1>13, <1>14

LEMMA CharRemoved ==
  ASSUME NEW q \in Seq(Chars), NEW m \in 1 .. Len(q)
  PROVE  /\ RemoveAt(q, m) \in Seq(Chars) /\ Len(RemoveAt(q, m)) = Len(q) - 1
         /\ \A i \in 1 .. m - 1 : RemoveAt(q, m)[i] = q[i]
         /\ \A i \in m .. Len(q) - 1 : RemoveAt(q, m)[i] = q[i + 1]
<1>1. PICK n \in Nat : n = Len(q)
  OBVIOUS
<1>2. PICK a, b : a = SubSeq(q, 1, m - 1) /\ b = SubSeq(q, m + 1, n)
  OBVIOUS
<1>3. a \in Seq(Chars) /\ Len(a) = m - 1 /\ \A i \in 1 .. m - 1 : a[i] = q[i]
  BY <1>1, <1>2
<1>4. b \in Seq(Chars) /\ Len(b) = n - m /\ \A i \in 1 .. n - m : b[i] = q[m + i]
  BY <1>1, <1>2
<1>5. PICK r : r = a \o b
  OBVIOUS
<1>6. r = RemoveAt(q, m)
  BY <1>1, <1>2, <1>5, Zenon DEF RemoveAt
<1>7. /\ r \in Seq(Chars) /\ Len(r) = n - 1 /\ \A i \in 1 .. m - 1 : r[i] = a[i]
      /\ \A i \in m .. n - 1 : r[i] = b[i - (m - 1)]
  <2>1. r \in Seq(Chars) /\ Len(r) = (m - 1) + (n - m)
    <3>1. r \in Seq(Chars)
      BY <1>3, <1>4, <1>5
    <3>2. Len(r) = Len(a) + Len(b)
      <4>1. a \in Seq(Chars) /\ b \in Seq(Chars)
        BY <1>3, <1>4
      <4> QED
        BY <4>1, <1>5
    <3> QED
      BY <3>1, <3>2, <1>3, <1>4
  <2>2. \A i \in 1 .. m - 1 : r[i] = a[i]
    BY <1>3, <1>4, <1>5
  <2>3. \A i \in (m - 1) + 1 .. (m - 1) + (n - m) : r[i] = b[i - (m - 1)]
    BY <1>1, <1>3, <1>4, <1>5
  <2>4. (m - 1) + 1 = m /\ (m - 1) + (n - m) = n - 1
    BY <1>1
  <2> QED
    BY <2>1, <2>2, <2>3, <2>4
<1>8. \A i \in m .. n - 1 : i - (m - 1) \in 1 .. n - m /\ m + (i - (m - 1)) = i + 1
  BY <1>1
<1>9. \A i \in m .. n - 1 : r[i] = q[i + 1]
  BY <1>4, <1>7, <1>8
<1> QED
  BY <1>1, <1>3, <1>6, <1>7, <1>9

----------------------------------------------------------------------------
(***************************************************************************)
(* What each operation keeps of the screen that is shown: t is the display *)
(* with it, q its line as typed and d what has disturbed it.               *)
(***************************************************************************)
Good(t, q, d) ==
  /\ t \in Terminals /\ Held(t.s) /\ t.s.input_length = Len(q)
  /\ "text" \notin d => \A i \in 0 .. t.s.input_length - 1 : t.s.buffer[i] = q[i + 1]
  /\ d = {} => /\ AtCaret(t.s)
               /\ \A i \in 0 .. t.s.input_length - 1 : t.vga[Cell(t.s, i)] = q[i + 1]
               /\ t.s.input_length > 0 => t.vga[Cell(t.s, t.s.input_length)] = " "

LEMMA GoodInsert ==
  ASSUME NEW t, NEW q \in Seq(Chars), NEW d, Good(t, q, d), Len(q) < MaxInput, NEW c \in Chars
  PROVE  /\ Good(input_insert_char_at_cursor(t, c), InsertAt(q, t.s.input_cursor + 1, c), d)
         /\ InsertAt(q, t.s.input_cursor + 1, c) \in Seq(Chars)
<1>1. t \in Terminals /\ Ready(t.s) /\ t.s \in Screen /\ Held(t.s) /\ t.s.input_length = Len(q)
  BY DEF Good, Held, Ready
<1>2. PICK L \in Nat, m \in Nat : L = t.s.input_length /\ m = t.s.input_cursor
  BY <1>1 DEF Screen
<1>3. m <= L /\ Len(q) = L /\ m \in 0 .. Len(q) /\ L < MaxInput /\ L + 1 <= MaxInput
  BY <1>1, <1>2, ConsoleAssumption DEF Ready
<1>4. PICK p : p = InsertAt(q, m + 1, c)
  OBVIOUS
<1>5. /\ p \in Seq(Chars) /\ Len(p) = L + 1 /\ p[m + 1] = c
      /\ \A i \in 1 .. m : p[i] = q[i]
      /\ \A i \in m + 2 .. L + 1 : p[i] = q[i - 1]
  BY <1>3, <1>4, CharInserted
<1>6. PICK r : r = input_insert_char_at_cursor(t, c)
  OBVIOUS
<1>7. Inserted(t, c, r)
  BY <1>1, <1>6, InsertChar
<1>8. /\ r \in Terminals /\ r.s.input_start_x = 1
      /\ r.s.input_length = L + 1 /\ r.s.input_cursor = m + 1
      /\ Cell(r.s, L + 1) < W * H /\ AtCaret(r.s)
      /\ r.s.buffer = insert_text(t.s, c).buffer
      /\ r.vga[Cell(r.s, L + 1)] = " "
      /\ \A i \in m .. L : r.vga[Cell(r.s, i)] = r.s.buffer[i]
      /\ \A i \in 0 .. m - 1 : r.vga[Cell(r.s, i)] = t.vga[Cell(t.s, i)]
  BY <1>2, <1>7, Zenon DEF Inserted
<1>9. /\ r.s.buffer[m] = c
      /\ \A i \in 0 .. m - 1 : r.s.buffer[i] = t.s.buffer[i]
      /\ \A i \in m + 1 .. L : r.s.buffer[i] = t.s.buffer[i - 1]
  <2>1. t.s.input_cursor <= t.s.input_length /\ t.s.input_length + 1 \in Bytes
    <3>1. L + 1 \in 0 .. L + 1
      OBVIOUS
    <3> QED
      BY <3>1, <1>1, <1>2, <1>3, ReadyBytes
  <2>2. PICK w : w = insert_text(t.s, c)
    OBVIOUS
  <2>3. /\ w.buffer[m] = c
        /\ \A i \in 0 .. m - 1 : w.buffer[i] = t.s.buffer[i]
        /\ \A i \in m + 1 .. L : w.buffer[i] = t.s.buffer[i - 1]
    BY <2>1, <2>2, <1>1, <1>2, InsertText
  <2> QED
    BY <2>2, <2>3, <1>8, Zenon
<1>10. r.s \in Screen /\ Held(r.s)
  <2>1. r.s \in Screen
    BY <1>8 DEF Terminals
  <2>2. /\ r.s.input_start_x = 1 /\ r.s.input_cursor <= r.s.input_length
        /\ r.s.input_length <= MaxInput
    <3>1. m + 1 <= L + 1 /\ L + 1 <= MaxInput
      BY <1>3
    <3> QED
      BY <3>1, <1>8, Zenon
  <2>3. Cell(r.s, r.s.input_length) < W * H
    BY <1>8
  <2> QED
    BY <2>1, <2>2, <2>3, Zenon DEF Held
<1>11. ASSUME "text" \notin d, NEW i \in 0 .. L
       PROVE  r.s.buffer[i] = p[i + 1]
  <2>0. \A j \in 0 .. L - 1 : t.s.buffer[j] = q[j + 1]
    BY <1>2, <1>11 DEF Good
  <2>1. CASE i = m
    BY <2>1, <1>5, <1>9
  <2>2. CASE i < m
    <3>1. i \in 0 .. m - 1 /\ i \in 0 .. L - 1 /\ i + 1 \in 1 .. m
      BY <2>2, <1>3
    <3> QED
      BY <3>1, <2>0, <1>5, <1>9
  <2>3. CASE i > m
    <3>1. /\ i \in m + 1 .. L /\ i - 1 \in 0 .. L - 1 /\ i + 1 \in m + 2 .. L + 1
          /\ (i - 1) + 1 = (i + 1) - 1
      BY <2>3, <1>3
    <3> QED
      BY <3>1, <2>0, <1>5, <1>9
  <2> QED
    BY <2>1, <2>2, <2>3
<1>12. ASSUME d = {}, NEW i \in 0 .. L
       PROVE  r.vga[Cell(r.s, i)] = p[i + 1]
  <2>1. CASE i < m
    <3>1. i \in 0 .. m - 1 /\ i \in 0 .. L - 1 /\ i + 1 \in 1 .. m
      BY <2>1, <1>3
    <3>2. t.vga[Cell(t.s, i)] = q[i + 1]
      BY <3>1, <1>2, <1>12 DEF Good
    <3> QED
      BY <3>1, <3>2, <1>5, <1>8
  <2>2. CASE i >= m
    <3>1. i \in m .. L /\ "text" \notin d
      BY <2>2, <1>12
    <3>2. r.s.buffer[i] = p[i + 1]
      BY <3>1, <1>11
    <3> QED
      BY <3>1, <3>2, <1>8
  <2> QED
    BY <2>1, <2>2
<1>13. (L + 1) - 1 = L
  OBVIOUS
<1>14. Good(r, p, d)
  BY <1>5, <1>8, <1>10, <1>11, <1>12, <1>13, Zenon DEF Good
<1> QED
  BY <1>2, <1>4, <1>5, <1>6, <1>14, Zenon
LEMMA GoodDelete ==
  ASSUME NEW t, NEW q \in Seq(Chars), NEW d, Good(t, q, d), t.s.input_cursor > 0
  PROVE  /\ Good(input_delete_char_at_cursor(t), RemoveAt(q, t.s.input_cursor), d)
         /\ RemoveAt(q, t.s.input_cursor) \in Seq(Chars)
<1>1. t \in Terminals /\ t.s \in Screen /\ Held(t.s) /\ t.s.input_length = Len(q)
  BY DEF Good, Held
<1>2. PICK L \in Nat, m \in Nat : L = t.s.input_length /\ m = t.s.input_cursor
  BY <1>1 DEF Screen
<1>3. m <= L /\ Len(q) = L /\ m > 0 /\ m \in 1 .. Len(q) /\ L <= MaxInput
  BY <1>1, <1>2 DEF Held
<1>4. PICK p : p = RemoveAt(q, m)
  OBVIOUS
<1>5. /\ p \in Seq(Chars) /\ Len(p) = L - 1
      /\ \A i \in 1 .. m - 1 : p[i] = q[i]
      /\ \A i \in m .. L - 1 : p[i] = q[i + 1]
  BY <1>3, <1>4, CharRemoved
<1>6. PICK r : r = input_delete_char_at_cursor(t)
  OBVIOUS
<1>7. Deleted(t, r)
  BY <1>1, <1>6, DeleteChar
<1>8. /\ r \in Terminals /\ r.s.input_start_x = 1
      /\ r.s.input_length = L - 1 /\ r.s.input_cursor = m - 1
      /\ AtCaret(r.s) /\ r.s.buffer = delete_text(t.s).buffer
      /\ \A i : Cell(r.s, i) = Cell(t.s, i)
      /\ r.vga[Cell(t.s, L - 1)] = " "
      /\ \A i \in m - 1 .. L - 2 : r.vga[Cell(t.s, i)] = r.s.buffer[i]
      /\ \A i \in 0 .. m - 2 : r.vga[Cell(t.s, i)] = t.vga[Cell(t.s, i)]
  BY <1>2, <1>7, Zenon DEF Deleted
<1>9. \A i \in 0 .. L : i \in Bytes /\ Cell(t.s, i) < W * H
  BY <1>1, <1>2, HeldBytes
<1>10. /\ \A i \in 0 .. m - 2 : r.s.buffer[i] = t.s.buffer[i]
       /\ \A i \in m - 1 .. L - 2 : r.s.buffer[i] = t.s.buffer[i + 1]
  <2>1. t.s.input_cursor <= t.s.input_length /\ t.s.input_length \in Bytes
    BY <1>2, <1>3, <1>9
  <2>2. PICK w : w = delete_text(t.s)
    OBVIOUS
  <2>3. /\ \A i \in 0 .. m - 2 : w.buffer[i] = t.s.buffer[i]
        /\ \A i \in m - 1 .. L - 2 : w.buffer[i] = t.s.buffer[i + 1]
    BY <2>1, <2>2, <1>1, <1>2, DeleteText
  <2> QED
    BY <2>2, <2>3, <1>8, Zenon
<1>11. r.s \in Screen /\ Held(r.s)
  <2>1. r.s \in Screen
    BY <1>8 DEF Terminals
  <2>2. /\ r.s.input_start_x = 1 /\ r.s.input_cursor <= r.s.input_length
        /\ r.s.input_length <= MaxInput
    <3>1. m - 1 <= L - 1 /\ L - 1 <= MaxInput
      BY <1>3, ConsoleAssumption
    <3> QED
      BY <3>1, <1>8, Zenon
  <2>3. Cell(r.s, r.s.input_length) < W * H
    <3>1. L - 1 \in 0 .. L
      BY <1>3
    <3>2. Cell(t.s, L - 1) < W * H
      BY <3>1, <1>9
    <3> QED
      BY <3>2, <1>8, Zenon
  <2> QED
    BY <2>1, <2>2, <2>3, Zenon DEF Held
<1>12. ASSUME "text" \notin d, NEW i \in 0 .. L - 2
       PROVE  r.s.buffer[i] = p[i + 1]
  <2>0. \A j \in 0 .. L - 1 : t.s.buffer[j] = q[j + 1]
    BY <1>2, <1>12 DEF Good
  <2>1. CASE i < m - 1
    <3>1. i \in 0 .. m - 2 /\ i \in 0 .. L - 1 /\ i + 1 \in 1 .. m - 1
      BY <2>1, <1>3
    <3> QED
      BY <3>1, <2>0, <1>5, <1>10
  <2>2. CASE i >= m - 1
    <3>1. i \in m - 1 .. L - 2 /\ i + 1 \in 0 .. L - 1 /\ i + 1 \in m .. L - 1
      BY <2>2, <1>3
    <3> QED
      BY <3>1, <2>0, <1>5, <1>10
  <2> QED
    BY <2>1, <2>2
<1>13. ASSUME d = {}, NEW i \in 0 .. L - 2
       PROVE  r.vga[Cell(r.s, i)] = p[i + 1]
  <2>0. Cell(r.s, i) = Cell(t.s, i)
    BY <1>8, Zenon
  <2>1. CASE i < m - 1
    <3>1. i \in 0 .. m - 2 /\ i \in 0 .. L - 1 /\ i + 1 \in 1 .. m - 1
      BY <2>1, <1>3
    <3>2. t.vga[Cell(t.s, i)] = q[i + 1]
      BY <3>1, <1>2, <1>13 DEF Good
    <3> QED
      BY <3>1, <3>2, <2>0, <1>5, <1>8, Zenon
  <2>2. CASE i >= m - 1
    <3>1. i \in m - 1 .. L - 2 /\ "text" \notin d
      BY <2>2, <1>13
    <3>2. r.s.buffer[i] = p[i + 1]
      BY <3>1, <1>12
    <3> QED
      BY <3>1, <3>2, <2>0, <1>8, Zenon
  <2> QED
    BY <2>1, <2>2
<1>14. (L - 1) - 1 = L - 2
  OBVIOUS
<1>15. r.vga[Cell(r.s, L - 1)] = " "
  BY <1>8, Zenon
<1>16. Good(r, p, d)
  BY <1>5, <1>8, <1>11, <1>12, <1>13, <1>14, <1>15, Zenon DEF Good
<1> QED
  BY <1>2, <1>4, <1>5, <1>6, <1>16, Zenon

LEMMA GoodMove ==
  ASSUME NEW t, NEW q \in Seq(Chars), NEW d, Good(t, q, d), NEW k \in 0 .. Len(q)
  PROVE  Good(MoveCursor([t EXCEPT !.s.input_cursor = k]), q, d)
<1>1. PICK v \in [Cells -> Glyphs], s \in Screen : t = [vga |-> v, s |-> s]
  BY DEF Terminals, Good
<1>2. t.s = s /\ t.vga = v /\ Held(s) /\ s.input_length = Len(q) /\ Len(q) \in Nat /\ k \in Nat
  <2>1. t.s = s /\ t.vga = v
    BY <1>1
  <2>2. Held(t.s) /\ t.s.input_length = Len(q)
    BY Zenon DEF Good
  <2>3. Len(q) \in Nat /\ k \in Nat
    OBVIOUS
  <2> QED
    BY <2>1, <2>2, <2>3
<1>3. PICK r : r = [s EXCEPT !.input_cursor = k]
  OBVIOUS
<1>4. /\ r \in Screen /\ r.input_cursor = k
      /\ r.buffer = s.buffer /\ r.input_length = s.input_length
      /\ r.input_start_x = s.input_start_x /\ r.input_start_y = s.input_start_y
  BY <1>2, <1>3 DEF Screen
<1>5. \A i : Cell(r, i) = Cell(s, i)
  BY <1>4, SamePlace, Zenon
<1>6. PICK u : u = [vga |-> v, s |-> r]
  OBVIOUS
<1>7. u \in With(r) /\ u.vga = v /\ u = [t EXCEPT !.s.input_cursor = k]
  BY <1>1, <1>3, <1>6 DEF With
<1>8. PICK y : y = AtPlace(r)
  OBVIOUS
<1>9. y \in Screen /\ SameInput(r, y) /\ AtCaret(y) /\ \A i : Cell(y, i) = Cell(r, i)
  <2>1. k \in 0 .. s.input_length
    BY <1>2
  <2>2. Cell(s, k) < W * H
    BY <2>1, <1>2, HeldBytes
  <2>3. Cell(r, r.input_cursor) < W * H
    BY <2>2, <1>4, <1>5, Zenon
  <2> QED
    BY <2>3, <1>4, <1>8, AtPlaceIs
<1>10. PICK z : z = [vga |-> v, s |-> y]
  OBVIOUS
<1>11. z = MoveCursor([t EXCEPT !.s.input_cursor = k])
  <2>1. MoveCursor(u) = [vga |-> u.vga, s |-> AtPlace(r)]
    BY <1>4, <1>7, MoveCursorIs
  <2> QED
    BY <2>1, <1>7, <1>8, <1>10, Zenon
<1>12. z \in Terminals /\ z.s = y /\ z.vga = v
  BY <1>9, <1>10 DEF Terminals
<1>13. /\ y.buffer = s.buffer /\ y.input_length = s.input_length /\ y.input_cursor = k
       /\ y.input_start_x = s.input_start_x /\ \A i : Cell(y, i) = Cell(s, i)
  BY <1>4, <1>5, <1>9, Zenon DEF SameInput
<1>14. Held(y)
  <2>1. k <= s.input_length
    BY <1>2
  <2> QED
    BY <2>1, <1>2, <1>9, <1>13, Zenon DEF Held
<1>15. Good(z, q, d)
  BY <1>2, <1>9, <1>12, <1>13, <1>14, Zenon DEF Good
<1> QED
  BY <1>11, <1>15, Zenon

(* A new prompt is what an empty line looks like.                          *)
LEMMA GoodFresh ==
  ASSUME NEW t \in Terminals, Fresh(t.s), NEW d
  PROVE  Good(t, << >>, d)
<1>1. t.s \in Screen
  BY DEF Terminals
<1>2. AtCaret(t.s) /\ Cell(t.s, t.s.input_length) < W * H
  BY <1>1, FreshLine
<1>3. t.s.input_length = 0 /\ t.s.input_cursor = 0 /\ t.s.input_start_x = 1
  BY DEF Fresh
<1>4. Held(t.s)
  BY <1>1, <1>2, <1>3, ConsoleAssumption DEF Held
<1>5. ~(t.s.input_length > 0) /\ Len(<< >>) = 0 /\ 0 .. t.s.input_length - 1 = {}
  BY <1>3
<1>6. t.s.input_length = Len(<< >>)
  BY <1>3, <1>5
<1> QED
  BY <1>2, <1>4, <1>5, <1>6, Zenon DEF Good
LEMMA Newline ==
  ASSUME NEW t \in Terminals, t.s.input_length \in Bytes, NEW out \in Outputs,
         NEW clear \in BOOLEAN
  PROVE  input_newline(t, out, clear) \in Terminals /\ Fresh(input_newline(t, out, clear).s)
<1>1. PICK v \in [Cells -> Glyphs], s \in Screen : t = [vga |-> v, s |-> s]
  BY DEF Terminals
<1>2. PICK a : a = [t EXCEPT !.s.buffer[t.s.input_length] = NUL]
  OBVIOUS
<1>3. a \in Terminals
  <2>1. PICK d : d = [s.buffer EXCEPT ![s.input_length] = NUL]
    OBVIOUS
  <2>2. s.input_length \in Bytes /\ s.buffer \in [Bytes -> Glyphs] /\ NUL \in Glyphs
    BY <1>1, Characters DEF Screen
  <2>3. d \in [Bytes -> Glyphs]
    BY <2>1, <2>2
  <2>4. PICK r : r = [s EXCEPT !.buffer = d]
    OBVIOUS
  <2>5. r \in Screen
    BY <2>3, <2>4 DEF Screen
  <2>6. a = [vga |-> v, s |-> r]
    BY <1>1, <1>2, <2>1, <2>4
  <2> QED
    BY <2>5, <2>6 DEF Terminals
<1>4. PICK b : b = screen_putchar(a, NL)
  OBVIOUS
<1>5. b \in Terminals /\ b.s.cursor_x = 0
  <2>1. NL \in Glyphs \cup {NL}
    OBVIOUS
  <2> QED
    BY <2>1, <1>3, <1>4, PutChar
<1>6. PICK p : p = screen_putstring(b, out)
  OBVIOUS
<1>7. p \in Terminals /\ p.s.cursor_x = 0
  <2>1. out \in Seq(Glyphs \cup {NL}) /\ (out = << >> \/ out[Len(out)] = NL)
    BY ConsoleAssumption
  <2>2. /\ p \in Terminals /\ (out = << >> => p = b)
        /\ Len(out) > 0 /\ out[Len(out)] = NL => p.s.cursor_x = 0
    BY <2>1, <1>5, <1>6, PutString
  <2>3. out = << >> \/ Len(out) > 0
    BY <2>1
  <2> QED
    BY <2>1, <2>2, <2>3, <1>5
<1>8. PICK e : e = IF clear THEN screen_clear(p) ELSE p
  OBVIOUS
<1>9. e \in Terminals /\ e.s.cursor_x = 0
  BY <1>7, <1>8, Clear
<1>10. PICK c : c = IF t.s.input_length > 0 THEN shell_process_input(b, out, clear)
                                            ELSE shell_print_prompt(b)
  OBVIOUS
<1>11. c = shell_print_prompt(e) \/ c = shell_print_prompt(b)
  BY <1>6, <1>8, <1>10, Zenon DEF shell_process_input
<1>12. c \in Terminals /\ Fresh(c.s)
  <2>1. shell_print_prompt(e) \in Terminals /\ Fresh(shell_print_prompt(e).s)
    BY <1>9, PrintPrompt
  <2>2. shell_print_prompt(b) \in Terminals /\ Fresh(shell_print_prompt(b).s)
    BY <1>5, PrintPrompt
  <2> QED
    BY <1>11, <2>1, <2>2, Zenon
<1>13. PICK z : z = input_newline(t, out, clear)
  OBVIOUS
<1>14. z = [c EXCEPT !.s.input_length = 0, !.s.input_cursor = 0]
  BY <1>2, <1>4, <1>10, <1>13, Zenon DEF input_newline
<1>15. PICK w \in [Cells -> Glyphs], r \in Screen : c = [vga |-> w, s |-> r]
  BY <1>12 DEF Terminals
<1>16. Fresh(r)
  <2>1. c.s = r
    BY <1>15
  <2> QED
    BY <2>1, <1>12, Zenon
<1>17. PICK y : y = [r EXCEPT !.input_length = 0, !.input_cursor = 0]
  OBVIOUS
<1>18. y \in Screen /\ Fresh(y)
  BY <1>16, <1>17 DEF Screen, Fresh
<1>19. z = [vga |-> w, s |-> y]
  BY <1>14, <1>15, <1>17
<1>20. z \in Terminals /\ z.s = y
  BY <1>18, <1>19 DEF Terminals
<1> QED
  BY <1>13, <1>18, <1>20, Zenon

(* A mark at the cursor disturbs what is on the display, not the text.     *)
LEMMA GoodMark ==
  ASSUME NEW t, NEW q \in Seq(Chars), NEW d, Good(t, q, d)
  PROVE  Good(screen_putstring(t, <<"o">>), q, d \cup {"image"})
<1>1. t \in Terminals
  BY DEF Good
<1>2. PICK str : str = <<"o">>
  OBVIOUS
<1>3. str \in Seq(Glyphs \cup {NL})
  <2>1. "o" \in Glyphs \cup {NL}
    BY Characters
  <2> QED
    BY <1>2, <2>1
<1>4. PICK r : r = screen_putstring(t, str)
  OBVIOUS
<1>5. r \in Terminals /\ SameInput(t.s, r.s)
  BY <1>1, <1>3, <1>4, PutString
<1>6. r.s \in Screen
  BY <1>5 DEF Terminals
<1>7. \A i : Cell(r.s, i) = Cell(t.s, i)
  BY <1>5, SamePlace, Zenon DEF SameInput
<1>8. Held(t.s) /\ t.s.input_length = Len(q)
  BY Zenon DEF Good
<1>9. Held(r.s)
  BY <1>5, <1>6, <1>7, <1>8, Zenon DEF Held, SameInput
<1>10. "text" \notin d \cup {"image"} => \A i \in 0 .. r.s.input_length - 1 : r.s.buffer[i] = q[i + 1]
  BY <1>5, Zenon DEF Good, SameInput
<1>11. d \cup {"image"} # {}
  OBVIOUS
<1>12. r.s.input_length = Len(q)
  BY <1>5, <1>8, Zenon DEF SameInput
<1>13. Good(r, q, d \cup {"image"})
  BY <1>5, <1>9, <1>10, <1>11, <1>12, Zenon DEF Good
<1> QED
  BY <1>2, <1>4, <1>13, Zenon

LEMMA Images ==
  /\ \A v \in [Cells -> Glyphs] : Image(v) \in [Bytes -> Glyphs]
  /\ \A v \in [Cells -> Glyphs], b \in [Bytes -> Glyphs] : Shown(v, b) \in [Cells -> Glyphs]
<1>1. ASSUME NEW v \in [Cells -> Glyphs]
      PROVE  Image(v) \in [Bytes -> Glyphs]
  <2>1. ASSUME NEW b \in Bytes
        PROVE  (IF b % 2 = 0 THEN v[b \div 2] ELSE "attr") \in Glyphs
    <3>1. b \div 2 \in Cells
      BY Sizes DEF Bytes, Cells
    <3> QED
      BY <3>1, Characters
  <2> QED
    BY <2>1 DEF Image
<1>2. ASSUME NEW v \in [Cells -> Glyphs], NEW b \in [Bytes -> Glyphs]
      PROVE  Shown(v, b) \in [Cells -> Glyphs]
  <2>1. ASSUME NEW i \in Cells
        PROVE  (IF i < W * H THEN b[2 * i] ELSE v[i]) \in Glyphs
    <3>1. i < W * H => 2 * i \in Bytes
      BY Sizes DEF Bytes, Cells
    <3> QED
      BY <3>1
  <2> QED
    BY <2>1 DEF Shown
<1> QED
  BY <1>1, <1>2
----------------------------------------------------------------------------
(***************************************************************************)
(* The invariant.                                                          *)
(***************************************************************************)
LEMMA ScreenInit ==
  screen_init \in Terminals /\ Fresh(screen_init.s)
<1> DEFINE s0 == [buffer |-> [b \in Bytes |-> NUL],
                  cursor_x |-> 0, cursor_y |-> 0, input_length |-> 0, input_cursor |-> 0,
                  input_start_x |-> 0, input_start_y |-> 0]
           v0 == [i \in Cells |-> " "]
           blank == [vga |-> v0, s |-> s0]
<1>1. 0 \in 0 .. W /\ 0 \in 0 .. H - 1 /\ 0 \in Nat
  BY Sizes
<1>2. s0 \in Screen /\ v0 \in [Cells -> Glyphs]
  BY <1>1, Characters DEF Screen
<1>3. PICK u : u = screen_clear(blank)
  OBVIOUS
<1>4. u \in Terminals /\ u.s.cursor_x = 0
  <2> HIDE DEF s0, v0
  <2>1. blank \in Terminals
    BY <1>2 DEF Terminals
  <2> HIDE DEF blank
  <2> QED
    BY <2>1, <1>3, Clear
<1>5. PICK t : t = shell_print_prompt(u)
  OBVIOUS
<1>6. t \in Terminals /\ Fresh(t.s)
  BY <1>4, <1>5, PrintPrompt
<1>7. screen_init = [t EXCEPT !.s.buffer = Image(t.vga)]
  BY <1>3, <1>5, Zenon DEF screen_init
<1> HIDE DEF s0, v0, blank
<1>8. PICK v \in [Cells -> Glyphs], s \in Screen : t = [vga |-> v, s |-> s]
  BY <1>6 DEF Terminals
<1>9. t.s = s /\ t.vga = v
  BY <1>8
<1>10. PICK b \in [Bytes -> Glyphs] : b = Image(v)
  BY Images
<1>11. PICK r : r = [s EXCEPT !.buffer = b]
  OBVIOUS
<1>12. r \in Screen /\ Fresh(r)
  <2>1. Fresh(s)
    BY <1>6, <1>9, Zenon
  <2> QED
    BY <2>1, <1>11 DEF Screen, Fresh
<1>13. screen_init = [vga |-> v, s |-> r]
  <2>1. screen_init = [t EXCEPT !.s.buffer = b]
    BY <1>7, <1>9, <1>10, Zenon
  <2> QED
    BY <2>1, <1>8, <1>11
<1> QED
  BY <1>12, <1>13 DEF Terminals

LEMMA ShellInit ==
  ASSUME NEW t \in Terminals
  PROVE  shell_init(t) \in Terminals /\ Fresh(shell_init(t).s)
<1>1. Banner \in Seq(Glyphs \cup {NL}) /\ Len(Banner) = 2 /\ Banner[2] = NL
  <2>1. "o" \in Glyphs \cup {NL} /\ NL \in Glyphs \cup {NL}
    BY Characters
  <2> QED
    BY <2>1 DEF Banner
<1>2. PICK p : p = screen_putstring(t, Banner)
  OBVIOUS
<1>3. Len(Banner) > 0 /\ Banner[Len(Banner)] = NL
  BY <1>1
<1>4. p \in Terminals /\ p.s.cursor_x = 0
  BY <1>1, <1>2, <1>3, PutString
<1> QED
  BY <1>2, <1>4, PrintPrompt, Zenon DEF shell_init

LEMMA ScreensExist == 0 \in Screens /\ << >> \in Seq(Chars) /\ Len(<< >>) = 0
  BY ConsoleAssumption DEF Screens

(* At the start every screen shows a prompt.                               *)
LEMMA InitIInv ==
  ASSUME Init
  PROVE  IInv
<1>1. PICK t0, t1 : t0 = screen_init /\ t1 = shell_init(screen_init)
  OBVIOUS
<1>2. t0 \in Terminals /\ Fresh(t0.s) /\ t1 \in Terminals /\ Fresh(t1.s)
  BY <1>1, ScreenInit, ShellInit
<1>3. t0.s \in Screen /\ t1.s \in Screen /\ t1.vga \in [Cells -> Glyphs]
  BY <1>2 DEF Terminals
<1>4. /\ vga = t1.vga /\ states = [n \in Screens |-> IF n = 0 THEN t1.s ELSE t0.s] /\ current = 0
      /\ line = [n \in Screens |-> << >>] /\ disturbed = [n \in Screens |-> {}]
  BY <1>1, Zenon DEF Init
<1>5. \A n \in Screens : states[n] \in Screen /\ Fresh(states[n]) /\ line[n] = << >> /\ disturbed[n] = {}
  BY <1>2, <1>3, <1>4
<1>6. Shape
  BY <1>3, <1>4, ScreensExist DEF Shape
<1>7. ASSUME NEW n \in Screens
      PROVE  Fits(n) /\ CursorKept(n) /\ Hidden(n) /\ states[n].input_length = 0
  <2>1. PICK s \in Screen : s = states[n] /\ Fresh(s)
    BY <1>5
  <2>2. AtCaret(s) /\ Cell(s, s.input_length) < W * H
    BY <2>1, FreshLine
  <2>3. s.input_start_x = 1 /\ s.input_length = 0 /\ s.input_cursor = 0
    BY <2>1 DEF Fresh
  <2>4. 0 <= MaxInput /\ s.input_cursor <= s.input_length /\ s.input_length = Len(line[n]) /\ s.input_length <= MaxInput
    BY <1>5, <2>3, ConsoleAssumption, ScreensExist
  <2> QED
    BY <2>1, <2>2, <2>3, <2>4, Zenon DEF Fits, CursorKept, Hidden
<1>8. current \in Screens /\ states[current].input_length = 0
  BY <1>4, <1>7, ScreensExist
<1>9. 0 .. states[current].input_length - 1 = {} /\ ~(states[current].input_length > 0)
  BY <1>8
<1>10. TextKept /\ LineDrawn
  BY <1>9, Zenon DEF TextKept, LineDrawn
<1> QED
  BY <1>6, <1>7, <1>10, Zenon DEF IInv

(* The invariant is about the screen that is shown what Good says.         *)
LEMMA CurrentIsGood ==
  ASSUME IInv
  PROVE  /\ Good(Terminal, line[current], disturbed[current])
         /\ line[current] \in Seq(Chars) /\ disturbed[current] \in SUBSET {"image", "text"}
<1>1. current \in Screens /\ states[current] \in Screen /\ line[current] \in Seq(Chars)
  BY DEF IInv, Shape
<1>2. disturbed[current] \in SUBSET {"image", "text"}
  BY <1>1 DEF IInv, Shape
<1>3. PICK t, s : t = Terminal /\ s = states[current]
  OBVIOUS
<1>4. t \in Terminals /\ t.s = s /\ t.vga = vga
  BY <1>1, <1>3 DEF Terminal, Terminals, IInv, Shape
<1>5. Fits(current) /\ CursorKept(current)
  BY <1>1, Zenon DEF IInv
<1>6. Held(s) /\ s.input_length = Len(line[current])
  BY <1>1, <1>3, <1>5, Zenon DEF Fits, Held
<1>7. "text" \notin disturbed[current] => \A i \in 0 .. s.input_length - 1 : s.buffer[i] = line[current][i + 1]
  BY <1>3, Zenon DEF IInv, TextKept
<1>8. disturbed[current] = {} =>
        /\ AtCaret(s)
        /\ \A i \in 0 .. s.input_length - 1 : vga[Cell(s, i)] = line[current][i + 1]
        /\ s.input_length > 0 => vga[Cell(s, s.input_length)] = " "
  BY <1>3, <1>5, Zenon DEF IInv, LineDrawn, CursorKept
<1>9. Good(t, line[current], disturbed[current])
  BY <1>4, <1>6, <1>7, <1>8, Zenon DEF Good
<1> QED
  BY <1>1, <1>2, <1>3, <1>9, Zenon

LEMMA BecomeKeeps ==
  ASSUME IInv, NEW t, NEW q \in Seq(Chars), NEW d \in SUBSET {"image", "text"}, Good(t, q, d),
         Become(t), line' = [line EXCEPT ![current] = q],
         disturbed' = [disturbed EXCEPT ![current] = d]
  PROVE  IInv'
<1>1. /\ vga' = t.vga /\ states' = [states EXCEPT ![current] = t.s] /\ current' = current
  BY DEF Become
<1>2. /\ current \in Screens /\ states \in [Screens -> Screen] /\ line \in [Screens -> Seq(Chars)]
      /\ disturbed \in [Screens -> SUBSET {"image", "text"}]
  BY DEF IInv, Shape
<1>3. t \in Terminals /\ t.s \in Screen /\ t.vga \in [Cells -> Glyphs] /\ Held(t.s)
  BY DEF Good, Terminals
<1>4. states'[current] = t.s /\ line'[current] = q /\ disturbed'[current] = d
  BY <1>1, <1>2
<1>5. \A n \in Screens : n # current => states'[n] = states[n] /\ line'[n] = line[n] /\ disturbed'[n] = disturbed[n]
  BY <1>1, <1>2
<1>6. Shape'
  BY <1>1, <1>2, <1>3 DEF Shape
<1>7. ASSUME NEW n \in Screens
      PROVE  Fits(n)' /\ CursorKept(n)' /\ Hidden(n)'
  <2>1. CASE n = current
    BY <2>1, <1>1, <1>4, Zenon DEF Fits, CursorKept, Hidden, Good, Held
  <2>2. CASE n # current
    <3>1. Fits(n) /\ CursorKept(n) /\ Hidden(n)
      BY Zenon DEF IInv
    <3> QED
      BY <2>2, <3>1, <1>1, <1>5, Zenon DEF Fits, CursorKept, Hidden
  <2> QED
    BY <2>1, <2>2
<1>8. TextKept' /\ LineDrawn'
  <2>1. states'[current'] = t.s /\ line'[current'] = q /\ disturbed'[current'] = d /\ vga' = t.vga
    BY <1>1, <1>4, Zenon
  <2>2. "text" \notin d => \A i \in 0 .. t.s.input_length - 1 : t.s.buffer[i] = q[i + 1]
    BY Zenon DEF Good
  <2>3. d = {} => /\ \A i \in 0 .. t.s.input_length - 1 : t.vga[Cell(t.s, i)] = q[i + 1]
                  /\ t.s.input_length > 0 => t.vga[Cell(t.s, t.s.input_length)] = " "
    BY Zenon DEF Good
  <2>4. TextKept'
    BY <2>1, <2>2, Zenon DEF TextKept
  <2>5. LineDrawn'
    BY <2>1, <2>3, Zenon DEF LineDrawn
  <2> QED
    BY <2>4, <2>5
<1> QED
  BY <1>6, <1>7, <1>8, Zenon DEF IInv
(* What is left alone is the same function with the same value put back.   *)
LEMMA LeftAlone ==
  ASSUME IInv
  PROVE  /\ line = [line EXCEPT ![current] = line[current]]
         /\ disturbed = [disturbed EXCEPT ![current] = disturbed[current]]
  BY DEF IInv, Shape

LEMMA InsertKeeps ==
  ASSUME IInv, NEW c \in Chars, Len(line[current]) < MaxInput, Insert(c)
  PROVE  IInv'
<1>1. PICK t, q, d : t = Terminal /\ q = line[current] /\ d = disturbed[current]
  OBVIOUS
<1>2. Good(t, q, d) /\ q \in Seq(Chars) /\ d \in SUBSET {"image", "text"} /\ Len(q) < MaxInput
  BY <1>1, CurrentIsGood, Zenon
<1>3. PICK r, p : r = input_insert_char_at_cursor(t, c) /\ p = InsertAt(q, t.s.input_cursor + 1, c)
  OBVIOUS
<1>4. Good(r, p, d) /\ p \in Seq(Chars)
  BY <1>2, <1>3, GoodInsert
<1>5. t.s.input_cursor = Caret
  BY <1>1 DEF Terminal, Caret
<1>6. Become(r) /\ line' = [line EXCEPT ![current] = p] /\ disturbed' = disturbed
  BY <1>1, <1>3, <1>5, Zenon DEF Insert
<1>7. disturbed' = [disturbed EXCEPT ![current] = d]
  BY <1>1, <1>6, LeftAlone, Zenon
<1> QED
  BY <1>2, <1>4, <1>6, <1>7, BecomeKeeps

(* A key that is not a character leaves everything as it is.               *)
LEMMA SameKeeps ==
  ASSUME IInv, Become(Terminal), line' = line, disturbed' = disturbed
  PROVE  IInv'
<1>1. PICK t, q, d : t = Terminal /\ q = line[current] /\ d = disturbed[current]
  OBVIOUS
<1>2. Good(t, q, d) /\ q \in Seq(Chars) /\ d \in SUBSET {"image", "text"} /\ Become(t)
  BY <1>1, CurrentIsGood, Zenon
<1>3. line' = [line EXCEPT ![current] = q] /\ disturbed' = [disturbed EXCEPT ![current] = d]
  BY <1>1, LeftAlone, Zenon
<1> QED
  BY <1>2, <1>3, BecomeKeeps

LEMMA NulKeeps ==
  ASSUME IInv, Insert(NUL)
  PROVE  IInv'
<1>1. NUL \notin Chars
  BY Characters
<1>2. input_insert_char_at_cursor(Terminal, NUL) = Terminal
  BY <1>1, Zenon DEF input_insert_char_at_cursor
<1>3. Become(Terminal) /\ line' = [line EXCEPT ![current] = line[current]] /\ disturbed' = disturbed
  BY <1>1, <1>2, Zenon DEF Insert
<1> QED
  BY <1>3, LeftAlone, SameKeeps, Zenon

LEMMA DeleteKeeps ==
  ASSUME IInv, Delete
  PROVE  IInv'
<1>1. PICK t, q, d : t = Terminal /\ q = line[current] /\ d = disturbed[current]
  OBVIOUS
<1>2. Good(t, q, d) /\ q \in Seq(Chars) /\ d \in SUBSET {"image", "text"}
  BY <1>1, CurrentIsGood, Zenon
<1>3. t.s.input_cursor = Caret
  BY <1>1 DEF Terminal, Caret
<1>4. CASE Caret > 0
  <2>1. PICK r, p : r = input_delete_char_at_cursor(t) /\ p = RemoveAt(q, t.s.input_cursor)
    OBVIOUS
  <2>2. Good(r, p, d) /\ p \in Seq(Chars)
    BY <1>2, <1>3, <1>4, <2>1, GoodDelete
  <2>3. Become(r) /\ line' = [line EXCEPT ![current] = p] /\ disturbed' = disturbed
    BY <1>1, <1>3, <1>4, <2>1, Zenon DEF Delete
  <2>4. disturbed' = [disturbed EXCEPT ![current] = d]
    BY <1>1, <2>3, LeftAlone, Zenon
  <2> QED
    BY <1>2, <2>2, <2>3, <2>4, BecomeKeeps
<1>5. CASE ~(Caret > 0)
  <2>1. input_delete_char_at_cursor(Terminal) = Terminal
    BY <1>1, <1>3, <1>5, Zenon DEF input_delete_char_at_cursor
  <2>2. Become(Terminal) /\ line' = [line EXCEPT ![current] = line[current]] /\ disturbed' = disturbed
    BY <1>5, <2>1, Zenon DEF Delete
  <2> QED
    BY <2>2, LeftAlone, SameKeeps, Zenon
<1> QED
  BY <1>4, <1>5

LEMMA MoveKeeps ==
  ASSUME IInv, Left \/ Right
  PROVE  IInv'
<1>1. PICK t, q, d : t = Terminal /\ q = line[current] /\ d = disturbed[current]
  OBVIOUS
<1>2. Good(t, q, d) /\ q \in Seq(Chars) /\ d \in SUBSET {"image", "text"}
  BY <1>1, CurrentIsGood, Zenon
<1>3. t.s.input_cursor \in Nat /\ t.s.input_length = Len(q) /\ t.s.input_cursor <= Len(q) /\ Len(q) \in Nat
  BY <1>2 DEF Good, Held, Screen
<1>4. line' = line /\ disturbed' = disturbed
  BY DEF Left, Right
<1>5. line' = [line EXCEPT ![current] = q] /\ disturbed' = [disturbed EXCEPT ![current] = d]
  BY <1>1, <1>4, LeftAlone, Zenon
<1>6. ASSUME NEW k \in 0 .. Len(q), Become(MoveCursor([t EXCEPT !.s.input_cursor = k]))
      PROVE  IInv'
  <2>1. PICK r : r = MoveCursor([t EXCEPT !.s.input_cursor = k])
    OBVIOUS
  <2>2. Good(r, q, d) /\ Become(r)
    BY <1>2, <1>6, <2>1, GoodMove, Zenon
  <2> QED
    BY <1>2, <1>5, <2>2, BecomeKeeps
<1>7. CASE Left /\ t.s.input_cursor > 0
  <2>1. t.s.input_cursor - 1 \in 0 .. Len(q)
    BY <1>3, <1>7
  <2>2. PICK k \in 0 .. Len(q) : k = t.s.input_cursor - 1
    BY <2>1
  <2>3. Become(MoveCursor([t EXCEPT !.s.input_cursor = k]))
    BY <1>1, <1>7, <2>2, Zenon DEF Left, input_move_cursor_left
  <2> QED
    BY <1>6, <2>3
<1>8. CASE Right /\ t.s.input_cursor < t.s.input_length
  <2>1. t.s.input_cursor + 1 \in 0 .. Len(q)
    BY <1>3, <1>8
  <2>2. PICK k \in 0 .. Len(q) : k = t.s.input_cursor + 1
    BY <2>1
  <2>3. Become(MoveCursor([t EXCEPT !.s.input_cursor = k]))
    BY <1>1, <1>8, <2>2, Zenon DEF Right, input_move_cursor_right
  <2> QED
    BY <1>6, <2>3
<1>9. CASE (Left /\ ~(t.s.input_cursor > 0)) \/ (Right /\ ~(t.s.input_cursor < t.s.input_length))
  <2>1. Become(Terminal)
    BY <1>1, <1>9, Zenon DEF Left, Right, input_move_cursor_left, input_move_cursor_right
  <2> QED
    BY <2>1, <1>4, SameKeeps
<1> QED
  BY <1>7, <1>8, <1>9

LEMMA EnterKeeps ==
  ASSUME IInv, Enter
  PROVE  IInv'
<1>1. PICK t : t = Terminal
  OBVIOUS
<1>2. t \in Terminals /\ Held(t.s)
  BY <1>1, CurrentIsGood, Zenon DEF Good
<1>3. t.s.input_length \in Bytes
  <2>1. t.s.input_length \in 0 .. t.s.input_length
    BY <1>2, HeldBytes
  <2> QED
    BY <1>2, <2>1, HeldBytes
<1>4. PICK out \in Outputs, clear \in BOOLEAN : Become(input_newline(t, out, clear))
  BY <1>1, Zenon DEF Enter
<1>5. PICK r : r = input_newline(t, out, clear)
  OBVIOUS
<1>6. r \in Terminals /\ Fresh(r.s) /\ Become(r)
  BY <1>2, <1>3, <1>4, <1>5, Newline
<1>7. PICK q \in Seq(Chars), d \in SUBSET {"image", "text"} : q = << >> /\ d = {}
  BY ScreensExist
<1>8. Good(r, q, d)
  BY <1>6, <1>7, GoodFresh, Zenon
<1>9. line' = [line EXCEPT ![current] = q] /\ disturbed' = [disturbed EXCEPT ![current] = d]
  BY <1>7, Zenon DEF Enter
<1> QED
  BY <1>6, <1>7, <1>8, <1>9, BecomeKeeps

LEMMA MarkKeeps ==
  ASSUME IInv, Mark
  PROVE  IInv'
<1>1. PICK t, q, d : t = Terminal /\ q = line[current] /\ d = disturbed[current]
  OBVIOUS
<1>2. Good(t, q, d) /\ q \in Seq(Chars) /\ d \in SUBSET {"image", "text"}
  BY <1>1, CurrentIsGood, Zenon
<1>3. PICK r, e : r = screen_putstring(t, <<"o">>) /\ e = d \cup {"image"}
  OBVIOUS
<1>4. Good(r, q, e)
  BY <1>2, <1>3, GoodMark, Zenon
<1>5. e \in SUBSET {"image", "text"}
  BY <1>2, <1>3
<1>6. Become(r) /\ line' = line /\ disturbed' = [disturbed EXCEPT ![current] = e]
  BY <1>1, <1>3, Zenon DEF Mark
<1>7. line' = [line EXCEPT ![current] = q]
  BY <1>1, <1>6, LeftAlone, Zenon
<1> QED
  BY <1>2, <1>4, <1>5, <1>6, <1>7, BecomeKeeps
LEMMA UnchangedKeeps ==
  ASSUME IInv, UNCHANGED <<vga, states, current, line, disturbed>>
  PROVE  IInv'
  BY Zenon DEF IInv, Shape, Fits, CursorKept, Hidden, TextKept, LineDrawn

(* The screen that is left loses its text to its image, and the one that   *)
(* comes back has an empty line or one whose text was lost in this way.    *)
LEMMA SwitchKeeps ==
  ASSUME IInv, NEW n, switch_screen(n)
  PROVE  IInv'
<1>1. CASE ~(n \in Screens /\ n # current)
  BY <1>1, UnchangedKeeps DEF switch_screen
<1>2. CASE n \in Screens /\ n # current
  <2>1. PICK old : old = current
    OBVIOUS
  <2>2. /\ states' = [states EXCEPT ![old].buffer = Image(vga)]
        /\ vga' = Shown(vga, states[n].buffer) /\ current' = n /\ line' = line
        /\ disturbed' = IF states[old].input_length > 0
                        THEN [disturbed EXCEPT ![old] = @ \cup {"text"}] ELSE disturbed
    BY <1>2, <2>1, Zenon DEF switch_screen
  <2>3. /\ old \in Screens /\ n \in Screens /\ n # old /\ states \in [Screens -> Screen]
        /\ line \in [Screens -> Seq(Chars)] /\ vga \in [Cells -> Glyphs]
        /\ disturbed \in [Screens -> SUBSET {"image", "text"}]
    BY <1>2, <2>1 DEF IInv, Shape
  <2>4. PICK b \in [Bytes -> Glyphs] : b = Image(vga)
    BY <2>3, Images
  <2>4a. PICK s \in Screen : s = states[old]
    BY <2>3
  <2>5. PICK r : s = states[old] /\ r = [s EXCEPT !.buffer = b]
    BY <2>4a
  <2>6. /\ r \in Screen /\ r.cursor_x = s.cursor_x /\ r.cursor_y = s.cursor_y
        /\ r.input_length = s.input_length /\ r.input_cursor = s.input_cursor
        /\ r.input_start_x = s.input_start_x /\ r.input_start_y = s.input_start_y
    BY <2>5 DEF Screen
  <2>7. states' = [states EXCEPT ![old] = r]
    <3>1. states' = [states EXCEPT ![old].buffer = b]
      BY <2>2, <2>4, Zenon
    <3> QED
      BY <3>1, <2>5, Zenon
  <2>8. states'[old] = r /\ \A k \in Screens : k # old => states'[k] = states[k]
    BY <2>3, <2>7
  <2>9. /\ disturbed' \in [Screens -> SUBSET {"image", "text"}]
        /\ \A k \in Screens : k # old => disturbed'[k] = disturbed[k]
        /\ disturbed[old] \subseteq disturbed'[old]
        /\ s.input_length > 0 => "text" \in disturbed'[old]
    BY <2>2, <2>3, <2>5
  <2>10. vga' \in [Cells -> Glyphs]
    <3>1. states[n].buffer \in [Bytes -> Glyphs]
      BY <2>3 DEF Screen
    <3> QED
      BY <3>1, <2>2, <2>3, Images
  <2>11. Shape'
    <3>1. states' \in [Screens -> Screen]
      BY <2>3, <2>6, <2>7
    <3> QED
      BY <3>1, <2>2, <2>3, <2>9, <2>10, Zenon DEF Shape
  <2>12. ASSUME NEW k \in Screens
         PROVE  Fits(k)' /\ CursorKept(k)' /\ Hidden(k)'
    <3>1. Fits(k) /\ CursorKept(k) /\ Hidden(k)
      BY Zenon DEF IInv
    <3>2. CASE k = old
      <4>1. \A i : Row(r, i) = Row(s, i) /\ Col(r, i) = Col(s, i) /\ Cell(r, i) = Cell(s, i)
        BY <2>6, SamePlace, Zenon
      <4>2. Fits(k)'
        BY <3>1, <3>2, <4>1, <2>2, <2>5, <2>6, <2>8, Zenon DEF Fits
      <4>3. CursorKept(k)'
        <5>1. disturbed'[old] = {} => disturbed[old] = {}
          BY <2>9
        <5>2. AtCaret(s) => AtCaret(r)
          BY <4>1, <2>6, Zenon DEF AtCaret
        <5>3. disturbed[old] = {} => AtCaret(s)
          BY <3>1, <3>2, <2>5, Zenon DEF CursorKept
        <5>4. disturbed'[k] = {} => AtCaret(states'[k])
          BY <5>1, <5>2, <5>3, <3>2, <2>8, Zenon
        <5> QED
          BY <5>4, Zenon DEF CursorKept, AtCaret, Row, Col
      <4>4. Hidden(k)'
        <5>1. s.input_length \in Nat
          BY DEF Screen
        <5>2. s.input_length = 0 \/ "text" \in disturbed'[old]
          BY <5>1, <2>9
        <5> QED
          BY <5>2, <3>2, <2>6, <2>8, Zenon DEF Hidden
      <4> QED
        BY <4>2, <4>3, <4>4
    <3>3. CASE k # old
      <4>1. Fits(k)' /\ CursorKept(k)'
        BY <3>1, <3>3, <2>2, <2>8, <2>9, Zenon DEF Fits, CursorKept
      <4>2. Hidden(k)'
        BY <3>1, <3>3, <2>1, <2>8, <2>9, Zenon DEF Hidden
      <4> QED
        BY <4>1, <4>2
    <3> QED
      BY <3>2, <3>3
  <2>13. TextKept' /\ LineDrawn'
    <3>1. states[n].input_length = 0 \/ "text" \in disturbed[n]
      BY <2>1, <2>3, Zenon DEF IInv, Hidden
    <3>2. states'[current'] = states[n] /\ disturbed'[current'] = disturbed[n]
      BY <2>2, <2>3, <2>8, <2>9, Zenon
    <3>3. CASE states[n].input_length = 0
      <4>1. 0 .. states[n].input_length - 1 = {} /\ ~(states[n].input_length > 0)
        BY <3>3
      <4> QED
        BY <3>2, <4>1, Zenon DEF TextKept, LineDrawn
    <3>4. CASE "text" \in disturbed[n]
      BY <3>2, <3>4, Zenon DEF TextKept, LineDrawn
    <3> QED
      BY <3>1, <3>3, <3>4
  <2> QED
    BY <2>11, <2>12, <2>13, Zenon DEF IInv
<1> QED
  BY <1>1, <1>2

(* IInv holds in every state: each key keeps it.                           *)
THEOREM Invariance == Spec => []IInv
<1>1. Init => IInv
  BY InitIInv
<1>2. IInv /\ [Next]_vars => IInv'
  <2> SUFFICES ASSUME IInv, [Next]_vars PROVE IInv'
    OBVIOUS
  <2>1. CASE Key
    <3>1. ASSUME Len(line[current]) < MaxInput, NEW c \in Chars, Insert(c)
          PROVE  IInv'
      BY <3>1, InsertKeeps
    <3>2. ASSUME NEW n \in 0 .. MAX_SCREENS, switch_screen(n)
          PROVE  IInv'
      BY <3>2, SwitchKeeps
    <3> QED
      BY <2>1, <3>1, <3>2, NulKeeps, DeleteKeeps, MoveKeeps, EnterKeeps, MarkKeeps DEF Key
  <2>2. CASE UNCHANGED vars
    BY <2>2, UnchangedKeeps DEF vars
  <2> QED
    BY <2>1, <2>2 DEF Next, hlt
<1> QED
  BY <1>1, <1>2, PTL DEF Spec

(* Whatever is typed, on whatever screen, the cursor and the line stay on  *)
(* the display and every byte and cell holds a character: screen.c never   *)
(* writes outside the display's memory or a screen's buffer.               *)
THEOREM TypeCorrect == Spec => []TypeOK
<1>1. IInv => TypeOK
  <2> SUFFICES ASSUME IInv PROVE TypeOK
    OBVIOUS
  <2>1. vga \in [Cells -> Glyphs] /\ current \in Screens /\ \A n \in Screens : disturbed[n] \subseteq {"image", "text"}
    BY DEF IInv, Shape
  <2>2. ASSUME NEW n \in Screens, NEW s, s = states[n]
        PROVE  /\ s.buffer \in [Bytes -> Glyphs]
               /\ s.cursor_x \in 0 .. W /\ s.cursor_y \in 0 .. H - 1
               /\ s.input_start_x \in 0 .. W /\ s.input_start_y \in 0 .. H - 1
               /\ s.input_length \in 0 .. MaxInput
               /\ s.input_cursor \in 0 .. s.input_length
    <3>1. s \in Screen /\ Fits(n)
      BY <2>2 DEF IInv, Shape
    <3>2. s.input_start_x = 1 /\ s.input_length <= MaxInput /\ s.input_cursor <= s.input_length
      BY <2>2, <3>1, Zenon DEF Fits
    <3> QED
      BY <3>1, <3>2, Sizes, ConsoleAssumption DEF Screen
  <2> QED
    BY <2>1, <2>2, Zenon DEF TypeOK
<1> QED
  BY <1>1, Invariance, PTL

(* What Enter hands to the shell is the line as the user typed and edited  *)
(* it, with every insertion and deletion in the middle of it, for every    *)
(* size of the display; only leaving the screen in between spoils it.      *)
THEOREM CommandCorrect == Spec => []CommandIsLine
<1>1. IInv => CommandIsLine
  <2> SUFFICES ASSUME IInv, "text" \notin disturbed[current]
               PROVE  Command(states[current]) = line[current]
    BY DEF CommandIsLine
  <2>1. PICK s, q, L : s = states[current] /\ q = line[current] /\ L = s.input_length
    OBVIOUS
  <2>2. /\ s \in Screen /\ Held(s) /\ q \in Seq(Chars) /\ L = Len(q) /\ L \in Nat
        /\ \A i \in 0 .. L - 1 : s.buffer[i] = q[i + 1]
    <3>1. Terminal.s = s
      BY <2>1 DEF Terminal
    <3>2. Good(Terminal, q, disturbed[current]) /\ q \in Seq(Chars)
      BY <2>1, CurrentIsGood, Zenon
    <3>3. Held(s) /\ L = Len(q) /\ \A i \in 0 .. L - 1 : s.buffer[i] = q[i + 1]
      BY <2>1, <3>1, <3>2, Zenon DEF Good
    <3> QED
      BY <3>2, <3>3 DEF Held
  <2>3. \A i \in 0 .. L : i \in Bytes
    BY <2>1, <2>2, HeldBytes
  <2> DEFINE e == [s.buffer EXCEPT ![s.input_length] = NUL]
             End(i) == e[i] = NUL /\ \A j \in 0 .. i - 1 : e[j] # NUL
  <2>3a. Command(s) = [i \in 1 .. (CHOOSE i \in Bytes : End(i)) |-> e[i - 1]]
    BY Zenon DEF Command
  <2>4. e = [s.buffer EXCEPT ![L] = NUL]
    BY <2>1
  <2> HIDE DEF e
  <2>5. e[L] = NUL /\ \A i \in 0 .. L - 1 : e[i] = q[i + 1] /\ e[i] # NUL
    <3>1. L \in Bytes /\ s.buffer \in [Bytes -> Glyphs]
      BY <2>2, <2>3 DEF Screen
    <3>2. e[L] = NUL
      BY <2>4, <3>1
    <3>3. ASSUME NEW i \in 0 .. L - 1
          PROVE  e[i] = q[i + 1] /\ e[i] # NUL
      <4>1. i \in Bytes /\ i # L /\ i + 1 \in 1 .. Len(q)
        BY <2>2, <2>3
      <4>2. e[i] = q[i + 1]
        BY <2>2, <2>4, <3>1, <4>1
      <4>3. q[i + 1] \in Chars
        BY <2>2, <4>1
      <4> QED
        BY <4>2, <4>3, Characters
    <3> QED
      BY <3>2, <3>3
  <2>6. L \in Bytes /\ End(L)
    BY <2>2, <2>3, <2>5
  <2>7. \A i \in Bytes : End(i) => i = L
    <3> SUFFICES ASSUME NEW i \in Bytes, End(i) PROVE i = L
      OBVIOUS
    <3>1. i \in Nat
      BY Sizes DEF Bytes
    <3>2. ~(i < L)
      BY <2>2, <2>5, <3>1
    <3>3. ~(i > L)
      BY <2>2, <2>5, <3>1
    <3> QED
      BY <2>2, <3>1, <3>2, <3>3
  <2>8. (CHOOSE i \in Bytes : End(i)) = L
    <3> HIDE DEF End
    <3> QED
      BY <2>6, <2>7
  <2>9. Command(s) = [i \in 1 .. L |-> e[i - 1]]
    BY <2>8, <2>3a, Zenon
  <2>10. q = [i \in 1 .. L |-> e[i - 1]]
    <3>1. q = [i \in 1 .. L |-> q[i]]
      BY <2>2
    <3>2. \A i \in 1 .. L : q[i] = e[i - 1]
      <4> TAKE i \in 1 .. L
      <4>1. i - 1 \in 0 .. L - 1 /\ (i - 1) + 1 = i
        BY <2>2
      <4> QED
        BY <2>5, <4>1
    <3> QED
      BY <3>1, <3>2, Zenon
  <2> QED
    BY <2>1, <2>9, <2>10, Zenon
<1> QED
  BY <1>1, Invariance, PTL

(* What the user sees is what the user typed: as long as nothing else was  *)
(* printed on the line, it is on the display from its first character to   *)
(* the blank behind its last one, and the cursor is at the caret, however  *)
(* the line has wrapped and the display scrolled.                          *)
THEOREM LineCorrect == Spec => []LineShown
<1>1. IInv => LineShown
  <2> SUFFICES ASSUME IInv, disturbed[current] = {}, NEW s, s = states[current]
               PROVE  /\ \A i \in 0 .. s.input_length - 1 :
                           /\ Row(s, i) < H
                           /\ vga[Row(s, i) * W + Col(s, i)] = line[current][i + 1]
                      /\ s.input_length > 0 => vga[Row(s, s.input_length) * W + Col(s, s.input_length)] = " "
                      /\ s.cursor_y = Row(s, s.input_cursor) /\ s.cursor_x = Col(s, s.input_cursor)
    BY Zenon DEF LineShown
  <2>1. Terminal.s = s /\ Terminal.vga = vga
    BY DEF Terminal
  <2>2. Good(Terminal, line[current], disturbed[current])
    BY CurrentIsGood
  <2>3. /\ Held(s) /\ AtCaret(s)
        /\ \A i \in 0 .. s.input_length - 1 : vga[Cell(s, i)] = line[current][i + 1]
        /\ s.input_length > 0 => vga[Cell(s, s.input_length)] = " "
    BY <2>1, <2>2, Zenon DEF Good
  <2>4. s \in Loose /\ s.input_length \in Nat /\ \A i \in 0 .. s.input_length : Cell(s, i) < W * H
    BY <2>3, HeldBytes, ScreenLoose DEF Held
  <2>5. ASSUME NEW i \in 0 .. s.input_length
        PROVE  Row(s, i) < H /\ Row(s, i) * W + Col(s, i) = Cell(s, i)
    <3>1. i \in Nat /\ Cell(s, i) < W * H
      BY <2>4
    <3>2. (Row(s, i) < H <=> Cell(s, i) < W * H) /\ Row(s, i) * W + Col(s, i) = Cell(s, i)
      BY <2>4, <3>1, LinePlace
    <3> QED
      BY <3>1, <3>2
  <2>6. s.input_length \in 0 .. s.input_length /\ \A i \in 0 .. s.input_length - 1 : i \in 0 .. s.input_length
    BY <2>4
  <2> QED
    BY <2>3, <2>5, <2>6, Zenon DEF AtCaret
<1> QED
  BY <1>1, Invariance, PTL
=============================================================================
