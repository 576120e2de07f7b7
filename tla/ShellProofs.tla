---------------------------- MODULE ShellProofs ----------------------------
(***************************************************************************)
(* Theorems about the command line: the arguments of a command are the     *)
(* words of the line that was typed and its numbers are the numerals, for  *)
(* every line, size of the buffer, of the array and of a word; a number    *)
(* that was printed is read back.                                          *)
(***************************************************************************)
EXTENDS Shell, FiniteSetTheorems, TLAPS

Chars == STRING \ {NUL}

(* The words that start before an offset of the buffer, and before a       *)
(* character of the line.                                                  *)
StartsTo(t)     == {j \in Starts(line) : j <= t}
StartsBefore(i) == {j \in Starts(line) : j < i}

(***************************************************************************)
(* The inductive invariant, from the line that is typed to the end of its  *)
(* command.  Ahead of token the buffer still holds the line: the bytes of  *)
(* older lines lie behind the NUL at its end.  Behind token the arguments  *)
(* are the words that start there, each up to the NUL that took the place  *)
(* of the blank after it.                                                  *)
(***************************************************************************)
Shape ==
  /\ DOMAIN args_buffer = Bytes
  /\ argv \in [0 .. SHELL_MAX_ARGS - 1 -> Int]
  /\ argc \in 0 .. SHELL_MAX_ARGS - 1
  /\ token \in Nat

Ahead ==
  /\ line \in Seq(Chars) /\ Len(line) < SHELL_BUFFER_SIZE - 1
  /\ end = Len(line) /\ token <= end
  /\ args_buffer[end] = NUL
  /\ \A q \in token .. end - 1 : args_buffer[q] = line[q + 1]

(* The loop stands between two words.                                      *)
Boundary == token = end \/ IsBlank(line, token)

IsWord(i) ==
  LET start == argv[i] + 1
      stop  == Stop(line, start)
  IN  /\ start \in Starts(line) /\ stop \in start .. Len(line) /\ stop <= token
      /\ Cardinality(StartsBefore(start)) = i
      /\ args_buffer[stop] = NUL
      /\ \A q \in argv[i] .. stop - 1 : args_buffer[q] = line[q + 1]

Behind == argc = Cardinality(StartsTo(token)) /\ \A i \in 0 .. argc - 1 : IsWord(i)

(* Either every word became an argument or the array is full.              *)
Parsed ==
  /\ argv[argc] = NULL
  /\ argc = Cardinality(Starts(line)) \/ argc = SHELL_MAX_ARGS - 1

IInv ==
  /\ Shape
  /\ pc # "idle" => Ahead /\ Boundary /\ Behind /\ call = NoCall
  /\ pc \notin {"idle", "parse"} => Parsed

----------------------------------------------------------------------------
(***************************************************************************)
(* Finding a character.                                                    *)
(***************************************************************************)
(* A set of numbers has a least one.                                       *)
LEMMA LeastNumber ==
  ASSUME NEW S \in SUBSET Nat, S # {}
  PROVE  \E m \in S : \A k \in S : m <= k
<1> DEFINE Upto(m) == {k \in S : k <= m}
           T == {Upto(m) : m \in S}
<1>1. ASSUME NEW m \in S
      PROVE  Upto(m) \in FiniteSubsetsOf(Nat)
  <2>1. IsFiniteSet(0 .. m)
    BY FS_Interval
  <2>2. \A k \in Upto(m) : k \in 0 .. m /\ k \in Nat
    OBVIOUS
  <2> HIDE DEF Upto
  <2>3. IsFiniteSet(Upto(m)) /\ Upto(m) \subseteq Nat
    BY <2>1, <2>2, FS_Subset
  <2> QED
    BY <2>3 DEF FiniteSubsetsOf
<1>2. IsWellFoundedOn(StrictSubsetOrdering(Nat), FiniteSubsetsOf(Nat))
  BY FS_StrictSubsetOrderingWellFounded
<1>3. T \subseteq FiniteSubsetsOf(Nat) /\ T # {}
  <2> HIDE DEF Upto
  <2> QED
    BY <1>1
<1> HIDE DEF T
<1>5. PICK x \in T : \A y \in T : ~(<<y, x>> \in StrictSubsetOrdering(Nat))
  BY <1>2, <1>3, WFMin
<1>6. PICK m \in S : x = Upto(m)
  BY DEF T
<1>7. ASSUME NEW k \in S, k < m
      PROVE  FALSE
  <2>1. Upto(k) \in T
    BY DEF T
  <2>2. Upto(k) \subseteq Nat /\ x \subseteq Nat
    BY <1>6, Zenon
  <2>3. ASSUME NEW i \in Upto(k)
        PROVE  i \in x
    BY <1>6, <1>7
  <2>4. m \in x /\ m \notin Upto(k)
    BY <1>6, <1>7
  <2> HIDE DEF Upto
  <2>5. <<Upto(k), x>> \in StrictSubsetOrdering(Nat)
    BY <2>2, <2>3, <2>4 DEF StrictSubsetOrdering
  <2> QED
    BY <1>5, <2>1, <2>5
<1> QED
  BY <1>7

(* What holds of the first number and passes on to the next one holds up   *)
(* to n: a set of numbers stands for the predicate.                        *)
LEMMA UpTo ==
  ASSUME NEW n \in Nat, NEW S, 0 \in S, \A k \in 1 .. n : k - 1 \in S => k \in S
  PROVE  \A k \in 0 .. n : k \in S
<1> DEFINE D == {k \in 0 .. n : k \notin S}
<1>1. SUFFICES ASSUME D # {} PROVE FALSE
  OBVIOUS
<1>2. PICK m \in D : \A k \in D : m <= k
  <2>1. D \in SUBSET Nat
    OBVIOUS
  <2> HIDE DEF D
  <2> QED
    BY <1>1, <2>1, LeastNumber
<1>3. m \in 1 .. n /\ m - 1 \in 0 .. n /\ ~(m <= m - 1)
  BY <1>2
<1>4. m - 1 \in S
  BY <1>2, <1>3
<1> QED
  BY <1>2, <1>3, <1>4

(* The length of a string is the distance to its first NUL.                *)
LEMMA StrLen ==
  ASSUME NEW buf, NEW p \in Nat, NEW s \in Bytes, p <= s, buf[s] = NUL,
         \A q \in p .. s - 1 : buf[q] # NUL
  PROVE  strlen(buf, p) = s - p
<1> DEFINE hits == {q \in Bytes : q >= p /\ buf[q] = NUL}
<1>1. s \in hits /\ \A r \in hits : s <= r
  BY ShellAssumption DEF Bytes
<1> HIDE DEF hits
<1>2. s = CHOOSE q \in hits : \A r \in hits : q <= r
  <2>1. \A q \in hits : (\A r \in hits : q <= r) => q = s
    BY <1>1, ShellAssumption DEF hits, Bytes
  <2> QED
    BY <1>1, <2>1
<1>3. Find(p, LAMBDA q : buf[q] = NUL) = s
  BY <1>1, <1>2, Zenon DEF Find, hits
<1> QED
  BY <1>3, Zenon DEF strlen

(* What the two loops of shell_parse_args find: both stop at the end of    *)
(* the line at the latest.                                                 *)
LEMMA ArgStartFound ==
  ASSUME Shape, Ahead
  PROVE  /\ ArgStart \in token .. end
         /\ args_buffer[ArgStart] \notin Blank
         /\ \A q \in token .. ArgStart - 1 : args_buffer[q] \in Blank
<1> DEFINE hits == {q \in Bytes : q >= token /\ args_buffer[q] \notin Blank}
<1>0. end \in Bytes /\ token \in Nat /\ token <= end /\ NUL \notin Blank
  BY ShellAssumption DEF Shape, Ahead, Bytes, NUL, Blank
<1>1. end \in hits
  BY <1>0 DEF Ahead, Bytes
<1>2. PICK m \in hits : \A r \in hits : m <= r
  <2>1. hits \in SUBSET Nat /\ hits # {}
    BY <1>1, ShellAssumption DEF Bytes
  <2> HIDE DEF hits
  <2> QED
    BY <2>1, LeastNumber
<1>3. ArgStart = CHOOSE q \in hits : \A r \in hits : q <= r
  BY <1>1, Zenon DEF ArgStart, Find
<1>4. ArgStart \in hits /\ \A r \in hits : ArgStart <= r
  <2> HIDE DEF hits
  <2> QED
    BY <1>2, <1>3, Zenon
<1> QED
  BY <1>0, <1>1, <1>4, ShellAssumption DEF Bytes

LEMMA ArgStopFound ==
  ASSUME Shape, Ahead
  PROVE  /\ ArgStop \in ArgStart .. end
         /\ args_buffer[ArgStop] \in Blank \cup {NUL}
         /\ \A q \in ArgStart .. ArgStop - 1 : args_buffer[q] \notin Blank \cup {NUL}
<1> DEFINE hits == {q \in Bytes : q >= ArgStart /\ args_buffer[q] \in Blank \cup {NUL}}
<1>0. end \in Bytes /\ token \in Nat /\ ArgStart \in token .. end
  BY ArgStartFound, ShellAssumption DEF Shape, Ahead, Bytes
<1> HIDE DEF ArgStart
<1>1. end \in hits
  BY <1>0 DEF Ahead, Bytes
<1>2. PICK m \in hits : \A r \in hits : m <= r
  <2>1. hits \in SUBSET Nat /\ hits # {}
    BY <1>1, ShellAssumption DEF Bytes
  <2> HIDE DEF hits
  <2> QED
    BY <2>1, LeastNumber
<1>3. ArgStop = CHOOSE q \in hits : \A r \in hits : q <= r
  BY <1>1, Zenon DEF ArgStop, Find
<1>4. ArgStop \in hits /\ \A r \in hits : ArgStop <= r
  <2> HIDE DEF hits
  <2> QED
    BY <1>2, <1>3, Zenon
<1> QED
  BY <1>0, <1>1, <1>4, ShellAssumption DEF Bytes
----------------------------------------------------------------------------
(***************************************************************************)
(* Words.                                                                  *)
(***************************************************************************)
(* A line has finitely many words.                                         *)
LEMMA StartsFinite ==
  ASSUME NEW l \in Seq(Chars), NEW S \in SUBSET Starts(l)
  PROVE  IsFiniteSet(S) /\ Cardinality(S) \in Nat
<1>1. IsFiniteSet(1 .. Len(l))
  BY FS_Interval
<1>2. S \subseteq 1 .. Len(l)
  BY DEF Starts
<1> QED
  BY <1>1, <1>2, FS_Subset, FS_CardinalityType

(* The number of words before it determines a word.                        *)
LEMMA NthStart ==
  ASSUME line \in Seq(Chars), NEW x \in Starts(line), NEW y \in Starts(line),
         Cardinality(StartsBefore(x)) = Cardinality(StartsBefore(y))
  PROVE  x = y
<1>1. ASSUME NEW a \in Starts(line), NEW b \in Starts(line), a < b
      PROVE  Cardinality(StartsBefore(a)) # Cardinality(StartsBefore(b))
  <2> a \in Int /\ b \in Int /\ \A j \in Starts(line) : j \in Int
    BY DEF Starts
  <2>1. ASSUME NEW j \in StartsBefore(a)
        PROVE  j \in StartsBefore(b)
    BY <1>1 DEF StartsBefore
  <2>2. a \in StartsBefore(b) /\ a \notin StartsBefore(a)
    BY <1>1 DEF StartsBefore
  <2>3. IsFiniteSet(StartsBefore(b))
    <3>1. StartsBefore(b) \in SUBSET Starts(line)
      BY DEF StartsBefore
    <3> QED
      BY <3>1, StartsFinite
  <2> QED
    BY <2>1, <2>2, <2>3, FS_Subset
<1>2. x \in Int /\ y \in Int
  BY DEF Starts
<1> QED
  BY <1>1, <1>2

(* Where a word stops that starts at a character.                          *)
LEMMA StopIs ==
  ASSUME NEW l \in Seq(Chars), NEW i \in 1 .. Len(l), NEW j \in i .. Len(l),
         IsBlank(l, j + 1), \A k \in i .. j : ~IsBlank(l, k)
  PROVE  Stop(l, i) = j
<1> DEFINE Stops(m) == IsBlank(l, m + 1) /\ \A k \in i .. m : ~IsBlank(l, k)
<1>1. Stops(j)
  OBVIOUS
<1>2. ASSUME NEW m \in i .. Len(l), Stops(m)
      PROVE  m = j
  <2>1. CASE m < j
    BY <2>1, <1>2
  <2>2. CASE m > j
    BY <2>2, <1>2
  <2> QED
    BY <2>1, <2>2
<1>3. Stop(l, i) = CHOOSE m \in i .. Len(l) : Stops(m)
  BY Zenon DEF Stop
<1> HIDE DEF Stops
<1> QED
  BY <1>1, <1>2, <1>3

----------------------------------------------------------------------------
(***************************************************************************)
(* The steps.                                                              *)
(***************************************************************************)
LEMMA InitIInv ==
  ASSUME Init
  PROVE  IInv
  BY ShellAssumption DEF Init, IInv, Shape, JUNK

(* The end of a command.                                                   *)
LEMMA FinishIInv ==
  ASSUME IInv, Finish
  PROVE  IInv'
  BY ShellAssumption DEF Finish, IInv, Shape, JUNK

(* A new line: older bytes stay behind its NUL.                            *)
LEMMA ProcessIInv ==
  ASSUME IInv, NEW l \in Typed, shell_process_input(l)
  PROVE  IInv'
<1>0. SHELL_BUFFER_SIZE \in Nat /\ SHELL_MAX_ARGS \in Nat /\ SHELL_MAX_ARGS >= 4
  BY ShellAssumption
<1>1. l \in Seq(Chars) /\ Len(l) \in Nat /\ Len(l) > 0 /\ Len(l) < SHELL_BUFFER_SIZE - 1
  <2>1. l \in Seq(Chars)
    BY Zenon DEF Typed, Chars
  <2> QED
    BY <2>1 DEF shell_process_input
<1>2. \A i \in 1 .. Len(l) : l[i] \in STRING /\ l[i] # NUL
  BY <1>1 DEF Chars
<1>3. \A q \in Bytes : q < Len(l) => args_buffer'[q] = l[q + 1]
  <2>1. \A q \in Bytes : q < Len(l) /\ q # Len(l) => args_buffer'[q] = l[q + 1]
    BY Zenon DEF shell_process_input, strcpy
  <2> QED
    BY <1>1, <2>1 DEF Bytes
<1>4. Len(l) \in Bytes
  BY <1>0, <1>1 DEF Bytes
<1>5. args_buffer'[Len(l)] = NUL
  <2>1. ~(Len(l) < Len(l))
    BY <1>1
  <2> QED
    BY <1>4, <2>1, Zenon DEF shell_process_input, strcpy
<1>6. DOMAIN args_buffer' = Bytes
  BY Zenon DEF shell_process_input, strcpy
<1>7. end' = Len(l)
  <2>1. \A q \in 0 .. Len(l) - 1 : args_buffer'[q] # NUL
    BY <1>0, <1>1, <1>2, <1>3 DEF Bytes
  <2>2. strlen(args_buffer', 0) = Len(l) - 0
    BY <1>1, <1>4, <1>5, <2>1, StrLen
  <2> QED
    BY <1>1, <2>2 DEF shell_process_input
<1>8. Shape'
  BY <1>0, <1>6 DEF shell_process_input, Shape, JUNK
<1>9. Ahead'
  BY <1>0, <1>1, <1>3, <1>5, <1>7 DEF shell_process_input, Ahead, Bytes
<1>10. Boundary'
  BY <1>1 DEF shell_process_input, Boundary, IsBlank
<1>11. Behind'
  <2>1. StartsTo(token)' = {}
    BY <1>1 DEF shell_process_input, StartsTo, Starts
  <2> QED
    BY <2>1, FS_EmptySet DEF shell_process_input, Behind
<1> QED
  BY <1>8, <1>9, <1>10, <1>11 DEF shell_process_input, IInv

(* The loop takes the next word: ahead of token up to it there are only    *)
(* blanks.                                                                 *)
LEMMA ParseArgIInv ==
  ASSUME IInv, parse_arg
  PROVE  IInv'
<1>0. SHELL_BUFFER_SIZE \in Nat /\ SHELL_MAX_ARGS \in Nat /\ SHELL_MAX_ARGS >= 4
  BY ShellAssumption
<1>1. Shape /\ Ahead /\ Boundary /\ Behind
  BY DEF IInv, parse_arg
<1>2. PICK p : p = ArgStart
  OBVIOUS
<1>3. PICK s : s = ArgStop
  OBVIOUS
<1>4. /\ p \in token .. end /\ args_buffer[p] \notin Blank
      /\ \A q \in token .. p - 1 : args_buffer[q] \in Blank
  BY <1>1, <1>2, ArgStartFound
<1>5. /\ s \in p .. end /\ args_buffer[s] \in Blank \cup {NUL}
      /\ \A q \in p .. s - 1 : args_buffer[q] \notin Blank \cup {NUL}
  BY <1>1, <1>2, <1>3, ArgStopFound
<1>6. /\ pc = "parse" /\ token < end /\ argc < SHELL_MAX_ARGS - 1 /\ args_buffer[p] # NUL
      /\ argv' = [argv EXCEPT ![argc] = p] /\ argc' = argc + 1
      /\ args_buffer' = [args_buffer EXCEPT ![s] = NUL]
      /\ token' = (IF args_buffer[s] = NUL THEN s ELSE s + 1)
      /\ UNCHANGED <<end, pc, line, call>>
  BY <1>2, <1>3, Zenon DEF parse_arg, MoreArgs
<1>7. /\ line \in Seq(Chars) /\ Len(line) \in Nat /\ Len(line) < SHELL_BUFFER_SIZE - 1
      /\ end = Len(line) /\ token \in Nat /\ argc \in Nat /\ p \in Nat /\ s \in Nat
  BY <1>1, <1>4, <1>5 DEF Shape, Ahead
<1>8. \A i \in 1 .. Len(line) : line[i] # NUL
  BY <1>7 DEF Chars
<1>9. p < end /\ p < s
  BY <1>1, <1>4, <1>5, <1>6, <1>7 DEF Ahead
<1>10. /\ args_buffer[s] = NUL <=> s = end
       /\ s < end => line[s + 1] \in Blank
  BY <1>1, <1>4, <1>5, <1>7, <1>8 DEF Ahead
<1>11. /\ \A i \in token + 1 .. p : line[i] \in Blank
       /\ \A i \in p + 1 .. s : line[i] \notin Blank
  <2>1. ASSUME NEW i \in token + 1 .. p
        PROVE  line[i] \in Blank
    <3>1. i - 1 \in token .. p - 1 /\ i - 1 \in token .. end - 1 /\ (i - 1) + 1 = i
      BY <1>4, <1>7, <1>9
    <3> QED
      BY <3>1, <1>1, <1>4 DEF Ahead
  <2>2. ASSUME NEW i \in p + 1 .. s
        PROVE  line[i] \notin Blank
    <3>1. i - 1 \in p .. s - 1 /\ i - 1 \in token .. end - 1 /\ (i - 1) + 1 = i
      BY <1>4, <1>5, <1>7
    <3> QED
      BY <3>1, <1>1, <1>5 DEF Ahead
  <2> QED
    BY <2>1, <2>2
<1>12. p + 1 \in Starts(line)
  <2>1. IsBlank(line, p)
    BY <1>1, <1>4, <1>6, <1>7, <1>11 DEF Boundary, IsBlank
  <2> QED
    BY <2>1, <1>5, <1>7, <1>9, <1>11 DEF Starts, IsBlank
<1>13. \A j \in Starts(line) : j \in 1 .. Len(line) /\ (j <= token \/ j = p + 1 \/ j > token')
  <2>1. ASSUME NEW j \in Starts(line), j > token, j # p + 1, j <= token'
        PROVE  FALSE
    <3>1. j \in 1 .. Len(line) /\ line[j] \notin Blank /\ IsBlank(line, j - 1)
      BY DEF Starts, IsBlank
    <3>2. j > p + 1
      BY <3>1, <2>1, <1>4, <1>7, <1>11
    <3>3. j <= s
      BY <3>1, <2>1, <1>6, <1>7, <1>10
    <3>4. j - 1 \in p + 1 .. s /\ j - 1 \in 1 .. Len(line)
      BY <3>1, <3>2, <3>3, <1>7
    <3> QED
      BY <3>1, <3>4, <1>7, <1>11 DEF IsBlank
  <2>2. token' \in Nat
    BY <1>6, <1>7
  <2> QED
    BY <2>1, <2>2, <1>7 DEF Starts
<1>14. token' \in p + 1 .. end /\ token \in 0 .. p /\ token' >= s
  BY <1>4, <1>5, <1>6, <1>7, <1>9, <1>10
<1>15. StartsTo(token)' = StartsTo(token) \cup {p + 1}
  <2>1. ASSUME NEW j
        PROVE  j \in StartsTo(token)' <=> j \in StartsTo(token) \cup {p + 1}
    BY <1>6, <1>7, <1>12, <1>13, <1>14 DEF StartsTo
  <2> QED
    BY <2>1
<1>16. StartsBefore(p + 1) = StartsTo(token)
  <2>1. ASSUME NEW j
        PROVE  j \in StartsBefore(p + 1) <=> j \in StartsTo(token)
    BY <1>7, <1>13, <1>14 DEF StartsTo, StartsBefore
  <2> QED
    BY <2>1
<1>17. Cardinality(StartsTo(token))' = argc + 1
  <2>1. IsFiniteSet(StartsTo(token))
    <3>1. StartsTo(token) \in SUBSET Starts(line)
      BY DEF StartsTo
    <3> QED
      BY <3>1, <1>7, StartsFinite
  <2>2. p + 1 \notin StartsTo(token)
    BY <1>7, <1>14 DEF StartsTo
  <2>3. Cardinality(StartsTo(token) \cup {p + 1}) = Cardinality(StartsTo(token)) + 1
    BY <2>1, <2>2, FS_AddElement
  <2>4. Cardinality(StartsTo(token))' = Cardinality(StartsTo(token)) + 1
    BY <2>3, <1>15, Zenon
  <2> QED
    BY <2>4, <1>1 DEF Behind
<1>18. Stop(line, p + 1) = s
  <2>1. IsBlank(line, s + 1)
    BY <1>5, <1>7, <1>10 DEF IsBlank
  <2>2. \A k \in p + 1 .. s : ~IsBlank(line, k)
    BY <1>5, <1>7, <1>11 DEF IsBlank
  <2>3. p + 1 \in 1 .. Len(line) /\ s \in p + 1 .. Len(line)
    BY <1>5, <1>7, <1>9
  <2> QED
    BY <2>1, <2>2, <2>3, <1>7, StopIs
<1>19. /\ \A q \in Bytes : q # s => args_buffer'[q] = args_buffer[q]
       /\ args_buffer'[s] = NUL
       /\ DOMAIN args_buffer' = Bytes
  BY <1>0, <1>1, <1>5, <1>6, <1>7 DEF Shape, Bytes
<1>20. Shape'
  BY <1>0, <1>1, <1>6, <1>7, <1>14, <1>19 DEF Shape
<1>21. Ahead'
  <2>1. args_buffer'[end] = NUL
    BY <1>0, <1>1, <1>7, <1>19 DEF Ahead, Bytes
  <2>2. ASSUME NEW q \in token' .. end - 1
        PROVE  args_buffer'[q] = line[q + 1]
    <3>1. q # s /\ q \in token .. end - 1 /\ q \in Bytes
      BY <1>0, <1>6, <1>7, <1>10, <1>14 DEF Bytes
    <3> QED
      BY <3>1, <1>1, <1>19 DEF Ahead
  <2> QED
    BY <2>1, <2>2, <1>6, <1>7, <1>14 DEF Ahead
<1>22. Boundary'
  BY <1>5, <1>6, <1>7, <1>10 DEF Boundary, IsBlank
<1>23. ASSUME NEW i \in 0 .. argc' - 1
       PROVE  IsWord(i)'
  <2>1. CASE i = argc
    <3>1. argv'[i] = p
      BY <2>1, <1>0, <1>1, <1>6 DEF Shape
    <3>2. Cardinality(StartsBefore(p + 1))' = i
      <4>1. Cardinality(StartsBefore(p + 1)) = argc
        BY <1>1, <1>16 DEF Behind
      <4> QED
        BY <4>1, <2>1, <1>6 DEF StartsBefore
    <3>3. \A q \in p .. s - 1 : args_buffer'[q] = line[q + 1]
      <4>1. ASSUME NEW q \in p .. s - 1
            PROVE  q # s /\ q \in token .. end - 1 /\ q \in Bytes
        BY <1>0, <1>4, <1>5, <1>7 DEF Bytes
      <4> QED
        BY <4>1, <1>1, <1>19 DEF Ahead
    <3>4. s \in p + 1 .. Len(line) /\ s <= token'
      BY <1>5, <1>7, <1>9, <1>14
    <3> QED
      BY <3>1, <3>2, <3>3, <3>4, <1>6, <1>12, <1>18, <1>19 DEF IsWord
  <2>2. CASE i # argc
    <3>1. i \in 0 .. argc - 1 /\ argv'[i] = argv[i]
      BY <2>2, <1>0, <1>1, <1>6, <1>7 DEF Shape
    <3>2. IsWord(i)
      BY <3>1, <1>1 DEF Behind
    <3>3. PICK stop : stop = Stop(line, argv[i] + 1)
      OBVIOUS
    <3>4. /\ argv[i] \in Int /\ argv[i] + 1 \in Starts(line) /\ stop \in argv[i] + 1 .. Len(line)
          /\ stop <= token /\ args_buffer[stop] = NUL
          /\ \A q \in argv[i] .. stop - 1 : args_buffer[q] = line[q + 1]
      BY <3>1, <3>2, <3>3, <1>0, <1>1, <1>7 DEF IsWord, Shape
    <3>5. argv[i] + 1 \in 1 .. Len(line)
      BY <3>4, <1>13
    <3>6. stop # s /\ stop \in Bytes /\ stop <= token'
      BY <3>4, <3>5, <1>0, <1>7, <1>9, <1>14 DEF Bytes
    <3>7. args_buffer'[stop] = NUL
      BY <3>4, <3>6, <1>19
    <3>8. ASSUME NEW q \in argv[i] .. stop - 1
          PROVE  args_buffer'[q] = line[q + 1]
      <4>1. q # s /\ q \in Bytes
        BY <3>4, <3>5, <1>0, <1>7, <1>9, <1>14 DEF Bytes
      <4> QED
        BY <4>1, <3>4, <1>19
    <3>9. Cardinality(StartsBefore(argv[i] + 1)) = i
      BY <3>2 DEF IsWord
    <3>10. StartsBefore(argv[i] + 1)' = StartsBefore(argv[i] + 1)
      BY <3>1, <1>6, Zenon DEF StartsBefore
    <3>11. Cardinality(StartsBefore(argv[i] + 1))' = i
      BY <3>9, <3>10, Zenon
    <3> QED
      BY <3>1, <3>3, <3>4, <3>6, <3>7, <3>8, <3>11, <1>6 DEF IsWord
  <2> QED
    BY <2>1, <2>2
<1>24. Behind'
  BY <1>6, <1>17, <1>23 DEF Behind
<1> QED
  <2>1. call = NoCall
    BY <1>6 DEF IInv
  <2> QED
    BY <2>1, <1>6, <1>20, <1>21, <1>22, <1>24 DEF IInv

(* The loop ends at the end of the line, before nothing but blanks, or     *)
(* when the array is full.                                                 *)
LEMMA ParseEndIInv ==
  ASSUME IInv, parse_end
  PROVE  IInv'
<1>0. SHELL_BUFFER_SIZE \in Nat /\ SHELL_MAX_ARGS \in Nat /\ SHELL_MAX_ARGS >= 4
  BY ShellAssumption
<1>1. Shape /\ Ahead /\ Boundary /\ Behind
  BY DEF IInv, parse_end
<1>2. /\ line \in Seq(Chars) /\ Len(line) \in Nat /\ end = Len(line) /\ token \in Nat
      /\ argc \in 0 .. SHELL_MAX_ARGS - 1
  BY <1>1 DEF Shape, Ahead
<1>3. /\ argv' = [argv EXCEPT ![argc] = NULL] /\ pc' = "execute"
      /\ UNCHANGED <<args_buffer, argc, token, end, line>>
  BY DEF parse_end
<1>4. argv'[argc] = NULL /\ \A i \in 0 .. argc - 1 : argv'[i] = argv[i]
  BY <1>0, <1>1, <1>2, <1>3 DEF Shape
<1>5. Shape'
  BY <1>0, <1>1, <1>2, <1>3 DEF Shape, NULL
<1>6. Ahead' /\ Boundary'
  BY <1>1, <1>3 DEF Ahead, Boundary
<1>7. Behind'
  <2>1. \A i \in 0 .. argc - 1 : IsWord(i)'
    BY <1>1, <1>3, <1>4 DEF Behind, IsWord, StartsBefore
  <2> QED
    BY <2>1, <1>1, <1>3 DEF Behind, StartsTo
<1>8. ASSUME argc # SHELL_MAX_ARGS - 1
      PROVE  StartsTo(token) = Starts(line)
  <2>1. PICK p : p = ArgStart
    OBVIOUS
  <2>2. /\ p \in token .. end
        /\ \A q \in token .. p - 1 : args_buffer[q] \in Blank
    BY <1>1, <2>1, ArgStartFound
  <2>3. token >= end \/ args_buffer[p] = NUL
    BY <1>0, <1>2, <1>8, <2>1 DEF parse_end, MoreArgs
  <2>4. token = end \/ p = end
    BY <2>2, <2>3, <1>1, <1>2 DEF Ahead, Chars
  <2>5. ASSUME NEW j \in Starts(line)
        PROVE  j <= token
    <3>1. j \in 1 .. Len(line) /\ line[j] \notin Blank
      BY DEF Starts, IsBlank
    <3>2. ASSUME p = end, j > token
          PROVE  FALSE
      <4>1. j - 1 \in token .. p - 1 /\ j - 1 \in token .. end - 1 /\ (j - 1) + 1 = j
        BY <3>1, <3>2, <1>2
      <4> QED
        BY <4>1, <3>1, <2>2, <1>1 DEF Ahead
    <3> QED
      BY <3>1, <3>2, <2>4, <1>2
  <2> QED
    BY <2>5 DEF StartsTo
<1>9. Parsed'
  <2>1. argc # SHELL_MAX_ARGS - 1 => argc = Cardinality(Starts(line))
    BY <1>8, <1>1, Zenon DEF Behind
  <2> QED
    BY <2>1, <1>3, <1>4 DEF Parsed
<1> QED
  <2>1. call' = NoCall
    BY DEF IInv, parse_end
  <2> QED
    BY <2>1, <1>5, <1>6, <1>7, <1>9 DEF IInv

(* Every command ends through Finish.                                      *)
LEMMA CommandFinishes ==
  ASSUME \/ unknown_command \/ usage \/ cmd_plain \/ cmd_number \/ cmd_numbers \/ cmd_brk
         \/ cmd_read \/ cmd_write \/ cmd_reboot \/ cmd_halt \/ cmd_shutdown
  PROVE  Finish
<1>1. CASE unknown_command \/ usage \/ cmd_plain
  BY <1>1, Zenon DEF unknown_command, usage, cmd_plain, Return
<1>2. CASE cmd_number \/ cmd_numbers
  BY <1>2, Zenon DEF cmd_number, cmd_numbers, Call
<1>3. CASE cmd_brk
  <2>1. (argc < 2) \/ (Number(1) = 0) \/ (~(argc < 2) /\ Number(1) # 0)
    OBVIOUS
  <2> QED
    BY <1>3, <2>1, Zenon DEF cmd_brk, Return, Call
<1>4. CASE cmd_read \/ cmd_write
  BY <1>4, Zenon DEF cmd_read, cmd_write, Return, Call
<1>5. CASE cmd_reboot \/ cmd_halt \/ cmd_shutdown
  BY <1>5, Zenon DEF cmd_reboot, cmd_halt, cmd_shutdown, Becomes
<1> QED
  BY <1>1, <1>2, <1>3, <1>4, <1>5

LEMMA NextIInv ==
  ASSUME IInv, [Next]_vars
  PROVE  IInv'
<1>1. ASSUME NEW l \in Typed, shell_reject_input(l)
      PROVE  IInv'
  BY <1>1 DEF shell_reject_input, IInv, Shape, locals
<1>2. ASSUME NEW l \in Typed, shell_process_input(l)
      PROVE  IInv'
  BY <1>2, ProcessIInv
<1>3. CASE parse_arg
  BY <1>3, ParseArgIInv
<1>4. CASE parse_end
  BY <1>4, ParseEndIInv
<1>5. CASE shell_execute_command
  <2>1. pc = "execute" /\ UNCHANGED <<args_buffer, argv, argc, token, end, call, line>>
    BY <1>5 DEF shell_execute_command, locals
  <2>2. Shape /\ Ahead /\ Boundary /\ Behind /\ call = NoCall /\ Parsed
    BY <2>1 DEF IInv
  <2>3. Shape' /\ Ahead' /\ Boundary' /\ Behind' /\ call' = NoCall /\ Parsed'
    BY <2>1, <2>2 DEF Shape, Ahead, Boundary, Behind, IsWord, Parsed, StartsTo, StartsBefore
  <2> QED
    BY <2>3 DEF IInv
<1>6. CASE \/ unknown_command \/ usage \/ cmd_plain \/ cmd_number \/ cmd_numbers \/ cmd_brk
           \/ cmd_read \/ cmd_write \/ cmd_reboot \/ cmd_halt \/ cmd_shutdown
  BY <1>6, CommandFinishes, FinishIInv
<1>7. CASE boot
  BY <1>7, ShellAssumption DEF boot, IInv, Shape, JUNK
<1>8. CASE stopped \/ UNCHANGED vars
  BY <1>8 DEF stopped, vars, IInv, Shape, Ahead, Boundary, Behind, IsWord, Parsed,
              StartsTo, StartsBefore
<1> QED
  BY <1>1, <1>2, <1>3, <1>4, <1>5, <1>6, <1>7, <1>8 DEF Next, Step

----------------------------------------------------------------------------
(* The buffers of the command line stay those of the inductive invariant.  *)
THEOREM Invariance == Spec => []IInv
<1>1. Init => IInv
  BY InitIInv
<1>2. IInv /\ [Next]_vars => IInv'
  BY NextIInv
<1> QED
  BY <1>1, <1>2, PTL DEF Spec

(* The arguments that shell_parse_args cut are words of the line.          *)
LEMMA ArgumentIs ==
  ASSUME IInv, pc \notin {"idle", "parse"}, NEW i \in 0 .. argc - 1
  PROVE  /\ i + 1 \in 1 .. Cardinality(Starts(line))
         /\ Argument(i) = Words(line)[i + 1] /\ Argument(i) \in Seq(STRING)
<1>0. SHELL_BUFFER_SIZE \in Nat
  BY ShellAssumption
<1>1. Shape /\ Ahead /\ Behind
  BY DEF IInv
<1>2. /\ line \in Seq(Chars) /\ Len(line) \in Nat /\ Len(line) < SHELL_BUFFER_SIZE - 1
      /\ argc \in Nat /\ \A k \in 1 .. Len(line) : line[k] # NUL
  BY <1>1 DEF Shape, Ahead, Chars
<1>3. PICK p : p = argv[i]
  OBVIOUS
<1>4. PICK s : s = Stop(line, p + 1)
  OBVIOUS
<1>5. /\ p + 1 \in Starts(line) /\ s \in p + 1 .. Len(line)
      /\ Cardinality(StartsBefore(p + 1)) = i
      /\ args_buffer[s] = NUL
      /\ \A q \in p .. s - 1 : args_buffer[q] = line[q + 1]
  <2>1. IsWord(i)
    BY <1>1 DEF Behind
  <2> QED
    BY <2>1, <1>3, <1>4 DEF IsWord
<1>6. p \in Nat /\ p + 1 \in 1 .. Len(line)
  <2>1. p \in Int
    BY <1>1, <1>3, ShellAssumption DEF Shape
  <2> QED
    BY <2>1, <1>2, <1>5 DEF Starts
<1>7. Nth(line, i + 1) = p + 1
  <2>1. (i + 1) - 1 = i
    OBVIOUS
  <2>2. Nth(line, i + 1) = CHOOSE x \in Starts(line) : Cardinality(StartsBefore(x)) = i
    BY <2>1, Zenon DEF Nth, StartsBefore
  <2>3. \A x \in Starts(line) : Cardinality(StartsBefore(x)) = i => x = p + 1
    BY <1>2, <1>5, NthStart
  <2> QED
    BY <2>2, <2>3, <1>5
<1>8. i + 1 \in 1 .. Cardinality(Starts(line))
  <2>1. StartsTo(token) \in SUBSET Starts(line)
    BY DEF StartsTo
  <2>2. IsFiniteSet(Starts(line)) /\ Cardinality(Starts(line)) \in Nat
    BY <1>2, StartsFinite
  <2>3. Cardinality(StartsTo(token)) <= Cardinality(Starts(line))
    BY <2>1, <2>2, FS_Subset
  <2> QED
    BY <2>2, <2>3, <1>1, <1>2 DEF Behind
<1>9. Words(line)[i + 1] = SubSeq(line, p + 1, s)
  <2>1. Words(line)[i + 1] = SubSeq(line, Nth(line, i + 1), Stop(line, Nth(line, i + 1)))
    BY <1>8, Zenon DEF Words
  <2> QED
    BY <2>1, <1>4, <1>7, Zenon
<1>10. strlen(args_buffer, p) = s - p
  <2>1. \A q \in p .. s - 1 : args_buffer[q] # NUL
    BY <1>2, <1>5, <1>6
  <2>2. s \in Bytes /\ p <= s
    BY <1>0, <1>2, <1>5, <1>6 DEF Bytes
  <2> QED
    BY <2>1, <2>2, <1>5, <1>6, StrLen
<1>11. Argument(i) = [k \in 1 .. s - p |-> args_buffer[p + k - 1]]
  BY <1>3, <1>10, Zenon DEF Argument, String
<1>12. SubSeq(line, p + 1, s) = [k \in 1 .. s - p |-> line[p + k]]
  BY <1>2, <1>5, <1>6
<1>13. \A k \in 1 .. s - p : args_buffer[p + k - 1] = line[p + k]
  <2>1. ASSUME NEW k \in 1 .. s - p
        PROVE  p + k - 1 \in p .. s - 1 /\ (p + k - 1) + 1 = p + k
    BY <1>5, <1>6
  <2> QED
    BY <2>1, <1>5
<1>14. Argument(i) = SubSeq(line, p + 1, s)
  BY <1>11, <1>12, <1>13
<1>15. SubSeq(line, p + 1, s) \in Seq(STRING)
  <2>1. \A k \in 1 .. s - p : p + k \in 1 .. Len(line) /\ line[p + k] \in STRING
    BY <1>2, <1>5, <1>6 DEF Chars
  <2>2. PICK m \in Nat : m = s - p
    BY <1>5, <1>6
  <2>3. PICK t : t = SubSeq(line, p + 1, s)
    OBVIOUS
  <2>4. t = [k \in 1 .. m |-> line[p + k]] /\ \A k \in 1 .. m : line[p + k] \in STRING
    BY <1>12, <2>1, <2>2, <2>3
  <2>5. t \in [1 .. m -> STRING]
    BY <2>4, Zenon
  <2>6. t \in Seq(STRING)
    BY <2>5
  <2> QED
    BY <2>3, <2>6
<1> QED
  BY <1>8, <1>9, <1>14, <1>15, Zenon

(* A command runs on the words of its own line, in their order, for every  *)
(* line, buffer and array: shell_parse_args never takes a byte of an older *)
(* line, skips no word, and leaves room for the null pointer.              *)
THEOREM ArgumentsCorrect == Spec => []ArgsAreWords
<1>1. ASSUME IInv, pc = "execute"
      PROVE  /\ argc < SHELL_MAX_ARGS /\ argv[argc] = NULL
             /\ [i \in 1 .. argc |-> Argument(i - 1)] =
                  SubSeq(Words(line), 1, IF Len(Words(line)) < SHELL_MAX_ARGS
                                         THEN Len(Words(line)) ELSE SHELL_MAX_ARGS - 1)
  <2>0. SHELL_MAX_ARGS \in Nat /\ argc \in 0 .. SHELL_MAX_ARGS - 1
    BY <1>1, ShellAssumption DEF IInv, Shape
  <2>1. argv[argc] = NULL
    BY <1>1 DEF IInv, Parsed
  <2>2. PICK n : n = Cardinality(Starts(line))
    OBVIOUS
  <2>3. n \in Nat /\ argc <= n
    <3>1. line \in Seq(Chars) /\ argc = Cardinality(StartsTo(token))
      BY <1>1 DEF IInv, Ahead, Behind
    <3>2. IsFiniteSet(Starts(line)) /\ Cardinality(Starts(line)) \in Nat
      BY <3>1, StartsFinite
    <3>3. StartsTo(token) \in SUBSET Starts(line)
      BY DEF StartsTo
    <3>4. Cardinality(StartsTo(token)) <= Cardinality(Starts(line))
      BY <3>2, <3>3, FS_Subset
    <3> QED
      BY <3>1, <3>2, <3>4, <2>2
  <2>4. argc = n \/ argc = SHELL_MAX_ARGS - 1
    BY <1>1, <2>2 DEF IInv, Parsed
  <2>5. PICK w : w = Words(line)
    OBVIOUS
  <2>6. w \in Seq({w[k] : k \in 1 .. n}) /\ Len(w) = n
    <3> DEFINE word(k) == SubSeq(line, Nth(line, k), Stop(line, Nth(line, k)))
    <3>1. w = [k \in 1 .. n |-> word(k)]
      BY <2>2, <2>5, Zenon DEF Words
    <3> HIDE DEF word
    <3> QED
      BY <3>1, <2>3
  <2>7. ASSUME NEW i \in 1 .. argc
        PROVE  Argument(i - 1) = w[i]
    <3>1. i - 1 \in 0 .. argc - 1 /\ (i - 1) + 1 = i
      BY <2>0
    <3>2. Argument(i - 1) = Words(line)[(i - 1) + 1]
      BY <3>1, <1>1, ArgumentIs
    <3> QED
      BY <3>1, <3>2, <2>5, Zenon
  <2>8. argc = IF Len(w) < SHELL_MAX_ARGS THEN Len(w) ELSE SHELL_MAX_ARGS - 1
    BY <2>0, <2>3, <2>4, <2>6
  <2>9. SubSeq(w, 1, argc) = [i \in 1 .. argc |-> w[i]]
    BY <2>0, <2>3, <2>6
  <2> HIDE DEF Argument
  <2>10. [i \in 1 .. argc |-> Argument(i - 1)] = [i \in 1 .. argc |-> w[i]]
    BY <2>7, Zenon
  <2>11. SubSeq(w, 1, IF Len(w) < SHELL_MAX_ARGS THEN Len(w) ELSE SHELL_MAX_ARGS - 1)
           = [i \in 1 .. argc |-> w[i]]
    BY <2>8, <2>9, Zenon
  <2> QED
    BY <2>0, <2>1, <2>5, <2>10, <2>11
<1>2. IInv => ArgsAreWords
  BY <1>1, Zenon DEF ArgsAreWords
<1> QED
  BY <1>2, Invariance, PTL

----------------------------------------------------------------------------
(***************************************************************************)
(* Recursive functions.  They are defined by CHOOSE: that there is one is  *)
(* shown by building it up to n.                                           *)
(***************************************************************************)
(* f is defined by recursion: F gives the next value from the last one.    *)
Recursive(f, n, A, a, F) ==
  f \in [0 .. n -> A] /\ f[0] = a /\ \A k \in 1 .. n : f[k] = F[<<f[k - 1], k>>]

LEMMA Recursion ==
  ASSUME NEW n \in Nat, NEW A, NEW a \in A, NEW F \in [A \X (1 .. n) -> A]
  PROVE  \E f : Recursive(f, n, A, a, F)
<1> DEFINE Good(m, f) == f[0] = a /\ \A k \in 1 .. m : f[k] = F[<<f[k - 1], k>>]
           S == {m \in 0 .. n : \E f \in [0 .. m -> A] : Good(m, f)}
<1>1. 0 \in S
  <2>1. [k \in 0 .. 0 |-> a] \in [0 .. 0 -> A] /\ Good(0, [k \in 0 .. 0 |-> a])
    OBVIOUS
  <2> HIDE DEF Good
  <2> QED
    BY <2>1
<1>2. ASSUME NEW m \in 1 .. n, m - 1 \in S
      PROVE  m \in S
  <2>1. PICK h \in [0 .. m - 1 -> A] : Good(m - 1, h)
    BY <1>2
  <2> DEFINE g == [k \in 0 .. m |-> IF k = m THEN F[<<h[m - 1], m>>] ELSE h[k]]
  <2>2. h[m - 1] \in A /\ F[<<h[m - 1], m>>] \in A
    BY <2>1
  <2>3. \A k \in 0 .. m - 1 : g[k] = h[k] /\ h[k] \in A
    BY <2>1
  <2>4. g[m] = F[<<h[m - 1], m>>]
    OBVIOUS
  <2>5. g \in [0 .. m -> A]
    <3>1. \A k \in 0 .. m : (IF k = m THEN F[<<h[m - 1], m>>] ELSE h[k]) \in A
      BY <2>1, <2>2
    <3> QED
      BY <3>1
  <2> HIDE DEF g
  <2>6. g[0] = a
    BY <2>1, <2>3
  <2>7. ASSUME NEW k \in 1 .. m
        PROVE  g[k] = F[<<g[k - 1], k>>]
    <3>1. CASE k = m
      <4>1. m - 1 \in 0 .. m - 1 /\ g[m - 1] = h[m - 1]
        BY <2>3
      <4> QED
        BY <3>1, <4>1, <2>4, Zenon
    <3>2. CASE k # m
      <4>1. k \in 1 .. m - 1 /\ k \in 0 .. m - 1 /\ k - 1 \in 0 .. m - 1
        BY <3>2
      <4>2. h[k] = F[<<h[k - 1], k>>]
        BY <4>1, <2>1
      <4> QED
        BY <4>1, <4>2, <2>3
    <3> QED
      BY <3>1, <3>2
  <2>8. Good(m, g)
    BY <2>6, <2>7
  <2> HIDE DEF Good
  <2> QED
    BY <2>5, <2>8
<1>3. n \in S
  <2> HIDE DEF S
  <2> QED
    BY <1>1, <1>2, UpTo
<1>4. PICK f \in [0 .. n -> A] : Good(n, f)
  BY <1>3
<1>5. Recursive(f, n, A, a, F)
  BY <1>4, Zenon DEF Recursive
<1> QED
  BY <1>5

(* The powers up to the n-th.                                              *)
Powers(b, n, f) == f \in [0 .. n -> Nat] /\ f[0] = 1 /\ \A k \in 1 .. n : f[k] = b * f[k - 1]

LEMMA PowersAgree ==
  ASSUME NEW b \in Nat, NEW m \in Nat, NEW n \in Nat, m <= n, NEW f, NEW g,
         Powers(b, m, f), Powers(b, n, g)
  PROVE  f[m] = g[m]
<1> DEFINE S == {k \in 0 .. m : f[k] = g[k]}
<1>1. 0 \in S
  BY DEF Powers
<1>2. ASSUME NEW k \in 1 .. m, k - 1 \in S
      PROVE  k \in S
  <2>1. k \in 1 .. n /\ k \in 0 .. m
    OBVIOUS
  <2> QED
    BY <1>2, <2>1 DEF Powers
<1>3. m \in S
  <2> HIDE DEF S
  <2> QED
    BY <1>1, <1>2, UpTo
<1> QED
  BY <1>3

LEMMA PowIs ==
  ASSUME NEW b \in Nat
  PROVE  Pow(b, 0) = 1 /\ \A n \in Nat : Pow(b, n) \in Nat /\ Pow(b, n + 1) = b * Pow(b, n)
<1> DEFINE sol(n) == CHOOSE f : Powers(b, n, f)
           next(q, k) == IF k = 0 THEN 1 ELSE b * q[k - 1]
           p == CHOOSE q : q = [k \in Nat |-> next(q, k)]
           r == [k \in Nat |-> sol(k)[k]]
<1>1. ASSUME NEW n \in Nat
      PROVE  Powers(b, n, sol(n))
  <2> DEFINE F == [x \in Nat \X (1 .. n) |-> b * x[1]]
  <2>1. F \in [Nat \X (1 .. n) -> Nat]
    OBVIOUS
  <2>2. \A x \in Nat, k \in 1 .. n : F[<<x, k>>] = b * x
    OBVIOUS
  <2> HIDE DEF F
  <2>3. PICK f : Recursive(f, n, Nat, 1, F)
    BY <2>1, 1 \in Nat, Recursion
  <2>4. Powers(b, n, f)
    <3>1. f \in [0 .. n -> Nat] /\ f[0] = 1 /\ \A k \in 1 .. n : f[k] = F[<<f[k - 1], k>>]
      BY <2>3, Zenon DEF Recursive
    <3>2. \A k \in 1 .. n : f[k - 1] \in Nat
      BY <3>1
    <3> QED
      BY <2>2, <3>1, <3>2 DEF Powers
  <2> QED
    BY <2>4
<1> HIDE DEF sol
<1>2. r[0] = 1 /\ \A k \in Nat : r[k] \in Nat
  BY <1>1 DEF Powers
<1>3. ASSUME NEW k \in Nat \ {0}
      PROVE  r[k] = b * r[k - 1]
  <2>1. k - 1 \in Nat /\ k - 1 <= k /\ k \in 1 .. k
    OBVIOUS
  <2>2. sol(k - 1)[k - 1] = sol(k)[k - 1]
    BY <1>1, <2>1, PowersAgree
  <2>3. sol(k)[k] = b * sol(k)[k - 1]
    BY <1>1, <2>1 DEF Powers
  <2> QED
    BY <2>1, <2>2, <2>3
<1>4. r = [k \in Nat |-> next(r, k)]
  <2>1. \A k \in Nat : r[k] = next(r, k)
    BY <1>2, <1>3
  <2>2. r = [k \in Nat |-> r[k]]
    OBVIOUS
  <2> HIDE DEF r, next
  <2> QED
    BY <2>1, <2>2
<1>5. p = [k \in Nat |-> next(p, k)]
  <2> HIDE DEF r, next
  <2> QED
    BY <1>4, Zenon
<1>6. \A n \in Nat : Pow(b, n) = p[n]
  BY Zenon DEF Pow
<1> HIDE DEF p
<1>7. p[0] = 1 /\ \A n \in Nat : p[n + 1] = b * p[n]
  <2>1. \A k \in Nat : p[k] = next(p, k)
    BY <1>5
  <2> QED
    BY <2>1
<1>8. ASSUME NEW n \in Nat
      PROVE  p[n] \in Nat
  <2> DEFINE S == {k \in 0 .. n : p[k] \in Nat}
  <2>1. 0 \in S
    BY <1>7
  <2>2. ASSUME NEW k \in 1 .. n, k - 1 \in S
        PROVE  k \in S
    <3>1. k - 1 \in Nat /\ (k - 1) + 1 = k /\ p[k - 1] \in Nat
      BY <2>2
    <3>2. p[(k - 1) + 1] = b * p[k - 1]
      BY <3>1, <1>7
    <3> QED
      BY <3>1, <3>2
  <2>3. n \in S
    <3> HIDE DEF S
    <3> QED
      BY <2>1, <2>2, UpTo
  <2> QED
    BY <2>3
<1> QED
  BY <1>6, <1>7, <1>8

----------------------------------------------------------------------------
(***************************************************************************)
(* Division.                                                               *)
(***************************************************************************)
LEMMA PowPositive ==
  ASSUME NEW b \in Nat \ {0}, NEW n \in Nat
  PROVE  Pow(b, n) \in Nat \ {0}
<1> DEFINE S == {k \in 0 .. n : Pow(b, k) # 0}
<1> b \in Nat
  OBVIOUS
<1>1. 0 \in S
  BY PowIs
<1>2. ASSUME NEW k \in 1 .. n, k - 1 \in S
      PROVE  k \in S
  <2>1. k - 1 \in Nat /\ (k - 1) + 1 = k /\ Pow(b, k - 1) # 0
    BY <1>2
  <2>2. Pow(b, k - 1) \in Nat /\ Pow(b, (k - 1) + 1) = b * Pow(b, k - 1)
    BY <2>1, PowIs
  <2> QED
    BY <2>1, <2>2
<1>3. n \in S
  <2> HIDE DEF S
  <2> QED
    BY <1>1, <1>2, UpTo
<1> QED
  BY <1>3, PowIs

LEMMA WordPositive == Word \in Nat \ {0}
<1>1. Nibbles \in Nat /\ 16 \in Nat \ {0}
  BY ShellAssumption
<1> QED
  BY <1>1, PowPositive DEF Word

LEMMA Division ==
  ASSUME NEW w \in Nat \ {0}, NEW a \in Nat
  PROVE  /\ a \div w \in Nat /\ a % w \in 0 .. w - 1
         /\ (a \div w) * w \in Nat /\ a = (a \div w) * w + (a % w)
  OBVIOUS

LEMMA Quotient ==
  ASSUME NEW w \in Nat \ {0}, NEW q \in Nat, NEW r \in 0 .. w - 1, NEW k \in Nat,
         NEW t \in 0 .. w - 1, q * w + r = k * w + t
  PROVE  q = k /\ r = t
<1>1. ASSUME NEW i \in Nat, NEW j \in Nat, i < j
      PROVE  i * w + w <= j * w
  <2>1. (i + 1) * w <= j * w
    BY <1>1
  <2>2. (i + 1) * w = i * w + w
    OBVIOUS
  <2> QED
    BY <2>1, <2>2
<1>2. q * w \in Nat /\ k * w \in Nat
  OBVIOUS
<1>3. ~(q < k) /\ ~(k < q)
  BY <1>1, <1>2
<1> QED
  BY <1>2, <1>3

(* The quotient and the remainder are the only ones.                       *)
LEMMA Remainder ==
  ASSUME NEW w \in Nat \ {0}, NEW q \in Nat, NEW r \in 0 .. w - 1, NEW x, x = q * w + r
  PROVE  x \div w = q /\ x % w = r
<1>1. x \in Nat
  OBVIOUS
<1>2. /\ x \div w \in Nat /\ x % w \in 0 .. w - 1
      /\ x = (x \div w) * w + (x % w)
  BY <1>1, Division
<1>3. PICK k \in Nat, t \in 0 .. w - 1 : k = x \div w /\ t = x % w
  BY <1>2
<1>4. q * w + r = k * w + t
  BY <1>2, <1>3
<1> QED
  BY <1>3, <1>4, Quotient

(* The last digit of v \div p, and the ones before it.                     *)
LEMMA LastDigit ==
  ASSUME NEW v \in Nat, NEW p \in Nat \ {0}, NEW b \in Nat \ {0}
  PROVE  /\ v \div p \in Nat /\ v \div (b * p) \in Nat /\ (v \div p) % b \in 0 .. b - 1
         /\ v \div p = (v \div (b * p)) * b + ((v \div p) % b)
<1>1. PICK q, r : q = v \div p /\ r = v % p
  OBVIOUS
<1>2. q \in Nat /\ r \in 0 .. p - 1 /\ v = q * p + r
  BY <1>1, Division
<1>3. PICK k, d : k = q \div b /\ d = q % b
  OBVIOUS
<1>4. k \in Nat /\ d \in 0 .. b - 1 /\ q = k * b + d
  BY <1>2, <1>3, Division
<1>5. q * p = k * (b * p) + d * p
  <2>1. (k * b + d) * p = (k * b) * p + d * p
    BY <1>4
  <2>2. (k * b) * p = k * (b * p)
    BY <1>4
  <2> QED
    BY <1>4, <2>1, <2>2
<1>6. d * p + r \in 0 .. b * p - 1
  <2>1. (d + 1) * p <= b * p
    BY <1>4
  <2>2. (d + 1) * p = d * p + p /\ d * p \in Nat
    BY <1>4
  <2> QED
    BY <2>1, <2>2, <1>2
<1>7. b * p \in Nat \ {0} /\ k * (b * p) \in Nat /\ d * p \in Nat
  BY <1>4
<1>8. v = k * (b * p) + (d * p + r)
  <2>1. PICK x \in Nat, y \in Nat : x = k * (b * p) /\ y = d * p
    BY <1>7
  <2>2. q * p = x + y
    BY <1>5, <2>1
  <2>3. v = (x + y) + r
    BY <1>2, <2>2
  <2>4. v = x + (y + r)
    BY <1>2, <2>3
  <2> QED
    BY <2>1, <2>4
<1>9. v \div (b * p) = k
  <2>1. PICK w, t : w = b * p /\ t = d * p + r
    OBVIOUS
  <2> QED
    BY <1>4, <1>6, <1>7, <1>8, <2>1, Remainder
<1> QED
  BY <1>1, <1>2, <1>3, <1>4, <1>9

----------------------------------------------------------------------------
(***************************************************************************)
(* Numbers that are read.                                                  *)
(***************************************************************************)
LEMMA DigitFacts ==
  /\ DOMAIN Digit = Decimal \cup Upper \cup Lower
  /\ \A c \in DOMAIN Digit : Digit[c] \in 0 .. 15
  /\ \A c \in Decimal : Digit[c] \in 0 .. 9
  /\ \A c \in Upper : Digit[c] \in 10 .. 15
<1>1. DOMAIN Digit = Decimal \cup Upper \cup Lower
  BY DEF Digit
<1>2. \A c \in Decimal : Digit[c] \in 0 .. 9
  BY DEF Digit, Decimal
<1>3. \A c \in Upper : Digit[c] \in 10 .. 15
  BY DEF Digit, Upper
<1>4. \A c \in Lower : Digit[c] \in 10 .. 15
  BY DEF Digit, Lower
<1> QED
  BY <1>1, <1>2, <1>3, <1>4

LEMMA GlyphIs ==
  ASSUME NEW n \in 0 .. 15
  PROVE  /\ Glyph(n) \in Decimal \cup Upper /\ Digit[Glyph(n)] = n
         /\ n < 10 => Glyph(n) \in Decimal
<1>1. \E c \in Decimal \cup Upper : Digit[c] = n
  <2>1. /\ Digit["0"] = 0 /\ Digit["1"] = 1 /\ Digit["2"] = 2 /\ Digit["3"] = 3
        /\ Digit["4"] = 4 /\ Digit["5"] = 5 /\ Digit["6"] = 6 /\ Digit["7"] = 7
    BY DEF Digit, Decimal
  <2>2. /\ Digit["8"] = 8 /\ Digit["9"] = 9 /\ Digit["A"] = 10 /\ Digit["B"] = 11
        /\ Digit["C"] = 12 /\ Digit["D"] = 13 /\ Digit["E"] = 14 /\ Digit["F"] = 15
    BY DEF Digit, Decimal, Upper
  <2>3. /\ "0" \in Decimal /\ "1" \in Decimal /\ "2" \in Decimal /\ "3" \in Decimal
        /\ "4" \in Decimal /\ "5" \in Decimal /\ "6" \in Decimal /\ "7" \in Decimal
        /\ "8" \in Decimal /\ "9" \in Decimal /\ "A" \in Upper /\ "B" \in Upper
        /\ "C" \in Upper /\ "D" \in Upper /\ "E" \in Upper /\ "F" \in Upper
    BY DEF Decimal, Upper
  <2>4. CASE n < 10
    BY <2>1, <2>2, <2>3, <2>4
  <2>5. CASE n >= 10
    BY <2>2, <2>3, <2>5
  <2> QED
    BY <2>4, <2>5
<1>2. Glyph(n) \in Decimal \cup Upper /\ Digit[Glyph(n)] = n
  BY <1>1, Zenon DEF Glyph
<1> QED
  BY <1>2, DigitFacts

(* n characters are digits, up to the end or to one that is not a digit.   *)
Leads(s, digits, from, len, n) ==
  /\ n \in 0 .. len - from + 1
  /\ \A i \in from .. from + n - 1 : s[i] \in digits
  /\ n = len - from + 1 \/ s[from + n] \notin digits

(* What the loops of parse_hex_or_dec compute on the first n characters,   *)
(* the last ones before a character that is not a digit.                   *)
Reads(v, n, d, base) ==
  /\ v \in [0 .. n -> 0 .. Word - 1] /\ v[0] = 0
  /\ \A k \in 1 .. n : v[k] = (v[k - 1] * base + d[k]) % Word

(* The loops end after the first n characters.                             *)
EndsAfter(s, digits, base, n) ==
  \E v : /\ Reads(v, n, [i \in 1 .. n |-> Digit[s[i]]], base)
         /\ Accumulate(s, digits, base) = v[n]

LEMMA AccumulateReads ==
  ASSUME NEW s, Len(s) \in Nat, NEW digits \in SUBSET DOMAIN Digit, NEW base \in Nat,
         NEW n, Leads(s, digits, 1, Len(s), n)
  PROVE  EndsAfter(s, digits, base, n)
<1> DEFINE N == Len(s)
           A == [val : 0 .. Word - 1, end : BOOLEAN]
           z == [val |-> 0, end |-> FALSE]
           step(x, k) == IF x.end \/ s[k] \notin digits THEN [x EXCEPT !.end = TRUE]
                         ELSE [x EXCEPT !.val = (@ * base + Digit[s[k]]) % Word]
           next(q, k) == IF k = 0 THEN z ELSE step(q[k - 1], k)
           a == CHOOSE q : q = [k \in 0 .. N |-> next(q, k)]
           F == [y \in A \X (1 .. N) |-> step(y[1], y[2])]
           d == [i \in 1 .. n |-> Digit[s[i]]]
<1>0. /\ n \in 0 .. Len(s) /\ \A i \in 1 .. n : s[i] \in digits
      /\ n = Len(s) \/ s[n + 1] \notin digits
  <2>1. n \in 0 .. Len(s) - 1 + 1
    BY DEF Leads
  <2>2. n \in 0 .. Len(s) /\ 1 + n - 1 = n /\ 1 + n = n + 1 /\ Len(s) - 1 + 1 = Len(s)
    BY <2>1
  <2> QED
    BY <2>2, Zenon DEF Leads
<1>1. \A c \in digits : Digit[c] \in Nat
  BY DigitFacts
<1>2. ASSUME NEW x \in A, NEW k \in 1 .. N
      PROVE  step(x, k) \in A
  <2>1. CASE x.end \/ s[k] \notin digits
    BY <2>1
  <2>2. CASE ~(x.end \/ s[k] \notin digits)
    <3>1. PICK m \in Nat : m = x.val * base + Digit[s[k]]
      BY <1>1, <2>2, WordPositive
    <3>2. m % Word \in 0 .. Word - 1
      BY WordPositive, Division
    <3>3. step(x, k) = [x EXCEPT !.val = m % Word]
      BY <2>2, <3>1, Zenon
    <3> HIDE DEF step
    <3> QED
      BY <3>2, <3>3
  <2> QED
    BY <2>1, <2>2
<1>3. z \in A
  BY WordPositive
<1>4. \E q : q = [k \in 0 .. N |-> next(q, k)]
  <2>1. F \in [A \X (1 .. N) -> A]
    <3> HIDE DEF step, A
    <3> QED
      BY <1>2
  <2>2. \A x \in A, k \in 1 .. N : F[<<x, k>>] = step(x, k)
    <3> HIDE DEF step, A
    <3> QED
      OBVIOUS
  <2> HIDE DEF F, A, step, z
  <2>3. PICK f : Recursive(f, N, A, z, F)
    BY <1>3, <2>1, Recursion
  <2>4. f \in [0 .. N -> A] /\ f[0] = z /\ \A k \in 1 .. N : f[k] = F[<<f[k - 1], k>>]
    BY <2>3, Zenon DEF Recursive
  <2>5. \A k \in 0 .. N : f[k] = next(f, k)
    <3>1. ASSUME NEW k \in 1 .. N
          PROVE  f[k] = step(f[k - 1], k)
      <4>1. k - 1 \in 0 .. N
        OBVIOUS
      <4>2. f[k - 1] \in A
        BY <2>4, <4>1, Zenon
      <4> QED
        BY <2>2, <2>4, <4>2, Zenon
    <3>2. \A k \in 0 .. N : k = 0 \/ k \in 1 .. N
      OBVIOUS
    <3> QED
      BY <2>4, <3>1, <3>2, Zenon
  <2> HIDE DEF next
  <2>6. f = [k \in 0 .. N |-> next(f, k)]
    BY <2>4, <2>5
  <2> QED
    BY <2>6
<1>5. a = [k \in 0 .. N |-> next(a, k)]
  <2> HIDE DEF next
  <2> QED
    BY <1>4, Zenon
<1>6. Accumulate(s, digits, base) = a[N].val
  BY Zenon DEF Accumulate
<1> HIDE DEF a
<1>7. a[0] = z /\ \A k \in 1 .. N : a[k] = step(a[k - 1], k)
  <2>1. \A k \in 0 .. N : a[k] = next(a, k)
    <3> HIDE DEF next
    <3> QED
      BY <1>5
  <2> HIDE DEF step, z
  <2> QED
    BY <2>1
<1>8. \A k \in 0 .. N : a[k] \in A
  <2> DEFINE S == {k \in 0 .. N : a[k] \in A}
  <2>1. 0 \in S
    <3> HIDE DEF z, A
    <3> QED
      BY <1>3, <1>7
  <2>2. ASSUME NEW k \in 1 .. N, k - 1 \in S
        PROVE  k \in S
    <3> HIDE DEF step, A
    <3> QED
      BY <1>2, <1>7, <2>2
  <2> HIDE DEF S
  <2>3. \A k \in 0 .. N : k \in S
    BY <2>1, <2>2, UpTo
  <2> QED
    BY <2>3 DEF S
<1>9. ASSUME NEW x \in A, NEW k \in 1 .. N
      PROVE  /\ x.end \/ s[k] \notin digits => step(x, k).val = x.val /\ step(x, k).end
             /\ ~x.end /\ s[k] \in digits =>
                  /\ step(x, k).val = (x.val * base + Digit[s[k]]) % Word
                  /\ ~step(x, k).end
  <2>1. ASSUME NEW m
        PROVE  [x EXCEPT !.val = m].val = m /\ [x EXCEPT !.val = m].end = x.end
    OBVIOUS
  <2>2. [x EXCEPT !.end = TRUE].val = x.val /\ [x EXCEPT !.end = TRUE].end
    OBVIOUS
  <2>3. x.end \/ s[k] \notin digits => step(x, k) = [x EXCEPT !.end = TRUE]
    BY Zenon
  <2>4. ~x.end /\ s[k] \in digits =>
          step(x, k) = [x EXCEPT !.val = (x.val * base + Digit[s[k]]) % Word]
    BY Zenon
  <2> HIDE DEF step
  <2> QED
    BY <2>1, <2>2, <2>3, <2>4, Zenon
<1> HIDE DEF step, N, A
<1>10. N \in Nat /\ n \in 0 .. N /\ n \in Nat
  BY <1>0 DEF N
<1>11. \A k \in 0 .. n : ~a[k].end
  <2> DEFINE S == {k \in 0 .. n : ~a[k].end}
  <2>1. 0 \in S
    BY <1>7, <1>10
  <2>2. ASSUME NEW k \in 1 .. n, k - 1 \in S
        PROVE  k \in S
    <3>1. k \in 1 .. N /\ k - 1 \in 0 .. N /\ k \in 0 .. n
      BY <1>10
    <3>2. a[k - 1] \in A /\ ~a[k - 1].end /\ s[k] \in digits /\ a[k] = step(a[k - 1], k)
      BY <1>0, <1>7, <1>8, <2>2, <3>1
    <3>3. ~step(a[k - 1], k).end
      BY <1>9, <3>1, <3>2
    <3> QED
      BY <3>1, <3>2, <3>3
  <2> HIDE DEF S
  <2>3. \A k \in 0 .. n : k \in S
    BY <2>1, <2>2, <1>10, UpTo
  <2> QED
    BY <2>3 DEF S
<1> DEFINE v == [k \in 0 .. n |-> a[k].val]
<1>12. Reads(v, n, d, base)
  <2>1. \A k \in 0 .. n : a[k].val \in 0 .. Word - 1
    <3>1. \A k \in 0 .. n : a[k] \in A
      BY <1>8, <1>10
    <3> QED
      BY <3>1 DEF A
  <2>2. v \in [0 .. n -> 0 .. Word - 1]
    BY <2>1
  <2>3. v[0] = 0
    BY <1>7, <1>10
  <2>4. ASSUME NEW k \in 1 .. n
        PROVE  v[k] = (v[k - 1] * base + d[k]) % Word
    <3>1. k \in 1 .. N /\ k - 1 \in 0 .. N /\ k \in 0 .. n /\ k - 1 \in 0 .. n
      BY <1>10
    <3>2. a[k - 1] \in A /\ ~a[k - 1].end /\ s[k] \in digits /\ a[k] = step(a[k - 1], k)
      BY <1>0, <1>7, <1>8, <1>11, <3>1
    <3>3. a[k].val = (a[k - 1].val * base + Digit[s[k]]) % Word
      BY <1>9, <3>1, <3>2
    <3>4. v[k] = a[k].val /\ v[k - 1] = a[k - 1].val /\ d[k] = Digit[s[k]]
      BY <3>1
    <3> QED
      BY <3>3, <3>4, Zenon
  <2> HIDE DEF v
  <2> QED
    BY <2>2, <2>3, <2>4 DEF Reads
<1>13. a[N].val = a[n].val
  <2> DEFINE S == {j \in 0 .. N - n : a[n + j].val = a[n].val /\ (j > 0 => a[n + j].end)}
  <2>1. 0 \in S
    BY <1>10
  <2>2. ASSUME NEW j \in 1 .. N - n, j - 1 \in S
        PROVE  j \in S
    <3>1. /\ n + j \in 1 .. N /\ (n + j) - 1 \in 0 .. N /\ n + (j - 1) = (n + j) - 1
          /\ j \in 0 .. N - n
      BY <1>10
    <3>2. a[(n + j) - 1].val = a[n].val /\ (j - 1 > 0 => a[(n + j) - 1].end)
      BY <2>2, <3>1
    <3>3. a[(n + j) - 1].end \/ s[n + j] \notin digits
      <4>1. CASE j = 1
        <5>1. n # Len(s)
          BY <1>10, <4>1 DEF N
        <5> QED
          BY <1>0, <4>1, <5>1
      <4>2. CASE j # 1
        BY <3>2, <4>2
      <4> QED
        BY <4>1, <4>2
    <3>4. a[(n + j) - 1] \in A /\ a[n + j] = step(a[(n + j) - 1], n + j)
      BY <1>7, <1>8, <3>1
    <3>5. a[n + j].val = a[n].val /\ a[n + j].end
      BY <1>9, <3>1, <3>2, <3>3, <3>4
    <3> QED
      BY <3>1, <3>5
  <2>3. N - n \in Nat /\ N - n \in 0 .. N - n /\ n + (N - n) = N
    BY <1>10
  <2> HIDE DEF S
  <2>4. N - n \in S
    BY <2>1, <2>2, <2>3, UpTo
  <2> QED
    BY <2>3, <2>4 DEF S
<1>14. v[n] = a[N].val
  BY <1>10, <1>13
<1> HIDE DEF v
<1> QED
  BY <1>6, <1>12, <1>14, Zenon DEF EndsAfter, N

(* The longest prefix of digits ends with the string or before a character *)
(* that is not a digit.                                                    *)
Longest(s, digits, from, len) ==
  Cardinality({k \in from .. len : \A i \in from .. k : s[i] \in digits})

LEMMA Prefix ==
  ASSUME NEW s, NEW len \in Nat, NEW digits, NEW from \in 1 .. len + 1
  PROVE  Leads(s, digits, from, len, Longest(s, digits, from, len))
<1> DEFINE good == {k \in from .. len : \A i \in from .. k : s[i] \in digits}
           bad  == {i \in from .. len : s[i] \notin digits}
<1> PICK n : n = Cardinality(good)
  OBVIOUS
<1> SUFFICES Leads(s, digits, from, len, n)
  BY Zenon DEF Longest
<1>0. from \in Int /\ len \in Int /\ from >= 1 /\ from <= len + 1
  OBVIOUS
<1>1. CASE bad = {}
  <2>1. \A i \in from .. len : s[i] \in digits
    BY <1>1
  <2>2. good = from .. len
    BY <2>1
  <2>3. Cardinality(from .. len) = len - from + 1
    <3>1. Cardinality(from .. len) = IF from > len THEN 0 ELSE len - from + 1
      BY <1>0, FS_Interval
    <3> QED
      BY <1>0, <3>1
  <2>4. n = len - from + 1
    BY <2>2, <2>3, Zenon
  <2>5. from + n - 1 = len /\ n \in 0 .. len - from + 1
    BY <1>0, <2>4
  <2> QED
    BY <2>1, <2>4, <2>5, Zenon DEF Leads
<1>2. CASE bad # {}
  <2>1. bad \in SUBSET Nat
    OBVIOUS
  <2>2. PICK j \in bad : \A k \in bad : j <= k
    <3> HIDE DEF bad
    <3> QED
      BY <1>2, <2>1, LeastNumber
  <2>3. j \in from .. len /\ s[j] \notin digits /\ \A i \in from .. j - 1 : s[i] \in digits
    BY <2>2
  <2>4. good = from .. j - 1
    <3>1. \A k \in good : k < j
      BY <2>3
    <3>2. \A k \in from .. j - 1 : k \in good
      BY <2>3
    <3> QED
      BY <2>3, <3>1, <3>2
  <2>5. Cardinality(from .. j - 1) = j - from
    <3>1. j \in Int /\ j - 1 \in Int /\ j >= from
      BY <1>0, <2>3
    <3> QED
      BY <1>0, <3>1, FS_Interval
  <2>6. n = j - from
    BY <2>4, <2>5, Zenon
  <2>7. from + n = j /\ from + n - 1 = j - 1 /\ n \in 0 .. len - from + 1
    BY <1>0, <2>3, <2>6
  <2> QED
    BY <2>3, <2>7, Zenon DEF Leads
<1> QED
  BY <1>1, <1>2

Carries(w, a, e, c, p, q, b) ==
  \E r \in Nat : (a * (b * p) + q * w) + e * p = c * p + r * w

LEMMA SumStep ==
  ASSUME NEW w \in Nat \ {0}, NEW a \in Nat, NEW e \in Nat, NEW c \in Nat, NEW p \in Nat,
         NEW q \in Nat, NEW b \in Nat, c = (a * b + e) % w
  PROVE  Carries(w, a, e, c, p, q, b)
<1>1. PICK x \in Nat : x = a * b + e
  OBVIOUS
<1>2. PICK y \in Nat : x = y * w + c
  BY <1>1, Division
<1>3. x * p = a * (b * p) + e * p
  BY <1>1
<1>4. x * p = (y * p) * w + c * p
  BY <1>2
<1>5. (y * p + q) * w = (y * p) * w + q * w /\ y * p + q \in Nat
  OBVIOUS
<1>6. PICK A \in Nat, B \in Nat, C \in Nat, D \in Nat, E \in Nat :
        /\ A = a * (b * p) /\ B = q * w /\ C = e * p /\ D = (y * p) * w /\ E = c * p
  <2>1. a * (b * p) \in Nat /\ q * w \in Nat /\ e * p \in Nat
    OBVIOUS
  <2>2. (y * p) * w \in Nat /\ c * p \in Nat
    OBVIOUS
  <2> QED
    BY <2>1, <2>2, Zenon
<1>7. A + C = D + E
  BY <1>3, <1>4, <1>6
<1>8. (A + B) + C = E + (D + B)
  BY <1>7
<1> QED
  BY <1>5, <1>6, <1>8 DEF Carries

(* The sum of the digits, each with its weight.                            *)
Sums(sum, n, d, base) ==
  sum[0] = 0 /\ \A k \in 1 .. n : sum[k] = sum[k - 1] + d[k] * Pow(base, n - k)

SameNumber(v, sum, n) == v[n] = sum[n] % Word

(* Wrapping after each digit comes to the same as wrapping the sum once.   *)
LEMMA SumWraps ==
  ASSUME NEW n \in Nat, NEW base \in Nat \ {0}, NEW d \in [1 .. n -> Nat], NEW v, NEW sum,
         Reads(v, n, d, base), Sums(sum, n, d, base)
  PROVE  SameNumber(v, sum, n)
<1> DEFINE w == Word
           S == {k \in 0 .. n : \E q \in Nat : sum[k] = v[k] * Pow(base, n - k) + q * w}
<1>1. w \in Nat \ {0}
  BY WordPositive
<1>2. ASSUME NEW k \in 0 .. n
      PROVE  Pow(base, n - k) \in Nat
  <2>1. n - k \in Nat
    OBVIOUS
  <2> QED
    BY <2>1, PowPositive
<1>3. ASSUME NEW k \in 0 .. n
      PROVE  v[k] \in 0 .. w - 1 /\ v[k] \in Nat
  BY <1>1 DEF Reads, w
<1> HIDE DEF w
<1>4. 0 \in S
  <2>1. 0 \in 0 .. n /\ 0 \in Nat
    OBVIOUS
  <2>2. PICK p \in Nat : p = Pow(base, n - 0)
    BY <1>2, <2>1
  <2>3. sum[0] = 0 /\ v[0] = 0
    BY DEF Reads, Sums
  <2>4. 0 = 0 * p + 0 * w
    BY <1>1
  <2> QED
    BY <2>1, <2>2, <2>3, <2>4
<1>5. ASSUME NEW k \in 1 .. n, k - 1 \in S
      PROVE  k \in S
  <2>1. PICK q \in Nat : sum[k - 1] = v[k - 1] * Pow(base, n - (k - 1)) + q * w
    BY <1>5
  <2>2. k \in 0 .. n /\ k - 1 \in 0 .. n /\ n - k \in Nat /\ (n - k) + 1 = n - (k - 1)
    OBVIOUS
  <2>3. PICK p \in Nat : p = Pow(base, n - k)
    BY <1>2, <2>2
  <2>4. Pow(base, n - (k - 1)) = base * p
    <3>1. Pow(base, (n - k) + 1) = base * Pow(base, n - k)
      BY <2>2, PowIs
    <3> QED
      BY <2>2, <2>3, <3>1, Zenon
  <2>5. PICK a \in Nat, e \in Nat, c \in Nat : a = v[k - 1] /\ e = d[k] /\ c = v[k]
    BY <1>3, <2>2
  <2>6. sum[k] = (a * (base * p) + q * w) + e * p
    <3>1. sum[k] = sum[k - 1] + d[k] * Pow(base, n - k)
      BY DEF Sums
    <3> QED
      BY <2>1, <2>3, <2>4, <2>5, <3>1, Zenon
  <2>7. c = (a * base + e) % w
    <3>1. v[k] = (v[k - 1] * base + d[k]) % Word
      BY DEF Reads
    <3> QED
      BY <2>5, <3>1, Zenon DEF w
  <2>8. PICK r \in Nat : (a * (base * p) + q * w) + e * p = c * p + r * w
    <3>1. Carries(w, a, e, c, p, q, base)
      BY <1>1, <2>7, SumStep
    <3> QED
      BY <3>1, Zenon DEF Carries
  <2>9. sum[k] = v[k] * Pow(base, n - k) + r * w
    BY <2>3, <2>5, <2>6, <2>8, Zenon
  <2> QED
    BY <2>2, <2>9
<1>6. n \in S
  <2>1. n \in 0 .. n
    OBVIOUS
  <2> HIDE DEF S
  <2> QED
    BY <1>4, <1>5, <2>1, UpTo
<1>7. PICK q \in Nat : sum[n] = v[n] * Pow(base, n - n) + q * w
  BY <1>6
<1>8. PICK r \in 0 .. w - 1 : r = v[n]
  BY <1>3
<1>9. Pow(base, n - n) = 1
  <2>1. n - n = 0 /\ base \in Nat
    OBVIOUS
  <2> QED
    BY <2>1, PowIs
<1>10. sum[n] = q * w + r
  BY <1>1, <1>7, <1>8, <1>9
<1> QED
  <2>1. PICK u \in Nat \ {0} : u = w /\ u = Word
    BY <1>1 DEF w
  <2>2. r \in 0 .. u - 1 /\ sum[n] = q * u + r
    BY <1>8, <1>10, <2>1
  <2>3. sum[n] % u = r
    BY <2>2, Remainder
  <2> QED
    BY <1>8, <2>1, <2>3 DEF SameNumber

(* The numeral that begins at a place of the string.                       *)
Total(s, digits, base, from) ==
  LET n == Cardinality({k \in from .. Len(s) : \A i \in from .. k : s[i] \in digits})
      sum[k \in 0 .. n] ==
        IF k = 0 THEN 0 ELSE sum[k - 1] + Digit[s[from + k - 1]] * Pow(base, n - k)
  IN  sum[n]

LEMMA DigitNat == \A digits \in SUBSET DOMAIN Digit : \A c \in digits : Digit[c] \in Nat
  BY DigitFacts

LEMMA AccumulateIsTotal ==
  ASSUME NEW s, Len(s) \in Nat, NEW from \in 1 .. Len(s) + 1,
         NEW digits \in SUBSET DOMAIN Digit, NEW base \in Nat \ {0},
         NEW t, Len(t) = Len(s) - from + 1, \A k \in 1 .. Len(t) : t[k] = s[from + k - 1]
  PROVE  Accumulate(t, digits, base) = Total(s, digits, base, from) % Word
<1> DEFINE n == Cardinality({k \in from .. Len(s) : \A i \in from .. k : s[i] \in digits})
           d == [k \in 1 .. n |-> Digit[s[from + k - 1]]]
           next(q, k) == IF k = 0 THEN 0 ELSE q[k - 1] + Digit[s[from + k - 1]] * Pow(base, n - k)
           sum == CHOOSE q : q = [k \in 0 .. n |-> next(q, k)]
           F == [y \in Nat \X (1 .. n) |-> y[1] + d[y[2]] * Pow(base, n - y[2])]
<1>1. /\ n \in 0 .. Len(s) - from + 1
      /\ \A i \in from .. from + n - 1 : s[i] \in digits
      /\ n = Len(s) - from + 1 \/ s[from + n] \notin digits
  <2>1. Leads(s, digits, from, Len(s), Longest(s, digits, from, Len(s)))
    BY Prefix
  <2> QED
    BY <2>1, Zenon DEF Leads, Longest
<1>2. Total(s, digits, base, from) = sum[n]
  BY Zenon DEF Total
<1> HIDE DEF n
<1>3. n \in Nat /\ n \in 0 .. Len(t) /\ from \in Nat /\ base \in Nat
  BY <1>1
<1>4. ASSUME NEW k \in 1 .. n
      PROVE  /\ k \in 1 .. Len(t) /\ t[k] = s[from + k - 1] /\ t[k] \in digits
             /\ d[k] = Digit[t[k]] /\ d[k] \in Nat /\ d[k] = Digit[s[from + k - 1]]
  <2>1. from + k - 1 \in from .. from + n - 1 /\ k \in 1 .. Len(t)
    BY <1>3
  <2>2. t[k] = s[from + k - 1] /\ t[k] \in digits
    BY <1>1, <2>1
  <2>3. d[k] = Digit[s[from + k - 1]]
    OBVIOUS
  <2> HIDE DEF d
  <2>4. Digit[t[k]] \in Nat
    BY <2>2, DigitNat, Zenon
  <2> QED
    BY <2>1, <2>2, <2>3, <2>4, Zenon
<1>5. n = Len(t) \/ t[n + 1] \notin digits
  <2>1. SUFFICES ASSUME n # Len(t) PROVE t[n + 1] \notin digits
    OBVIOUS
  <2>2. n + 1 \in 1 .. Len(t) /\ from + (n + 1) - 1 = from + n /\ n # Len(s) - from + 1
    BY <1>3, <2>1
  <2> QED
    BY <1>1, <2>2
<1>6. d \in [1 .. n -> Nat]
  BY <1>4
<1> HIDE DEF d
<1>7. PICK v : Reads(v, n, d, base) /\ Accumulate(t, digits, base) = v[n]
  <2>1. Len(t) \in Nat /\ Len(t) - 1 + 1 = Len(t) /\ 1 + n - 1 = n /\ 1 + n = n + 1
    BY <1>3
  <2>2. Leads(t, digits, 1, Len(t), n)
    BY <1>3, <1>4, <1>5, <2>1, Zenon DEF Leads
  <2>3. EndsAfter(t, digits, base, n)
    BY <1>3, <2>1, <2>2, AccumulateReads
  <2>4. d = [i \in 1 .. n |-> Digit[t[i]]]
    BY <1>4, Zenon DEF d
  <2> QED
    BY <2>3, <2>4, Zenon DEF EndsAfter
<1>8. sum = [k \in 0 .. n |-> next(sum, k)]
  <2>1. ASSUME NEW k \in 1 .. n
        PROVE  Pow(base, n - k) \in Nat
    <3>1. n - k \in Nat
      BY <1>3
    <3> QED
      BY <1>3, <3>1, PowIs
  <2>2. \A x \in Nat, k \in 1 .. n : x + d[k] * Pow(base, n - k) \in Nat
    BY <1>6, <2>1
  <2>3. F \in [Nat \X (1 .. n) -> Nat]
    BY <2>2
  <2>4. \A x \in Nat, k \in 1 .. n : F[<<x, k>>] = x + d[k] * Pow(base, n - k)
    OBVIOUS
  <2> HIDE DEF F
  <2>5. PICK f : Recursive(f, n, Nat, 0, F)
    BY <1>3, <2>3, 0 \in Nat, Recursion
  <2>6. f \in [0 .. n -> Nat] /\ f[0] = 0 /\ \A k \in 1 .. n : f[k] = F[<<f[k - 1], k>>]
    BY <2>5, Zenon DEF Recursive
  <2>7. \A k \in 0 .. n : f[k] = next(f, k)
    <3>1. ASSUME NEW k \in 1 .. n
          PROVE  f[k] = f[k - 1] + Digit[s[from + k - 1]] * Pow(base, n - k)
      <4>1. k - 1 \in 0 .. n
        BY <1>3
      <4>2. f[k - 1] \in Nat
        BY <2>6, <4>1, Zenon
      <4>3. f[k] = f[k - 1] + d[k] * Pow(base, n - k)
        BY <2>4, <2>6, <4>2, Zenon
      <4> QED
        BY <4>3, <1>4, Zenon
    <3>2. \A k \in 0 .. n : k = 0 \/ k \in 1 .. n
      BY <1>3
    <3> QED
      BY <2>6, <3>1, <3>2, Zenon
  <2> HIDE DEF next
  <2>8. f = [k \in 0 .. n |-> next(f, k)]
    BY <2>6, <2>7
  <2> QED
    BY <2>8, Zenon
<1> HIDE DEF sum
<1>9. Sums(sum, n, d, base)
  <2>1. \A k \in 0 .. n : sum[k] = next(sum, k)
    <3> HIDE DEF next
    <3> QED
      BY <1>8
  <2>2. sum[0] = 0
    BY <1>3, <2>1
  <2>3. ASSUME NEW k \in 1 .. n
        PROVE  sum[k] = sum[k - 1] + d[k] * Pow(base, n - k)
    <3>1. k \in 0 .. n /\ k # 0
      BY <1>3
    <3>2. sum[k] = sum[k - 1] + Digit[s[from + k - 1]] * Pow(base, n - k)
      BY <2>1, <3>1, Zenon
    <3> QED
      BY <3>2, <1>4, Zenon
  <2> QED
    BY <2>2, <2>3 DEF Sums
<1> QED
  <2>1. SameNumber(v, sum, n)
    BY <1>3, <1>6, <1>7, <1>9, SumWraps
  <2> QED
    BY <1>2, <1>7, <2>1, Zenon DEF SameNumber

IsHex(s) == Len(s) >= 2 /\ s[1] = "0" /\ s[2] \in {"x", "X"}

(* What parse_hex_or_dec returns is the numeral, modulo 2^32.              *)
LEMMA ParseIsNumeral ==
  ASSUME NEW s \in Seq(STRING)
  PROVE  parse_hex_or_dec(s) = Numeral(s) % Word
<1>0. Decimal \in SUBSET DOMAIN Digit /\ Decimal \cup Upper \cup Lower \in SUBSET DOMAIN Digit
  BY DigitFacts
<1>1. CASE IsHex(s)
  <2>1. PICK t : t = SubSeq(s, 3, Len(s))
    OBVIOUS
  <2>2. /\ Len(s) \in Nat /\ 3 \in 1 .. Len(s) + 1 /\ 16 \in Nat \ {0}
        /\ Len(t) = Len(s) - 3 + 1 /\ \A k \in 1 .. Len(t) : t[k] = s[3 + k - 1]
    <3>1. Len(s) \in Nat /\ Len(s) >= 2
      BY <1>1 DEF IsHex
    <3>2. t = [k \in 1 .. Len(s) - 2 |-> s[3 + k - 1]]
      BY <2>1, <3>1
    <3>3. Len(t) = Len(s) - 2
      BY <3>1, <3>2
    <3> QED
      BY <3>1, <3>2, <3>3
  <2>3. parse_hex_or_dec(s) = Accumulate(t, Decimal \cup Upper \cup Lower, 16)
    BY <1>1, <2>1, Zenon DEF parse_hex_or_dec, IsHex
  <2>4. Numeral(s) = Total(s, Decimal \cup Upper \cup Lower, 16, 3)
    BY <1>1, Zenon DEF Numeral, Total, IsHex
  <2> QED
    BY <1>0, <2>2, <2>3, <2>4, AccumulateIsTotal
<1>2. CASE ~IsHex(s)
  <2>1. /\ Len(s) \in Nat /\ 1 \in 1 .. Len(s) + 1 /\ 10 \in Nat \ {0}
        /\ Len(s) = Len(s) - 1 + 1 /\ \A k \in 1 .. Len(s) : s[k] = s[1 + k - 1]
    OBVIOUS
  <2>2. parse_hex_or_dec(s) = Accumulate(s, Decimal, 10)
    BY <1>2, Zenon DEF parse_hex_or_dec, IsHex
  <2>3. Numeral(s) = Total(s, Decimal, 10, 1)
    BY <1>2, Zenon DEF Numeral, Total, IsHex
  <2> QED
    BY <1>0, <2>1, <2>2, <2>3, AccumulateIsTotal
<1> QED
  BY <1>1, <1>2

----------------------------------------------------------------------------
(***************************************************************************)
(* Numbers that were printed.                                              *)
(***************************************************************************)
LEMMA Below ==
  ASSUME NEW w \in Nat \ {0}, NEW x \in Nat, x < w
  PROVE  x \div w = 0 /\ x % w = x
<1>1. x = 0 * w + x /\ x \in 0 .. w - 1 /\ 0 \in Nat
  OBVIOUS
<1> QED
  BY <1>1, Remainder

(* The first digits of v.                                                  *)
First(v, base, m) == v \div Pow(base, m)

LEMMA FirstIs ==
  ASSUME NEW v \in Nat, NEW base \in Nat \ {0}, NEW m \in Nat
  PROVE  /\ First(v, base, m) \in Nat /\ First(v, base, m) <= v
         /\ First(v, base, m + 1) \in Nat /\ First(v, base, m) % base \in 0 .. base - 1
         /\ First(v, base, m) = First(v, base, m + 1) * base + (First(v, base, m) % base)
<1>1. PICK p \in Nat \ {0} : p = Pow(base, m)
  BY PowPositive
<1>2. Pow(base, m + 1) = base * p
  <2>1. base \in Nat
    OBVIOUS
  <2> QED
    BY <1>1, <2>1, PowIs
<1>3. /\ v \div p \in Nat /\ v \div (base * p) \in Nat /\ (v \div p) % base \in 0 .. base - 1
      /\ v \div p = (v \div (base * p)) * base + ((v \div p) % base)
  BY LastDigit
<1>4. v \div p <= v
  <2>1. PICK q, r : q = v \div p /\ r = v % p
    OBVIOUS
  <2>2. q \in Nat /\ r \in 0 .. p - 1 /\ v = q * p + r
    BY <2>1, Division
  <2>3. q <= q * p
    BY <2>2
  <2> QED
    BY <2>1, <2>2, <2>3
<1> QED
  BY <1>1, <1>2, <1>3, <1>4, Zenon DEF First

(* len digits of v, as kprintf prints them.                                *)
Printed(v, base, len) == [i \in 1 .. len |-> Glyph(First(v, base, len - i) % base)]

LEMMA PrintedDigits ==
  ASSUME NEW v \in Nat, NEW base \in {10, 16}, NEW len \in Nat, NEW i \in 1 .. len
  PROVE  /\ Printed(v, base, len)[i] = Glyph(First(v, base, len - i) % base)
         /\ Printed(v, base, len)[i] \in Decimal \cup Upper
         /\ base = 10 => Printed(v, base, len)[i] \in Decimal
         /\ Digit[Printed(v, base, len)[i]] = First(v, base, len - i) % base
<1>1. len - i \in Nat /\ base \in Nat \ {0}
  OBVIOUS
<1>2. First(v, base, len - i) % base \in 0 .. base - 1
  BY <1>1, FirstIs
<1>3. PICK m : m = First(v, base, len - i) % base
  OBVIOUS
<1>4. m \in 0 .. 15 /\ (base = 10 => m < 10)
  BY <1>2, <1>3
<1>5. Glyph(m) \in Decimal \cup Upper /\ Digit[Glyph(m)] = m /\ (base = 10 => Glyph(m) \in Decimal)
  BY <1>4, GlyphIs
<1>6. Printed(v, base, len)[i] = Glyph(m)
  BY <1>3, Zenon DEF Printed
<1> QED
  BY <1>3, <1>5, <1>6, Zenon

LEMMA PrintedReads ==
  ASSUME NEW v \in Nat, NEW base \in {10, 16}, NEW len \in Nat,
         NEW digits \in SUBSET DOMAIN Digit,
         Decimal \subseteq digits, base = 16 => Upper \subseteq digits,
         v < Pow(base, len), v < Word
  PROVE  Accumulate(Printed(v, base, len), digits, base) = v
<1> DEFINE t == Printed(v, base, len)
           d == [i \in 1 .. len |-> Digit[t[i]]]
<1>1. base \in Nat \ {0} /\ base \in Nat /\ Word \in Nat \ {0}
  BY WordPositive
<1>2. Len(t) = len
  <2>1. PICK g : g = [i \in 1 .. len |-> Glyph(First(v, base, len - i) % base)] /\ t = g
    BY Zenon DEF Printed
  <2>2. DOMAIN g = 1 .. len /\ g = [i \in 1 .. len |-> g[i]]
    BY <2>1, Zenon
  <2>3. Len(g) = len
    BY <2>2
  <2> QED
    BY <2>1, <2>3
<1>3. ASSUME NEW i \in 1 .. len
      PROVE  t[i] \in digits /\ d[i] = First(v, base, len - i) % base
  <2>1. /\ t[i] \in Decimal \cup Upper /\ (base = 10 => t[i] \in Decimal)
        /\ Digit[t[i]] = First(v, base, len - i) % base
    BY PrintedDigits
  <2>2. t[i] \in digits
    BY <2>1
  <2> QED
    BY <2>1, <2>2, Zenon
<1> HIDE DEF t
<1>4. Leads(t, digits, 1, Len(t), len)
  <2>1. len - 1 + 1 = len /\ 1 + len - 1 = len /\ len \in 0 .. len
    OBVIOUS
  <2> QED
    BY <1>2, <1>3, <2>1, Zenon DEF Leads
<1>5. PICK w : Reads(w, len, d, base) /\ Accumulate(t, digits, base) = w[len]
  <2>1. EndsAfter(t, digits, base, len)
    BY <1>1, <1>2, <1>4, AccumulateReads
  <2> QED
    BY <2>1, Zenon DEF EndsAfter
<1> HIDE DEF d
<1> DEFINE S == {k \in 0 .. len : w[k] = First(v, base, len - k)}
<1>6. 0 \in S
  <2>1. w[0] = 0
    BY <1>5 DEF Reads
  <2>2. Pow(base, len) \in Nat \ {0} /\ len - 0 = len /\ 0 \in 0 .. len
    BY <1>1, PowPositive
  <2>3. First(v, base, len) = 0
    BY <2>2, Below DEF First
  <2> QED
    BY <2>1, <2>2, <2>3
<1>7. ASSUME NEW k \in 1 .. len, k - 1 \in S
      PROVE  k \in S
  <2>1. len - k \in Nat /\ (len - k) + 1 = len - (k - 1) /\ k \in 0 .. len
    OBVIOUS
  <2>2. PICK x, y, e : x = First(v, base, len - k) /\ y = w[k - 1] /\ e = d[k]
    OBVIOUS
  <2>3. y = First(v, base, (len - k) + 1) /\ e = x % base
    BY <1>3, <1>7, <2>1, <2>2
  <2>4. x \in Nat /\ x <= v /\ x = y * base + e
    BY <1>1, <2>1, <2>2, <2>3, FirstIs
  <2>5. w[k] = (y * base + e) % Word
    BY <1>5, <2>2 DEF Reads
  <2>6. x < Word
    BY <1>1, <2>4
  <2>7. w[k] = x
    BY <1>1, <2>4, <2>5, <2>6, Below
  <2> QED
    BY <2>1, <2>2, <2>7
<1>8. len \in S
  <2>1. len \in 0 .. len
    OBVIOUS
  <2> HIDE DEF S
  <2> QED
    BY <1>6, <1>7, <2>1, UpTo
<1>9. First(v, base, len - len) = v
  <2>1. Pow(base, len - len) = 1
    BY <1>1, PowIs
  <2>2. v \div 1 = v
    OBVIOUS
  <2> QED
    BY <2>1, <2>2 DEF First
<1> QED
  BY <1>5, <1>8, <1>9 DEF t

LEMMA PrintedSeq ==
  ASSUME NEW v \in Nat, NEW base \in {10, 16}, NEW len \in Nat
  PROVE  Printed(v, base, len) \in Seq(Decimal \cup Upper) /\ Len(Printed(v, base, len)) = len
<1>1. PICK g : g = Printed(v, base, len)
  OBVIOUS
<1>2. DOMAIN g = 1 .. len /\ g = [i \in 1 .. len |-> g[i]]
  BY <1>1, Zenon DEF Printed
<1>3. \A i \in 1 .. len : g[i] \in Decimal \cup Upper
  BY <1>1, PrintedDigits
<1> QED
  BY <1>1, <1>2, <1>3

(* Zero has one digit.                                                     *)
LEMMA ZeroPrinted ==
  ASSUME NEW base \in {10, 16}
  PROVE  Printed(0, base, 1) = <<"0">> /\ 0 < Pow(base, 1)
<1>1. base \in Nat \ {0} /\ base \in Nat /\ 1 \in Nat
  OBVIOUS
<1>2. First(0, base, 1 - 1) = 0
  <2>1. 1 - 1 \in Nat
    OBVIOUS
  <2>2. First(0, base, 1 - 1) \in Nat /\ First(0, base, 1 - 1) <= 0
    BY <1>1, <2>1, FirstIs
  <2> QED
    BY <2>2
<1>3. First(0, base, 1 - 1) % base = 0
  BY <1>2
<1>4. Glyph(0) = "0"
  <2>1. Glyph(0) \in Decimal /\ Digit[Glyph(0)] = 0
    BY GlyphIs
  <2>2. \A c \in Decimal : Digit[c] = 0 => c = "0"
    BY DEF Digit, Decimal
  <2> QED
    BY <2>1, <2>2
<1>5. Printed(0, base, 1)[1] = "0"
  <2>1. 0 \in Nat /\ 1 \in 1 .. 1
    OBVIOUS
  <2>2. Printed(0, base, 1)[1] = Glyph(First(0, base, 1 - 1) % base)
    BY <2>1, Zenon DEF Printed
  <2> QED
    BY <1>3, <1>4, <2>2
<1>6. Printed(0, base, 1) \in Seq(Decimal \cup Upper) /\ Len(Printed(0, base, 1)) = 1
  BY <1>1, PrintedSeq
<1>7. Printed(0, base, 1) = <<"0">>
  BY <1>5, <1>6
<1>8. Pow(base, 1) \in Nat \ {0}
  BY <1>1, PowPositive
<1> QED
  BY <1>7, <1>8

LEMMA HexReadsBack ==
  ASSUME NEW v \in 0 .. Word - 1
  PROVE  parse_hex_or_dec(print_hex(v)) = v
<1> DEFINE len == IF v = 0 THEN 1 ELSE Nibbles
           t == Printed(v, 16, len)
           s == <<"0", "x">> \o t
           D == Decimal \cup Upper \cup Lower
           C == Decimal \cup Upper \cup {"x"}
<1>1. v \in Nat /\ len \in Nat /\ Word \in Nat \ {0} /\ v < Word /\ 16 \in {10, 16}
  BY WordPositive, ShellAssumption
<1>2. v < Pow(16, len)
  BY <1>1, ZeroPrinted DEF Word
<1>3. print_hex(v) = s
  <2>1. CASE v = 0
    <3>1. t = <<"0">>
      BY <1>1, <2>1, ZeroPrinted
    <3> QED
      BY <2>1, <3>1, Zenon DEF print_hex
  <2>2. CASE v # 0
    BY <2>2, Zenon DEF print_hex, Printed, First
  <2> QED
    BY <2>1, <2>2
<1>4. Accumulate(t, D, 16) = v
  <2>1. D \in SUBSET DOMAIN Digit /\ Decimal \subseteq D /\ Upper \subseteq D
    BY DigitFacts
  <2> HIDE DEF D, len
  <2> QED
    BY <1>1, <1>2, <2>1, PrintedReads
<1> HIDE DEF len
<1>5. t \in Seq(Decimal \cup Upper) /\ t \in Seq(C) /\ Len(t) = len
  <2>1. t \in Seq(Decimal \cup Upper) /\ Len(t) = len
    BY <1>1, PrintedSeq
  <2>2. Decimal \cup Upper \subseteq C
    OBVIOUS
  <2> HIDE DEF t, C
  <2> QED
    BY <2>1, <2>2
<1> HIDE DEF t
<1>6. Len(s) = len + 2 /\ s[1] = "0" /\ s[2] = "x"
  BY <1>1, <1>5
<1>7. SubSeq(s, 3, Len(s)) = t
  <2>1. "0" \in C /\ "x" \in C
    BY DEF Decimal
  <2>2. s \in Seq(C) /\ \A k \in 1 .. len : s[2 + k] = t[k]
    <3> HIDE DEF C
    <3>1. <<"0", "x">> \in Seq(C) /\ Len(<<"0", "x">>) = 2
      BY <2>1
    <3>2. s \in Seq(C)
      BY <1>5, <3>1
    <3>3. \A k \in 1 .. len : s[2 + k] = t[k]
      BY <1>1, <1>5, <3>1
    <3> QED
      BY <3>2, <3>3
  <2>3. SubSeq(s, 3, Len(s)) = [k \in 1 .. len |-> s[2 + k]]
    <3> HIDE DEF s, C
    <3> QED
      BY <1>1, <1>6, <2>2
  <2>4. t = [k \in 1 .. len |-> t[k]]
    BY <1>1, <1>5
  <2> HIDE DEF s
  <2> QED
    BY <2>2, <2>3, <2>4
<1> HIDE DEF s
<1>8. Len(s) >= 2
  BY <1>1, <1>6
<1>9. parse_hex_or_dec(s) = Accumulate(SubSeq(s, 3, Len(s)), D, 16)
  BY <1>6, <1>8, Zenon DEF parse_hex_or_dec
<1> QED
  BY <1>3, <1>4, <1>7, <1>9, Zenon

(* A string of decimal digits is not taken for a hexadecimal number.       *)
LEMMA DecimalReads ==
  ASSUME NEW v \in 0 .. Word - 1, NEW len \in Nat, v < Pow(10, len)
  PROVE  parse_hex_or_dec(Printed(v, 10, len)) = v
<1>1. PICK t : t = Printed(v, 10, len)
  OBVIOUS
<1>2. v \in Nat /\ v < Word /\ 10 \in {10, 16} /\ Decimal \in SUBSET DOMAIN Digit
  BY WordPositive, DigitFacts
<1>3. Len(t) = len /\ \A i \in 1 .. len : t[i] \in Decimal
  BY <1>1, <1>2, PrintedSeq, PrintedDigits
<1>4. ~(Len(t) >= 2 /\ t[1] = "0" /\ t[2] \in {"x", "X"})
  <2>1. "x" \notin Decimal /\ "X" \notin Decimal
    BY DEF Decimal
  <2> QED
    BY <1>3, <2>1
<1>5. parse_hex_or_dec(t) = Accumulate(t, Decimal, 10)
  BY <1>4, Zenon DEF parse_hex_or_dec
<1>6. Accumulate(t, Decimal, 10) = v
  BY <1>1, <1>2, PrintedReads
<1> QED
  BY <1>1, <1>5, <1>6

(* 2 * Nibbles decimal digits are enough for any value.                    *)
LEMMA DecimalWidth ==
  ASSUME NEW n \in Nat
  PROVE  Pow(16, n) <= Pow(10, 2 * n)
<1> DEFINE S == {k \in 0 .. n : Pow(16, k) <= Pow(10, 2 * k)}
<1>1. 0 \in S
  BY PowIs
<1>2. ASSUME NEW k \in 1 .. n, k - 1 \in S
      PROVE  k \in S
  <2>1. PICK j \in Nat : j = k - 1 /\ k = j + 1
    OBVIOUS
  <2>2. /\ 2 * j \in Nat /\ 2 * j + 1 \in Nat /\ 2 * k = (2 * j + 1) + 1
        /\ Pow(16, j) <= Pow(10, 2 * j) /\ k \in 0 .. n
    BY <1>2, <2>1
  <2>3. PICK a \in Nat, b \in Nat : a = Pow(16, j) /\ b = Pow(10, 2 * j)
    BY <2>2, PowIs
  <2>4. Pow(16, k) = 16 * a
    BY <2>1, <2>3, PowIs
  <2>5. Pow(10, 2 * j + 1) = 10 * b
    BY <2>2, <2>3, PowIs
  <2>6. Pow(10, (2 * j + 1) + 1) = 10 * (10 * b)
    BY <2>2, <2>5, PowIs
  <2>7. 16 * a <= 10 * (10 * b)
    BY <2>2, <2>3
  <2> QED
    BY <2>2, <2>4, <2>6, <2>7
<1>3. n \in S
  <2>1. n \in 0 .. n
    OBVIOUS
  <2> HIDE DEF S
  <2> QED
    BY <1>1, <1>2, <2>1, UpTo
<1> QED
  BY <1>3

LEMMA DigitsIs ==
  ASSUME NEW v \in 0 .. Word - 1
  PROVE  \E len \in Nat : Digits(v) = Printed(v, 10, len) /\ v < Pow(10, len)
<1> DEFINE fits == {k \in 0 .. 2 * Nibbles : v < Pow(10, k)}
           least(k) == v < Pow(10, k) /\ \A j \in 0 .. k - 1 : v >= Pow(10, j)
           len == CHOOSE k \in 0 .. 2 * Nibbles : least(k)
<1>1. Nibbles \in Nat /\ v \in Nat /\ Word \in Nat
  BY WordPositive, ShellAssumption
<1>2. 2 * Nibbles \in fits /\ fits \in SUBSET Nat
  <2>1. 2 * Nibbles \in Nat /\ Pow(10, 2 * Nibbles) \in Nat
    BY <1>1, PowIs
  <2>2. Pow(16, Nibbles) <= Pow(10, 2 * Nibbles)
    BY <1>1, DecimalWidth
  <2> QED
    BY <1>1, <2>1, <2>2 DEF Word
<1>3. PICK m \in fits : \A k \in fits : m <= k
  <2> HIDE DEF fits
  <2> QED
    BY <1>2, LeastNumber
<1>4. least(m)
  <2>1. m \in Nat /\ m \in 0 .. 2 * Nibbles /\ v < Pow(10, m)
    BY <1>1, <1>3
  <2>2. ASSUME NEW j \in 0 .. m - 1
        PROVE  v >= Pow(10, j)
    <3>1. j \in 0 .. 2 * Nibbles /\ ~(m <= j) /\ j \in Nat
      BY <1>1, <2>1
    <3>2. ~(v < Pow(10, j))
      BY <1>3, <3>1
    <3>3. Pow(10, j) \in Nat
      BY <3>1, PowIs
    <3> QED
      BY <1>1, <3>2, <3>3
  <2> QED
    BY <2>1, <2>2
<1> HIDE DEF least
<1>5. len \in 0 .. 2 * Nibbles /\ least(len)
  BY <1>3, <1>4, Zenon
<1>6. Digits(v) = Printed(v, 10, len)
  BY Zenon DEF Digits, Printed, First, least
<1>7. len \in Nat /\ v < Pow(10, len)
  <2> HIDE DEF len
  <2> QED
    BY <1>1, <1>5 DEF least
<1> HIDE DEF len
<1> QED
  BY <1>6, <1>7

(* What print_decimal prints is read back unless it starts with a minus.   *)
LEMMA DecimalReadsBack ==
  ASSUME NEW v \in 0 .. Word - 1, print_decimal(v)[1] # "-"
  PROVE  parse_hex_or_dec(print_decimal(v)) = v
<1>1. v \in Int /\ Word \in Nat /\ Word \div 2 \in Int
  BY WordPositive
<1>2. CASE v = 0
  <2>1. print_decimal(v) = <<"0">>
    BY <1>1, <1>2 DEF print_decimal
  <2>2. Printed(v, 10, 1) = <<"0">> /\ v < Pow(10, 1)
    BY <1>2, ZeroPrinted
  <2> QED
    BY <2>1, <2>2, DecimalReads
<1>3. CASE v > 0 /\ v < Word \div 2
  <2>1. print_decimal(v) = Digits(v)
    BY <1>1, <1>3 DEF print_decimal
  <2>2. PICK len \in Nat : Digits(v) = Printed(v, 10, len) /\ v < Pow(10, len)
    BY DigitsIs
  <2> QED
    BY <2>1, <2>2, DecimalReads
<1>4. CASE v > Word \div 2 /\ v # 0
  <2>1. print_decimal(v) = <<"-">> \o Digits(Word - v)
    BY <1>1, <1>4 DEF print_decimal
  <2>2. PICK u \in 0 .. Word - 1 : u = Word - v
    BY <1>1, <1>4
  <2>3. PICK len \in Nat : Digits(u) = Printed(u, 10, len)
    BY DigitsIs
  <2>4. u \in Nat /\ 10 \in {10, 16}
    BY <1>1
  <2>5. Digits(u) \in Seq(Decimal \cup Upper)
    BY <2>3, <2>4, PrintedSeq
  <2>6. print_decimal(v)[1] = "-"
    <3>1. PICK C : C = Decimal \cup Upper \cup {"-"}
      OBVIOUS
    <3>2. Digits(u) \in Seq(C) /\ <<"-">> \in Seq(C) /\ Len(<<"-">>) = 1
      BY <2>5, <3>1
    <3>3. (<<"-">> \o Digits(u))[1] = "-"
      BY <3>2
    <3> QED
      BY <2>1, <2>2, <3>3
  <2> QED
    BY <2>6
<1>5. CASE v # 0 /\ v = Word \div 2
  <2>1. print_decimal(v) = <<"-">>
    BY <1>1, <1>5 DEF print_decimal
  <2> QED
    BY <2>1
<1> QED
  BY <1>1, <1>2, <1>3, <1>4, <1>5

----------------------------------------------------------------------------
(***************************************************************************)
(* The calls that commands make.                                           *)
(***************************************************************************)
(* The numbers of a call are those of the arguments, in their order; a     *)
(* break that is only asked for is zero.                                   *)
Passed(args) ==
  \/ args = << >>
  \/ argc < 2 /\ args = <<0>>
  \/ argc >= 2 /\ args = <<Number(1)>>
  \/ argc >= 3 /\ args = <<Number(1), Number(2)>>

MakesCall ==
  /\ pc \in Functions /\ line' = line
  /\ \E f, args : Passed(args) /\ call' = [f |-> f, args |-> args]

LEMMA CallsMade ==
  ASSUME IInv, [Next]_vars
  PROVE  \/ call' = NoCall \/ MakesCall
         \/ call' = call /\ line' = line /\ pc = "idle"
<1>1. pc \in Functions => pc \notin {"idle", "parse", "execute"}
  BY DEF Functions, OneNumber, TwoNumbers, Breaks, Power
<1>2. OneNumber \cup TwoNumbers \cup Breaks \cup Power \cup {"plain", "write", "read"} = Functions
  BY DEF Functions
<1>3. pc # "idle" => call = NoCall
  BY DEF IInv
<1>4. ASSUME NEW f, NEW args, Call(f, args), Passed(args), pc \in Functions
      PROVE  MakesCall
  BY <1>4, Zenon DEF Call, MakesCall
<1>5. ASSUME Return, pc # "idle"
      PROVE  call' = NoCall
  BY <1>3, <1>5 DEF Return
<1>6. ASSUME NEW m, Becomes(m), pc \in Functions
      PROVE  MakesCall
  BY <1>6, Zenon DEF Becomes, MakesCall, Passed
<1>7. CASE \E l \in Typed : shell_reject_input(l) \/ shell_process_input(l)
  BY <1>7, Zenon DEF shell_reject_input, shell_process_input
<1>8. CASE parse_arg \/ parse_end \/ shell_execute_command
  BY <1>3, <1>8 DEF parse_arg, parse_end, shell_execute_command
<1>9. CASE unknown_command \/ usage \/ cmd_plain
  <2>1. pc # "idle" /\ Return
    BY <1>1, <1>9, Zenon DEF unknown_command, usage, cmd_plain
  <2> QED
    BY <1>5, <2>1
<1>10. CASE cmd_number
  BY <1>2, <1>4, <1>10, Zenon DEF cmd_number, Passed
<1>11. CASE cmd_numbers
  BY <1>2, <1>4, <1>11, Zenon DEF cmd_numbers, Passed
<1>12. CASE cmd_brk
  <2>1. pc \in Functions /\ pc # "idle"
    BY <1>1, <1>2, <1>12, Zenon DEF cmd_brk
  <2>2. \/ argc < 2 /\ Call(pc, <<0>>)
        \/ Return
        \/ ~(argc < 2) /\ Call(pc, <<Number(1)>>)
    BY <1>12, Zenon DEF cmd_brk
  <2>3. ~(argc < 2) => argc >= 2
    BY ShellAssumption DEF IInv, Shape
  <2> QED
    BY <1>4, <1>5, <2>1, <2>2, <2>3, Zenon DEF Passed
<1>13. CASE cmd_read
  <2>1. pc \in Functions /\ pc # "idle"
    BY <1>1, <1>2, <1>13, Zenon DEF cmd_read
  <2> QED
    BY <1>4, <1>5, <1>13, <2>1, Zenon DEF cmd_read, Passed
<1>14. CASE cmd_write
  <2>1. pc \in Functions /\ pc # "idle"
    BY <1>1, <1>2, <1>14, Zenon DEF cmd_write
  <2> QED
    BY <1>3, <1>4, <1>5, <1>14, <2>1, Zenon DEF cmd_write, Passed
<1>15. CASE cmd_reboot \/ cmd_halt \/ cmd_shutdown
  <2>1. pc \in Functions
    BY <1>15 DEF cmd_reboot, cmd_halt, cmd_shutdown, Functions, Power
  <2> QED
    BY <1>6, <1>15, <2>1, Zenon DEF cmd_reboot, cmd_halt, cmd_shutdown
<1>16. CASE boot
  BY <1>16 DEF boot
<1>17. CASE stopped \/ UNCHANGED vars
  BY <1>3, <1>17 DEF stopped, vars
<1> QED
  BY <1>7, <1>8, <1>9, <1>10, <1>11, <1>12, <1>13, <1>14, <1>15, <1>16, <1>17 DEF Next, Step

LEMMA WordsCount ==
  ASSUME line \in Seq(Chars)
  PROVE  Len(Words(line)) = Cardinality(Starts(line))
<1>1. PICK w, c : w = Words(line) /\ c = Cardinality(Starts(line))
  OBVIOUS
<1>2. c \in Nat
  BY <1>1, StartsFinite
<1>3. DOMAIN w = 1 .. c /\ w = [k \in 1 .. c |-> w[k]]
  BY <1>1, Zenon DEF Words
<1>4. Len(w) = c
  BY <1>2, <1>3
<1> QED
  BY <1>1, <1>4

(* An argument that a call uses is a word of the line, and its number the  *)
(* numeral of that word.                                                   *)
LEMMA NumberIs ==
  ASSUME IInv, pc \in Functions, NEW i \in Nat, i < argc
  PROVE  Len(Words(line)) > i /\ Number(i) = Numeral(Words(line)[i + 1]) % Word
<1>1. pc \notin {"idle", "parse"} /\ argc \in Nat
  BY ShellAssumption DEF Functions, OneNumber, TwoNumbers, Breaks, Power, IInv, Shape
<1>2. i \in 0 .. argc - 1
  BY <1>1
<1>3. /\ i + 1 \in 1 .. Cardinality(Starts(line))
      /\ Argument(i) = Words(line)[i + 1] /\ Argument(i) \in Seq(STRING)
  BY <1>1, <1>2, ArgumentIs
<1>4. Number(i) = Numeral(Words(line)[i + 1]) % Word
  <2>1. parse_hex_or_dec(Argument(i)) = Numeral(Argument(i)) % Word
    BY <1>3, ParseIsNumeral
  <2> QED
    BY <1>3, <2>1, Zenon DEF Number
<1>5. Len(Words(line)) = Cardinality(Starts(line))
  BY <1>1, WordsCount DEF IInv, Ahead
<1>6. Cardinality(Starts(line)) \in Int
  <2>1. line \in Seq(Chars)
    BY <1>1 DEF IInv, Ahead
  <2> QED
    BY <2>1, StartsFinite
<1> QED
  BY <1>3, <1>4, <1>5, <1>6

(* Each number a command passes on is the one that was typed, modulo 2^32, *)
(* for every line: parse_hex_or_dec stops at the first character that is   *)
(* not a digit, drops none before it, and loses nothing by wrapping after  *)
(* each digit instead of once.                                             *)
THEOREM NumbersCorrect == Spec => []NumbersExact
<1> DEFINE Exact(i) == IF Len(Words(line)) > i THEN Numeral(Words(line)[i + 1]) % Word ELSE 0
<1>1. Init => NumbersExact
  BY DEF Init, NumbersExact, NoCall
<1>2. ASSUME IInv, NumbersExact, [Next]_vars
      PROVE  NumbersExact'
  <2>1. CASE call' = NoCall
    BY <2>1 DEF NumbersExact, NoCall
  <2>2. CASE call' = call /\ line' = line
    BY <2>2, <1>2 DEF NumbersExact
  <2>3. CASE MakesCall
    <3>1. PICK f, args : Passed(args) /\ call' = [f |-> f, args |-> args]
      BY <2>3, Zenon DEF MakesCall
    <3>2. pc \in Functions /\ line' = line
      BY <2>3, Zenon DEF MakesCall
    <3>3. call'.args = args
      BY <3>1
    <3>4. argc \in Nat
      BY <1>2, ShellAssumption DEF IInv, Shape
    <3>5. ASSUME NEW i \in Nat, i < argc
          PROVE  Number(i) = Exact(i)
      BY <1>2, <3>2, <3>5, NumberIs
    <3>6. ASSUME argc < 2
          PROVE  Exact(1) = 0
      <4>1. argc = Cardinality(Starts(line)) /\ line \in Seq(Chars)
        <5>1. pc \notin {"idle", "parse"}
          BY <3>2 DEF Functions, OneNumber, TwoNumbers, Breaks, Power
        <5>2. argc # SHELL_MAX_ARGS - 1
          BY <3>4, <3>6, ShellAssumption
        <5> QED
          BY <1>2, <5>1, <5>2 DEF IInv, Parsed, Ahead
      <4>2. Len(Words(line)) = argc
        BY <4>1, WordsCount
      <4>3. ~(Len(Words(line)) > 1)
        BY <3>4, <3>6, <4>2
      <4> QED
        BY <4>3, Zenon
    <3> HIDE DEF Exact
    <3>7. \A i \in DOMAIN args : args[i] = Exact(i)
      <4>1. CASE args = << >>
        BY <4>1
      <4>2. CASE argc < 2 /\ args = <<0>>
        BY <3>6, <4>2
      <4>3. CASE argc >= 2 /\ args = <<Number(1)>>
        <5>1. Number(1) = Exact(1)
          BY <3>4, <3>5, <4>3
        <5>2. PICK x : x = Number(1)
          OBVIOUS
        <5> QED
          BY <4>3, <5>1, <5>2
      <4>4. CASE argc >= 3 /\ args = <<Number(1), Number(2)>>
        <5>1. Number(1) = Exact(1) /\ Number(2) = Exact(2)
          BY <3>4, <3>5, <4>4
        <5>2. PICK x, y : x = Number(1) /\ y = Number(2)
          OBVIOUS
        <5> QED
          BY <4>4, <5>1, <5>2
      <4> QED
        BY <3>1, <4>1, <4>2, <4>3, <4>4 DEF Passed
    <3> QED
      BY <3>2, <3>3, <3>7, Zenon DEF NumbersExact, Exact
  <2> QED
    BY <1>2, <2>1, <2>2, <2>3, CallsMade
<1> QED
  BY <1>1, <1>2, Invariance, PTL DEF Spec

(* What was printed last is the text of a value an allocator returned.     *)
Shown ==
  \/ printed = NoResult
  \/ \E f \in Functions, r \in Values : printed = [text |-> Text(f, r), value |-> r]

LEMMA ShownKept ==
  ASSUME Shown, [Next]_vars
  PROVE  Shown'
<1>1. CASE printed' = printed
  BY <1>1 DEF Shown
<1>2. CASE printed' = NoResult
  BY <1>2 DEF Shown
<1>3. ASSUME NEW f \in Functions, NEW args, Call(f, args)
      PROVE  Shown'
  <2>1. printed' = printed \/ \E r \in Values : printed' = [text |-> Text(f, r), value |-> r]
    BY <1>3, Zenon DEF Call
  <2> QED
    BY <1>1, <2>1, Zenon DEF Shown
<1>4. CASE Return
  BY <1>2, <1>4 DEF Return
<1>5. ASSUME NEW m, Becomes(m)
      PROVE  Shown'
  BY <1>1, <1>5 DEF Becomes
<1>6. OneNumber \cup TwoNumbers \cup Breaks \cup Power \cup {"plain", "write", "read"} = Functions
  BY DEF Functions
<1>7. CASE \E l \in Typed : shell_reject_input(l) \/ shell_process_input(l)
  BY <1>1, <1>2, <1>7, Zenon DEF shell_reject_input, shell_process_input
<1>8. CASE parse_arg \/ parse_end \/ shell_execute_command
  BY <1>1, <1>8 DEF parse_arg, parse_end, shell_execute_command
<1>9. CASE unknown_command \/ usage \/ cmd_plain
  BY <1>4, <1>9 DEF unknown_command, usage, cmd_plain
<1>10. CASE cmd_number \/ cmd_numbers
  BY <1>3, <1>6, <1>10, Zenon DEF cmd_number, cmd_numbers
<1>11. CASE cmd_brk
  BY <1>3, <1>4, <1>6, <1>11, Zenon DEF cmd_brk
<1>12. CASE cmd_read
  BY <1>3, <1>4, <1>6, <1>12, Zenon DEF cmd_read
<1>13. CASE cmd_write
  <2>1. (machine' = "halted" /\ Finish /\ UNCHANGED <<call, line, printed>>) => Shown'
    BY <1>1
  <2> QED
    BY <1>3, <1>4, <1>6, <1>13, <2>1, Zenon DEF cmd_write
<1>14. CASE cmd_reboot \/ cmd_halt \/ cmd_shutdown
  BY <1>5, <1>14, Zenon DEF cmd_reboot, cmd_halt, cmd_shutdown
<1>15. CASE boot
  BY <1>2, <1>15 DEF boot
<1>16. CASE stopped \/ UNCHANGED vars
  BY <1>1, <1>16 DEF stopped, vars
<1> QED
  BY <1>7, <1>8, <1>9, <1>10, <1>11, <1>12, <1>13, <1>14, <1>15, <1>16 DEF Next, Step

LEMMA TextReadsBack ==
  ASSUME Shown, printed.text # << >>, printed.text[1] # "-"
  PROVE  parse_hex_or_dec(printed.text) = printed.value
<1>1. PICK f \in Functions, r \in Values : printed = [text |-> Text(f, r), value |-> r]
  BY DEF Shown, NoResult
<1>2. printed.text = Text(f, r) /\ printed.value = r /\ r \in 0 .. Word - 1
  BY <1>1, ShellAssumption
<1>3. Text(f, r) \in {print_hex(r), print_decimal(r), << >>}
  BY Zenon DEF Text
<1>4. CASE Text(f, r) = print_hex(r)
  BY <1>2, <1>4, HexReadsBack
<1>5. CASE Text(f, r) = print_decimal(r)
  BY <1>2, <1>5, DecimalReadsBack
<1> QED
  BY <1>2, <1>3, <1>4, <1>5

(* An address or a size that the shell printed and the user types back is  *)
(* the same number again, whatever its digits: print_hex and print_decimal *)
(* print what parse_hex_or_dec reads, for every size of a word, except for *)
(* what is printed with a minus.                                           *)
THEOREM ReadBackCorrect == Spec => PrintedReadBack
<1> DEFINE Same(i) == /\ call = NoCall /\ printed.text # << >> /\ printed.text[1] # "-"
                      /\ argc > i /\ Argument(i) = printed.text
                      => call'.args[i] = printed.value
<1>1. Init => Shown
  BY DEF Init, Shown
<1>2. Shown /\ [Next]_vars => Shown'
  BY ShownKept
<1>3. ASSUME IInv, Shown, [Next]_vars
      PROVE  \A i \in DOMAIN call'.args : Same(i)
  <2>1. CASE call' = NoCall
    BY <2>1 DEF NoCall
  <2>2. CASE call' = call
    BY <2>2 DEF NoCall
  <2>3. CASE MakesCall
    <3>1. PICK f, args : Passed(args) /\ call' = [f |-> f, args |-> args]
      BY <2>3, Zenon DEF MakesCall
    <3>2. call'.args = args
      BY <3>1
    <3>3. argc \in Nat
      BY <1>3, ShellAssumption DEF IInv, Shape
    <3>4. ASSUME NEW i, printed.text # << >>, printed.text[1] # "-", Argument(i) = printed.text
          PROVE  Number(i) = printed.value
      BY <1>3, <3>4, TextReadsBack, Zenon DEF Number
    <3>5. SUFFICES ASSUME NEW i \in DOMAIN args, printed.text # << >>, printed.text[1] # "-",
                          argc > i, Argument(i) = printed.text
                   PROVE  args[i] = printed.value
      BY <3>2
    <3>6. Number(i) = printed.value
      BY <3>4, <3>5
    <3>7. PICK x, y, v : x = Number(1) /\ y = Number(2) /\ v = printed.value
      OBVIOUS
    <3>8. Number(i) = v /\ (i = 1 => x = v) /\ (i = 2 => y = v)
      BY <3>6, <3>7
    <3>9. \/ args = << >> \/ (argc < 2 /\ args = <<0>>) \/ args = <<x>> \/ args = <<x, y>>
      BY <3>1, <3>7 DEF Passed
    <3>10. args[i] = v
      BY <3>3, <3>5, <3>8, <3>9
    <3> QED
      BY <3>7, <3>10
  <2> QED
    BY <1>3, <2>1, <2>2, <2>3, CallsMade
<1>4. IInv /\ Shown /\ [Next]_vars => [\A i \in DOMAIN call'.args : Same(i)]_vars
  BY <1>3
<1> QED
  BY <1>1, <1>2, <1>4, Invariance, PTL DEF Spec, PrintedReadBack
============================================================================
