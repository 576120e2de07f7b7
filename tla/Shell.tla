------------------------------- MODULE Shell -------------------------------
(***************************************************************************)
(* The command line of src/src/shell.c: how a line is cut into arguments,  *)
(* how a command is found, how the numbers of src/src/kprintf.c are read   *)
(* back, and which call each command ends in.                              *)
(*                                                                         *)
(* A string is a sequence of characters, and a buffer is a function from   *)
(* offsets to characters in which a string ends at a NUL.  args_buffer is  *)
(* static, so the bytes of earlier lines stay behind the end of the        *)
(* present one.  The commands themselves are actions of KHeap, VMem,       *)
(* AddressSpace and Console: here they are the calls they lead to, except  *)
(* for the ones that stop or restart the machine.                          *)
(***************************************************************************)
EXTENDS Integers, Sequences, FiniteSets

CONSTANTS
  SHELL_BUFFER_SIZE, SHELL_MAX_ARGS,
  Nibbles,   \* hexadecimal digits of a uint32_t, 8
  commands,  \* the table of commands: name |-> the function it runs
  BIOS_END,  \* the first address write accepts, 0x00100000
  Regions,   \* the address ranges of the allocators: [start, end]
  Lines,     \* what the user types
  Values     \* what the allocators return, and the shell prints

VARIABLES
  args_buffer,       \* the static buffer of shell_parse_args
  argv, argc,        \* the arguments: offsets into args_buffer
  token, end,        \* locals of shell_parse_args
  pc,                \* "idle" at the prompt, else the step of the command
  call,              \* the call the last command made, with its numbers
  machine,           \* "on", "halted", "off" or "reset"
  line,              \* history: the line the running or the last call came from
  printed            \* history: the result that the last command printed

vars == <<args_buffer, argv, argc, token, end, pc, call, machine, line, printed>>

locals == <<argv, argc, token, end>>

NUL   == "nul"
NULL  == -1   \* the null pointer
JUNK  == -2   \* an element of argv that was never written
Blank == {" ", "\t"}

(* b to the power n.                                                       *)
Pow(b, n) == LET p[k \in Nat] == IF k = 0 THEN 1 ELSE b * p[k - 1] IN p[n]

Word == Pow(16, Nibbles)

(* The functions of the table, by how they treat their arguments.  Plain   *)
(* ones ignore them: help, clear, echo, gdt, version, meminfo and tests.   *)
OneNumber  == {"kmalloc", "kfree", "ksize", "vmalloc", "vfree", "vsize", "vget"}
TwoNumbers == {"ktest", "vtest"}
Breaks     == {"kbrk", "vbrk"}
Power      == {"reboot", "halt", "shutdown"}
Functions  == OneNumber \cup TwoNumbers \cup Breaks \cup Power \cup {"plain", "write", "read"}

ASSUME ShellAssumption ==
  /\ SHELL_BUFFER_SIZE \in Nat \ {0, 1} /\ SHELL_MAX_ARGS \in Nat /\ SHELL_MAX_ARGS >= 4
  /\ Nibbles \in Nat \ {0}
  /\ Values \subseteq 0 .. Word - 1 /\ BIOS_END \in 0 .. Word - 1
  /\ \A l \in Lines : Len(l) < SHELL_BUFFER_SIZE
  /\ \A n \in DOMAIN commands : commands[n] \in Functions

----------------------------------------------------------------------------
(***************************************************************************)
(* Strings.                                                                *)
(***************************************************************************)
Bytes == 0 .. SHELL_BUFFER_SIZE - 1

(* The first offset from p on that satisfies a test; the buffer's end if   *)
(* there is none.                                                          *)
Find(p, Test(_)) ==
  LET hits == {q \in Bytes : q >= p /\ Test(q)}
  IN  IF hits = {} THEN SHELL_BUFFER_SIZE ELSE CHOOSE q \in hits : \A r \in hits : q <= r

strlen(buf, p) == Find(p, LAMBDA q : buf[q] = NUL) - p

String(buf, p) == [i \in 1 .. strlen(buf, p) |-> buf[p + i - 1]]

(* The terminating NUL is not copied.                                      *)
strcpy_bug(dest, src) == [q \in Bytes |-> IF q < Len(src) THEN src[q + 1] ELSE dest[q]]

strcpy(dest, src) ==
  [q \in Bytes |-> CASE q < Len(src) -> src[q + 1]
                     [] q = Len(src) -> NUL
                     [] OTHER        -> dest[q]]

(***************************************************************************)
(* Numbers: what parse_hex_or_dec reads and what kprintf prints.           *)
(***************************************************************************)
Decimal == {"0", "1", "2", "3", "4", "5", "6", "7", "8", "9"}
Upper   == {"A", "B", "C", "D", "E", "F"}
Lower   == {"a", "b", "c", "d", "e", "f"}

Digit ==
  [c \in Decimal \cup Upper \cup Lower |->
     CASE c = "0" -> 0 [] c = "1" -> 1 [] c = "2" -> 2 [] c = "3" -> 3 [] c = "4" -> 4
       [] c = "5" -> 5 [] c = "6" -> 6 [] c = "7" -> 7 [] c = "8" -> 8 [] c = "9" -> 9
       [] c \in {"A", "a"} -> 10 [] c \in {"B", "b"} -> 11 [] c \in {"C", "c"} -> 12
       [] c \in {"D", "d"} -> 13 [] c \in {"E", "e"} -> 14 [] c \in {"F", "f"} -> 15]

Glyph(n) == CHOOSE c \in Decimal \cup Upper : Digit[c] = n

(* The loops of parse_hex_or_dec: up to the first character that is not a  *)
(* digit, in 32-bit arithmetic.                                            *)
Accumulate(s, digits, base) ==
  LET a[k \in 0 .. Len(s)] ==
        IF k = 0 THEN [val |-> 0, end |-> FALSE]
        ELSE IF a[k - 1].end \/ s[k] \notin digits THEN [a[k - 1] EXCEPT !.end = TRUE]
        ELSE [a[k - 1] EXCEPT !.val = (@ * base + Digit[s[k]]) % Word]
  IN  a[Len(s)].val

(* Small letters are not taken for hexadecimal digits.                     *)
parse_hex_or_dec_bug(s) ==
  IF Len(s) >= 2 /\ s[1] = "0" /\ s[2] \in {"x", "X"}
  THEN Accumulate(SubSeq(s, 3, Len(s)), Decimal \cup Upper, 16)
  ELSE Accumulate(s, Decimal, 10)

parse_hex_or_dec(s) ==
  IF Len(s) >= 2 /\ s[1] = "0" /\ s[2] \in {"x", "X"}
  THEN Accumulate(SubSeq(s, 3, Len(s)), Decimal \cup Upper \cup Lower, 16)
  ELSE Accumulate(s, Decimal, 10)

(* The loop starts at the second digit.                                    *)
print_hex_bug(value) ==
  <<"0", "x">> \o
  IF value = 0 THEN <<"0">>
  ELSE [i \in 1 .. Nibbles - 1 |->
          Glyph((value \div Pow(16, Nibbles - 1 - i)) % 16)]

(* Zero is short; any other number has all its digits.                     *)
print_hex(value) ==
  <<"0", "x">> \o
  IF value = 0 THEN <<"0">>
  ELSE [i \in 1 .. Nibbles |->
          Glyph((value \div Pow(16, Nibbles - i)) % 16)]

(* The digits of a positive int, and none for the one int that stays       *)
(* negative when it is negated.                                            *)
Digits(n) ==
  LET len == CHOOSE k \in 0 .. 2 * Nibbles :
                n < Pow(10, k) /\ \A j \in 0 .. k - 1 : n >= Pow(10, j)
  IN  [i \in 1 .. len |-> Glyph((n \div Pow(10, len - i)) % 10)]

print_decimal(value) ==
  CASE value = 0                           -> <<"0">>
    [] value > 0 /\ value < Word \div 2    -> Digits(value)
    [] value > Word \div 2                 -> <<"-">> \o Digits(Word - value)
    [] OTHER                               -> <<"-">>

----------------------------------------------------------------------------
(***************************************************************************)
(* The shell.                                                              *)
(***************************************************************************)
NoCall   == [f |-> "none", args |-> << >>]
NoResult == [text |-> << >>, value |-> 0]

(* After boot: static memory is zero.                                      *)
Init ==
  /\ args_buffer = [q \in Bytes |-> NUL]
  /\ argv = [i \in 0 .. SHELL_MAX_ARGS - 1 |-> JUNK] /\ argc = 0
  /\ token = 0 /\ end = 0
  /\ pc = "idle" /\ call = NoCall /\ machine = "on"
  /\ line = << >> /\ printed = NoResult

(* An empty line or one that is too long: only a new prompt.               *)
shell_reject_input(l) ==
  /\ pc = "idle" /\ machine = "on"
  /\ Len(l) = 0 \/ Len(l) >= SHELL_BUFFER_SIZE - 1
  /\ call' = NoCall
  /\ line' = << >> /\ printed' = NoResult
  /\ UNCHANGED <<args_buffer, locals, pc, machine>>

(* The line is copied to the buffer, over what is left of earlier lines.   *)
(* argv is a new array on the stack.                                       *)
shell_process_input(l) ==
  /\ pc = "idle" /\ machine = "on"
  /\ Len(l) > 0 /\ Len(l) < SHELL_BUFFER_SIZE - 1
  /\ args_buffer' = strcpy(args_buffer, l)
  /\ argv' = [i \in 0 .. SHELL_MAX_ARGS - 1 |-> JUNK] /\ argc' = 0
  /\ token' = 0 /\ end' = strlen(args_buffer', 0)
  /\ pc' = "parse" /\ line' = l /\ call' = NoCall
  /\ UNCHANGED <<machine, printed>>

(* The next argument: where it starts, and the offset behind it.           *)
ArgStart == Find(token, LAMBDA q : args_buffer[q] \notin Blank)
ArgStop  == Find(ArgStart, LAMBDA q : args_buffer[q] \in Blank \cup {NUL})

MoreArgs == token < end /\ argc < SHELL_MAX_ARGS - 1 /\ args_buffer[ArgStart] # NUL

(* The loop over the blanks before an argument does not advance.           *)
parse_arg_bug ==
  /\ pc = "parse" /\ MoreArgs
  /\ IF args_buffer[token] \in Blank
     THEN UNCHANGED <<args_buffer, locals>>
     ELSE /\ argv' = [argv EXCEPT ![argc] = ArgStart] /\ argc' = argc + 1
          /\ args_buffer' = [args_buffer EXCEPT ![ArgStop] = NUL]
          /\ token' = ArgStop + 1 /\ UNCHANGED end
  /\ UNCHANGED <<pc, call, machine, line, printed>>

(* A turn of the loop of shell_parse_args.                                 *)
parse_arg ==
  LET last == args_buffer[ArgStop] = NUL
  IN  /\ pc = "parse" /\ MoreArgs
      /\ argv' = [argv EXCEPT ![argc] = ArgStart] /\ argc' = argc + 1
      /\ args_buffer' = [args_buffer EXCEPT ![ArgStop] = NUL]
      /\ token' = IF last THEN ArgStop ELSE ArgStop + 1
      /\ UNCHANGED <<end, pc, call, machine, line, printed>>

parse_end ==
  /\ pc = "parse" /\ ~MoreArgs
  /\ argv' = [argv EXCEPT ![argc] = NULL]
  /\ pc' = "execute"
  /\ UNCHANGED <<args_buffer, argc, token, end, call, machine, line, printed>>

----------------------------------------------------------------------------
(***************************************************************************)
(* The commands.                                                           *)
(***************************************************************************)
Argument(i) == String(args_buffer, argv[i])
Number(i)   == parse_hex_or_dec(Argument(i))

MinArgs(f) == CASE f \in OneNumber \cup {"read"}   -> 2
                [] f \in TwoNumbers \cup {"write"} -> 3
                [] OTHER                           -> 1

(* The command ends; the locals of the shell are gone.                     *)
Finish ==
  /\ pc' = "idle" /\ argc' = 0 /\ token' = 0 /\ end' = 0
  /\ argv' = [i \in 0 .. SHELL_MAX_ARGS - 1 |-> JUNK]
  /\ UNCHANGED args_buffer

(* Back to the prompt, with no call made.                                  *)
Return ==
  Finish /\ line' = << >> /\ printed' = NoResult /\ UNCHANGED <<call, machine>>

(* How a result is printed, unless it stands for a failure.                *)
Text(f, r) ==
  LET failed == (f \in Breaks /\ r = Word - 1) \/ (f = "vget" /\ r = 0)
  IN  CASE f \in {"kmalloc", "vmalloc", "kbrk", "vbrk", "vget"} /\ ~failed -> print_hex(r)
        [] f \in {"ksize", "vsize", "read"}                                -> print_decimal(r)
        [] OTHER                                                           -> << >>

(* The allocator is called: it returns a value, or it panics.              *)
Call(f, args) ==
  /\ call' = [f |-> f, args |-> args]
  /\ \/ /\ \E r \in Values : printed' = [text |-> Text(f, r), value |-> r]
        /\ UNCHANGED machine
     \/ machine' = "halted" /\ UNCHANGED printed
  /\ Finish /\ UNCHANGED line

(* strcmp finds the whole name, and each name is once in the table.        *)
shell_execute_command ==
  /\ pc = "execute" /\ argc > 0 /\ Argument(0) \in DOMAIN commands
  /\ pc' = commands[Argument(0)]
  /\ UNCHANGED <<args_buffer, locals, call, machine, line, printed>>

unknown_command ==
  pc = "execute" /\ (argc > 0 => Argument(0) \notin DOMAIN commands) /\ Return

usage == pc \in Functions /\ argc < MinArgs(pc) /\ Return

cmd_plain == pc = "plain" /\ Return

cmd_number  == pc \in OneNumber /\ argc >= 2 /\ Call(pc, <<Number(1)>>)

cmd_numbers == pc \in TwoNumbers /\ argc >= 3 /\ Call(pc, <<Number(1), Number(2)>>)

(* kbrk and vbrk: no argument asks for the break, zero is refused.         *)
cmd_brk ==
  /\ pc \in Breaks
  /\ CASE argc < 2      -> Call(pc, <<0>>)
       [] Number(1) = 0 -> Return
       [] OTHER         -> Call(pc, <<Number(1)>>)

InRegion(a) == \E g \in Regions : a >= g.start /\ a < g.end

cmd_read ==
  /\ pc = "read" /\ argc >= 2
  /\ IF InRegion(Number(1)) THEN Call("read", <<Number(1)>>) ELSE Return

(* write: a value that is negative as an int and an address of no          *)
(* allocator are refused, and an address of the BIOS panics.  The size the *)
(* allocator gives for the address decides the rest.                       *)
cmd_write ==
  /\ pc = "write" /\ argc >= 3
  /\ IF Number(2) >= Word \div 2 \/ (Number(1) >= BIOS_END /\ ~InRegion(Number(1)))
     THEN Return
     ELSE \/ Number(1) >= BIOS_END /\ Call("write", <<Number(1), Number(2)>>)
          \/ Number(1) < BIOS_END /\ machine' = "halted"
             /\ Finish /\ UNCHANGED <<call, line, printed>>

----------------------------------------------------------------------------
(***************************************************************************)
(* The commands that stop the machine.  An interrupt that has no gate in   *)
(* the descriptor table is a triple fault, which resets the processor.     *)
(***************************************************************************)
gates == {14, 33}  \* the page fault and the keyboard

Interrupt(n, table) == IF n \in table THEN "on" ELSE "reset"

Becomes(m) ==
  /\ machine' = m /\ call' = [f |-> pc, args |-> << >>]
  /\ Finish /\ UNCHANGED <<line, printed>>

(* Two ports may reset the machine; the third way empties the table.       *)
cmd_reboot ==
  pc = "reboot" /\ \E works \in BOOLEAN :
    Becomes(IF works THEN "reset" ELSE Interrupt(0, {}))

cmd_halt == pc = "halt" /\ Becomes("halted")

(* A port may power the machine off, then the BIOS is called; what follows *)
(* the call would bring the prompt back.                                   *)
cmd_shutdown ==
  pc = "shutdown" /\ \E works \in BOOLEAN :
    Becomes(IF works THEN "off" ELSE Interrupt(21, gates))

(* The machine starts again.                                               *)
boot ==
  /\ machine = "reset"
  /\ args_buffer' = [q \in Bytes |-> NUL]
  /\ argv' = [i \in 0 .. SHELL_MAX_ARGS - 1 |-> JUNK] /\ argc' = 0
  /\ token' = 0 /\ end' = 0
  /\ pc' = "idle" /\ call' = NoCall /\ machine' = "on"
  /\ line' = << >> /\ printed' = NoResult

stopped == machine \in {"halted", "off"} /\ UNCHANGED vars

----------------------------------------------------------------------------
(* The user also types back what was printed.  No key stands for NUL.      *)
Typed ==
  {l \in Lines \cup {n \o <<" ">> \o printed.text :
                      n \in {m \in DOMAIN commands : commands[m] \in OneNumber}} :
     l \in Seq(STRING \ {NUL})}

Step ==
  \/ parse_arg \/ parse_end \/ shell_execute_command \/ unknown_command \/ usage
  \/ cmd_plain \/ cmd_number \/ cmd_numbers \/ cmd_brk
  \/ cmd_read \/ cmd_write \/ cmd_reboot \/ cmd_halt \/ cmd_shutdown

Next ==
  \/ \E l \in Typed : shell_reject_input(l) \/ shell_process_input(l)
  \/ Step \/ boot \/ stopped

(* A command runs with interrupts off and nothing else on the processor.   *)
Spec == Init /\ [][Next]_vars /\ WF_vars(Step)

----------------------------------------------------------------------------
(***************************************************************************)
(* Properties.                                                             *)
(***************************************************************************)
(* The words of a line: its longest runs of characters other than blanks.  *)
IsBlank(l, i) == i \notin DOMAIN l \/ l[i] \in Blank

Starts(l) == {i \in DOMAIN l : ~IsBlank(l, i) /\ IsBlank(l, i - 1)}

Stop(l, i) == CHOOSE j \in i .. Len(l) : IsBlank(l, j + 1) /\ \A k \in i .. j : ~IsBlank(l, k)

Nth(l, k) == CHOOSE i \in Starts(l) : Cardinality({j \in Starts(l) : j < i}) = k - 1

Words(l) ==
  [k \in 1 .. Cardinality(Starts(l)) |-> SubSeq(l, Nth(l, k), Stop(l, Nth(l, k)))]

(* A command is run on the words of the line that was typed and on nothing *)
(* else: not on bytes of an earlier line behind it in the static buffer,   *)
(* however its blanks are placed.  Words that do not fit in the array are  *)
(* dropped, and the array keeps room for the null pointer at its end.      *)
ArgsAreWords ==
  pc = "execute" =>
    /\ argc < SHELL_MAX_ARGS /\ argv[argc] = NULL
    /\ [i \in 1 .. argc |-> Argument(i - 1)] =
         SubSeq(Words(line), 1, IF Len(Words(line)) < SHELL_MAX_ARGS
                                THEN Len(Words(line)) ELSE SHELL_MAX_ARGS - 1)

(* What a word stands for: the numeral of its longest prefix of digits.    *)
Numeral(s) ==
  LET hex    == Len(s) >= 2 /\ s[1] = "0" /\ s[2] \in {"x", "X"}
      digits == IF hex THEN Decimal \cup Upper \cup Lower ELSE Decimal
      base   == IF hex THEN 16 ELSE 10
      from   == IF hex THEN 3 ELSE 1
      n      == Cardinality({k \in from .. Len(s) : \A i \in from .. k : s[i] \in digits})
      sum[k \in 0 .. n] ==
        IF k = 0 THEN 0 ELSE sum[k - 1] + Digit[s[from + k - 1]] * Pow(base, n - k)
  IN  sum[n]

(* Each number a command passes on is the one the user typed, modulo 2^32: *)
(* no digit is lost or read in the wrong base, through any mix of bases,   *)
(* cases and characters that are not digits.                               *)
NumbersExact ==
  \A i \in DOMAIN call.args :
    call.args[i] = IF Len(Words(line)) > i THEN Numeral(Words(line)[i + 1]) % Word ELSE 0

(* An address or a size that the shell printed and the user types back is  *)
(* the same number again; a size of 2^31 or more is printed as a negative  *)
(* number, and is not.                                                     *)
PrintedReadBack ==
  [][ \A i \in DOMAIN call'.args :
        /\ call = NoCall /\ printed.text # << >> /\ printed.text[1] # "-"
        /\ argc > i /\ Argument(i) = printed.text
        => call'.args[i] = printed.value ]_vars

(* Every line that is typed comes back to the prompt, unless the machine   *)
(* has stopped or restarts.                                                *)
LinesAnswered == pc # "idle" ~> pc = "idle" \/ machine # "on"
=============================================================================
