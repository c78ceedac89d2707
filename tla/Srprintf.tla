------------------------------ MODULE Srprintf ------------------------------
(***************************************************************************)
(* srprintf, kernel/src/devices/serial.c: one call, from a format string   *)
(* and its arguments to the characters handed to srput.                    *)
(*                                                                         *)
(* A call is given as pieces: a character of text, or a specifier with its *)
(* argument.  The program sees them flattened to characters, with the      *)
(* terminator behind the last, and to a list of arguments.  "NUL" is the   *)
(* character 0; a word such as "true" is one character here.               *)
(***************************************************************************)
EXTENDS Integers, Sequences, SequencesExt

CONSTANTS
  Calls,          \* sequences of [kind, value]
  SIZE,           \* sizeof(uint64_t), 8 in the code
  BUFFER          \* characters in the buffer of %d, 64 in the code

Taking  == {"s", "c", "d", "b", "x"}       \* specifiers with an argument
Without == {"%", "z", "lone"}              \* %%, one srprintf does not know, a % at the end

CallsAreLegal ==
  \A call \in Calls : \A k \in 1 .. Len(call) :
    /\ call[k].kind \in Taking \cup Without \cup {"text"}
    /\ call[k].kind = "lone" => k = Len(call)
    /\ call[k].kind = "x" => call[k].value \in 0 .. 256 ^ SIZE - 1

VARIABLES
  call,           \* the pieces
  fmt, args,      \* what srprintf is given
  pos, arg,       \* where it is in either, from 1
  value, str,     \* %d: what is left of the number, its digits, the last first
  pc,             \* "text", "digits", "done", "astray" beyond the terminator
  out             \* characters put

vars == <<call, fmt, args, pos, arg, value, str, pc, out>>

Letters(piece) ==
  CASE piece.kind = "text" -> << piece.value >>
    [] piece.kind = "lone" -> << "%" >>
    [] OTHER               -> << "%", piece.kind >>

Init ==
  /\ call \in Calls
  /\ fmt = FlattenSeq([k \in 1 .. Len(call) |-> Letters(call[k])])
  /\ args = SelectSeq(call, LAMBDA piece : piece.kind \in Taking)
  /\ pos = 1 /\ arg = 1
  /\ value = 0 /\ str = << >>
  /\ pc = "text"
  /\ out = << >>

-----------------------------------------------------------------------------
Characters ==
  << "0", "1", "2", "3", "4", "5", "6", "7", "8", "9", "A", "B", "C", "D", "E", "F" >>
Digits == [d \in 0 .. 15 |-> Characters[d + 1]]

(* Mutant: the lowest digit left out.                                      *)
Hex_but_last(v)  == [k \in 1 .. 2 * SIZE - 1 |-> Digits[(v \div 16 ^ (2 * SIZE - k)) % 16]]

(* Behind the specifier; a number's digits, the highest first.             *)
Behind  == pos + 2
Hex(v)  == [k \in 1 .. 2 * SIZE |-> Digits[(v \div 16 ^ (2 * SIZE - k)) % 16]]

put_text ==
  /\ pc = "text" /\ pos <= Len(fmt)
  /\ fmt[pos] # "%"
  /\ out' = Append(out, fmt[pos])
  /\ pos' = pos + 1
  /\ UNCHANGED <<call, fmt, args, arg, value, str, pc>>

(* The character behind a %, which may be the terminator.                  *)
Specifier == IF pos < Len(fmt) THEN fmt[pos + 1] ELSE "NUL"

At(c) == pc = "text" /\ pos <= Len(fmt) /\ fmt[pos] = "%" /\ Specifier = c

Put(text, taken) ==
  /\ out' = out \o text
  /\ pos' = Behind
  /\ arg' = arg + taken
  /\ pc' = "text"
  /\ UNCHANGED <<call, fmt, args, value, str>>

va_arg            == args[arg].value
convert_string    == At("s") /\ Put(va_arg, 1)
convert_character == At("c") /\ Put(<< va_arg >>, 1)
convert_hex       == At("x") /\ Put(Hex(va_arg), 1)
convert_percent   == At("%") /\ Put(<< "%" >>, 0)
convert_bool ==
  At("b") /\ Put(CASE va_arg = 0 -> << "false" >>
                   [] va_arg = 1 -> << "true" >>
                   [] OTHER      -> << "corrupted" >>, 1)
convert_unknown == (At("z") \/ At("NUL")) /\ Put(<< >>, 0)

(* %d: the digits are divided off while the number is positive, then the   *)
(* whole buffer is put from its far end, its zero bytes first.             *)
convert_decimal ==
  /\ At("d")
  /\ value' = va_arg /\ str' = << >>
  /\ pc' = "digits"
  /\ UNCHANGED <<call, fmt, args, pos, arg, out>>

decimal_digit ==
  /\ pc = "digits" /\ value > 0
  /\ str' = Append(str, Digits[value % 10])
  /\ value' = value \div 10
  /\ UNCHANGED <<call, fmt, args, pos, arg, pc, out>>

decimal_put ==
  /\ pc = "digits" /\ ~ (value > 0)
  /\ Put([k \in 1 .. BUFFER |->
            IF BUFFER + 1 - k <= Len(str) THEN str[BUFFER + 1 - k] ELSE "NUL"], 1)

srprintf_done ==
  /\ pc = "text" /\ pos > Len(fmt)
  /\ pc' = IF pos = Len(fmt) + 1 THEN "done" ELSE "astray"
  /\ UNCHANGED <<call, fmt, args, pos, arg, value, str, out>>

Next ==
  \/ put_text
  \/ convert_string
  \/ convert_character
  \/ convert_hex
  \/ convert_percent
  \/ convert_bool
  \/ convert_unknown
  \/ convert_decimal
  \/ decimal_digit
  \/ decimal_put
  \/ srprintf_done

Spec == Init /\ [][Next]_vars /\ WF_vars(Next)

-----------------------------------------------------------------------------
(* What is printed for a piece and how much of the output that takes.      *)
Width(piece) ==
  CASE piece.kind = "s"                      -> Len(piece.value)
    [] piece.kind = "x"                      -> 2 * SIZE
    [] piece.kind = "d"                      -> BUFFER
    [] piece.kind \in {"c", "b", "%", "text"} -> 1
    [] OTHER                                 -> 0

Digit(c) == CHOOSE d \in 0 .. 15 : Digits[d] = c
NumberOf(s, base) == FoldLeft(LAMBDA n, d : base * n + Digit(d), 0, s)

Says(piece, s) ==
  CASE piece.kind = "text"       -> s = << piece.value >>
    [] piece.kind = "s"          -> s = piece.value
    [] piece.kind = "c"          -> s = << piece.value >>
    [] piece.kind = "%"          -> s = << "%" >>
    [] piece.kind = "b"          -> s = << IF piece.value \notin {0, 1} THEN "corrupted"
                                           ELSE IF piece.value = 1 THEN "true" ELSE "false" >>
    [] piece.kind = "x"          -> NumberOf(s, 16) = piece.value
    [] piece.kind = "d"          ->
         LET digits == SelectSeq(s, LAMBDA c : c # "NUL")
         IN /\ s = [k \in 1 .. BUFFER - Len(digits) |-> "NUL"] \o digits
            /\ IF piece.value > 0 THEN NumberOf(digits, 10) = piece.value ELSE digits = << >>
    [] OTHER                     -> s = << >>

(* Every piece is printed, in order, from its own argument: %x reads back  *)
(* as the number it was given, in all its digits, and so does %d if the    *)
(* number is positive.  Zero and negative numbers are lost.  The call ends *)
(* at the terminator, unless a % is the last character: then it steps over *)
(* the terminator.                                                         *)
Printed ==
  /\ pc \in {"done", "astray"} =>
       (pc = "astray" <=> call # << >> /\ Last(call).kind = "lone")
  /\ pc = "done" =>
       LET Offset(k) == FoldLeft(LAMBDA n, p : n + Width(p), 0, SubSeq(call, 1, k - 1))
       IN /\ Len(out) = Offset(Len(call) + 1)
          /\ \A k \in 1 .. Len(call) :
               Says(call[k], SubSeq(out, Offset(k) + 1, Offset(k) + Width(call[k])))
          /\ arg = Len(args) + 1
=============================================================================
