------------------------------ MODULE NobText ------------------------------
(***************************************************************************)
(* What the build library does with text: growing arrays, string views,    *)
(* command lines (nob.h).  A text is a sequence of characters, a view the  *)
(* part of it that it shows.                                               *)
(***************************************************************************)
EXTENDS Integers, Sequences, SequencesExt, FiniteSetsExt

CONSTANTS
  NOB_DA_INIT_CAP,
  Texts,          \* texts to look at
  Commands,       \* commands to quote, without the program's name
  Appends,        \* sequences of [op, text] on one string builder
  Writes          \* files written: [text, opened, answers, lost]

Blank == {" ", "\t"}

-----------------------------------------------------------------------------
(* Views.  A scan stops at the first character that is not one of passed.  *)
Scan(sv, passed) ==
  LET stops == {k \in 1 .. Len(sv) : sv[k] \notin passed}
  IN IF stops = {} THEN Len(sv) ELSE Min(stops) - 1

nob_sv_chop_by_delim(sv, delim) ==
  LET i == Scan(sv, Range(sv) \ {delim})
  IN [result |-> SubSeq(sv, 1, i), sv |-> SubSeq(sv, i + 2, Len(sv))]

nob_sv_chop_left(sv, n) ==
  LET m == Min({n, Len(sv)})
  IN [result |-> SubSeq(sv, 1, m), sv |-> SubSeq(sv, m + 1, Len(sv))]

nob_sv_trim_left(sv) == SubSeq(sv, Scan(sv, Blank) + 1, Len(sv))

nob_sv_trim_right(sv) ==
  SubSeq(sv, 1, Len(sv) - Scan(Reverse(sv), Blank))

nob_sv_trim(sv) == nob_sv_trim_right(nob_sv_trim_left(sv))

nob_sv_eq(a, b) == Len(a) = Len(b) /\ \A k \in 1 .. Len(a) : a[k] = b[k]

nob_sv_end_with(sv, cstr) ==
  /\ Len(sv) >= Len(cstr)
  /\ nob_sv_eq(SubSeq(sv, Len(sv) - Len(cstr) + 1, Len(sv)), cstr)

nob_sv_starts_with(sv, prefix) ==
  Len(prefix) <= Len(sv) /\ nob_sv_eq(prefix, SubSeq(sv, 1, Len(prefix)))

(* What follows the last slash.                                            *)
nob_path_name(path) ==
  LET slashes == {k \in 1 .. Len(path) : path[k] = "/"}
  IN SubSeq(path, IF slashes = {} THEN 1 ELSE Max(slashes) + 1, Len(path))

-----------------------------------------------------------------------------
(* Command lines.                                                          *)
Between(parts, separator) ==
  FlattenSeq([k \in 1 .. Len(parts) |->
                IF k > 1 THEN separator \o parts[k] ELSE parts[k]])

Has(arg, chars) == \E k \in 1 .. Len(arg) : arg[k] \in chars

(* For the log.                                                            *)
nob_cmd_render(cmd) ==
  Between([k \in 1 .. Len(cmd) |->
             IF Has(cmd[k], {" "}) THEN << "'" >> \o cmd[k] \o << "'" >> ELSE cmd[k]],
          << " " >>)

(* For CreateProcess: a quote is escaped, and so are the backslashes       *)
(* before a quote, the one that closes the argument included.              *)
Backslashes(n) == [k \in 1 .. n |-> "\\"]

Escape(s, x) ==
  IF x = "\\" THEN [text |-> Append(s.text, x), slashes |-> s.slashes + 1]
  ELSE [text |-> s.text \o (IF x = "\"" THEN Backslashes(1 + s.slashes) ELSE << >>) \o << x >>,
        slashes |-> 0]

(* Mutant: nothing is done about backslashes at the end.                   *)
Escaped_but_the_end(arg) ==
  FoldLeft(Escape, [text |-> << "\"" >>, slashes |-> 0], arg).text \o << "\"" >>

Escaped(arg) ==
  LET s == FoldLeft(Escape, [text |-> << "\"" >>, slashes |-> 0], arg)
  IN s.text \o Backslashes(s.slashes) \o << "\"" >>

nob__win32_cmd_quote(cmd) ==
  Between([k \in 1 .. Len(cmd) |->
             IF cmd[k] # << >> /\ ~ Has(cmd[k], Blank \cup {"\""}) THEN cmd[k] ELSE Escaped(cmd[k])],
          << " " >>)

-----------------------------------------------------------------------------
(* A dynamic array of characters: capacity cells, count of them in use;    *)
(* strayed when something was written beyond them.                         *)
Unset     == "unset"
EmptyText == [items |-> << >>, count |-> 0, capacity |-> 0, strayed |-> FALSE]

Doublings(from, wanted) == CHOOSE c \in {from * 2 ^ k : k \in 0 .. wanted} :
                             c >= wanted /\ (c = from \/ c \div 2 < wanted)

Grown(da, capacity) ==
  [da EXCEPT !.capacity = capacity,
             !.items = [k \in 1 .. capacity |-> IF k <= Len(@) THEN @[k] ELSE Unset]]

nob_da_reserve(da, wanted) ==
  IF wanted <= da.capacity THEN da
  ELSE Grown(da, Doublings(IF da.capacity = 0 THEN NOB_DA_INIT_CAP ELSE da.capacity, wanted))

(* text written behind what is in use.                                     *)
Written(da, text) ==
  [da EXCEPT !.items = [k \in 1 .. Len(@) |->
                          IF k - da.count \in 1 .. Len(text) THEN text[k - da.count] ELSE @[k]],
             !.strayed = @ \/ da.count + Len(text) > da.capacity]

Counted(da, n) == [da EXCEPT !.count = @ + n]

nob_da_append_many(da, text) ==
  Counted(Written(nob_da_reserve(da, da.count + Len(text)), text), Len(text))

nob_da_append(da, c) == nob_da_append_many(da, << c >>)

(* Room for the terminator too, which is written but not counted.          *)
nob_sb_appendf(da, text) ==
  Counted(Written(nob_da_reserve(da, da.count + Len(text) + 1), Append(text, "NUL")), Len(text))

(* A file is read into exactly the room it takes; when that fails part way *)
(* what was read is not counted.                                           *)
Fitted(da, n) == IF da.count + n > da.capacity THEN Grown(da, da.count + n) ELSE da

nob_read_entire_file(da, text) == Counted(Written(Fitted(da, Len(text)), text), Len(text))
ReadFails(da, text) == Written(Fitted(da, Len(text)), SubSeq(text, 1, Len(text) \div 2))

(* A file is written piece by piece until the stream reports an error:     *)
(* answers are what fwrite took and whether it failed.  What a stream has  *)
(* taken and not put on the disk may still be lost when it is closed,      *)
(* which nobody asks about.                                                *)
Piece(s, answer) ==
  IF ~ s.result \/ s.buf = << >> THEN s
  ELSE [result |-> ~ answer.error,
        buf    |-> IF answer.error THEN s.buf ELSE SubSeq(s.buf, answer.n + 1, Len(s.buf)),
        file   |-> s.file \o SubSeq(s.buf, 1, answer.n)]

nob_write_entire_file(data, opened, answers, lost) ==
  LET s == FoldLeft(Piece, [result |-> opened, buf |-> data, file |-> << >>], answers)
  IN [result |-> s.result, file |-> SubSeq(s.file, 1, Len(s.file) - Min({lost, Len(s.file)}))]

Appended(da, o) ==
  CASE o.op = "append" -> nob_da_append(da, o.text[1])
    [] o.op = "append_many" -> nob_da_append_many(da, o.text)
    [] o.op = "appendf" -> nob_sb_appendf(da, o.text)
    [] o.op = "read" -> nob_read_entire_file(da, o.text)
    [] o.op = "read fails" -> ReadFails(da, o.text)

-----------------------------------------------------------------------------
(* How a program on Windows takes a command line apart: backslashes stand  *)
(* for themselves except before a quote, where two stand for one and an    *)
(* odd one makes the quote a character.                                    *)
Split(s, c) ==
  LET halved == [s EXCEPT !.arg = @ \o Backslashes(s.slashes \div 2), !.slashes = 0, !.begun = TRUE]
      plain  == [s EXCEPT !.arg = @ \o Backslashes(s.slashes), !.slashes = 0]
  IN CASE c = "\\" -> [s EXCEPT !.slashes = @ + 1, !.begun = TRUE]
       [] c = "\"" /\ s.slashes % 2 = 1 -> [halved EXCEPT !.arg = Append(@, "\"")]
       [] c = "\"" /\ s.slashes % 2 = 0 -> [halved EXCEPT !.quoted = ~ @]
       [] c \in Blank /\ ~ s.quoted ->
            [plain EXCEPT !.args = IF s.begun THEN Append(@, plain.arg) ELSE @,
                          !.arg = << >>, !.begun = FALSE]
       [] OTHER -> [plain EXCEPT !.arg = Append(@, c), !.begun = TRUE]

Arguments(line) ==
  FoldLeft(Split, [args |-> << >>, arg |-> << >>, slashes |-> 0, quoted |-> FALSE, begun |-> FALSE],
           Append(line, " ")).args

(* A shell's reading of single quotes.                                     *)
Word(s, c) ==
  CASE c = "'" -> [s EXCEPT !.quoted = ~ @]
    [] c = " " /\ ~ s.quoted -> [s EXCEPT !.words = Append(@, s.word), !.word = << >>]
    [] OTHER -> [s EXCEPT !.word = Append(@, c)]

Words(line) ==
  FoldLeft(Word, [words |-> << >>, word |-> << >>, quoted |-> FALSE], Append(line, " ")).words

(* The command that starts on Windows gets the arguments it was given,     *)
(* whatever quotes, backslashes and blanks they hold; the logged command   *)
(* reads back as the same arguments if none is empty or holds a quote or a *)
(* tab or a backslash.                                                     *)
QuotingReadsBack(cmd) ==
  /\ Arguments(nob__win32_cmd_quote(cmd)) = cmd
  /\ (\A k \in 1 .. Len(cmd) : cmd[k] # << >> /\ ~ Has(cmd[k], {"'", "\"", "\\", "\t"})) =>
       Words(nob_cmd_render(cmd)) = cmd

(* Chopping a text to its end gives the fields between the delimiters,     *)
(* except that nothing after a last delimiter is no field.                 *)
FieldsOf(text, delim) ==
  FoldLeft(LAMBDA s, k : LET chopped == nob_sv_chop_by_delim(s.sv, delim)
                         IN IF s.sv = << >> THEN s
                            ELSE [fields |-> Append(s.fields, chopped.result), sv |-> chopped.sv],
           [fields |-> << >>, sv |-> text], [k \in 1 .. Len(text) |-> k])

ChoppingLosesNothing(text) ==
  LET chopped == FieldsOf(text, "/") IN
  /\ chopped.sv = << >>
  /\ \A k \in 1 .. Len(chopped.fields) : ~ Has(chopped.fields[k], {"/"})
  /\ Between(chopped.fields, << "/" >>)
       = IF text # << >> /\ Last(text) = "/" THEN Front(text) ELSE text

(* A view that is cut, trimmed or compared shows the part it should, of a  *)
(* view that is empty or all blanks too.                                   *)
ViewsCorrect(text) ==
  /\ \A n \in 0 .. Len(text) + 1 :
       LET cut == nob_sv_chop_left(text, n) IN
       /\ cut.result \o cut.sv = text
       /\ nob_sv_starts_with(text, cut.result) /\ nob_sv_end_with(text, cut.sv)
       /\ nob_sv_starts_with(text, cut.sv) <=> IsPrefix(cut.sv, text)
       /\ nob_sv_end_with(text, cut.result) <=> IsSuffix(cut.result, text)
  /\ LET t == nob_sv_trim(text) IN
     /\ \E l, r \in 0 .. Len(text) :
          /\ l + Len(t) + r = Len(text)
          /\ t = SubSeq(text, l + 1, Len(text) - r)
          /\ \A k \in (1 .. l) \cup (Len(text) - r + 1 .. Len(text)) : text[k] \in Blank
     /\ t # << >> => Head(t) \notin Blank /\ Last(t) \notin Blank
  /\ LET name == nob_path_name(text) IN
     /\ ~ Has(name, {"/"}) /\ IsSuffix(name, text)
     /\ name = text \/ text[Len(text) - Len(name)] = "/"

(* However a builder was filled, arrays that doubled, files that fitted    *)
(* exactly and reads that failed in any order: it holds what was appended  *)
(* and nothing was written outside it.                                     *)
BuilderHolds(appends) ==
  LET da     == FoldLeft(Appended, EmptyText, appends)
      wanted == FlattenSeq([k \in 1 .. Len(appends) |->
                              IF appends[k].op = "read fails" THEN << >> ELSE appends[k].text])
  IN ~ da.strayed /\ SubSeq(da.items, 1, da.count) = wanted

(* Whatever a stream does, the file holds the beginning of what was        *)
(* written, and all of it, to be read back whole, when the call says so    *)
(* and closing lost nothing.                                               *)
WriteReadsBack(write) ==
  LET w    == nob_write_entire_file(write.text, write.opened, write.answers, write.lost)
      back == nob_read_entire_file(EmptyText, w.file)
  IN /\ IsPrefix(w.file, write.text)
     /\ w.result <=> write.opened /\ \A k \in 1 .. Len(write.answers) : ~ write.answers[k].error
     /\ w.result /\ write.lost = 0 => SubSeq(back.items, 1, back.count) = write.text
=============================================================================
