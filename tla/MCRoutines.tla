----------------------------- MODULE MCRoutines -----------------------------
(* Calls of single routines: one of the kernel's memory functions, of      *)
(* srprintf, of limine's main and enroll-config, or of the conversions.    *)
EXTENDS LibcString, Enrolling, Sequences, SequencesExt

(* A piece of a format.                                                  *)
P(k, v) == [kind |-> k, value |-> v]

CONSTANTS
  Prints, SIZE, BUFFER,
  NOB_DA_INIT_CAP, Texts, Commands, Appends, Writes, Sectors, Positions, Streams, Values

VARIABLES
  which,
  print, fmt, args, pos, arg, value, str, print_pc, out,
  input           \* of a conversion

S == INSTANCE Srprintf WITH Calls <- Prints, call <- print, pc <- print_pc
T == INSTANCE NobText
G == INSTANCE GptChecksum

ASSUME PrintsAreLegal == S!CallsAreLegal
ASSUME EnrollmentsAreLegal == E!EnrollmentsAreLegal

print_vars  == <<print, fmt, args, pos, arg, value, str, print_pc, out>>
enroll_vars == <<step, executable, argv, index, reset, bootloader, checked_count, ret, unwritten, first>>
all_vars    == <<which, libc_vars, print_vars, enroll_vars, input>>

(* A routine that is not the one called.                                   *)
LibcIdle ==
  /\ mem = [a \in Address |-> 0] /\ before = mem
  /\ call = [fn |-> "none"] /\ i = 0 /\ libc_result = 0 /\ libc_pc = "idle"
PrintIdle  == print = << >> /\ S!Init
EnrollIdle == E!EnrollInit([file |-> << >>, argv |-> << >>])

Inputs ==
  [text |-> Texts, command |-> Commands, appends |-> Appends, write |-> Writes,
   sector |-> Sectors, position |-> Positions, stream |-> Streams, value |-> Values]

RoutinesInit ==
  \/ which = "libc" /\ LibcInit /\ PrintIdle /\ EnrollIdle /\ input = << >>
  \/ which = "print" /\ S!Init /\ LibcIdle /\ EnrollIdle /\ input = << >>
  \/ /\ which = "enroll" /\ \E e \in Enrollments : E!EnrollInit(e)
     /\ LibcIdle /\ PrintIdle /\ input = << >>
  \/ /\ which = "convert" /\ \E kind \in DOMAIN Inputs : \E x \in Inputs[kind] : input = << kind, x >>
     /\ LibcIdle /\ PrintIdle /\ EnrollIdle

RoutinesNext ==
  \/ /\ which = "libc" /\ LibcNext
     /\ UNCHANGED <<which, print_vars, enroll_vars, input>>
  \/ /\ which = "print" /\ S!Next
     /\ UNCHANGED <<which, libc_vars, enroll_vars, input>>
  \/ /\ which = "enroll" /\ E!enroll_config
     /\ UNCHANGED <<which, libc_vars, print_vars, input>>

RoutinesSpec == RoutinesInit /\ [][RoutinesNext]_all_vars

-----------------------------------------------------------------------------
(* Seven bytes of memory; every area, length and overlap of them.          *)
MCMemories ==
  { [a \in 0 .. 6 |-> 10 + a],                          \* all different
    [a \in 0 .. 6 |-> IF a % 4 = 3 THEN 0 ELSE 1 + (a % 4)],  \* repeating strings
    [a \in 0 .. 6 |-> IF a = 6 THEN 0 ELSE 255 - (a \div 5)] }

K(fn, d, s, c, n) == [fn |-> fn, dest |-> d, src |-> s, c |-> c, n |-> n]
Triples == {t \in (0 .. 6) \X (0 .. 6) \X (0 .. 7) : t[1] + t[3] <= 7 /\ t[2] + t[3] <= 7}

MCCalls ==
  {K(fn, t[1], t[2], 0, t[3]) : fn \in {"memmove", "memcmp"}, t \in Triples}
    \cup {K(fn, t[1], t[2], 0, t[3]) : fn \in {"memcpy", "strcpy"},
                                       t \in {u \in Triples : Apart(u[1], u[2], u[3])}}
    \cup {K("memset", t[1], 0, c, t[3]) : c \in {0, 255, 256, -1}, t \in {u \in Triples : u[2] = 0}}

(* All formats of up to three pieces, among them each specifier with       *)
(* arguments at the edges of its type, two-byte numbers for %x.            *)
Pieces ==
  {P("x", v) : v \in {0, 10, 4660, 65535}} \cup {P("d", v) : v \in {-5, 0, 7, 90, 2147483647}}
    \cup {P("b", v) : v \in {0, 1, 2}}
    \cup {P("c", "q"), P("s", << >>), P("s", << "u", "v" >>), P("%", 0), P("z", 0), P("text", "a")}

MCPrints ==
  UNION {[1 .. n -> Pieces] : n \in 0 .. 2}
    \cup {<< p, q, r >> : p \in Pieces, q \in {P("text", "a"), P("z", 0)}, r \in Pieces \cup {P("lone", 0)}}
    \cup {<< p, P("lone", 0) >> : p \in Pieces}

(* A signature that begins with a letter twice, a checksum of two letters. *)
MCSignature == << "+", "+", "C" >>
MCSum       == << "5", "6" >>

(* Every executable of the sizes at the edges and of eight letters; every  *)
(* way of writing the arguments for some.                                  *)
Executables == UNION {[1 .. n -> {"+", "C", "0"}] : n \in {0, 4, 5, 6, 8}}
Found       == {<< "0", "+", "+", "C", "0", "C", "0", "0" >>, << "+", "+", "+", "C", "0", "0", "0", "0" >>}
Arguments   == UNION {[1 .. n -> {"file", "sum", "--quiet", "--reset", "--help", "-h"}] : n \in 0 .. 4}

OtherCommands == {"help", "version", "bios-install", "--print-datadir", "unknown"}

MCEnrollments ==
  LET Enroll(a) == << "enroll-config" >> \o a IN
  {[file |-> f, argv |-> Enroll(a)] : f \in Executables, a \in {<< "file", "sum" >>, << "--reset", "file" >>}}
    \cup {[file |-> f, argv |-> Enroll(a)] : f \in Found, a \in Arguments}
    \cup {[file |-> f, argv |-> << c, "file", "sum" >>] : f \in Found, c \in OtherCommands}
    \cup {[file |-> f, argv |-> << >>] : f \in Found}

(* Texts of up to five letters, arguments of up to three, up to three      *)
(* additions to a builder; sectors and positions at every edge.            *)
MCTexts    == UNION {[1 .. n -> {"a", "b", "/", " ", "\t"}] : n \in 0 .. 4} \cup [1 .. 5 -> {"a", "/", " "}]
Words      == UNION {[1 .. n -> {"a", " ", "\\", "\""}] : n \in 0 .. 3}
MCCommands == UNION {[1 .. n -> Words] : n \in 1 .. 2} \cup [1 .. 3 -> {<< >>, << "a" >>, << "'" >>, << "\t", "a" >>}]

Addition(op, text) == [op |-> op, text |-> text]
Additions ==
  {Addition("append", << "x" >>)}
    \cup {Addition(op, text) : op \in {"append_many", "appendf", "read", "read fails"},
                               text \in {<< >>, << "u", "v" >>, << "w", "w", "w", "w", "w" >>}}
MCAppends == UNION {[1 .. n -> Additions] : n \in 1 .. 3}

(* Files of up to three letters, taken in pieces, the last one perhaps an  *)
(* error.                                                                  *)
Answer(n, error) == [n |-> n, error |-> error]
PiecesOf(length) ==
  LET Sizes == UNION {[1 .. n -> 1 .. length] : n \in 0 .. length}
      Sum_(s) == FoldLeft(LAMBDA a, b : a + b, 0, s)
      Taken(s) == [k \in 1 .. Len(s) |-> Answer(s[k], FALSE)]
  IN {Taken(s) : s \in {u \in Sizes : Sum_(u) = length}}
       \cup {Append(Taken(s), Answer(n, TRUE)) : s \in {u \in Sizes : Sum_(u) < length}, n \in 0 .. 1}
MCWrites ==
  UNION {{[text |-> t, opened |-> o, answers |-> a, lost |-> l] :
            o \in BOOLEAN, a \in PiecesOf(Len(t)), l \in 0 .. 2} :
           t \in {<< >>, << "a" >>, << "a", "b" >>, << "a", "b", "c" >>}}

(* Each byte by itself and streams of up to five; words with a bit here    *)
(* and there.                                                              *)
Bytes == {G!Bits(b) : b \in {0, 1, 85, 128, 255}}
MCStreams ==
  {<< G!Bits(b) >> : b \in 0 .. 255}
    \cup UNION {[1 .. n -> Bytes] : n \in 0 .. 4}
    \cup {<< a, b, c, d, e >> : a, e \in Bytes, b, c, d \in {{}, {0, 7}}}
MCValues  == {{k} : k \in 0 .. 63} \cup {{0, 9, 18, 27, 36, 45, 54, 63}, 0 .. 63, {}}

MCSectors ==
  {16065 * c + 63 * h + s : c \in {0, 1, 255, 256, 511, 512, 768, 1023}, h \in {0, 1, 254}, s \in {0, 1, 62}}
    \cup {63 * 255 * 1024, 63 * 255 * 1024 + 1, 2147483647}
MCPositions == 0 .. 40

-----------------------------------------------------------------------------
(* As the run checks them: every format is printed; every conversion keeps *)
(* what it converts.                                                       *)
Printed  == which = "print" => S!Printed

ConversionsCorrect ==
  which = "convert" =>
    CASE input[1] = "text"     -> T!ViewsCorrect(input[2]) /\ T!ChoppingLosesNothing(input[2])
      [] input[1] = "command"  -> T!QuotingReadsBack(input[2])
      [] input[1] = "appends"  -> T!BuilderHolds(input[2])
      [] input[1] = "write"    -> T!WriteReadsBack(input[2])
      [] input[1] = "sector"   -> E!AddressKept(input[2])
      [] input[1] = "position" -> E!SeeksTrue(input[2])
      [] input[1] = "stream"   -> G!ChecksumTrue(input[2])
      [] input[1] = "value"    -> G!OrderKept(input[2])
=============================================================================
