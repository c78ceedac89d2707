----------------------------- MODULE LimineTool -----------------------------
(***************************************************************************)
(* The smaller commands of limine.c: main, which chooses one by its name;  *)
(* `limine enroll-config`, which writes the checksum of the configuration  *)
(* into the boot loader's executable, found there by a signature; and the  *)
(* arithmetic of disk addresses.                                           *)
(***************************************************************************)
EXTENDS Integers, Sequences, SequencesExt, FiniteSets

CONSTANTS
  Signature,      \* CONFIG_B2SUM_SIGNATURE, character by character
  SumLength,      \* characters of a checksum, 128 in the code
  Sum,            \* a checksum of that length
  Enrollments     \* [file, argv]: the executable, and the command line

Reset == [k \in 1 .. SumLength |-> "0"]
Room  == Len(Signature) + SumLength

(* A shorter executable than Room - 1 makes the bound of the search wrap.  *)
EnrollmentsAreLegal ==
  /\ Signature \in Seq(STRING) /\ Sum \in Seq(STRING) /\ SumLength \in Nat \ {0}
  /\ Len(Signature) > 0 /\ Len(Sum) = SumLength
  /\ \A e \in Enrollments :
       /\ e.file \in Seq(STRING) /\ e.argv \in Seq(STRING)
       /\ Len(e.file) = 0 \/ Len(e.file) >= Room - 1

VARIABLES
  step,           \* "main", "options", "check", "search", "patch", "write", "done"
  file,           \* the executable on disk
  argv, i,        \* arguments, without the command's name behind main; index of either loop
  reset,
  bootloader,     \* the executable in memory
  checked_count,
  ret,            \* "SUCCESS" or "FAILURE"
  unwritten,      \* history: the end of what was written was lost in fclose
  first           \* history: the executable and the arguments at the start

enroll_vars == <<step, file, argv, i, reset, bootloader, checked_count, ret, unwritten, first>>

EnrollInit(e) ==
  /\ step = "main" /\ i = 1
  /\ file = e.file /\ argv = e.argv
  /\ reset = FALSE
  /\ bootloader = << >> /\ checked_count = 0
  /\ ret = "FAILURE" /\ unwritten = FALSE
  /\ first = e

-----------------------------------------------------------------------------
Exit(answer) ==
  /\ step' = "done" /\ ret' = answer
  /\ UNCHANGED <<argv, i, reset, checked_count, first>>

Help == {"--help", "-h"}

(* Whatever is asked, version answers.                                     *)
version == Exit("SUCCESS")

(* The command by its name.  Whether there is a data directory to print    *)
(* was decided when the tool was built; bios-install is in BiosInstall.    *)
main ==
  /\ step = "main"
  /\ LET name == IF argv = << >> THEN "" ELSE Head(argv) IN
     \/ name \in {"help"} \cup Help /\ Exit("SUCCESS")
     \/ name = "bios-install" /\ step' = name /\ UNCHANGED <<argv, i, reset, checked_count, ret, first>>
     \/ /\ name = "enroll-config"
        /\ step' = "options" /\ argv' = Tail(argv)
        /\ UNCHANGED <<i, reset, checked_count, ret, first>>
     \/ name = "--print-datadir" /\ \E answer \in {"SUCCESS", "FAILURE"} : Exit(answer)
     \/ name \in {"version", "--version"} /\ version
     \/ /\ name \notin {"help", "--help", "-h", "bios-install", "enroll-config",
                         "--print-datadir", "version", "--version"}
        /\ Exit("FAILURE")
  /\ UNCHANGED <<file, bootloader, unwritten>>

(* An option is taken out of the arguments; the loop goes on behind the    *)
(* one that has moved into its place, which it never looks at.             *)
remove_arg(a, index) == RemoveAt(a, index)

options ==
  /\ step = "options"
  /\ \/ /\ i > Len(argv) /\ step' = "check"
        /\ UNCHANGED <<argv, i, reset, ret>>
     \/ /\ i <= Len(argv) /\ argv[i] \in Help
        /\ step' = "done" /\ ret' = "SUCCESS"
        /\ UNCHANGED <<argv, i, reset>>
     \/ /\ i <= Len(argv) /\ argv[i] \notin Help
        /\ argv' = IF argv[i] \in {"--quiet", "--reset"} THEN remove_arg(argv, i) ELSE argv
        /\ reset' = (reset \/ argv[i] = "--reset")
        /\ i' = i + 1
        /\ UNCHANGED <<step, ret>>
  /\ UNCHANGED <<file, bootloader, checked_count, unwritten, first>>

(* The arguments are checked and the executable read; "file" is one that   *)
(* exists, "sum" a word as long as a checksum.                             *)
Usable == Len(argv) >= (IF reset THEN 1 ELSE 2) /\ (~ reset => argv[2] = "sum") /\ argv[1] = "file"

refuse ==
  /\ step = "check"
  /\ ~ (Usable /\ Len(file) > 0)
  /\ Exit("FAILURE")
  /\ UNCHANGED <<file, bootloader, unwritten>>

read ==
  /\ step = "check" /\ Usable
  /\ \/ /\ Len(file) > 0
        /\ bootloader' = file
        /\ step' = "search" /\ i' = 1
        /\ UNCHANGED <<argv, reset, checked_count, ret, first>>
     \/ Exit("FAILURE") /\ UNCHANGED bootloader
  /\ UNCHANGED <<file, unwritten>>

(* Mutant: a mismatch does not start the signature again.                  *)
AfterMismatch_kept == checked_count

(* The search goes on with the next character, and does not ask whether    *)
(* the one that did not match begins the signature.                        *)
AfterMismatch == 0
InRange       == i <= Len(file) - Room + 1

search ==
  /\ step = "search" /\ InRange
  /\ \/ /\ bootloader[i] # Signature[checked_count + 1]
        /\ checked_count' = AfterMismatch
        /\ i' = i + 1 /\ step' = step
     \/ /\ bootloader[i] = Signature[checked_count + 1]
        /\ checked_count' = checked_count + 1
        /\ i' = i + 1
        /\ step' = IF checked_count + 1 = Len(Signature) THEN "patch" ELSE step
  /\ UNCHANGED <<file, argv, reset, bootloader, ret, unwritten, first>>

not_found ==
  /\ step = "search" /\ ~ InRange
  /\ Exit("FAILURE")
  /\ UNCHANGED <<file, bootloader, unwritten>>

(* i is where the checksum goes, one behind the last character compared.   *)
patch ==
  /\ step = "patch" /\ step' = "write"
  /\ bootloader' = [k \in 1 .. Len(bootloader) |->
       IF k \in i .. i + SumLength - 1 THEN (IF reset THEN Reset ELSE Sum)[k - i + 1]
       ELSE bootloader[k]]
  /\ UNCHANGED <<file, argv, i, reset, checked_count, ret, unwritten, first>>

(* All of it is written back over the file.  A write that fails has        *)
(* written some of it; one that succeeds may have left the end to fclose,  *)
(* whose failure nobody looks at.                                          *)
Half == Len(file) \div 2
Begun(n) == SubSeq(bootloader, 1, n) \o SubSeq(file, n + 1, Len(file))

write ==
  /\ step = "write"
  /\ \/ file' = bootloader /\ Exit("SUCCESS") /\ UNCHANGED unwritten
     \/ \E n \in {0, Half, i} :
          /\ file' = Begun(n)
          /\ \/ Exit("FAILURE") /\ UNCHANGED unwritten
             \/ Exit("SUCCESS") /\ unwritten' = TRUE
  /\ UNCHANGED bootloader

enroll_config == main \/ options \/ refuse \/ read \/ search \/ not_found \/ patch \/ write

EnrollSpec == (\E e \in Enrollments : EnrollInit(e)) /\ [][enroll_config]_enroll_vars

-----------------------------------------------------------------------------
(* Where the signature stands in the executable, by its first character.   *)
Stands(f) == {p \in 1 .. Len(f) - Len(Signature) + 1 :
                SubSeq(f, p, p + Len(Signature) - 1) = Signature}

(* A command that says it succeeded, and was not asked for its usage, has  *)
(* put the whole checksum, or zeros, behind a whole signature, unless      *)
(* fclose lost it; one that failed has changed nothing, except some of     *)
(* those characters when the write failed; nothing else of the executable  *)
(* is ever touched, and nothing at all when another command was asked for. *)
(* It misses a signature only when it ends less than Room before the end   *)
(* of the file or follows on a beginning of itself.                        *)
Behind(p) == p + Len(Signature) .. p + Room - 1

Enrolled ==
  step = "done" =>
    LET changed == {k \in 1 .. Len(first.file) : file[k] # first.file[k]}
        wanted  == IF reset THEN Reset ELSE Sum
        asked   == first.argv # << >> /\ Head(first.argv) = "enroll-config"
    IN /\ Len(file) = Len(first.file)
       /\ changed # {} => asked
       /\ changed # {} => \E p \in Stands(first.file) :
            changed \subseteq Behind(p) /\ \A k \in changed : file[k] = wanted[k - p - Len(Signature) + 1]
       /\ ret = "SUCCESS" /\ asked /\ ~ unwritten /\ Range(first.argv) \cap Help = {} =>
            \E p \in Stands(first.file) : SubSeq(file, p + Len(Signature), p + Room - 1) = wanted
       /\ bootloader # << >> /\ checked_count < Len(Signature) =>
            \A p \in Stands(first.file) :
              \/ p + Len(Signature) - 1 > Len(first.file) - Room + 1
              \/ \E k \in 1 .. Len(Signature) - 1 :
                   k < p /\ SubSeq(first.file, p - k, p - 1) = SubSeq(Signature, 1, k)

-----------------------------------------------------------------------------
(* A sector's number as cylinder, head and sector in three bytes, for the  *)
(* partition table; the largest three bytes when it has no such form.      *)
lba2chs(lba) ==
  LET cylinder == lba \div (255 * 63)
      head     == (lba \div 63) % 255
      sector   == (lba % 63) + 1
  IN IF lba > 63 * 255 * 1024 \/ cylinder >= 1024 THEN << 254, 255, 255 >>
     ELSE << head % 256, ((cylinder \div 4) \div 64) * 64 + (sector % 64), cylinder % 256 >>

(* Seeking where a long is too short for a position: from the start by     *)
(* jumps that a long can hold.                                             *)
set_pos(pos, LONG_MAX) ==
  LET jump_size == LONG_MAX \div 2 + 1
  IN [n \in 1 .. pos \div jump_size |-> jump_size] \o << pos % jump_size >>

(* A sector below 1024 cylinders is found again from the three bytes, one  *)
(* beyond them never passes for another.                                   *)
AddressKept(lba) ==
  LET chs      == lba2chs(lba)
      cylinder == chs[3] + (chs[2] \div 64) * 256
      back     == (cylinder * 255 + chs[1]) * 63 + (chs[2] % 64) - 1
  IN /\ \A k \in 1 .. 3 : chs[k] \in 0 .. 255
     /\ lba < 63 * 255 * 1024 => back = lba
     /\ lba >= 63 * 255 * 1024 => back = 63 * 255 * 1024 - 1

SeeksTrue(pos) ==
  \A LONG_MAX \in {3, 7} :
    LET jumps == set_pos(pos, LONG_MAX) IN
    /\ FoldLeft(LAMBDA a, b : a + b, 0, jumps) = pos
    /\ \A k \in 1 .. Len(jumps) : jumps[k] \in 0 .. LONG_MAX
=============================================================================
