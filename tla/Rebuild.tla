------------------------------- MODULE Rebuild -------------------------------
(***************************************************************************)
(* nob__go_rebuild_urself of nob.h: a build program that compiles itself   *)
(* anew when one of its sources is newer than it, and then runs again.     *)
(*                                                                         *)
(* Sources change while it runs, whatever it asks of the system may fail,  *)
(* and it may be killed between any two steps.  Times are the whole        *)
(* seconds that are compared.  A binary knows which versions it was made   *)
(* from and when the compiler read them.                                   *)
(***************************************************************************)
EXTENDS Integers, FiniteSetsExt

CONSTANTS
  SourcePaths,    \* the sources that are compared
  MaxTime, MaxEdits, MaxStarts

VARIABLES
  clock,          \* external: the second it is
  sources,        \* external: path -> [version, mtime]
  binary, old,    \* nob and nob.old: [is, from, read, mtime]
  running,        \* the binary the process executes
  parents,        \* processes waiting for the one they have started anew
  compiled,       \* what cc has read, and when
  nob_pc, status, starts

rebuild_vars == <<clock, sources, binary, old, running, parents, compiled, nob_pc, status, starts>>

Made(state, from, read, mtime) == [is |-> state, from |-> from, read |-> read, mtime |-> mtime]
Lacking(state) == Made(state, [p \in SourcePaths |-> 0], 0, 0)
NoFile == Lacking("none")
Torn   == Lacking("torn")
Whole(b) == b.is = "whole"

Versions == [p \in SourcePaths |-> sources[p].version]

RebuildInit ==
  /\ clock = 1
  /\ sources = [p \in SourcePaths |-> [version |-> 0, mtime |-> 0]]
  /\ binary = Made("whole", Versions, 1, 1) /\ old = NoFile
  /\ running = binary /\ parents = 0 /\ compiled = NoFile
  /\ nob_pc = "off" /\ status = 0 /\ starts = 0

(* External: time, and who writes the sources.                             *)
Tick ==
  /\ clock < MaxTime /\ clock' = clock + 1
  /\ UNCHANGED <<sources, binary, old, running, parents, compiled, nob_pc, status, starts>>

Edit(p) ==
  /\ sources[p].version < MaxEdits
  /\ sources' = [sources EXCEPT ![p] = [version |-> @.version + 1, mtime |-> clock]]
  /\ UNCHANGED <<clock, binary, old, running, parents, compiled, nob_pc, status, starts>>

-----------------------------------------------------------------------------
Exit(code) == nob_pc' = "off" /\ status' = code /\ parents' = 0
Files_same == UNCHANGED <<clock, sources, binary, old, compiled>>

Start ==
  /\ nob_pc = "off" /\ Whole(binary) /\ starts < MaxStarts
  /\ starts' = starts + 1 /\ running' = binary /\ nob_pc' = "check"
  /\ Files_same /\ UNCHANGED <<parents, status>>

(* Mutants: only the first of the sources is looked at; a source as old as *)
(* the binary passes for a newer one.                                      *)
Newer_first(b) == sources[CHOOSE p \in SourcePaths : TRUE].mtime > b.mtime
Newer_or_as_old(b) == \E p \in SourcePaths : sources[p].mtime >= b.mtime

(* nob_needs_rebuild.                                                      *)
Newer(b) == \E p \in SourcePaths : sources[p].mtime > b.mtime

nob_needs_rebuild ==
  /\ nob_pc = "check"
  /\ \/ nob_pc' = (IF Newer(binary) THEN "rename" ELSE "work") /\ UNCHANGED <<parents, status>>
     \/ Exit(1)                                     \* a file it cannot look at
  /\ Files_same /\ UNCHANGED <<running, starts>>

(* nob_rename, and the compiler started.                                   *)
Rename ==
  /\ nob_pc = "rename"
  /\ \/ old' = binary /\ binary' = NoFile /\ nob_pc' = "compile" /\ UNCHANGED <<parents, status>>
     \/ Exit(1) /\ UNCHANGED <<binary, old>>
  /\ UNCHANGED <<clock, sources, compiled, running, starts>>

(* External, NOB_REBUILD_URSELF: cc reads, then writes.                    *)
Compile ==
  /\ nob_pc = "compile"
  /\ \/ compiled' = Made("read", Versions, clock, clock) /\ nob_pc' = "write"
     \/ compiled' = compiled /\ nob_pc' = "restore"     \* an error in the source, or no cc
  /\ UNCHANGED <<clock, sources, binary, old, running, parents, status, starts>>

Write ==
  /\ nob_pc = "write"
  /\ \/ binary' = Made("whole", compiled.from, compiled.read, clock) /\ nob_pc' = "again"
     \/ binary' \in {NoFile, Torn} /\ nob_pc' = "restore"
  /\ UNCHANGED <<clock, sources, old, running, parents, compiled, status, starts>>

(* Mutant: the names are swapped.                                          *)
PutBack_swapped ==
  IF binary = NoFile THEN UNCHANGED <<binary, old>> ELSE old' = binary /\ binary' = NoFile

PutBack == old' = NoFile /\ binary' = old

Restore ==
  /\ nob_pc = "restore"
  /\ PutBack \/ UNCHANGED <<binary, old>>           \* nobody asks whether it could be renamed
  /\ Exit(1)
  /\ UNCHANGED <<clock, sources, compiled, running, starts>>

(* The new binary is run with the same arguments, and looks again.         *)
Again ==
  /\ nob_pc = "again"
  /\ \/ nob_pc' = "check" /\ running' = binary /\ parents' = parents + 1 /\ status' = status
     \/ Exit(1) /\ running' = running
  /\ Files_same /\ starts' = starts

Work ==
  /\ nob_pc = "work" /\ \E code \in {0, 1} : Exit(code)
  /\ Files_same /\ UNCHANGED <<running, starts>>

(* It may be killed; a compiler killed while it writes leaves a torn file. *)
Killed ==
  /\ nob_pc # "off" /\ Exit(1)
  /\ binary' \in IF nob_pc = "write" THEN {binary, Torn} ELSE {binary}
  /\ UNCHANGED <<clock, sources, old, compiled, running, starts>>

(* External: somebody without a binary moves nob.old back.                 *)
Recover ==
  /\ nob_pc = "off" /\ ~ Whole(binary) /\ Whole(old)
  /\ binary' = old /\ old' = NoFile
  /\ UNCHANGED <<clock, sources, compiled, running, parents, nob_pc, status, starts>>

RebuildNext ==
  \/ Start \/ nob_needs_rebuild \/ Rename \/ Compile \/ Write \/ Restore \/ Again \/ Work
  \/ Killed \/ Recover \/ Tick \/ \E p \in SourcePaths : Edit(p)

RebuildSpec == RebuildInit /\ [][RebuildNext]_rebuild_vars

-----------------------------------------------------------------------------
(* A build is done by a program made from the sources as they are when it  *)
(* looks, except where one changed after the compiler had read it and no   *)
(* later than the second in which the binary was written: nobody will ever *)
(* notice that one.                                                        *)
WorksFresh ==
  [][nob_pc = "check" /\ nob_pc' = "work" =>
       \A p \in SourcePaths :
         \/ running.from[p] = sources[p].version
         \/ running.read <= sources[p].mtime /\ sources[p].mtime <= running.mtime]_rebuild_vars

(* There is always a program left, under its own name or as nob.old,       *)
(* whatever fails and whenever it is killed.                               *)
ProgramSurvives == Whole(binary) \/ Whole(old)

(* A program that has rebuilt itself and is run anew looks again, and may  *)
(* have to rebuild itself again: at most once for each edit, so it settles *)
(* when nobody writes any more.  Compiling within the second in which a    *)
(* source was written does not set it off again.                           *)
SettlesDown == parents <= MapThenSumSet(LAMBDA p : sources[p].version, SourcePaths)
=============================================================================
