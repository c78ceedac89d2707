-------------------------------- MODULE Build --------------------------------
(***************************************************************************)
(* main of kernel/nob.c: the tree of sources is walked, every source       *)
(* compiled, all linked, and a disk image made of it and started, one      *)
(* command after another.  Its copy beside target/x86_64-limine finds no   *)
(* src and stops; main of bootstub/nob.c ends with its first command,      *)
(* which lacks -c and so has cc link a program without a main.             *)
(*                                                                         *)
(* Each command may fail and leave its output torn, the build may be       *)
(* killed and started again on what it left, sources change meanwhile, and *)
(* a directory may not let itself be read to its end.  A path is the       *)
(* sequence of names below the working directory; nob_cmd_run is what      *)
(* NobProcs makes of it: TRUE if the command was run and ended well.       *)
(***************************************************************************)
EXTENDS Integers, Sequences, FiniteSets, SequencesExt

CONSTANTS
  Trees,          \* what the kernel's directory may hold: path -> kind
  StubTrees,      \* and the boot stub's
  Edited,         \* the sources somebody may write meanwhile
  MaxVersion, MaxStarts, MaxFaults

Stub == << "limine_bootstub.c" >>  \* its source, in ../bootstub

(* A source of the stub's name in the kernel's src would have the same     *)
(* object.                                                                 *)
SourcesAreLegal ==
  /\ \A t \in Trees \cup StubTrees :
       /\ IsFiniteSet(DOMAIN t)
       /\ \A p \in DOMAIN t :
            /\ p \in Seq(STRING) /\ p # << >>
            /\ Len(p) = 1 => p = << "src" >> /\ t[p] = "dir"
            /\ Len(p) > 1 => Front(p) \in DOMAIN t /\ t[Front(p)] = "dir"
  /\ \A t \in Trees : << "src", "limine_bootstub.c" >> \notin DOMAIN t

VARIABLES
  program,        \* whose main it is: the kernel's or the boot stub's
  tree, version,  \* external: the sources; path -> how often it was written
  version0,       \* the versions when the build was started
  arena, temp_size,         \* nob_temp: its cells, and how many are in use
  walk,           \* directories being read: [path, todo]
  dirs, c_sources, asm_sources, objs,  \* cells of the arena
  disk,           \* what is in build/ and ../limine
  pc, i, starts, faults,
  unread          \* something was not listed although it was there

build_vars == <<program, tree, version, version0, arena, temp_size, walk, dirs, c_sources, asm_sources,
                objs, disk, pc, i, starts, faults, unread>>
lists == <<dirs, c_sources, asm_sources, objs>>
memory == <<arena, temp_size, walk, lists, i, unread>>
world == <<program, tree, version, version0, starts>>

-----------------------------------------------------------------------------
(* Files.  A compiled or linked file is the versions it was made from.     *)
Torn    == << "torn" >>
NoFile  == << "none" >>
Made(m) == << "made", m >>
Obj(p)  == << "build" >> \o (IF program = "kernel" THEN p ELSE Tail(p)) \o << "o" >>
StubObj == << "build", "src", "limine_bootstub.c", "o" >>
NoImage == [state |-> "none", kernel |-> NoFile, boot |-> {}, installed |-> FALSE]

EmptyDisk == [made |-> {}, obj |-> [p \in {} |-> NoFile], kernel |-> NoFile, tool |-> FALSE,
              iso |-> NoFile, boot |-> {}, image |-> NoImage]

Sources == {p \in DOMAIN tree : tree[p] \in {"c", "asm"}} \cup {Stub}
Names(path) == {p \in DOMAIN tree : p # << >> /\ Front(p) = path}

BuildInit ==
  /\ \/ program = "kernel"   /\ tree \in Trees
     \/ program = "bootstub" /\ tree \in StubTrees
  /\ version = [p \in Sources |-> 0] /\ version0 = version
  /\ arena = << >> /\ temp_size = 0 /\ walk = << >>
  /\ dirs = << >> /\ c_sources = << >> /\ asm_sources = << >> /\ objs = << >>
  /\ disk = EmptyDisk /\ pc = "off" /\ i = 1 /\ starts = 0 /\ faults = MaxFaults /\ unread = FALSE

Edit(p) ==
  /\ version[p] < MaxVersion /\ version' = [version EXCEPT ![p] = @ + 1]
  /\ UNCHANGED <<program, tree, version0, arena, temp_size, walk, lists, disk, pc, i, starts, faults, unread>>

Fault == faults > 0 /\ faults' = faults - 1

(* nob_temp_sprintf: the next cell; a rewind leaves the cells as they are. *)
Cells(s) == SubSeq(arena, 1, temp_size) \o << s >> \o SubSeq(arena, temp_size + 2, Len(arena))
New == temp_size + 1

-----------------------------------------------------------------------------
(* A start, on the disk the last one left.                                 *)
Cleared ==
  /\ arena' = << >> /\ temp_size' = 0 /\ i' = 1 /\ unread' = FALSE
  /\ dirs' = << >> /\ c_sources' = << >> /\ asm_sources' = << >> /\ objs' = << >>

Start ==
  /\ pc = "off" /\ starts < MaxStarts /\ starts' = starts + 1
  /\ version0' = version /\ Cleared
  /\ \/ /\ << "src" >> \in DOMAIN tree /\ faults' = faults
        /\ \E todo \in SetToSeqs(Names(<< "src" >>)) : walk' = << [path |-> << "src" >>, todo |-> todo] >>
        /\ pc' = "walk"
     \/ /\ IF << "src" >> \in DOMAIN tree THEN Fault ELSE faults' = faults
        /\ walk' = << >> /\ pc' = "off"               \* return 1: also the target's copy of nob.c
  /\ UNCHANGED <<program, tree, version, disk>>

(* walk_directory takes one name.  The kind is what get_file_type says, a  *)
(* directory it fails on passes for a file of no interest.                 *)
Top == walk[Len(walk)]
Entry == Head(Top.todo)
Rest == [walk EXCEPT ![Len(walk)].todo = Tail(@)]
Walking == pc = "walk" /\ walk # << >> /\ Top.todo # << >>
Into(path) == \E todo \in SetToSeqs(Names(path)) : walk' = Append(Rest, [path |-> path, todo |-> todo])

Walk_hidden ==
  /\ Walking /\ tree[Entry] = "hidden" /\ walk' = Rest
  /\ UNCHANGED <<world, arena, temp_size, lists, disk, pc, i, faults, unread>>

Walk_directory ==
  /\ Walking /\ tree[Entry] = "dir"
  /\ arena' = Cells(Entry) /\ temp_size' = New /\ dirs' = IF program = "kernel" THEN Append(dirs, New) ELSE dirs
  /\ \/ Into(Entry) /\ UNCHANGED <<pc, faults>>
     \/ Fault /\ walk' = << >> /\ pc' = "off"         \* it cannot be opened: return 1
  /\ UNCHANGED <<world, c_sources, asm_sources, objs, disk, i, unread>>

(* Mutant: the mark is gone back to for every file.                        *)
AfterSource_rewound == temp_size

AfterSource == New

Walk_source ==
  /\ Walking /\ tree[Entry] \in {"c", "asm"} /\ walk' = Rest
  /\ arena' = Cells(Entry) /\ temp_size' = AfterSource
  /\ c_sources'   = IF tree[Entry] = "c"   THEN Append(c_sources, New)   ELSE c_sources
  /\ asm_sources' = IF tree[Entry] = "asm" THEN Append(asm_sources, New) ELSE asm_sources
  /\ UNCHANGED <<world, dirs, objs, disk, pc, i, faults, unread>>

Walk_other ==
  /\ Walking /\ walk' = Rest /\ arena' = Cells(Entry)
  /\ \/ tree[Entry] = "other" /\ UNCHANGED <<faults, unread>>
     \/ tree[Entry] = "dir" /\ Fault /\ unread' = TRUE
  /\ UNCHANGED <<world, temp_size, lists, disk, pc, i>>

(* readdir says no more: at the end, or because it failed.                 *)
Walk_end ==
  /\ pc = "walk" /\ walk # << >> /\ walk' = Front(walk)
  /\ \/ Top.todo = << >> /\ UNCHANGED <<faults, unread>>
     \/ Top.todo # << >> /\ Fault /\ unread' = TRUE
  /\ pc' = IF Len(walk) = 1 THEN "mkdirs" ELSE pc
  /\ UNCHANGED <<world, arena, temp_size, lists, disk, i>>

walk_directory == Walk_hidden \/ Walk_directory \/ Walk_source \/ Walk_other \/ Walk_end

(* The directories; whether one could be made is not looked at.            *)
Wanted == IF program = "bootstub" THEN {<< >>} ELSE
          {<< "src" >>, << "bin" >>} \cup {arena[dirs[k]] : k \in DOMAIN dirs}

Mkdirs ==
  /\ pc = "mkdirs" /\ pc' = "cc" /\ i' = 1
  /\ \/ disk' = [disk EXCEPT !.made = @ \cup Wanted] /\ faults' = faults
     \/ Fault /\ \E d \in Wanted \cup {<< >>} : disk' = [disk EXCEPT !.made = @ \cup {w \in Wanted : ~ IsPrefix(d, w)}]
  /\ UNCHANGED <<world, arena, temp_size, walk, lists, unread>>

-----------------------------------------------------------------------------
(* A command: it ends well and the build goes on at next, or it fails, has *)
(* done something or nothing, and main returns 1.                          *)
(* Mutant: nobody asks how it ended.                                       *)
Failed_going_on(next) == next

Failed(next) == "off"

Command(possible, done, halves, next) ==
  \/ possible /\ disk' = done /\ pc' = next /\ faults' = faults
  \/ /\ IF possible THEN Fault ELSE faults' = faults
     /\ disk' \in halves \cup {disk} /\ pc' = Failed(next)

(* One object, of source p; a failed compiler leaves the last or none.     *)
With(o, file) == [disk EXCEPT !.obj = [q \in DOMAIN @ \cup {o} |-> IF q = o THEN file ELSE @[q]]]
Compile(p, o, dir, next) ==
  LET possible == program = "kernel" /\ p \in Sources /\ dir \in disk.made IN
  Command(possible, With(o, IF possible THEN Made({<< p, version[p] >>}) ELSE NoFile),
          {With(o, NoFile)}, next)

Compile_each(list, next) ==
  \/ /\ i <= Len(list) /\ i' = i + 1
     /\ LET p == arena[list[i]] IN
        /\ arena' = Cells(Obj(p)) /\ temp_size' = New /\ objs' = IF program = "kernel" THEN Append(objs, New) ELSE objs
        /\ Compile(p, Obj(p), Front(p), pc)
     /\ UNCHANGED <<world, walk, dirs, c_sources, asm_sources, unread>>
  \/ /\ i > Len(list) /\ pc' = next /\ i' = 1
     /\ UNCHANGED <<world, arena, temp_size, walk, lists, disk, faults, unread>>

Compile_c   == pc = "cc" /\ Compile_each(c_sources, IF program = "kernel" THEN "stub" ELSE "off")
Compile_asm == pc = "nasm" /\ Compile_each(asm_sources, "link")

Compile_stub ==
  /\ pc = "stub" /\ objs' = Append(objs, 0)           \* a constant, not in the arena
  /\ Compile(Stub, StubObj, << "src" >>, "nasm")
  /\ UNCHANGED <<world, arena, temp_size, walk, dirs, c_sources, asm_sources, i, unread>>

(* The commands behind them, in order: what each needs, does, and leaves   *)
(* when it fails.                                                          *)
Objects == {IF o = 0 THEN StubObj ELSE arena[o] : o \in Range(objs)}
HasObject(o) == o \in DOMAIN disk.obj /\ disk.obj[o] # NoFile
Image(state) == [state |-> state, kernel |-> disk.iso, boot |-> disk.boot, installed |-> FALSE]

Finish ==
  /\ \/ pc = "link" /\
        LET possible == << "bin" >> \in disk.made /\ \A o \in Objects : HasObject(o) IN
        Command(possible,
                [disk EXCEPT !.kernel = IF possible THEN Made(UNION {disk.obj[o][2] : o \in Objects})
                                                    ELSE NoFile],
                {[disk EXCEPT !.kernel = NoFile]}, "make")
     \/ pc = "make"     /\ Command(TRUE, [disk EXCEPT !.tool = TRUE], {[disk EXCEPT !.tool = FALSE]}, "iso_root")
     \/ pc = "iso_root" /\ Command(TRUE, disk, {}, "copy")
     \/ pc = "copy"     /\ Command(disk.kernel # NoFile, [disk EXCEPT !.iso = disk.kernel],
                                   {[disk EXCEPT !.iso = Torn]}, "cp_bios")
     \/ pc = "cp_bios"  /\ Command(TRUE, [disk EXCEPT !.boot = @ \cup {"bios"}], {}, "cp_efi")
     \/ pc = "cp_efi"   /\ Command(TRUE, [disk EXCEPT !.boot = @ \cup {"efi"}], {}, "xorriso")
     \/ pc = "xorriso"  /\ Command(disk.boot # {}, [disk EXCEPT !.image = Image("whole")],
                                   {[disk EXCEPT !.image = Image("torn")]}, "install")
     \/ pc = "install"  /\ Command(disk.tool /\ disk.image.state = "whole",
                                   [disk EXCEPT !.image.installed = TRUE],
                                   {[disk EXCEPT !.image.state = "torn"]}, "qemu")
     \/ pc = "qemu"     /\ Command(TRUE, disk, {}, "off")
  /\ IF pc' = "off" THEN Cleared /\ walk' = << >> ELSE UNCHANGED memory
  /\ UNCHANGED world

(* Killed between two commands, or in the middle of one.                   *)
Killed ==
  /\ pc # "off" /\ pc' = "off"
  /\ disk' \in {disk} \cup (CASE pc = "link" -> {[disk EXCEPT !.kernel = Torn]}
                             [] pc = "copy" -> {[disk EXCEPT !.iso = Torn]}
                             [] pc \in {"xorriso", "install"} -> {[disk EXCEPT !.image.state = "torn"]}
                             [] OTHER -> {})
  /\ Cleared /\ walk' = << >>
  /\ UNCHANGED <<world, faults>>

BuildNext ==
  \/ Start \/ walk_directory \/ Mkdirs \/ Compile_c \/ Compile_stub \/ Compile_asm \/ Finish \/ Killed
  \/ \E p \in Edited \cap Sources : Edit(p)

BuildSpec == BuildInit /\ [][BuildNext]_build_vars

-----------------------------------------------------------------------------
(* What is started in the end is this build and no other: each source that *)
(* was listed is in the kernel once, as it was at some moment of this      *)
(* build, nothing else is, and the boot loader has been installed on that  *)
(* very image.  Nothing an earlier build left, failed, or was killed in    *)
(* the middle of gets in.                                                  *)
Listed == {arena[l] : l \in Range(c_sources) \cup Range(asm_sources)}

ImageCurrent ==
  pc = "qemu" =>
    /\ disk.image.state = "whole" /\ disk.image.installed /\ disk.image.boot = {"bios", "efi"}
    /\ disk.image.kernel[1] = "made"
    /\ {m[1] : m \in disk.image.kernel[2]} = {p \in Sources : unread => p \in Listed \cup {Stub}}
    /\ \A m \in disk.image.kernel[2] : version0[m[1]] <= m[2] /\ m[2] <= version[m[1]]
    /\ Cardinality(disk.image.kernel[2]) = Cardinality({m[1] : m \in disk.image.kernel[2]})

(* The walk's names stay what they were while later ones are made: behind  *)
(* it the lists name all sources there are, each once, except where the    *)
(* system kept something back.                                             *)
NamesKept ==
  pc \notin {"off", "walk"} =>
    /\ \A k \in DOMAIN c_sources : arena[c_sources[k]] \in Sources /\ tree[arena[c_sources[k]]] = "c"
    /\ \A k \in DOMAIN asm_sources : arena[asm_sources[k]] \in Sources /\ tree[arena[asm_sources[k]]] = "asm"
    /\ Cardinality(Listed) = Len(c_sources) + Len(asm_sources)
    /\ ~ unread => Listed = Sources \ {Stub}
=============================================================================
