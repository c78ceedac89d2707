------------------------------ MODULE MCBuild ------------------------------
(* The build programs: one of the four machines runs, the others stand     *)
(* still.                                                                  *)
EXTENDS NobProcs, Rebuild, Copying, Building, TLC

VARIABLE which

ASSUME CopiesAreTrees == F!TreesAreTrees
ASSUME SourcesAreTrees == B!SourcesAreLegal

files_vars == <<src, dst, before, stack, temp, copying, copy_pc, ok, copy_faults>>
build_vars == <<program, tree, version, version0, arena, temp_size, walk, dirs, c_sources, asm_sources,
                objs, disk, main_pc, index, builds, faults, unread>>
vars == <<which, procs_vars, files_vars, rebuild_vars, build_vars>>

Chosen(S) == CHOOSE x \in S : TRUE

Init ==
  /\ which \in {"procs", "files", "rebuild", "build"}
  /\ ProcsInit /\ F!FilesInit /\ RebuildInit /\ B!BuildInit
  /\ which # "files" => src = Chosen(CopyTrees) /\ dst = Chosen(CopyTargets)
  /\ which # "build" => program = "kernel" /\ tree = Chosen(Trees)

Next ==
  \/ /\ which = "procs" /\ ProcsNext
     /\ UNCHANGED <<which, files_vars, rebuild_vars, build_vars>>
  \/ /\ which = "files" /\ F!FilesNext
     /\ UNCHANGED <<which, procs_vars, rebuild_vars, build_vars>>
  \/ /\ which = "rebuild" /\ RebuildNext
     /\ UNCHANGED <<which, procs_vars, files_vars, build_vars>>
  \/ /\ which = "build" /\ B!BuildNext
     /\ UNCHANGED <<which, procs_vars, files_vars, rebuild_vars>>

Spec == Init /\ [][Next]_vars /\ ProcsFairness

-----------------------------------------------------------------------------
(* Copies, and what is there already: longer, shorter, of another kind.    *)
Node(type, content) == [type |-> type, content |-> content, to |-> << >>]
File(content) == Node("file", content)
Dir  == Node("dir", << >>)
Odd  == Node("other", << >>)
LinkTo(to) == [type |-> "link", content |-> << >>, to |-> to]
CopyTree1 ==
  << >> :> Dir @@ << "f" >> :> File(<< 1, 2, 3 >>) @@ << "l" >> :> LinkTo(<< >>)
    @@ << "d" >> :> Dir @@ << "d", "g" >> :> File(<< 4 >>) @@ << "d", "e" >> :> Dir
CopyTree2 ==
  << >> :> Dir @@ << "d" >> :> Dir @@ << "d", "e" >> :> Dir
    @@ << "d", "e", "h" >> :> File(<< >>) @@ << "o" >> :> Odd
CopyTree3 == << >> :> File(<< 1, 2, 3, 4, 5 >>)
MCCopyTrees == {CopyTree1, CopyTree2, CopyTree3}

(* Around the target: a file, a directory that holds a link of its own;   *)
(* and links in the way that lead there, to nothing, to another file of    *)
(* the target, or in a circle.                                             *)
Up(name) == << "..", name >>
Around ==
  << ".." >> :> Dir @@ Up("f") :> File(<< 9, 9, 9, 9 >>) @@ Up("d") :> Dir
    @@ << "..", "d", "h" >> :> LinkTo(Up("f"))
MCCopyTargets ==
  { [p \in {} |-> Dir],
    << >> :> Dir @@ << "x" >> :> File(<< 9 >>) @@ << "f" >> :> File(<< 8, 8, 8, 8 >>),
    << >> :> Dir @@ << "d" >> :> File(<< 7 >>),
    << >> :> Dir @@ << "f" >> :> Dir @@ << "d" >> :> Dir @@ << "d", "y" >> :> LinkTo(<< "x" >>),
    Around @@ << >> :> Dir @@ << "f" >> :> LinkTo(Up("f")) @@ << "d" >> :> LinkTo(Up("d")),
    Around @@ << >> :> Dir @@ << "d" >> :> Dir @@ << "d", "e" >> :> LinkTo(Up("d")),
    Around @@ << >> :> LinkTo(Up("new")),
    Around @@ << >> :> LinkTo(Up("d")),
    << >> :> Dir @@ << "x" >> :> File(<< 9 >>) @@ << "f" >> :> Odd
      @@ << "d" >> :> LinkTo(<< "none", "d" >>),
    << >> :> Dir @@ << "x" >> :> File(<< 9 >>) @@ << "f" >> :> LinkTo(<< "x" >>) }

(* Sources: nested directories with C and assembly; a name that is passed  *)
(* over; no src at all, as beside the target's copy of nob.c.              *)
Tree(kinds) == [p \in UNION {kinds[k] : k \in DOMAIN kinds} |-> CHOOSE k \in DOMAIN kinds : p \in kinds[k]]
Main == << "src", "main.c" >>
MCTrees ==
  { Tree([dir |-> {<< "src" >>, << "src", "arch" >>}, c |-> {Main, << "src", "arch", "gdt.c" >>},
          asm |-> {<< "src", "arch", "gdt.asm" >>}, other |-> {<< "src", "main.h" >>}]),
    Tree([dir |-> {<< "src" >>}, c |-> {Main}, hidden |-> {<< "src", ".c" >>}]),
    Tree([dir |-> {}]) }
MCStubTrees ==
  { Tree([dir |-> {<< "src" >>, << "src", "include" >>}, c |-> {<< "src", "limine_bootstub.c" >>},
          other |-> {<< "src", "include", "bootstub.h" >>}]),
    Tree([dir |-> {<< "src" >>}, other |-> {<< "src", "README" >>}]) }
MCEdited == {Main}

=============================================================================
