------------------------------ MODULE NobFiles ------------------------------
(***************************************************************************)
(* nob_copy_directory_recursively of nob.h with all it calls: the type of  *)
(* a file, making and reading directories, copying a file piece by piece,  *)
(* and the temporary storage that holds the names read.                    *)
(*                                                                         *)
(* A path is the sequence of names below the directory copied; << >> is    *)
(* that directory, and what lies outside it begins with "..".  The system  *)
(* follows the links it finds in the target, so that a path of the copy    *)
(* and the place it leads to, its goal, may differ.  Any call of the       *)
(* system may fail, a write may be short, and a directory is read in an    *)
(* order of the system's choice.                                           *)
(***************************************************************************)
EXTENDS Integers, Sequences, FiniteSets, SequencesExt

CONSTANTS
  Trees,          \* what may be copied: path -> [type, content, to]
  Targets,        \* what may be there already, and around it
  BufSize,        \* the buffer of nob_copy_file, 32 KB in the code
  MaxFaults       \* calls of the system that may fail

Kinds == {"file", "dir", "link", "other"}

Outside == << ".." >>
Nodes   == [type : Kinds, content : Seq(Nat), to : Seq(STRING)]

OnTheWay(to) == {SubSeq(to, 1, n) : n \in (IF ".." \in Range(to) THEN 1 ELSE 0) .. Len(to)}

(* `to' is the place a link of the target leads to in the end: every link  *)
(* on the way has been followed.  Nothing need be there, and a link that   *)
(* leads nowhere has a `to' in a directory that does not exist.  No link   *)
(* leads into what is copied.                                              *)
TreesAreTrees ==
  /\ BufSize \in Nat \ {0}
  /\ \A t \in Trees : /\ << >> \in DOMAIN t /\ IsFiniteSet(DOMAIN t)
                      /\ \A p \in DOMAIN t : ".." \notin Range(p) /\ t[p].to = << >>
  /\ \A t \in Trees \cup Targets : \A p \in DOMAIN t :
       /\ p \in Seq(STRING) /\ t[p] \in Nodes
       /\ p \notin {<< >>, Outside} => Front(p) \in DOMAIN t /\ t[Front(p)].type = "dir"
  /\ \A t \in Targets : \A p \in DOMAIN t : t[p].type = "link" =>
       \A q \in OnTheWay(t[p].to) \cap DOMAIN t : t[q].type # "link"

VARIABLES
  src, dst,       \* what is copied; what is there now
  before,         \* what was there at the start
  stack,          \* calls in progress: [path, goal, mark, children]
  temp,           \* nob_temp, one name after another
  copying,        \* nob_copy_file: [path, goal, at, buf], none is NotCopying
  pc,             \* "enter", "children", "copy", "return", "done", "aborted"
  ok,             \* what the call that returns answers
  faults

files_vars == <<src, dst, before, stack, temp, copying, pc, ok, faults>>

Node(type, content) == [type |-> type, content |-> content, to |-> << >>]
File(content) == Node("file", content)
Dir           == Node("dir", << >>)

Kept == << "kept" >>      \* what the caller had in the temporary storage
NotCopying == [path |-> << >>, goal |-> << >>, at |-> 0, buf |-> << >>]
Call_(path, goal, t) == [path |-> path, goal |-> goal, mark |-> Len(t), children |-> << >>]
Top == stack[Len(stack)]
NamesIn(path) == {p[Len(p)] : p \in {q \in DOMAIN src : q # << >> /\ Front(q) = path}}

FilesInit ==
  /\ src \in Trees /\ dst \in Targets /\ before = dst
  /\ temp = Kept /\ stack = << Call_(<< >>, << >>, temp) >>
  /\ copying = NotCopying /\ pc = "enter" /\ ok = TRUE /\ faults = MaxFaults

Fault  == faults > 0 /\ faults' = faults - 1
Return_(answer) == pc' = "return" /\ ok' = answer

-----------------------------------------------------------------------------
With(p, node) == [q \in DOMAIN dst \cup {p} |-> IF q = p THEN node ELSE dst[q]]
Exists(p)     == p \in DOMAIN dst
Is(p, type)   == Exists(p) /\ dst[p].type = type
MayCreate(p)  == p = << >> \/ Is(Front(p), "dir")
Lead(p)       == IF Is(p, "link") THEN dst[p].to ELSE p

(* nob_mkdir_if_not_exists: anything of that name will do, and what lies   *)
(* below a link is sought where the link leads.                            *)
Mkdir_succeeds(p) == (Exists(p) \/ MayCreate(p)) /\ faults' = faults
nob_mkdir_if_not_exists(p) == IF Exists(p) THEN dst ELSE With(p, Dir)
Mkdir_fails(p) == ~ Exists(p) /\ (Fault \/ (~ MayCreate(p) /\ faults' = faults))

(* nob_read_entire_dir: every name goes to the temporary storage; the list *)
(* says where.                                                             *)
nob_read_entire_dir(path) == {temp \o names : names \in SetToSeqs(NamesIn(path))}

(* nob_copy_directory_recursively up to its loop.                          *)
Enter_directory ==
  /\ pc = "enter" /\ src[Top.path].type = "dir"
  /\ \/ /\ Mkdir_succeeds(Top.goal) /\ dst' = nob_mkdir_if_not_exists(Top.goal)
        /\ temp' \in nob_read_entire_dir(Top.path)
        /\ stack' = [stack EXCEPT ![Len(stack)].children =
                       [k \in 1 .. Len(temp') - Len(temp) |-> Len(temp) + k]]
        /\ pc' = "children" /\ ok' = ok
     \/ /\ Mkdir_fails(Top.goal)
        /\ Return_(FALSE) /\ UNCHANGED <<dst, temp, stack>>
     \/ /\ Fault /\ (Exists(Top.goal) \/ MayCreate(Top.goal))    \* opendir, or readdir at some place
        /\ dst' = nob_mkdir_if_not_exists(Top.goal)
        /\ \E all \in nob_read_entire_dir(Top.path), n \in 0 .. Cardinality(NamesIn(Top.path)) :
             temp' = SubSeq(all, 1, Len(temp) + n)
        /\ Return_(FALSE) /\ stack' = stack
  /\ UNCHANGED <<src, before, copying>>

(* O_CREAT | O_TRUNC | O_WRONLY: a file is emptied, one that is not there  *)
(* is made, and what is no file (a device, say) is opened as it is.        *)
Opened(place) == IF Exists(place) /\ ~ Is(place, "file") THEN dst ELSE With(place, File(<< >>))

Enter_file ==
  /\ pc = "enter" /\ src[Top.path].type = "file"
  /\ \/ /\ ~ Is(Lead(Top.goal), "dir")
        /\ Exists(Lead(Top.goal)) \/ MayCreate(Lead(Top.goal))
        /\ dst' = Opened(Lead(Top.goal))
        /\ copying' = [path |-> Top.path, goal |-> Lead(Top.goal), at |-> 0, buf |-> << >>]
        /\ pc' = "copy" /\ UNCHANGED <<ok, faults>>
     \/ /\ \/ Fault
           \/ Is(Lead(Top.goal), "dir") /\ faults' = faults
           \/ ~ Exists(Lead(Top.goal)) /\ ~ MayCreate(Lead(Top.goal)) /\ faults' = faults
        /\ Return_(FALSE) /\ UNCHANGED <<dst, copying>>
  /\ UNCHANGED <<src, before, stack, temp>>

(* A link is skipped, anything else refused.  The type may not be had: an  *)
(* enumeration is never negative, and no case of the switch is met.        *)
Enter_other ==
  /\ pc = "enter"
  /\ \/ src[Top.path].type = "link"  /\ Return_(TRUE)  /\ faults' = faults
     \/ src[Top.path].type = "other" /\ Return_(FALSE) /\ faults' = faults
     \/ Fault /\ pc' = "aborted" /\ ok' = ok
  /\ UNCHANGED <<src, dst, before, stack, temp, copying>>

-----------------------------------------------------------------------------
(* nob_copy_file: read a buffer, write it in as many pieces as it takes.   *)
Content == src[copying.path].content
Piece(at) == SubSeq(Content, at + 1, IF at + BufSize < Len(Content) THEN at + BufSize ELSE Len(Content))

Read ==
  /\ pc = "copy" /\ copying.buf = << >>
  /\ \/ /\ Piece(copying.at) # << >>
        /\ LET piece == Piece(copying.at) IN
           copying' = [path |-> copying.path, goal |-> copying.goal, at |-> copying.at + Len(piece), buf |-> piece]
        /\ UNCHANGED <<pc, ok, faults>>
     \/ Piece(copying.at) = << >> /\ Return_(TRUE)  /\ UNCHANGED <<copying, faults>>
     \/ Fault                     /\ Return_(FALSE) /\ copying' = copying
  /\ UNCHANGED <<src, dst, before, stack, temp>>

(* Mutant: what is left is counted, the pointer stays.                     *)
Unwritten_from_start(buf, m) == SubSeq(buf, 1, Len(buf) - m)

Unwritten(buf, m) == SubSeq(buf, m + 1, Len(buf))

(* Only a file keeps what is written to it.                                *)
Grown(place, piece) ==
  IF Is(place, "file") THEN With(place, File(dst[place].content \o piece)) ELSE dst

Write ==
  /\ pc = "copy" /\ copying.buf # << >>
  /\ \/ \E m \in 1 .. Len(copying.buf) :
          /\ dst' = Grown(copying.goal, SubSeq(copying.buf, 1, m))
          /\ copying' = [copying EXCEPT !.buf = Unwritten(@, m)]
          /\ UNCHANGED <<pc, ok, faults>>
     \/ Fault /\ Return_(FALSE) /\ UNCHANGED <<dst, copying>>
  /\ UNCHANGED <<src, before, stack, temp>>

-----------------------------------------------------------------------------
(* The loop: the next name is read from the temporary storage.             *)
Child ==
  /\ pc = "children" /\ Top.children # << >>
  /\ LET name == temp[Head(Top.children)] IN
     stack' = Append([stack EXCEPT ![Len(stack)].children = Tail(@)],
                     Call_(Append(Top.path, name), Append(Lead(Top.goal), name), temp))
  /\ pc' = "enter"
  /\ UNCHANGED <<src, dst, before, temp, copying, ok, faults>>

LastChild ==
  /\ pc = "children" /\ Top.children = << >> /\ Return_(TRUE)
  /\ UNCHANGED <<src, dst, before, stack, temp, copying, faults>>

nob_temp_rewind(mark) == SubSeq(temp, 1, mark)

(* The end of a call, and what its caller does about the answer.           *)
Return ==
  /\ pc = "return"
  /\ temp' = nob_temp_rewind(Top.mark)
  /\ stack' = Front(stack)
  /\ pc' = IF Len(stack) = 1 THEN "done" ELSE IF ok THEN "children" ELSE "return"
  /\ UNCHANGED <<src, dst, before, copying, ok, faults>>

nob_copy_file == Enter_file \/ Read \/ Write

FilesNext == Enter_directory \/ Enter_other \/ nob_copy_file \/ Child \/ LastChild \/ Return

FilesSpec == FilesInit /\ [][FilesNext]_files_vars

-----------------------------------------------------------------------------
(* Where the links of the target lead that the copy may follow: those at a *)
(* place of the source, and those below the end of another.                *)
Below(q, p) == Len(p) <= Len(q) /\ \A j \in 1 .. Len(p) : q[j] = p[j]
Ends        == {before[l].to : l \in {l \in DOMAIN before : before[l].type = "link"}}
Followed    == {l \in DOMAIN before : /\ before[l].type = "link"
                                      /\ l \in DOMAIN src \/ \E e \in Ends : Below(l, e)}
Led(p)      == \E l \in Followed : Below(p, before[l].to)
Reached(p)  == p \in DOMAIN src \/ Led(p)

(* No path of the copy is a link, or a device, in the target.              *)
Plain == \A p \in DOMAIN src : p \in DOMAIN before => before[p].type \in {"file", "dir"}

(* At any moment, that of an abort too: only regular files have changed,   *)
(* and only those that have a counterpart in the source or lie where a     *)
(* link of the target leads; new things lie there as well.                 *)
OthersKept ==
  /\ \A p \in DOMAIN before :
       /\ Exists(p)
       /\ dst[p] = before[p] \/ (before[p].type = "file" /\ dst[p].type = "file" /\ Reached(p))
  /\ \A p \in DOMAIN dst : p \in DOMAIN before \/ Reached(p)

(* A copy that answers TRUE is one, if the target has plain files and      *)
(* directories in its way: every regular file is there with all it         *)
(* contains, in a directory.  Whatever the answer, what has no counterpart *)
(* has not changed, but for what a link in the way leads to, and the       *)
(* temporary storage holds again exactly what the caller had in it.        *)
CopyFaithful ==
  /\ OthersKept
  /\ pc = "done" =>
       /\ ok /\ Plain =>
            \A p \in DOMAIN src : src[p].type = "file" => Exists(p) /\ dst[p] = src[p] /\ MayCreate(p)
       /\ temp = Kept

=============================================================================
