------------------------------ MODULE NobProcs ------------------------------
(***************************************************************************)
(* Commands of nob.h as processes: nob_cmd_run with a list of processes    *)
(* that are let run, the older calls that start and wait by hand, and the  *)
(* waiting that keeps the list short.                                      *)
(*                                                                         *)
(* The program is one thread; its children run beside it.  A child is      *)
(* known by a number the system uses again once the child has been waited  *)
(* for, and fails by an exit code, a signal, or by never becoming the      *)
(* command it was forked for.                                              *)
(***************************************************************************)
EXTENDS Integers, Sequences, FiniteSets, SequencesExt

CONSTANTS
  Pids,           \* numbers of children the system gives out
  MaxProcs        \* .max_procs of every call

NOB_INVALID_PROC == -1
ASSUME LimitIsLegal == MaxProcs \in Nat \ {0} /\ NOB_INVALID_PROC \notin Pids

VARIABLES
  child,          \* external: "none", "running", or, not yet waited for, "ok" and "failed"
  procs,          \* Nob_Procs
  cmd,            \* Nob_Cmd: 1 once it has been filled
  call,           \* the call in progress and its options
  pc, i,          \* the place in it; the index of its loop
  fds,            \* files it has open
  proc,           \* what nob__cmd_start_process returned
  result,         \* what it returns, or returned
  waited          \* statuses this call has collected

procs_vars == <<child, procs, cmd, call, pc, i, fds, proc, result, waited>>

-----------------------------------------------------------------------------
(* The calls.  Only nob_cmd_run opens its files itself; it always resets   *)
(* cmd.  The older ones get them from their caller.                        *)
Files == {"stdin", "stdout"}
Calls ==
  {c \in [name : {"run", "start"}, async : BOOLEAN, reset : BOOLEAN, files : SUBSET Files] :
     c.name = "run" => c.reset}
    \cup {[name |-> "flush", async |-> FALSE, reset |-> FALSE, files |-> {}]}

NoCall == CHOOSE c \in Calls : c.name = "flush"
Live == {p \in Pids : child[p] # "none"}

ProcsInit ==
  /\ child = [p \in Pids |-> "none"] /\ procs = << >> /\ cmd = 0
  /\ call = NoCall /\ pc = "idle" /\ i = 1 /\ fds = {}
  /\ proc = NOB_INVALID_PROC /\ result = TRUE /\ waited = {}

(* External: a child comes to its end, well or not.                        *)
ChildEnds(p) ==
  /\ child[p] = "running"
  /\ \E status \in {"ok", "failed"} : child' = [child EXCEPT ![p] = status]
  /\ UNCHANGED <<procs, cmd, call, pc, i, fds, proc, result, waited>>

(* The caller fills its command, or runs the one it has again.             *)
nob_cmd_append ==
  /\ pc = "idle" /\ cmd = 0 /\ cmd' = 1
  /\ UNCHANGED <<child, procs, call, pc, i, fds, proc, result, waited>>

First(c) ==
  IF c.name = "flush" THEN "flush" ELSE IF c.name = "run" /\ c.async THEN "slots" ELSE "open"

Enter(c) ==
  /\ pc = "idle"
  /\ call' = c /\ pc' = First(c) /\ i' = 1 /\ result' = TRUE /\ waited' = {}
  /\ UNCHANGED <<child, procs, cmd, fds, proc>>

-----------------------------------------------------------------------------
(* What waiting for a child says: 0 while it runs, a failure also when     *)
(* there is no such child.  A child that has ended is gone afterwards.     *)
Ended(p) == p \in Pids /\ child[p] \in {"ok", "failed"}
Collect(p) ==
  IF Ended(p) THEN child' = [child EXCEPT ![p] = "none"] /\ waited' = waited \cup {child[p]}
              ELSE UNCHANGED <<child, waited>>

nob_proc_wait(p) == p \in Pids /\ child[p] = "ok"
MayWait(p) == ~ (p \in Pids /\ child[p] = "running")

(* Mutants: a failure is no reason to stop; the last item is not moved.    *)
nob__proc_wait_async_deaf(p) ==
  IF p = NOB_INVALID_PROC \/ child[p] # "ok" THEN 0 ELSE 1
nob_da_remove_unordered_cut(s, k) == SubSeq(s, 1, Len(s) - 1)

nob__proc_wait_async(p) ==
  IF p = NOB_INVALID_PROC \/ child[p] = "running" THEN 0 ELSE IF child[p] = "ok" THEN 1 ELSE -1

nob_da_remove_unordered(s, k) == SubSeq([s EXCEPT ![k] = s[Len(s)]], 1, Len(s) - 1)
Full == Len(procs) >= MaxProcs

(* nob_cmd_run_opt: while the list is full, ask one process after another. *)
Slots ==
  /\ pc = "slots" /\ ~Full /\ pc' = "open"
  /\ UNCHANGED <<child, procs, cmd, call, i, fds, proc, result, waited>>

Poll ==
  LET answer == nob__proc_wait_async(procs[i]) IN
  /\ pc = "slots" /\ Full
  /\ Collect(procs[i])
  /\ IF answer < 0 THEN pc' = "defer" /\ result' = FALSE ELSE UNCHANGED <<pc, result>>
  /\ procs' = IF answer > 0 THEN nob_da_remove_unordered(procs, i) ELSE procs
  /\ i' = IF answer # 0 \/ i = Len(procs) THEN 1 ELSE i + 1
  /\ UNCHANGED <<cmd, call, fds, proc>>

(* A file that cannot be opened ends nob_cmd_run; stdin comes first.       *)
Open ==
  /\ pc = "open"
  /\ \/ fds' = call.files /\ pc' = "start" /\ result' = result
     \/ /\ call.name = "run" /\ call.files # {}
        /\ fds' \in {{}, call.files \cap {"stdin"}} \ {call.files}
        /\ pc' = "defer" /\ result' = FALSE
  /\ UNCHANGED <<child, procs, cmd, call, i, proc, waited>>

(* nob__cmd_start_process: no command, no fork, or a child.                *)
Started(p) ==
  /\ pc = "start" /\ proc' = p
  /\ pc' = IF call.name = "start" \/ ~ call.async THEN "close"
           ELSE IF p = NOB_INVALID_PROC THEN "defer" ELSE "append"
  /\ result' = (p # NOB_INVALID_PROC)

nob__cmd_start_process ==
  /\ \/ Started(NOB_INVALID_PROC) /\ child' = child
     \/ \E p \in Pids : /\ cmd = 1 /\ child[p] = "none"
                        /\ Started(p) /\ child' = [child EXCEPT ![p] = "running"]
  /\ UNCHANGED <<procs, cmd, call, i, fds, waited>>

(* nob_cmd_run has its list take the process.                              *)
Append_ ==
  /\ pc = "append" /\ procs' = Append(procs, proc) /\ pc' = "defer"
  /\ UNCHANGED <<child, cmd, call, i, fds, proc, result, waited>>

(* The older calls close what they were given, when they reset, before     *)
(* they wait; nob_cmd_run waits first.                                     *)
Close ==
  /\ pc = "close"
  /\ pc' = IF call.async THEN "return" ELSE "wait"
  /\ IF call.name = "start" /\ call.reset THEN fds' = {} /\ cmd' = 0 ELSE UNCHANGED <<fds, cmd>>
  /\ UNCHANGED <<child, procs, call, i, proc, result, waited>>

Wait ==
  /\ pc = "wait" /\ MayWait(proc)
  /\ result' = nob_proc_wait(proc) /\ Collect(proc)
  /\ pc' = IF call.name = "run" THEN "defer" ELSE "idle"
  /\ UNCHANGED <<procs, cmd, call, i, fds, proc>>

Defer ==
  /\ pc = "defer" /\ pc' = "idle" /\ fds' = {} /\ cmd' = 0
  /\ UNCHANGED <<child, procs, call, i, proc, result, waited>>

(* An older call returned a process: its caller hands it to                *)
(* nob_procs_append_with_flush, started or not.                            *)
nob_procs_append_with_flush ==
  /\ pc = "return"
  /\ procs' = Append(procs, proc)
  /\ result' = TRUE /\ i' = 1
  /\ pc' = IF Len(procs) + 1 >= MaxProcs THEN "flush" ELSE "idle"
  /\ UNCHANGED <<child, cmd, call, fds, proc, waited>>

(* Mutant: the last one waited for decides.                                *)
Success_of_last(so_far, now) == now

(* nob_procs_wait, one process after another, and nob_procs_flush.         *)
Success(so_far, now) == now /\ so_far

nob_procs_wait ==
  /\ pc = "flush" /\ i <= Len(procs) /\ MayWait(procs[i])
  /\ result' = Success(result, nob_proc_wait(procs[i])) /\ Collect(procs[i])
  /\ i' = i + 1
  /\ UNCHANGED <<procs, cmd, call, pc, fds, proc>>

nob_procs_flush ==
  /\ pc = "flush" /\ i > Len(procs)
  /\ procs' = << >> /\ pc' = "idle"
  /\ UNCHANGED <<child, cmd, call, i, fds, proc, result, waited>>

(* The caller of a call that does not reset closes its files itself.       *)
nob_fd_close ==
  /\ pc = "idle" /\ fds # {} /\ fds' = {}
  /\ UNCHANGED <<child, procs, cmd, call, pc, i, proc, result, waited>>

Program ==
  \/ Slots \/ Poll \/ Open \/ nob__cmd_start_process \/ Append_ \/ Close \/ Wait \/ Defer
  \/ nob_procs_append_with_flush \/ nob_procs_wait \/ nob_procs_flush

ProcsNext ==
  \/ Program \/ nob_cmd_append \/ nob_fd_close
  \/ \E c \in Calls : fds = {} /\ Enter(c)
  \/ \E p \in Pids : ChildEnds(p)

(* The system runs the program, and a command ends some time.              *)
ProcsFairness ==
  /\ WF_procs_vars(Program)
  /\ \A p \in Pids : WF_procs_vars(ChildEnds(p))

ProcsSpec == ProcsInit /\ [][ProcsNext]_procs_vars /\ ProcsFairness

-----------------------------------------------------------------------------
(* Nothing is forgotten: a child is always on the list or the one the call *)
(* in progress has just started, whatever failed in between; the list is   *)
(* never longer than .max_procs, except for the one an older call adds     *)
(* just before it waits for them all; and a call that resets leaves no     *)
(* file open.                                                              *)
NothingForgotten ==
  /\ Live \subseteq Range(procs)
       \cup (IF pc \in {"append", "close", "wait", "return"} THEN {proc} ELSE {})
  /\ pc # "flush" => Len(procs) <= MaxProcs
  /\ pc = "idle" /\ call.reset => fds = {}

(* No failure is swallowed: a call that learns of a command that failed    *)
(* says so, and one that waits answers TRUE only of commands that ended    *)
(* well.                                                                   *)
FailureTold ==
  pc = "idle" /\ result =>
    /\ "failed" \notin waited
    /\ ~call.async /\ call.name # "flush" => waited = {"ok"}

(* Every call comes to its end: polling finds the process that ended, also *)
(* with one on the list that failed long ago.                              *)
CallReturns == pc # "idle" ~> pc = "idle"
=============================================================================
