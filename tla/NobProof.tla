----------------------------- MODULE NobProof ------------------------------
(***************************************************************************)
(* The build library and programs.  Commands as processes, for any number  *)
(* of children and any .max_procs: no child is forgotten and no failure    *)
(* swallowed.  Self-rebuilding for any number of sources, edits and        *)
(* starts: there is always a program left, and a build is done by a fresh  *)
(* one.  Copying a directory, for any tree, target and plan of faults: the *)
(* copy is one.  The build, for any tree of sources, faults, edits, kills  *)
(* and starts: the names found stay what they were, and what is started in *)
(* the end is of this build.                                               *)
(***************************************************************************)
EXTENDS NobProcs, Rebuild, Copying, Building, SequenceTheorems, FiniteSetTheorems, WellFoundedInduction, TLAPS

-----------------------------------------------------------------------------
(* Commands as processes.                                                  *)
Statuses == {"none", "running", "ok", "failed"}
Procs    == Pids \cup {NOB_INVALID_PROC}
Places   == {"idle", "slots", "open", "start", "append", "close", "wait", "return", "flush", "defer"}

TypeInv ==
  /\ child \in [Pids -> Statuses] /\ procs \in Seq(Procs) /\ cmd \in {0, 1}
  /\ call \in Calls /\ pc \in Places /\ i \in Nat \ {0}
  /\ fds \in SUBSET Files /\ proc \in Procs /\ result \in BOOLEAN
  /\ waited \in SUBSET {"ok", "failed"}

(* Which call can be at which place.                                       *)
Course ==
  /\ pc = "slots" => call.name = "run" /\ call.async
  /\ pc = "append" => call.name = "run" /\ call.async
  /\ pc = "close" => call.name = "start" \/ ~ call.async
  /\ pc \in {"open", "start", "wait", "defer"} => call.name # "flush"
  /\ pc = "close" => call.name # "flush"
  /\ pc = "wait" => ~ call.async
  /\ pc = "defer" => call.name = "run"
  /\ pc = "return" => call.name = "start" /\ call.async
  /\ pc = "flush" => call.name = "flush" \/ (call.name = "start" /\ call.async)

(* Who holds the children, and how long the list can be.                   *)
Started_ == IF pc \in {"append", "close", "wait", "return"} THEN {proc} ELSE {}

Held ==
  /\ Live \subseteq Range(procs) \cup Started_
  /\ pc = "flush" => \A j \in 1 .. Len(procs) : j < i => procs[j] \notin Live
  /\ pc # "flush" => Len(procs) <= MaxProcs
  /\ call.name = "run" /\ call.async /\ pc \in {"open", "start", "append"} => Len(procs) < MaxProcs
  /\ pc = "slots" /\ Full => i <= Len(procs)

Closed ==
  /\ pc = "idle" /\ call.reset => fds = {}
  /\ pc \in {"wait", "return", "flush"} /\ call.name = "start" /\ call.reset => fds = {}

(* What the call has learned, and what it is going to say.                 *)
Told ==
  /\ result => "failed" \notin waited
  /\ pc \in {"slots", "open", "start"} => "failed" \notin waited
  /\ pc \in {"open", "start", "close"} /\ ~ call.async => waited = {}
  /\ pc \in {"open", "start", "close"} /\ call.name = "start" => waited = {}
  /\ pc \in {"wait", "return"} => waited = {}
  /\ pc \in {"idle", "defer"} /\ result /\ ~ call.async /\ call.name # "flush" => waited = {"ok"}

IInv == TypeInv /\ Course /\ Held /\ Closed /\ Told

-----------------------------------------------------------------------------
(* The list as a set: a process appended is in it, and the one             *)
(* nob_da_remove_unordered takes out is the only one that may be missing.  *)
LEMMA RangeIs ==
  ASSUME NEW S, NEW s \in Seq(S)
  PROVE  Range(s) = {s[k] : k \in 1 .. Len(s)} /\ Range(s) \subseteq S
  BY LenProperties DEF Range

LEMMA Appended ==
  ASSUME NEW S, NEW s \in Seq(S), NEW x \in S
  PROVE  /\ Append(s, x) \in Seq(S) /\ Len(Append(s, x)) = Len(s) + 1
         /\ Range(s) \cup {x} \subseteq Range(Append(s, x))
<1>1. /\ Append(s, x) \in Seq(S) /\ Len(Append(s, x)) = Len(s) + 1 /\ Len(s) \in Nat
      /\ \A k \in 1 .. Len(s) : Append(s, x)[k] = s[k]
      /\ Append(s, x)[Len(s) + 1] = x
  BY AppendProperties, LenProperties
<1>2. Range(Append(s, x)) = {Append(s, x)[k] : k \in 1 .. Len(s) + 1}
  BY <1>1, RangeIs
<1>3. Range(s) = {s[k] : k \in 1 .. Len(s)}
  BY RangeIs
<1>4. x \in Range(Append(s, x))
  BY <1>1, <1>2
<1>5. ASSUME NEW y \in Range(s) PROVE y \in Range(Append(s, x))
  <2>1. PICK k \in 1 .. Len(s) : y = s[k]
    BY <1>3
  <2>2. y = Append(s, x)[k] /\ k \in 1 .. Len(s) + 1
    BY <1>1, <2>1
  <2>3. QED
    BY <1>2, <2>2
<1>6. QED
  BY <1>1, <1>4, <1>5

LEMMA Removed ==
  ASSUME NEW S, NEW s \in Seq(S), NEW k \in 1 .. Len(s)
  PROVE  /\ nob_da_remove_unordered(s, k) \in Seq(S)
         /\ Len(nob_da_remove_unordered(s, k)) = Len(s) - 1
         /\ Range(s) \subseteq Range(nob_da_remove_unordered(s, k)) \cup {s[k]}
<1> DEFINE e == [s EXCEPT ![k] = s[Len(s)]]
           n == Len(s) - 1
           r == SubSeq(e, 1, n)
<1>1. Len(s) \in Nat /\ n \in Nat /\ Len(s) \in 1 .. Len(s) /\ \A j \in 1 .. Len(s) : s[j] \in S
  BY LenProperties
<1>2. \A j \in 1 .. Len(s) : e[j] = (IF j = k THEN s[Len(s)] ELSE s[j])
  BY LenProperties
<1>3. \A j \in 1 .. n : e[j] \in S
  BY <1>1, <1>2
<1>4. /\ r \in Seq(S) /\ Len(r) = n
      /\ \A j \in 1 .. n : r[j] = e[j]
  <2> HIDE DEF e, n
  <2>1. /\ SubSeq(e, 1, n) \in Seq(S)
        /\ Len(SubSeq(e, 1, n)) = IF 1 <= n THEN n - 1 + 1 ELSE 0
        /\ \A j \in 1 .. n - 1 + 1 : SubSeq(e, 1, n)[j] = e[1 + j - 1]
    BY <1>1, <1>3, SubSeqProperties
  <2>2. QED
    BY <1>1, <2>1
<1>5. Range(r) = {r[j] : j \in 1 .. n}
  <2> HIDE DEF n, r
  <2>1. Range(r) = {r[j] : j \in 1 .. Len(r)}
    BY <1>4, RangeIs
  <2>2. QED
    BY <1>4, <2>1
<1>6. ASSUME NEW y \in Range(s), y # s[k] PROVE y \in Range(r)
  <2>1. PICK j \in 1 .. Len(s) : y = s[j]
    BY RangeIs
  <2> HIDE DEF e, r
  <2>2. CASE j = Len(s)
    <3>1. k \in 1 .. n /\ e[k] = y
      BY <1>1, <1>2, <1>6, <2>1, <2>2
    <3>2. QED
      BY <1>4, <1>5, <3>1
  <2>3. CASE j # Len(s)
    <3>1. j \in 1 .. n /\ e[j] = y
      BY <1>1, <1>2, <1>6, <2>1, <2>3
    <3>2. QED
      BY <1>4, <1>5, <3>1
  <2>4. QED
    BY <2>2, <2>3
<1>7. nob_da_remove_unordered(s, k) = r
  BY DEF nob_da_remove_unordered
<1>8. QED
  BY <1>4, <1>6, <1>7

(* Collecting a child's status takes it, and only it, from the living.     *)
LEMMA Collected ==
  ASSUME TypeInv, NEW p \in Procs, Collect(p)
  PROVE  /\ child' \in [Pids -> Statuses] /\ waited' \in SUBSET {"ok", "failed"}
         /\ Live' \subseteq Live
         /\ MayWait(p) => p \notin Live'
         /\ waited' = IF Ended(p) THEN waited \cup {child[p]} ELSE waited
<1>1. CASE Ended(p)
  <2>1. child' = [child EXCEPT ![p] = "none"] /\ waited' = waited \cup {child[p]} /\ p \in Pids
        /\ child[p] \in {"ok", "failed"}
    BY <1>1 DEF Collect, Ended
  <2>2. \A q \in Pids : child'[q] = IF q = p THEN "none" ELSE child[q]
    BY <2>1 DEF TypeInv
  <2>3. QED
    BY <1>1, <2>1, <2>2 DEF TypeInv, Statuses, Live
<1>2. CASE ~ Ended(p)
  BY <1>2 DEF Collect, Ended, TypeInv, Live, MayWait, Statuses
<1>3. QED
  BY <1>1, <1>2

LEMMA CallsTyped ==
  /\ \A c \in Calls : /\ c.name \in {"run", "start", "flush"} /\ c.async \in BOOLEAN /\ c.reset \in BOOLEAN
                        /\ c.files \in SUBSET Files /\ (c.name = "run" => c.reset)
                        /\ (c.name = "flush" => ~ c.reset /\ ~ c.async)
  /\ NoCall \in Calls /\ NoCall.name = "flush"
<1> DEFINE OfRun == {c \in [name : {"run", "start"}, async : BOOLEAN, reset : BOOLEAN, files : SUBSET Files] :
                       c.name = "run" => c.reset}
           flush == [name |-> "flush", async |-> FALSE, reset |-> FALSE, files |-> {}]
<1>1. Calls = OfRun \cup {flush}
  BY DEF Calls
<1>2. flush.name = "flush" /\ flush.async = FALSE /\ flush.reset = FALSE /\ flush.files = {}
  OBVIOUS
<1>3. \A c \in OfRun : /\ c.name \in {"run", "start"} /\ c.async \in BOOLEAN /\ c.reset \in BOOLEAN
                       /\ c.files \in SUBSET Files /\ (c.name = "run" => c.reset)
  OBVIOUS
<1>4. NoCall \in Calls /\ NoCall.name = "flush"
  BY <1>1, <1>2, Zenon DEF NoCall
<1> HIDE DEF OfRun, flush
<1>5. ASSUME NEW c \in Calls
      PROVE  /\ c.name \in {"run", "start", "flush"} /\ c.async \in BOOLEAN /\ c.reset \in BOOLEAN
             /\ c.files \in SUBSET Files /\ (c.name = "run" => c.reset)
             /\ (c.name = "flush" => ~ c.reset /\ ~ c.async)
  BY <1>1, <1>2, <1>3
<1>6. QED
  BY <1>4, <1>5

-----------------------------------------------------------------------------
LEMMA Begun == ASSUME ProcsInit PROVE IInv
<1>1. TypeInv
  BY CallsTyped, EmptySeq DEF ProcsInit, TypeInv, Statuses, Procs, Places, Files
<1>2. Live = {}
  BY DEF ProcsInit, Live
<1>3. QED
  BY <1>1, <1>2, CallsTyped, EmptySeq, LimitIsLegal DEF ProcsInit, IInv, Course, Held, Closed, Told

(* Steps outside the calls: a child ends, the caller fills its command,    *)
(* closes its files, calls.                                                *)
LEMMA EndsStep ==
  ASSUME IInv, NEW p \in Pids, ChildEnds(p)
  PROVE  IInv'
<1>1. PICK how \in {"ok", "failed"} : child' = [child EXCEPT ![p] = how]
  BY DEF ChildEnds
<1>2. child[p] = "running" /\ UNCHANGED <<procs, cmd, call, pc, i, fds, proc, result, waited>>
  BY DEF ChildEnds
<1>3. TypeInv'
  BY <1>1, <1>2 DEF IInv, TypeInv, Statuses
<1>4. Live' = Live
  BY <1>1, <1>2 DEF IInv, TypeInv, Live
<1>5. QED
  BY <1>2, <1>3, <1>4 DEF IInv, Course, Held, Closed, Told, Started_, Full

LEMMA CallerStep ==
  ASSUME IInv, nob_cmd_append \/ nob_fd_close
  PROVE  IInv'
<1>1. UNCHANGED <<child, procs, call, pc, i, proc, result, waited>> /\ pc = "idle"
      /\ cmd' \in {0, 1} /\ (fds' = fds \/ fds' = {})
  BY DEF nob_cmd_append, nob_fd_close, IInv, TypeInv
<1>2. TypeInv' /\ Course' /\ Told'
  BY <1>1 DEF IInv, TypeInv, Course, Told
<1>3. Live' = Live
  BY <1>1 DEF Live
<1>4. Held' /\ Closed'
  BY <1>1, <1>3 DEF IInv, Held, Closed, Started_, Full
<1>5. QED
  BY <1>2, <1>4 DEF IInv

LEMMA EnterStep ==
  ASSUME IInv, NEW c \in Calls, fds = {}, Enter(c)
  PROVE  IInv'
<1>1. /\ pc = "idle" /\ call' = c /\ pc' = First(c) /\ i' = 1 /\ result' = TRUE /\ waited' = {}
      /\ UNCHANGED <<child, procs, cmd, fds, proc>>
  BY DEF Enter
<1>2. \/ c.name = "flush" /\ pc' = "flush"
      \/ c.name = "run" /\ c.async /\ pc' = "slots"
      \/ c.name # "flush" /\ ~ (c.name = "run" /\ c.async) /\ pc' = "open"
  <2>1. CASE c.name = "flush"
    BY <1>1, <2>1 DEF First
  <2>2. CASE c.name # "flush" /\ c.name = "run" /\ c.async
    BY <1>1, <2>2 DEF First
  <2>3. CASE c.name # "flush" /\ ~ (c.name = "run" /\ c.async)
    BY <1>1, <2>3 DEF First
  <2>4. QED
    BY <2>1, <2>2, <2>3
<1>3. TypeInv'
  BY <1>1, <1>2 DEF IInv, TypeInv, Places
<1>4. Course'
  BY <1>1, <1>2, CallsTyped DEF Course
<1>5. Live' = Live /\ Len(procs) \in Nat
  BY <1>1, LenProperties DEF Live, IInv, TypeInv
<1>6. Held'
  BY <1>1, <1>2, <1>5, LimitIsLegal DEF IInv, Held, Started_, Full
<1>7. Closed'
  BY <1>1, <1>2 DEF Closed
<1>8. Told'
  BY <1>1, <1>2 DEF Told
<1>9. QED
  BY <1>3, <1>4, <1>6, <1>7, <1>8 DEF IInv

-----------------------------------------------------------------------------
(* nob_cmd_run_opt with a list: a place is waited for.                     *)
LEMMA SlotsStep ==
  ASSUME IInv, Slots
  PROVE  IInv'
<1>1. /\ pc = "slots" /\ ~ Full /\ pc' = "open"
      /\ UNCHANGED <<child, procs, cmd, call, i, fds, proc, result, waited>>
  BY DEF Slots
<1>2. Live' = Live /\ Len(procs) \in Nat /\ Len(procs) < MaxProcs
  BY <1>1, LenProperties, LimitIsLegal DEF Live, IInv, TypeInv, Full
<1>3. call.name = "run" /\ call.async
  BY <1>1 DEF IInv, Course
<1>4. TypeInv' /\ Course'
  BY <1>1, <1>3 DEF IInv, TypeInv, Course, Places
<1>5. Held' /\ Closed' /\ Told'
  BY <1>1, <1>2, <1>3 DEF IInv, Held, Closed, Told, Started_
<1>6. QED
  BY <1>4, <1>5 DEF IInv

LEMMA PollStep ==
  ASSUME IInv, Poll
  PROVE  IInv'
<1> DEFINE p == procs[i]
           answer == nob__proc_wait_async(p)
<1>1. /\ pc = "slots" /\ Full /\ Collect(p)
      /\ IF answer < 0 THEN pc' = "defer" /\ result' = FALSE ELSE UNCHANGED <<pc, result>>
      /\ procs' = (IF answer > 0 THEN nob_da_remove_unordered(procs, i) ELSE procs)
      /\ i' = (IF answer # 0 \/ i = Len(procs) THEN 1 ELSE i + 1)
      /\ UNCHANGED <<cmd, call, fds, proc>>
  BY DEF Poll
<1>2. /\ procs \in Seq(Procs) /\ Len(procs) \in Nat /\ i \in 1 .. Len(procs)
      /\ call.name = "run" /\ call.async /\ Live \subseteq Range(procs) /\ Len(procs) <= MaxProcs
      /\ MaxProcs \in Nat \ {0}
  BY <1>1, LenProperties, LimitIsLegal DEF IInv, TypeInv, Course, Held, Full, Started_
<1>3. p \in Procs
  BY <1>2, ElementOfSeq
<1>4. /\ child' \in [Pids -> Statuses] /\ waited' \in SUBSET {"ok", "failed"} /\ Live' \subseteq Live
      /\ MayWait(p) => p \notin Live'
      /\ waited' = IF Ended(p) THEN waited \cup {child[p]} ELSE waited
  BY <1>1, <1>3, Collected DEF IInv
<1>5. /\ answer \in {-1, 0, 1}
      /\ answer = 1 => MayWait(p) /\ (Ended(p) => child[p] = "ok")
      /\ answer = 0 => ~ Ended(p)
  <2>1. p = NOB_INVALID_PROC => p \notin Pids
    BY LimitIsLegal
  <2>2. QED
    BY <1>3, <2>1 DEF nob__proc_wait_async, MayWait, Ended, Procs
<1> HIDE DEF answer
<1>6. /\ procs' \in Seq(Procs) /\ Len(procs') \in Nat /\ Len(procs') <= Len(procs) /\ Live' \subseteq Range(procs')
      /\ answer # 1 => procs' = procs
  <2>1. CASE answer = 1
    <3>1. procs' = nob_da_remove_unordered(procs, i)
      BY <1>1, <2>1
    <3>2. /\ procs' \in Seq(Procs) /\ Len(procs') = Len(procs) - 1
          /\ Range(procs) \subseteq Range(procs') \cup {p}
      BY <1>2, <3>1, Removed
    <3>3. p \notin Live'
      BY <1>4, <1>5, <2>1
    <3>4. QED
      BY <1>2, <1>4, <2>1, <3>2, <3>3, LenProperties
  <2>2. CASE answer # 1
    BY <1>1, <1>2, <1>4, <1>5, <2>2
  <2>3. QED
    BY <2>1, <2>2
<1>7. i' \in Nat \ {0} /\ (Len(procs') >= MaxProcs => i' <= Len(procs'))
  BY <1>1, <1>2, <1>6
<1>8. /\ pc' \in {"slots", "defer"} /\ result' \in BOOLEAN
      /\ pc' = "defer" => ~ result'
      /\ answer = -1 => pc' = "defer"
      /\ result' => result /\ answer # -1
  <2>1. CASE answer = -1
    <3>1. pc' = "defer" /\ result' = FALSE
      BY <1>1, <2>1
    <3>2. QED
      BY <2>1, <3>1
  <2>2. CASE answer # -1
    <3>1. pc' = pc /\ result' = result
      BY <1>1, <1>5, <2>2
    <3>2. QED
      BY <1>1, <2>2, <3>1 DEF IInv, TypeInv
  <2>3. QED
    BY <2>1, <2>2
<1>9. answer # -1 => "failed" \notin waited'
  BY <1>1, <1>4, <1>5 DEF IInv, Told
<1>10. TypeInv'
  BY <1>1, <1>4, <1>6, <1>7, <1>8 DEF IInv, TypeInv, Places
<1>11. Course'
  BY <1>1, <1>2, <1>8 DEF Course
<1>12. Held'
  BY <1>1, <1>2, <1>6, <1>7, <1>8 DEF Held, Started_, Full
<1>13. Closed'
  BY <1>8 DEF Closed
<1>14. Told'
  BY <1>8, <1>9 DEF Told
<1>15. QED
  BY <1>10, <1>11, <1>12, <1>13, <1>14 DEF IInv

(* The files are opened, the process is started, put on the list or waited *)
(* for.                                                                    *)
LEMMA OpenStep ==
  ASSUME IInv, Open
  PROVE  IInv'
<1>1. /\ pc = "open" /\ UNCHANGED <<child, procs, cmd, call, i, proc, waited>>
      /\ \/ fds' = call.files /\ pc' = "start" /\ result' = result
         \/ call.name = "run" /\ fds' \in {{}, call.files \cap {"stdin"}} /\ pc' = "defer" /\ result' = FALSE
  BY DEF Open
<1>2. call \in Calls /\ call.name # "flush" /\ call.files \in SUBSET Files /\ fds' \in SUBSET Files
  BY <1>1, CallsTyped DEF IInv, TypeInv, Course
<1>3. TypeInv' /\ Course'
  BY <1>1, <1>2 DEF IInv, TypeInv, Course, Places
<1>4. Live' = Live
  BY <1>1 DEF Live
<1>5. Held' /\ Closed' /\ Told'
  BY <1>1, <1>4 DEF IInv, Held, Closed, Told, Started_, Full
<1>6. QED
  BY <1>3, <1>5 DEF IInv

LEMMA StartStep ==
  ASSUME IInv, nob__cmd_start_process
  PROVE  IInv'
<1>1. PICK p \in Procs :
        /\ Started(p)
        /\ p = NOB_INVALID_PROC => child' = child
        /\ p # NOB_INVALID_PROC => p \in Pids /\ child' = [child EXCEPT ![p] = "running"]
  BY LimitIsLegal DEF nob__cmd_start_process, Procs
<1>2. UNCHANGED <<procs, cmd, call, i, fds, waited>>
  BY DEF nob__cmd_start_process
<1>3. /\ pc = "start" /\ proc' = p /\ (result' <=> p # NOB_INVALID_PROC) /\ result' \in BOOLEAN
      /\ call.name = "start" \/ ~ call.async => pc' = "close"
      /\ ~ (call.name = "start" \/ ~ call.async) /\ p = NOB_INVALID_PROC => pc' = "defer"
      /\ ~ (call.name = "start" \/ ~ call.async) /\ p # NOB_INVALID_PROC => pc' = "append"
  BY <1>1 DEF Started
<1>4. call \in Calls /\ call.name \in {"run", "start"} /\ call.async \in BOOLEAN
  BY <1>3, CallsTyped DEF IInv, TypeInv, Course
<1>5. TypeInv'
  BY <1>1, <1>2, <1>3, <1>4 DEF IInv, TypeInv, Statuses, Places
<1>6. Course'
  BY <1>2, <1>3, <1>4 DEF Course
<1>7. Live' \subseteq Live \cup {p} /\ (p = NOB_INVALID_PROC => Live' = Live)
  BY <1>1 DEF IInv, TypeInv, Live
<1>8. Held'
  BY <1>2, <1>3, <1>4, <1>7 DEF IInv, Held, Started_, Full
<1>9. Closed' /\ Told'
  BY <1>2, <1>3, <1>4 DEF IInv, Closed, Told
<1>10. QED
  BY <1>5, <1>6, <1>8, <1>9 DEF IInv

LEMMA AppendStep ==
  ASSUME IInv, Append_
  PROVE  IInv'
<1>1. /\ pc = "append" /\ procs' = Append(procs, proc) /\ pc' = "defer"
      /\ UNCHANGED <<child, cmd, call, i, fds, proc, result, waited>>
  BY DEF Append_
<1>2. /\ procs \in Seq(Procs) /\ proc \in Procs /\ Len(procs) \in Nat /\ Len(procs) < MaxProcs
      /\ call.name = "run" /\ call.async /\ Live \subseteq Range(procs) \cup {proc}
      /\ MaxProcs \in Nat
  BY <1>1, LenProperties, LimitIsLegal DEF IInv, TypeInv, Course, Held, Started_
<1>3. /\ procs' \in Seq(Procs) /\ Len(procs') = Len(procs) + 1
      /\ Range(procs) \cup {proc} \subseteq Range(procs')
  BY <1>1, <1>2, Appended
<1>4. Live' = Live
  BY <1>1 DEF Live
<1>5. TypeInv' /\ Course'
  BY <1>1, <1>2, <1>3 DEF IInv, TypeInv, Course, Places
<1>6. Held'
  BY <1>1, <1>2, <1>3, <1>4 DEF Held, Started_
<1>7. Closed' /\ Told'
  BY <1>1, <1>2 DEF IInv, Closed, Told
<1>8. QED
  BY <1>5, <1>6, <1>7 DEF IInv

LEMMA CloseStep ==
  ASSUME IInv, Close
  PROVE  IInv'
<1>1. /\ pc = "close" /\ UNCHANGED <<child, procs, call, i, proc, result, waited>>
      /\ pc' = (IF call.async THEN "return" ELSE "wait")
      /\ IF call.name = "start" /\ call.reset THEN fds' = {} /\ cmd' = 0 ELSE UNCHANGED <<fds, cmd>>
  BY DEF Close
<1>2. /\ call \in Calls /\ call.name \in {"run", "start"} /\ call.async \in BOOLEAN /\ call.reset \in BOOLEAN
      /\ call.name = "start" \/ ~ call.async
  BY <1>1, CallsTyped DEF IInv, TypeInv, Course
<1>3. /\ pc' \in {"return", "wait"} /\ (pc' = "return" <=> call.async)
      /\ cmd' \in {0, 1} /\ fds' \in SUBSET Files
      /\ call.name = "start" /\ call.reset => fds' = {}
  BY <1>1, <1>2 DEF IInv, TypeInv
<1>4. TypeInv' /\ Course'
  BY <1>1, <1>2, <1>3 DEF IInv, TypeInv, Course, Places
<1>5. Live' = Live
  BY <1>1 DEF Live
<1>6. Held' /\ Closed' /\ Told'
  BY <1>1, <1>2, <1>3, <1>5 DEF IInv, Held, Closed, Told, Started_
<1>7. QED
  BY <1>4, <1>6 DEF IInv

LEMMA WaitStep ==
  ASSUME IInv, Wait
  PROVE  IInv'
<1>1. /\ pc = "wait" /\ MayWait(proc) /\ result' = nob_proc_wait(proc) /\ Collect(proc)
      /\ pc' = (IF call.name = "run" THEN "defer" ELSE "idle")
      /\ UNCHANGED <<procs, cmd, call, i, fds, proc>>
  BY DEF Wait
<1>2. /\ proc \in Procs /\ waited = {} /\ call \in Calls /\ call.name \in {"run", "start"} /\ ~ call.async
      /\ call.reset \in BOOLEAN /\ Len(procs) <= MaxProcs /\ Live \subseteq Range(procs) \cup {proc}
      /\ call.name = "start" /\ call.reset => fds = {}
  BY <1>1, CallsTyped DEF IInv, TypeInv, Course, Held, Told, Closed, Started_
<1>3. /\ child' \in [Pids -> Statuses] /\ waited' \in SUBSET {"ok", "failed"} /\ Live' \subseteq Live
      /\ proc \notin Live'
      /\ waited' = IF Ended(proc) THEN waited \cup {child[proc]} ELSE waited
  BY <1>1, <1>2, Collected DEF IInv
<1>4. result' \in BOOLEAN /\ (result' => waited' = {"ok"})
  BY <1>1, <1>2, <1>3 DEF nob_proc_wait, Ended
<1>5. TypeInv' /\ Course'
  BY <1>1, <1>2, <1>3, <1>4 DEF IInv, TypeInv, Course, Places
<1>6. Held'
  BY <1>1, <1>2, <1>3 DEF Held, Started_
<1>7. Closed' /\ Told'
  BY <1>1, <1>2, <1>4 DEF Closed, Told
<1>8. QED
  BY <1>5, <1>6, <1>7 DEF IInv

LEMMA DeferStep ==
  ASSUME IInv, Defer
  PROVE  IInv'
<1>1. /\ pc = "defer" /\ pc' = "idle" /\ fds' = {} /\ cmd' = 0
      /\ UNCHANGED <<child, procs, call, i, proc, result, waited>>
  BY DEF Defer
<1>2. TypeInv' /\ Course' /\ Live' = Live
  BY <1>1 DEF IInv, TypeInv, Course, Places, Live
<1>3. Held' /\ Closed' /\ Told'
  BY <1>1, <1>2 DEF IInv, Held, Closed, Told, Started_
<1>4. QED
  BY <1>2, <1>3 DEF IInv

-----------------------------------------------------------------------------
(* The older calls: the list takes the process, and is emptied when full.  *)
LEMMA ReturnStep ==
  ASSUME IInv, nob_procs_append_with_flush
  PROVE  IInv'
<1>1. /\ pc = "return" /\ procs' = Append(procs, proc) /\ result' = TRUE /\ i' = 1
      /\ pc' = (IF Len(procs) + 1 >= MaxProcs THEN "flush" ELSE "idle")
      /\ UNCHANGED <<child, cmd, call, fds, proc, waited>>
  BY DEF nob_procs_append_with_flush
<1>2. /\ procs \in Seq(Procs) /\ proc \in Procs /\ Len(procs) \in Nat /\ MaxProcs \in Nat /\ waited = {}
      /\ call.name = "start" /\ call.async /\ Live \subseteq Range(procs) \cup {proc}
      /\ call.reset => fds = {}
  BY <1>1, LenProperties, LimitIsLegal DEF IInv, TypeInv, Course, Held, Told, Closed, Started_
<1>3. /\ procs' \in Seq(Procs) /\ Len(procs') = Len(procs) + 1
      /\ Range(procs) \cup {proc} \subseteq Range(procs')
  BY <1>1, <1>2, Appended
<1>4. Live' = Live
  BY <1>1 DEF Live
<1>5. TypeInv' /\ Course'
  BY <1>1, <1>2, <1>3 DEF IInv, TypeInv, Course, Places
<1>6. Held'
  BY <1>1, <1>2, <1>3, <1>4 DEF Held, Started_
<1>7. Closed' /\ Told'
  BY <1>1, <1>2 DEF Closed, Told
<1>8. QED
  BY <1>5, <1>6, <1>7 DEF IInv

LEMMA FlushingStep ==
  ASSUME IInv, nob_procs_wait
  PROVE  IInv'
<1> DEFINE p == procs[i]
<1>1. /\ pc = "flush" /\ i <= Len(procs) /\ MayWait(p)
      /\ result' = Success(result, nob_proc_wait(p)) /\ Collect(p) /\ i' = i + 1
      /\ UNCHANGED <<procs, cmd, call, pc, fds, proc>>
  BY DEF nob_procs_wait
<1>2. procs \in Seq(Procs) /\ Len(procs) \in Nat /\ i \in 1 .. Len(procs)
  BY <1>1, LenProperties DEF IInv, TypeInv
<1>3. p \in Procs
  BY <1>2, ElementOfSeq
<1>4. /\ child' \in [Pids -> Statuses] /\ waited' \in SUBSET {"ok", "failed"} /\ Live' \subseteq Live
      /\ p \notin Live'
      /\ waited' = IF Ended(p) THEN waited \cup {child[p]} ELSE waited
  BY <1>1, <1>3, Collected DEF IInv
<1>5. result' \in BOOLEAN /\ (result' => "failed" \notin waited')
  BY <1>1, <1>4 DEF IInv, TypeInv, Told, Success, nob_proc_wait, Ended
<1>6. TypeInv' /\ Course'
  BY <1>1, <1>2, <1>4, <1>5 DEF IInv, TypeInv, Course, Places
<1>7. Held'
  <2>1. ASSUME NEW j \in 1 .. Len(procs), j < i + 1 PROVE procs[j] \notin Live'
    BY <1>1, <1>2, <1>4, <2>1 DEF IInv, Held
  <2>2. QED
    BY <1>1, <1>4, <2>1 DEF IInv, Held, Started_
<1>8. Closed' /\ Told'
  BY <1>1, <1>5 DEF IInv, Closed, Told
<1>9. QED
  BY <1>6, <1>7, <1>8 DEF IInv

LEMMA FlushedStep ==
  ASSUME IInv, nob_procs_flush
  PROVE  IInv'
<1>1. /\ pc = "flush" /\ i > Len(procs) /\ procs' = << >> /\ pc' = "idle"
      /\ UNCHANGED <<child, cmd, call, i, fds, proc, result, waited>>
  BY DEF nob_procs_flush
<1>2. /\ procs \in Seq(Procs) /\ Len(procs) \in Nat /\ i \in Nat /\ Live \subseteq Range(procs)
      /\ call \in Calls /\ (call.name = "flush" \/ (call.name = "start" /\ call.async))
  BY <1>1, LenProperties DEF IInv, TypeInv, Course, Held, Started_
<1>3. Live = {}
  <2>1. \A j \in 1 .. Len(procs) : procs[j] \notin Live
    BY <1>1, <1>2 DEF IInv, Held
  <2>2. Range(procs) = {procs[j] : j \in 1 .. Len(procs)}
    BY <1>2, RangeIs
  <2>3. QED
    BY <1>2, <2>1, <2>2
<1>4. Live' = {} /\ procs' \in Seq(Procs) /\ Len(procs') = 0
  BY <1>1, <1>3, EmptySeq DEF Live
<1>5. TypeInv' /\ Course'
  BY <1>1, <1>2, <1>4 DEF IInv, TypeInv, Course, Places
<1>6. Held'
  BY <1>1, <1>4, LimitIsLegal DEF Held, Started_
<1>7. Closed' /\ Told'
  BY <1>1, <1>2, CallsTyped DEF IInv, Closed, Told
<1>8. QED
  BY <1>5, <1>6, <1>7 DEF IInv

-----------------------------------------------------------------------------
LEMMA Kept == ASSUME IInv, [ProcsNext]_procs_vars PROVE IInv'
<1>1. CASE Program
  BY <1>1, SlotsStep, PollStep, OpenStep, StartStep, AppendStep, CloseStep, WaitStep, DeferStep,
     ReturnStep, FlushingStep, FlushedStep DEF Program
<1>2. CASE nob_cmd_append \/ nob_fd_close
  BY <1>2, CallerStep
<1>3. CASE \E c \in Calls : fds = {} /\ Enter(c)
  BY <1>3, EnterStep
<1>4. CASE \E p \in Pids : ChildEnds(p)
  BY <1>4, EndsStep
<1>5. CASE UNCHANGED procs_vars
  <2>1. UNCHANGED <<child, procs, cmd, call, pc, i, fds, proc, result, waited>>
    BY <1>5 DEF procs_vars
  <2>2. Live' = Live
    BY <2>1 DEF Live
  <2>3. QED
    BY <2>1, <2>2 DEF IInv, TypeInv, Course, Held, Closed, Told, Started_, Full
<1>6. QED
  BY <1>1, <1>2, <1>3, <1>4, <1>5 DEF ProcsNext

(* nob_cmd_run_opt, nob_procs_append_with_flush and nob_procs_flush keep   *)
(* hold of every child, keep to .max_procs and close the files of a call   *)
(* that resets, whatever of it fails, for every limit.                     *)
THEOREM NoChildForgotten == ProcsSpec => []NothingForgotten
<1>1. IInv => NothingForgotten
  BY DEF IInv, Held, Closed, Started_, NothingForgotten
<1>2. QED
  BY Begun, Kept, <1>1, PTL DEF ProcsSpec

(* A call that returns TRUE has learned of no command that failed, and one *)
(* that waits returns TRUE only of a command that ended well.              *)
THEOREM NoFailureSwallowed == ProcsSpec => []FailureTold
<1>1. IInv => FailureTold
  BY DEF IInv, Told, FailureTold
<1>2. QED
  BY Begun, Kept, <1>1, PTL DEF ProcsSpec

-----------------------------------------------------------------------------
(* Self-rebuilding.                                                        *)

States   == {"whole", "none", "torn", "read"}
Binaries == [is : States, from : [SourcePaths -> Nat], read : Nat, mtime : Nat]

RebuildTypeInv ==
  /\ clock \in Nat \ {0}
  /\ sources \in [SourcePaths -> [version : Nat, mtime : Nat]]
  /\ binary \in Binaries /\ old \in Binaries /\ running \in Binaries /\ compiled \in Binaries
  /\ parents \in Nat
  /\ nob_pc \in {"off", "check", "rename", "compile", "write", "restore", "again", "work"}

(* Where the whole program is, by the place in the rebuild.                *)
Keeps ==
  /\ nob_pc \in {"check", "rename", "again", "work"} => Whole(binary)
  /\ nob_pc \in {"compile", "write", "restore"} => Whole(old)
  /\ Whole(binary) \/ Whole(old)

(* A binary differs from a source only if that source was written after    *)
(* the compiler had read it; and no time is in the future.                 *)
Honest(b) ==
  \A p \in SourcePaths : b.from[p] = sources[p].version \/ b.read <= sources[p].mtime

Dated ==
  /\ \A b \in {binary, old, running, compiled} : Honest(b) /\ b.read <= clock
  /\ \A p \in SourcePaths : sources[p].mtime <= clock
  /\ nob_pc = "check" => running = binary

RebuildIInv == RebuildTypeInv /\ Keeps /\ Dated

-----------------------------------------------------------------------------
LEMMA FilesTyped ==
  /\ NoFile \in Binaries /\ NoFile.read = 0 /\ NoFile.is = "none"
  /\ Torn \in Binaries /\ Torn.read = 0 /\ Torn.is = "torn"
  BY DEF NoFile, Torn, Lacking, Made, Binaries, States

LEMMA RebuildBegun == RebuildInit => RebuildIInv
<1> SUFFICES ASSUME RebuildInit PROVE RebuildIInv
  OBVIOUS
<1>1. Versions \in [SourcePaths -> Nat] /\ \A p \in SourcePaths : Versions[p] = sources[p].version
  BY DEF RebuildInit, Versions
<1>2. binary \in Binaries /\ binary.is = "whole" /\ binary.read = 1 /\ binary.from = Versions
  BY <1>1 DEF RebuildInit, Made, Binaries, States
<1>3. RebuildTypeInv
  BY <1>2, FilesTyped DEF RebuildInit, RebuildTypeInv
<1>4. Keeps
  BY <1>2 DEF RebuildInit, Keeps, Whole
<1>5. Dated
  BY <1>1, <1>2, FilesTyped DEF RebuildInit, Dated, Honest
<1>6. QED
  BY <1>3, <1>4, <1>5 DEF RebuildIInv

LEMMA SourcesTyped ==
  ASSUME RebuildTypeInv
  PROVE  Versions \in [SourcePaths -> Nat] /\ \A p \in SourcePaths : Versions[p] = sources[p].version
  BY DEF RebuildTypeInv, Versions

LEMMA RebuildKept == RebuildIInv /\ [RebuildNext]_rebuild_vars => RebuildIInv'
<1> SUFFICES ASSUME RebuildIInv, [RebuildNext]_rebuild_vars PROVE RebuildIInv'
  OBVIOUS
<1> USE DEF RebuildIInv
<1>1. CASE Start
  BY <1>1 DEF Start, Files_same, RebuildTypeInv, Keeps, Dated, Honest, Whole
<1>2. CASE nob_needs_rebuild
  BY <1>2 DEF nob_needs_rebuild, Files_same, Exit, RebuildTypeInv, Keeps, Dated, Honest, Whole
<1>3. CASE Rename
  BY <1>3, FilesTyped DEF Rename, Exit, RebuildTypeInv, Keeps, Dated, Honest, Whole
<1>4. CASE Compile
  BY <1>4, SourcesTyped DEF Compile, Made, Binaries, States, RebuildTypeInv, Keeps, Dated, Honest, Whole
<1>5. CASE Write
  BY <1>5, FilesTyped DEF Write, Made, Binaries, States, RebuildTypeInv, Keeps, Dated, Honest, Whole
<1>6. CASE Restore
  BY <1>6, FilesTyped DEF Restore, PutBack, Exit, RebuildTypeInv, Keeps, Dated, Honest, Whole
<1>7. CASE Again
  BY <1>7 DEF Again, Files_same, Exit, RebuildTypeInv, Keeps, Dated, Honest, Whole
<1>8. CASE Work
  BY <1>8 DEF Work, Files_same, Exit, RebuildTypeInv, Keeps, Dated, Honest, Whole
<1>9. CASE Killed
  BY <1>9, FilesTyped DEF Killed, Exit, RebuildTypeInv, Keeps, Dated, Honest, Whole
<1>10. CASE Recover
  BY <1>10, FilesTyped DEF Recover, RebuildTypeInv, Keeps, Dated, Honest, Whole
<1>11. CASE Tick
  BY <1>11 DEF Tick, Binaries, RebuildTypeInv, Keeps, Dated, Honest, Whole
<1>12. ASSUME NEW p \in SourcePaths, Edit(p) PROVE RebuildIInv'
  BY <1>12 DEF Edit, Binaries, RebuildTypeInv, Keeps, Dated, Honest, Whole
<1>13. CASE UNCHANGED rebuild_vars
  BY <1>13 DEF rebuild_vars, RebuildTypeInv, Keeps, Dated, Honest, Whole
<1>14. QED
  BY <1>1, <1>2, <1>3, <1>4, <1>5, <1>6, <1>7, <1>8, <1>9, <1>10, <1>11, <1>12, <1>13 DEF RebuildNext

(* There is always a program left, under its own name or as nob.old,       *)
(* whatever nob__go_rebuild_urself is doing when something fails or it is  *)
(* killed.                                                                 *)
THEOREM SomeProgramLeft == RebuildSpec => []ProgramSurvives
<1>1. RebuildIInv => ProgramSurvives
  BY DEF RebuildIInv, Keeps, ProgramSurvives
<1>2. QED
  BY RebuildBegun, RebuildKept, <1>1, PTL DEF RebuildSpec

(* nob_needs_rebuild lets a build begin only in a program made from the    *)
(* sources as they are, except one written after the compiler read it and  *)
(* no later than the second the binary was written in.                     *)
THEOREM FreshWhenBuilding == RebuildSpec => WorksFresh
<1>1. RebuildIInv /\ [RebuildNext]_rebuild_vars =>
        [nob_pc = "check" /\ nob_pc' = "work" =>
           \A p \in SourcePaths :
             \/ running.from[p] = sources[p].version
             \/ running.read <= sources[p].mtime /\ sources[p].mtime <= running.mtime]_rebuild_vars
  <2> SUFFICES ASSUME RebuildIInv, RebuildNext, nob_pc = "check", nob_pc' = "work", NEW p \in SourcePaths
               PROVE  \/ running.from[p] = sources[p].version
                      \/ running.read <= sources[p].mtime /\ sources[p].mtime <= running.mtime
    OBVIOUS
  <2>1. ~ Newer(binary)
    BY DEF RebuildNext, Start, nob_needs_rebuild, Rename, Compile, Write, Restore, Again, Work,
           Killed, Recover, Tick, Edit, Exit
  <2>2. running = binary /\ Honest(running) /\ running.mtime \in Nat /\ sources[p].mtime \in Nat
    BY DEF RebuildIInv, RebuildTypeInv, Dated, Binaries
  <2>3. QED
    BY <2>1, <2>2 DEF Newer, Honest
<1>2. QED
  BY RebuildBegun, RebuildKept, <1>1, PTL DEF RebuildSpec, WorksFresh

-----------------------------------------------------------------------------
(* Copying a directory, as Copying has it.                                 *)
FileNames == STRING
Names_    == FileNames \cup {"kept"}

(* q is p or lies below it; all regular files below p have been copied.    *)
Below(q, p) == Len(p) <= Len(q) /\ \A j \in 1 .. Len(p) : q[j] = p[j]
Copies(s, d, p) ==
  \A q \in DOMAIN s : Below(q, p) /\ s[q].type = "file" => q \in DOMAIN d /\ d[q] = s[q]
Copied(p) == Copies(src, dst, p)

Frames    == [path : Seq(FileNames), goal : Seq(FileNames), mark : Nat, children : Seq(Nat)]
Path(n)   == stack[n].path
Goal(n)   == stack[n].goal
Listed(n) == {stack[n].children[j] : j \in 1 .. Len(stack[n].children)}

FilesTypeInv ==
  /\ src \in CopyTrees /\ before \in CopyTargets
  /\ stack \in Seq(Frames)
  /\ temp \in Seq(Names_) /\ ok \in BOOLEAN
  /\ copy_pc \in {"enter", "children", "copy", "return", "done", "aborted"}
  /\ copy_pc # "done" => Len(stack) > 0
  /\ copy_pc \in {"enter", "children", "copy"} => ok

(* What is there stays a tree, with the links and devices it had, and      *)
(* changes only where the copy may reach.                                  *)
TargetInv ==
  /\ F!OthersKept
  /\ \A p \in DOMAIN dst : p \notin {<< >>, F!Outside} => F!Is(F!Front(p), "dir")
  /\ \A p \in DOMAIN dst : p \in DOMAIN before \/ dst[p].type \in {"file", "dir"}

(* A call is at its own path, or where a link has led it.                  *)
GoalsInv ==
  \A n \in 1 .. Len(stack) :
    /\ Goal(n) = Path(n) \/ F!Led(Goal(n))
    /\ F!Plain => Goal(n) = Path(n)

(* The calls in progress go down the tree, one name at a time.             *)
PathsInv ==
  /\ Len(stack) > 0 => Path(1) = << >>
  /\ \A n \in 1 .. Len(stack) : Path(n) \in DOMAIN src
  /\ \A n \in 1 .. Len(stack) : \A m \in 1 .. n : Below(Path(n), Path(m))
  /\ \A n \in 1 .. Len(stack) - 1 : \E x \in F!NamesIn(Path(n)) : Path(n + 1) = Append(Path(n), x)

(* A list's names lie below the mark of every later call, so that its      *)
(* rewind leaves them alone.                                               *)
MarksInv ==
  /\ Len(temp) > 0 /\ temp[1] = "kept"
  /\ Len(stack) > 0 => stack[1].mark = 1
  /\ copy_pc = "done" => temp = F!Kept
  /\ \A n \in 1 .. Len(stack) : stack[n].mark \in 1 .. Len(temp)
  /\ \A n \in 1 .. Len(stack) : \A c \in Listed(n) : c \in 1 .. Len(temp) /\ temp[c] \in F!NamesIn(Path(n))
  /\ \A n \in 1 .. Len(stack) : \A m \in 1 .. n - 1 :
       /\ stack[m].mark <= stack[n].mark
       /\ \A c \in Listed(m) : c <= stack[n].mark

(* A name of a directory is still in its list, or being copied, or all     *)
(* below it has been copied.                                               *)
Claim(n) ==
  /\ src[Path(n)].type = "dir"
  /\ \A x \in F!NamesIn(Path(n)) :
       \/ Copied(Append(Path(n), x))
       \/ \E c \in Listed(n) : temp[c] = x
       \/ n < Len(stack) /\ Path(n + 1) = Append(Path(n), x)

ClaimsInv ==
  ok /\ F!Plain =>
    /\ \A n \in 1 .. Len(stack) : n < Len(stack) \/ copy_pc = "children" => Claim(n)
    /\ copy_pc = "return" => Copied(F!Top.path)
    /\ copy_pc = "done" => Copied(<< >>)

(* The file has what has been read but for what is in the buffer.          *)
CopyingInv ==
  copy_pc = "copy" =>
    LET C == src[F!Top.path].content
        w == copying.at - Len(copying.buf) IN
    /\ copying = [path |-> F!Top.path, goal |-> copying.goal, at |-> copying.at, buf |-> copying.buf]
    /\ src[F!Top.path].type = "file"
    /\ copying.at \in 0 .. Len(C) /\ w \in 0 .. copying.at
    /\ copying.buf = SubSeq(C, w + 1, copying.at)
    /\ F!Reached(copying.goal) /\ copying.goal \in DOMAIN dst
    /\ F!Plain => copying.goal = F!Top.path /\ dst[F!Top.path] = F!File(SubSeq(C, 1, w))

FilesInv ==
  /\ FilesTypeInv /\ TargetInv /\ GoalsInv /\ PathsInv /\ MarksInv /\ ClaimsInv /\ CopyingInv /\ F!CopyFaithful

-----------------------------------------------------------------------------
(* Paths.                                                                  *)
LEMMA FilesLegal ==
  ASSUME F!TreesAreTrees, NEW t \in CopyTrees \cup CopyTargets, NEW p \in DOMAIN t
  PROVE  /\ p \in Seq(FileNames) /\ t[p] \in [type : F!Kinds, content : Seq(Nat), to : Seq(FileNames)]
         /\ p \notin {<< >>, F!Outside} => F!Front(p) \in DOMAIN t /\ t[F!Front(p)].type = "dir"
BY DEF F!TreesAreTrees, F!Nodes, FileNames

(* Nothing of what is copied lies outside it, or is a link somewhere.      *)
LEMMA SourceLegal ==
  ASSUME F!TreesAreTrees, NEW t \in CopyTrees, NEW p \in DOMAIN t
  PROVE  t[p].to = << >> /\ p # F!Outside
<1>1. t[p].to = << >> /\ ".." \notin F!Range(p)
  BY DEF F!TreesAreTrees
<1>2. ".." \in F!Range(<< ".." >>)
  BY DEF F!Range
<1> QED BY <1>1, <1>2 DEF F!Outside

LEMMA BelowTransitive ==
  ASSUME NEW a \in Seq(FileNames), NEW b \in Seq(FileNames), NEW c \in Seq(FileNames), Below(a, b), Below(b, c)
  PROVE  Below(a, c)
<1>1. Len(a) \in Nat /\ Len(b) \in Nat /\ Len(c) \in Nat
  BY LenProperties
<1> QED BY <1>1 DEF Below

LEMMA Appending ==
  ASSUME NEW p \in Seq(FileNames), NEW x \in FileNames
  PROVE  /\ Append(p, x) \in Seq(FileNames) /\ Len(Append(p, x)) = Len(p) + 1 /\ Len(p) \in Nat
         /\ \A j \in 1 .. Len(p) : Append(p, x)[j] = p[j]
         /\ Append(p, x)[Len(p) + 1] = x
         /\ Below(Append(p, x), p)
<1>1. /\ Append(p, x) \in Seq(FileNames) /\ Len(Append(p, x)) = Len(p) + 1 /\ Len(p) \in Nat
      /\ \A j \in 1 .. Len(p) : Append(p, x)[j] = p[j]
      /\ Append(p, x)[Len(p) + 1] = x
  <2>1. Len(p) \in Nat
    BY LenProperties
  <2>2. /\ Append(p, x) \in Seq(FileNames) /\ Len(Append(p, x)) = Len(p) + 1
        /\ \A j \in 1 .. Len(p) : Append(p, x)[j] = p[j]
        /\ Append(p, x)[Len(p) + 1] = x
    BY AppendProperties
  <2> QED BY <2>1, <2>2
<1>2. Len(p) <= Len(Append(p, x))
  BY <1>1
<1> QED BY <1>1, <1>2 DEF Below

LEMMA BelowOne ==
  ASSUME NEW q, NEW p \in Seq(FileNames), NEW x \in FileNames, NEW y \in FileNames,
         Below(q, Append(p, x)), Below(q, Append(p, y))
  PROVE  x = y
<1>1. Len(p) + 1 \in 1 .. Len(Append(p, x)) /\ Len(p) + 1 \in 1 .. Len(Append(p, y))
  BY Appending
<1>2. q[Len(p) + 1] = Append(p, x)[Len(p) + 1] /\ q[Len(p) + 1] = Append(p, y)[Len(p) + 1]
  BY <1>1 DEF Below
<1> QED BY <1>2, Appending

LEMMA BelowSame ==
  ASSUME NEW q \in Seq(FileNames), NEW p \in Seq(FileNames), Below(q, p), ~ Len(q) > Len(p)
  PROVE  q = p
<1>1. Len(q) \in Nat /\ Len(p) \in Nat /\ Len(p) <= Len(q)
  BY LenProperties DEF Below
<1>2. Len(q) = Len(p) /\ \A j \in 1 .. Len(q) : q[j] = p[j]
  BY <1>1 DEF Below
<1> QED BY <1>2, SeqEqual

LEMMA Prefix ==
  ASSUME NEW q \in Seq(FileNames), NEW n \in 0 .. Len(q)
  PROVE  /\ SubSeq(q, 1, n) \in Seq(FileNames) /\ Len(SubSeq(q, 1, n)) = n
         /\ \A j \in 1 .. n : SubSeq(q, 1, n)[j] = q[j]
<1> DEFINE t == SubSeq(q, 1, n)
<1>1. Len(q) \in Nat /\ \A j \in 1 .. n : q[j] \in FileNames
  BY LenProperties, ElementOfSeq
<1>2. /\ t \in Seq(FileNames) /\ Len(t) = (IF 1 <= n THEN n - 1 + 1 ELSE 0)
      /\ \A j \in 1 .. n - 1 + 1 : t[j] = q[1 + j - 1]
  BY <1>1, SubSeqProperties
<1> HIDE DEF t
<1>3. t \in Seq(FileNames) /\ Len(t) = n /\ \A j \in 1 .. n : t[j] = q[j]
  BY <1>1, <1>2
<1> QED BY <1>3 DEF t

(* The directory a path lies in, and its last name.                        *)
LEMMA FrontIs ==
  ASSUME NEW q \in Seq(FileNames), q # << >>
  PROVE  /\ F!Front(q) \in Seq(FileNames) /\ Len(q) > 0 /\ Len(F!Front(q)) = Len(q) - 1
         /\ q[Len(q)] \in FileNames /\ q = Append(F!Front(q), q[Len(q)])
<1>1. Len(q) \in Nat \ {0}
  BY EmptySeq
<1>2. /\ F!Front(q) \in Seq(FileNames) /\ Len(F!Front(q)) = Len(q) - 1
      /\ \A j \in 1 .. Len(q) - 1 : F!Front(q)[j] = q[j]
  <2>1. Len(q) - 1 \in 0 .. Len(q)
    BY <1>1
  <2> QED BY <2>1, Prefix DEF F!Front
<1>3. q[Len(q)] \in FileNames
  BY <1>1, ElementOfSeq
<1> DEFINE a == Append(F!Front(q), q[Len(q)])
<1>4. /\ a \in Seq(FileNames) /\ Len(a) = Len(q)
      /\ \A j \in 1 .. Len(q) - 1 : a[j] = q[j]
      /\ a[Len(q)] = q[Len(q)]
  <2>1. /\ a \in Seq(FileNames) /\ Len(a) = Len(F!Front(q)) + 1
        /\ \A j \in 1 .. Len(F!Front(q)) : a[j] = F!Front(q)[j]
        /\ a[Len(F!Front(q)) + 1] = q[Len(q)]
    BY <1>2, <1>3, Appending
  <2> HIDE DEF a
  <2> QED BY <1>1, <1>2, <2>1
<1> HIDE DEF a
<1>5. \A j \in 1 .. Len(q) : q[j] = a[j]
  BY <1>1, <1>4
<1>6. q = a
  BY <1>4, <1>5, SeqEqual
<1> QED BY <1>1, <1>2, <1>3, <1>6 DEF a

LEMMA NameIn ==
  ASSUME F!TreesAreTrees, src \in CopyTrees, NEW p, NEW x \in F!NamesIn(p)
  PROVE  x \in FileNames /\ p \in Seq(FileNames) /\ Append(p, x) \in DOMAIN src /\ src[p].type = "dir"
<1>1. PICK q \in DOMAIN src : q # << >> /\ F!Front(q) = p /\ x = q[Len(q)]
  BY DEF F!NamesIn
<1>2. q \in Seq(FileNames) /\ src[p].type = "dir"
  BY <1>1, FilesLegal, SourceLegal
<1> QED BY <1>1, <1>2, FrontIs

LEMMA Earliest ==
  ASSUME NEW T \in SUBSET Nat, T # {}
  PROVE  \E n \in T : \A m \in T : ~ (m < n)
<1> DEFINE R == OpToRel(<, Nat)
<1>1. IsWellFoundedOn(R, Nat)
  BY NatLessThanWellFounded
<1>2. \A a, b \in Nat : a < b => << a, b >> \in R
  BY DEF OpToRel
<1> HIDE DEF R
<1>3. PICK n \in T : \A m \in T : ~ (<< m, n >> \in R)
  BY <1>1, WFMin
<1> QED BY <1>2, <1>3

(* A tree holds with a path all its beginnings.                            *)
LEMMA Beginnings ==
  ASSUME F!TreesAreTrees, src \in CopyTrees, NEW q \in DOMAIN src, NEW n \in 0 .. Len(q)
  PROVE  SubSeq(q, 1, n) \in DOMAIN src
<1>0. q \in Seq(FileNames) /\ Len(q) \in Nat
  BY FilesLegal, LenProperties
<1> DEFINE T == {m \in Nat : m <= Len(q) /\ SubSeq(q, 1, Len(q) - m) \notin DOMAIN src}
<1> SUFFICES ASSUME T # {} PROVE FALSE
  <2>1. ASSUME SubSeq(q, 1, n) \notin DOMAIN src PROVE FALSE
    <3>1. Len(q) - n \in Nat /\ Len(q) - n <= Len(q) /\ Len(q) - (Len(q) - n) = n
      BY <1>0
    <3> QED BY <2>1, <3>1
  <2> QED BY <2>1
<1>1. PICK m \in T : \A l \in T : ~ (l < m)
  <2>1. T \in SUBSET Nat
    OBVIOUS
  <2> HIDE DEF T
  <2> QED BY <2>1, Earliest
<1>2. m \in Nat /\ m <= Len(q) /\ SubSeq(q, 1, Len(q) - m) \notin DOMAIN src
  OBVIOUS
<1>3. m # 0
  <2>1. SubSeq(q, 1, Len(q)) = q
    BY <1>0, SubSeqFull
  <2>2. Len(q) - 0 = Len(q)
    BY <1>0
  <2> HIDE DEF T
  <2> QED BY <2>1, <2>2, <1>2
<1> DEFINE r == SubSeq(q, 1, Len(q) - (m - 1))
<1>4. r \in DOMAIN src
  BY <1>0, <1>1, <1>2, <1>3
<1>5. /\ Len(q) - (m - 1) \in 1 .. Len(q) /\ Len(q) - (m - 1) \in 0 .. Len(q)
      /\ (Len(q) - (m - 1)) - 1 = Len(q) - m /\ Len(q) - m \in 0 .. Len(q)
  BY <1>0, <1>2, <1>3
<1>6. r \in Seq(FileNames) /\ Len(r) = Len(q) - (m - 1) /\ \A j \in 1 .. Len(r) : r[j] = q[j]
  BY <1>0, <1>5, Prefix
<1>7. r # << >>
  <2>1. Len(<< >>) = 0
    BY EmptySeq
  <2> HIDE DEF r
  <2> QED BY <2>1, <1>5, <1>6
<1>8. F!Front(r) = SubSeq(r, 1, Len(q) - m)
  <2> HIDE DEF r
  <2> QED BY <1>5, <1>6 DEF F!Front
<1>9. SubSeq(r, 1, Len(q) - m) = SubSeq(q, 1, Len(q) - m)
  <2> HIDE DEF r
  <2>1. Len(q) - m \in 0 .. Len(r)
    BY <1>5, <1>6
  <2>2. /\ SubSeq(r, 1, Len(q) - m) \in Seq(FileNames) /\ Len(SubSeq(r, 1, Len(q) - m)) = Len(q) - m
        /\ \A j \in 1 .. Len(q) - m : SubSeq(r, 1, Len(q) - m)[j] = r[j]
    BY <2>1, <1>6, Prefix
  <2>3. /\ SubSeq(q, 1, Len(q) - m) \in Seq(FileNames) /\ Len(SubSeq(q, 1, Len(q) - m)) = Len(q) - m
        /\ \A j \in 1 .. Len(q) - m : SubSeq(q, 1, Len(q) - m)[j] = q[j]
    BY <1>5, <1>0, Prefix
  <2>4. \A j \in 1 .. Len(q) - m : j \in 1 .. Len(r)
    BY <1>5, <1>6
  <2>5. \A j \in 1 .. Len(q) - m : SubSeq(r, 1, Len(q) - m)[j] = SubSeq(q, 1, Len(q) - m)[j]
    BY <2>2, <2>3, <2>4, <1>6
  <2> QED BY <2>2, <2>3, <2>5, SeqEqual
<1>10. F!Front(r) \in DOMAIN src
  BY <1>4, <1>7, FilesLegal, SourceLegal
<1> QED BY <1>2, <1>8, <1>9, <1>10

(* What lies below p, and is not p, lies below one of its names.           *)
LEMMA NextDown ==
  ASSUME F!TreesAreTrees, src \in CopyTrees, NEW q \in DOMAIN src, NEW p \in Seq(FileNames),
         Below(q, p), Len(q) > Len(p)
  PROVE  \E x \in F!NamesIn(p) : Below(q, Append(p, x))
<1> DEFINE r == SubSeq(q, 1, Len(p) + 1)
           x == q[Len(p) + 1]
<1>0. q \in Seq(FileNames) /\ Len(q) \in Nat /\ Len(p) \in Nat /\ Len(p) + 1 \in 1 .. Len(q)
      /\ Len(p) + 1 \in 0 .. Len(q)
  BY FilesLegal, LenProperties
<1>1. r \in DOMAIN src
  BY <1>0, Beginnings
<1>2. r \in Seq(FileNames) /\ Len(r) = Len(p) + 1 /\ \A j \in 1 .. Len(p) + 1 : r[j] = q[j]
  BY <1>0, Prefix
<1>3. x \in FileNames
  BY <1>0, ElementOfSeq
<1> HIDE DEF r
<1>4. r # << >> /\ r[Len(r)] = x
  <2>1. Len(<< >>) = 0
    BY EmptySeq
  <2> QED BY <2>1, <1>0, <1>2
<1>5. F!Front(r) = p
  <2>1. Len(p) \in 0 .. Len(r) /\ Len(r) - 1 = Len(p)
    BY <1>0, <1>2
  <2>2. /\ F!Front(r) \in Seq(FileNames) /\ Len(F!Front(r)) = Len(p)
        /\ \A j \in 1 .. Len(p) : F!Front(r)[j] = r[j]
    BY <2>1, <1>2, Prefix DEF F!Front
  <2>3. \A j \in 1 .. Len(p) : F!Front(r)[j] = p[j]
    BY <2>2, <1>0, <1>2 DEF Below
  <2> QED BY <2>2, <2>3, SeqEqual
<1>6. x \in F!NamesIn(p)
  BY <1>1, <1>4, <1>5 DEF F!NamesIn
<1>7. Below(q, Append(p, x))
  <2>1. /\ Len(Append(p, x)) = Len(p) + 1 /\ \A j \in 1 .. Len(p) : Append(p, x)[j] = p[j]
        /\ Append(p, x)[Len(p) + 1] = x
    BY <1>3, Appending
  <2> QED BY <2>1, <1>0 DEF Below
<1> QED BY <1>6, <1>7

(* Only p itself lies below p if p is no directory.                        *)
LEMMA LeafAlone ==
  ASSUME F!TreesAreTrees, src \in CopyTrees, NEW q \in DOMAIN src, NEW p \in Seq(FileNames),
         Below(q, p), src[p].type # "dir"
  PROVE  q = p
<1>1. q \in Seq(FileNames)
  BY FilesLegal
<1>2. CASE Len(q) > Len(p)
  <2>1. PICK x \in F!NamesIn(p) : TRUE
    BY <1>2, NextDown
  <2> QED BY <2>1, NameIn
<1>3. CASE ~ Len(q) > Len(p)
  BY <1>1, <1>3, BelowSame
<1> QED BY <1>2, <1>3

LEMMA SameCounts == \A S : (F!IsFiniteSet(S) <=> IsFiniteSet(S)) /\ F!Cardinality(S) = Cardinality(S)
BY DEF F!IsFiniteSet, IsFiniteSet, F!Cardinality, Cardinality

(* A directory read in any order gives all its names.                      *)
LEMMA AllNames ==
  ASSUME F!TreesAreTrees, src \in CopyTrees, NEW p, NEW names \in F!SetToSeqs(F!NamesIn(p))
  PROVE  /\ names \in Seq(F!NamesIn(p)) /\ Len(names) = Cardinality(F!NamesIn(p))
         /\ Cardinality(F!NamesIn(p)) \in Nat
         /\ \A x \in F!NamesIn(p) : \E j \in 1 .. Len(names) : names[j] = x
<1> DEFINE N == F!NamesIn(p)
           P == {q \in DOMAIN src : q # << >> /\ F!Front(q) = p}
           g == [q \in P |-> q[Len(q)]]
<1>1. IsFiniteSet(P)
  <2>1. IsFiniteSet(DOMAIN src)
    BY SameCounts DEF F!TreesAreTrees
  <2> QED BY <2>1, FS_Subset
<1>2. N = {q[Len(q)] : q \in P}
  BY DEF F!NamesIn
<1> HIDE DEF N, P
<1>3. g \in Surjection(P, N)
  BY <1>2 DEF Surjection
<1>4. IsFiniteSet(N)
  BY <1>1, <1>3, FS_Surjection
<1>5. Cardinality(N) \in Nat
  BY <1>4, FS_CardinalityType
<1> DEFINE D == 1 .. Cardinality(N)
<1>6. names \in [D -> N] /\ \A j, k \in D : j # k => names[j] # names[k]
  BY SameCounts DEF F!SetToSeqs, N
<1>7. names \in Injection(D, N)
  BY <1>6 DEF Injection, IsInjective
<1>8. Cardinality(D) = Cardinality(N)
  BY <1>5, FS_Interval
<1>9. names \in Surjection(D, N)
  <2> HIDE DEF D
  <2> QED BY <1>4, <1>7, <1>8, FS_Injection
<1>10. names \in Seq(N)
  BY <1>5, <1>6, SeqDef
<1>11. Len(names) = Cardinality(N)
  <2>1. Len(names) \in Nat /\ 1 .. Len(names) = 1 .. Cardinality(N)
    BY <1>6, <1>10, LenProperties
  <2> QED BY <2>1, <1>5
<1>12. \A x \in N : \E j \in D : names[j] = x
  BY <1>9 DEF Surjection
<1> QED BY <1>5, <1>10, <1>11, <1>12 DEF N

-----------------------------------------------------------------------------
(* The steps.                                                              *)
LEMMA StackIs ==
  ASSUME F!TreesAreTrees, FilesInv, copy_pc # "done"
  PROVE  /\ Len(stack) \in Nat \ {0} /\ Len(stack) \in 1 .. Len(stack)
         /\ F!Top = stack[Len(stack)] /\ F!Top.path = Path(Len(stack)) /\ F!Top.goal = Goal(Len(stack))
         /\ \A n \in 1 .. Len(stack) :
              /\ stack[n] \in Frames /\ Path(n) \in Seq(FileNames) /\ Path(n) \in DOMAIN src
              /\ Goal(n) \in Seq(FileNames)
              /\ stack[n].mark \in Nat /\ stack[n].children \in Seq(Nat)
         /\ src \in CopyTrees /\ before \in CopyTargets
<1>1. Len(stack) \in Nat \ {0} /\ stack \in Seq(Frames) /\ src \in CopyTrees /\ before \in CopyTargets
  BY LenProperties DEF FilesInv, FilesTypeInv
<1>2. F!Top = stack[Len(stack)] /\ F!Top.path = Path(Len(stack)) /\ F!Top.goal = Goal(Len(stack))
  BY DEF F!Top, Path, Goal
<1>3. \A n \in 1 .. Len(stack) : stack[n] \in Frames
  BY <1>1, ElementOfSeq
<1>4. \A n \in 1 .. Len(stack) :
        /\ Path(n) \in Seq(FileNames) /\ Goal(n) \in Seq(FileNames)
        /\ stack[n].mark \in Nat /\ stack[n].children \in Seq(Nat)
  BY <1>3 DEF Frames, Path, Goal
<1>5. \A n \in 1 .. Len(stack) : Path(n) \in DOMAIN src
  BY DEF FilesInv, PathsInv
<1>6. Len(stack) \in 1 .. Len(stack)
  BY <1>1
<1> QED BY <1>1, <1>2, <1>3, <1>4, <1>5, <1>6

(* Where the copy may reach is settled when it begins.                     *)
LEMMA Settled_ ==
  ASSUME UNCHANGED <<src, before>>
  PROVE  (F!Plain' <=> F!Plain) /\ \A p : (F!Led(p)' <=> F!Led(p)) /\ (F!Reached(p)' <=> F!Reached(p))
BY DEF F!Plain, F!Led, F!Reached, F!Followed, F!Ends, F!Below

(* A link that the last call is at leads where the copy may reach.         *)
LEMMA LeadReached ==
  ASSUME F!TreesAreTrees, FilesInv, copy_pc # "done"
  PROVE  LET g == Goal(Len(stack)) IN
         /\ F!Reached(g) /\ F!Reached(F!Lead(g)) /\ F!Lead(g) \in Seq(FileNames)
         /\ F!Lead(g) = Path(Len(stack)) \/ F!Led(F!Lead(g))
         /\ F!Plain => g = Path(Len(stack)) /\ F!Lead(g) = Path(Len(stack))
<1> DEFINE g == Goal(Len(stack))
           p == Path(Len(stack))
<1>1. /\ g \in Seq(FileNames) /\ p \in DOMAIN src /\ before \in CopyTargets
      /\ g = p \/ F!Led(g)
      /\ F!Plain => g = p
  BY StackIs DEF FilesInv, GoalsInv
<1> HIDE DEF g, p
<1>2. CASE F!Is(g, "link")
  <2>1. g \in DOMAIN dst /\ dst[g].type = "link"
    BY <1>2 DEF F!Is, F!Exists
  <2>2. g \in DOMAIN before
    BY <2>1 DEF FilesInv, TargetInv
  <2>3. dst[g] = before[g]
    BY <2>1, <2>2 DEF FilesInv, TargetInv, F!OthersKept
  <2>4. F!Lead(g) = before[g].to /\ before[g].type = "link"
    BY <1>2, <2>1, <2>3 DEF F!Lead
  <2>5. g \in F!Followed
    <3>1. CASE g = p
      BY <1>1, <2>2, <2>4, <3>1 DEF F!Followed
    <3>2. CASE F!Led(g)
      <4>1. PICK l \in F!Followed : F!Below(g, before[l].to)
        BY <3>2 DEF F!Led
      <4>2. before[l].to \in F!Ends
        BY DEF F!Ends, F!Followed
      <4> QED BY <2>2, <2>4, <4>1, <4>2 DEF F!Followed
    <3> QED BY <1>1, <3>1, <3>2
  <2>6. before[g].to \in Seq(FileNames)
    <3>1. before[g] \in [type : F!Kinds, content : Seq(Nat), to : Seq(FileNames)]
      BY <1>1, <2>2, FilesLegal
    <3> QED BY <3>1
  <2>7. F!Below(before[g].to, before[g].to)
    <3>1. Len(before[g].to) \in Nat
      BY <2>6, LenProperties
    <3> QED BY <3>1 DEF F!Below
  <2>8. F!Led(F!Lead(g))
    BY <2>4, <2>5, <2>7 DEF F!Led
  <2>9. ~ F!Plain
    BY <1>1, <2>2, <2>4 DEF F!Plain
  <2> QED BY <1>1, <2>4, <2>6, <2>8, <2>9 DEF F!Reached, g, p
<1>3. CASE ~ F!Is(g, "link")
  <2>1. F!Lead(g) = g
    BY <1>3 DEF F!Lead
  <2> QED BY <1>1, <2>1 DEF F!Reached, g, p
<1> QED BY <1>2, <1>3

(* Only what path p stands for changes.                                    *)
Steady(d, e, p) == \A q \in DOMAIN d : q # p => q \in DOMAIN e /\ e[q] = d[q]

LEMMA CopiedElsewhere ==
  ASSUME NEW s, NEW d, NEW e, NEW q, Steady(d, e, q), NEW p, ~ Below(q, p), Copies(s, d, p)
  PROVE  Copies(s, e, p)
BY DEF Copies, Steady

(* What is being copied lies below the name that each list is at.          *)
LEMMA CopiedBeside ==
  ASSUME F!TreesAreTrees, FilesInv, copy_pc # "done", UNCHANGED src, Steady(dst, dst', Path(Len(stack))),
         NEW n \in 1 .. Len(stack) - 1, NEW x \in F!NamesIn(Path(n)), Copied(Append(Path(n), x)),
         Path(n + 1) # Append(Path(n), x)
  PROVE  Copies(src', dst', Append(Path(n), x))
<1>1. /\ n \in 1 .. Len(stack) /\ n + 1 \in 1 .. Len(stack) /\ Len(stack) \in 1 .. Len(stack)
      /\ src \in CopyTrees /\ Path(n) \in Seq(FileNames)
  BY StackIs
<1>2. PICK y \in F!NamesIn(Path(n)) : Path(n + 1) = Append(Path(n), y)
  BY DEF FilesInv, PathsInv
<1>3. Below(Path(Len(stack)), Append(Path(n), y))
  BY <1>1, <1>2 DEF FilesInv, PathsInv
<1>4. x \in FileNames /\ y \in FileNames
  BY <1>1, NameIn
<1>5. ~ Below(Path(Len(stack)), Append(Path(n), x))
  BY <1>1, <1>2, <1>3, <1>4, BelowOne
<1> QED BY <1>5, CopiedElsewhere DEF Copied

LEMMA ClaimKept ==
  ASSUME UNCHANGED src, NEW n, Claim(n), Path(n)' = Path(n), Listed(n)' = Listed(n),
         \A c \in Listed(n) : temp'[c] = temp[c],
         n < Len(stack) => n < Len(stack') /\ Path(n + 1)' = Path(n + 1),
         \A x \in F!NamesIn(Path(n)) :
           Copied(Append(Path(n), x)) =>
             Copies(src', dst', Append(Path(n), x)) \/ (n < Len(stack) /\ Path(n + 1) = Append(Path(n), x))
  PROVE  Claim(n)'
<1>1. \A p : F!NamesIn(p)' = F!NamesIn(p)
  BY DEF F!NamesIn
<1>2. src'[Path(n)'].type = "dir"
  BY DEF Claim
<1>3. ASSUME NEW x \in F!NamesIn(Path(n))
      PROVE  \/ Copies(src', dst', Append(Path(n), x))
             \/ \E c \in Listed(n)' : temp'[c] = x
             \/ n < Len(stack') /\ Path(n + 1)' = Append(Path(n), x)
  BY <1>3 DEF Claim
<1> QED BY <1>1, <1>2, <1>3 DEF Claim, Copied

(* The claims of all lists but the last one.                               *)
LEMMA LowerClaims ==
  ASSUME F!TreesAreTrees, FilesInv, copy_pc # "done", ok, F!Plain, UNCHANGED src,
         Steady(dst, dst', Path(Len(stack))), Len(stack') >= Len(stack), \A n \in 1 .. Len(stack) : Path(n)' = Path(n),
         \A n \in 1 .. Len(stack) - 1 : Listed(n)' = Listed(n),
         \A c \in 1 .. Len(temp) : temp'[c] = temp[c]
  PROVE  \A n \in 1 .. Len(stack) - 1 : Claim(n)'
<1> SUFFICES ASSUME NEW n \in 1 .. Len(stack) - 1 PROVE Claim(n)'
  OBVIOUS
<1>1. n \in 1 .. Len(stack) /\ n + 1 \in 1 .. Len(stack) /\ n < Len(stack)
  BY StackIs
<1>2. Claim(n)
  BY <1>1 DEF FilesInv, ClaimsInv
<1>3. \A c \in Listed(n) : temp'[c] = temp[c]
  BY <1>1 DEF FilesInv, MarksInv
<1>4. n < Len(stack')
  BY <1>1
<1>5. \A x \in F!NamesIn(Path(n)) :
        Copied(Append(Path(n), x)) =>
          Copies(src', dst', Append(Path(n), x)) \/ Path(n + 1) = Append(Path(n), x)
  BY CopiedBeside
<1> QED BY <1>1, <1>2, <1>3, <1>4, <1>5, ClaimKept

(* A step that leaves the calls and the names as they are.                 *)
LEMMA QuietStep ==
  ASSUME F!TreesAreTrees, FilesInv, copy_pc \notin {"done", "return", "aborted"},
         UNCHANGED <<src, before, stack, temp>>, F!Plain => Steady(dst, dst', Path(Len(stack))),
         copy_pc' \in {"enter", "copy", "return", "aborted"}, ok' \in BOOLEAN,
         copy_pc' \in {"enter", "copy"} => ok',
         TargetInv', CopyingInv',
         ok' /\ F!Plain /\ copy_pc' = "return" => Copies(src', dst', Path(Len(stack)))
  PROVE  FilesInv'
<1>0. ok
  BY DEF FilesInv, FilesTypeInv
<1>1. FilesTypeInv'
  <2>1. copy_pc' # "done" /\ copy_pc' # "children" /\ copy_pc # "done"
    OBVIOUS
  <2>2. Len(stack') > 0
    BY <2>1 DEF FilesInv, FilesTypeInv
  <2> QED BY <2>1, <2>2 DEF FilesInv, FilesTypeInv
<1>2. \A p : F!NamesIn(p)' = F!NamesIn(p)
  BY DEF F!NamesIn
<1>3. \A n : Path(n)' = Path(n) /\ Goal(n)' = Goal(n) /\ Listed(n)' = Listed(n)
  BY DEF Path, Goal, Listed
<1>4. PathsInv'
  BY <1>2, <1>3 DEF FilesInv, PathsInv
<1>5. MarksInv'
  BY <1>2, <1>3 DEF FilesInv, MarksInv
<1>6. ClaimsInv'
  <2> SUFFICES ASSUME F!Plain PROVE ClaimsInv'
    BY Settled_ DEF ClaimsInv
  <2>1. \A n \in 1 .. Len(stack) - 1 : Claim(n)'
    BY <1>0, <1>3, LowerClaims, StackIs
  <2>2. Len(stack) \in Nat /\ \A n \in 1 .. Len(stack) : n < Len(stack) => n \in 1 .. Len(stack) - 1
    BY StackIs
  <2>3. F!Top'.path = Path(Len(stack))
    BY StackIs DEF F!Top
  <2>4. ok' /\ copy_pc' = "return" => Copied(F!Top.path)'
    BY <2>3 DEF Copied
  <2> QED BY <2>1, <2>2, <2>4 DEF ClaimsInv
<1>7. F!CopyFaithful'
  BY DEF F!CopyFaithful, TargetInv
<1>8. GoalsInv'
  BY <1>3, Settled_ DEF FilesInv, GoalsInv
<1> QED BY <1>1, <1>4, <1>5, <1>6, <1>7, <1>8 DEF FilesInv

(* A file or a directory made where there may be one.                      *)
LEMMA TargetWith ==
  ASSUME F!TreesAreTrees, FilesInv, NEW p, F!Reached(p), NEW node, node.type \in {"file", "dir"},
         dst' = F!With(p, node), UNCHANGED <<src, before>>, p \in DOMAIN dst \/ F!MayCreate(p),
         p \in DOMAIN dst => dst[p].type = "file" /\ node.type = "file"
  PROVE  TargetInv' /\ Steady(dst, dst', p) /\ p \in DOMAIN dst' /\ dst'[p] = node
<1>0. TargetInv
  BY DEF FilesInv
<1>1. /\ DOMAIN dst' = DOMAIN dst \cup {p} /\ dst'[p] = node
      /\ \A q \in DOMAIN dst : q # p => dst'[q] = dst[q]
  BY DEF F!With
<1>2. \A q : F!Reached(q)' <=> F!Reached(q)
  BY Settled_
<1>3. ASSUME NEW q \in DOMAIN dst', q \notin {<< >>, F!Outside}
      PROVE  F!Front(q) \in DOMAIN dst' /\ dst'[F!Front(q)].type = "dir"
  <2>1. F!Front(q) \in DOMAIN dst /\ dst[F!Front(q)].type = "dir"
    <3>1. CASE q \in DOMAIN dst
      BY <3>1, <1>0, <1>3 DEF TargetInv, F!Is, F!Exists
    <3>2. CASE q \notin DOMAIN dst
      BY <3>2, <1>1, <1>3 DEF F!MayCreate, F!Is, F!Exists
    <3> QED BY <3>1, <3>2
  <2> QED BY <2>1, <1>1
<1>4. \A q \in DOMAIN dst' : q \in DOMAIN before \/ F!Reached(q)
  BY <1>0, <1>1 DEF TargetInv, F!OthersKept
<1>5. ASSUME NEW q \in DOMAIN before
      PROVE  /\ q \in DOMAIN dst'
             /\ dst'[q] = before[q] \/ (before[q].type = "file" /\ dst'[q].type = "file" /\ F!Reached(q))
  <2>1. q \in DOMAIN dst
    BY <1>0 DEF TargetInv, F!OthersKept, F!Exists
  <2>2. dst[q] = before[q] \/ (before[q].type = "file" /\ dst[q].type = "file" /\ F!Reached(q))
    BY <1>0 DEF TargetInv, F!OthersKept
  <2> QED BY <1>1, <2>1, <2>2
<1>6. \A q \in DOMAIN dst' : q \in DOMAIN before \/ dst'[q].type \in {"file", "dir"}
  BY <1>0, <1>1 DEF TargetInv
<1>7. F!OthersKept'
  BY <1>2, <1>4, <1>5 DEF F!OthersKept, F!Exists
<1>8. \A q \in DOMAIN dst' : q \notin {<< >>, F!Outside} => F!Is(F!Front(q), "dir")'
  BY <1>3 DEF F!Is, F!Exists
<1>9. TargetInv'
  BY <1>6, <1>7, <1>8 DEF TargetInv
<1> QED BY <1>1, <1>9 DEF Steady

LEMMA Unchanged_ ==
  ASSUME FilesInv, UNCHANGED <<src, before, dst>>, NEW p
  PROVE  TargetInv' /\ Steady(dst, dst', p)
<1>1. F!OthersKept'
  BY Settled_ DEF FilesInv, TargetInv, F!OthersKept, F!Exists
<1> QED BY <1>1 DEF FilesInv, TargetInv, Steady, F!Is, F!Exists

LEMMA FilesEnterOther ==
  ASSUME F!TreesAreTrees, FilesInv, F!Enter_other
  PROVE  FilesInv'
<1>1. /\ copy_pc = "enter" /\ UNCHANGED <<src, dst, before, stack, temp, copying>>
      /\ copy_pc' \in {"return", "aborted"} /\ ok' \in BOOLEAN
      /\ ok' /\ copy_pc' = "return" => src[F!Top.path].type = "link"
  BY DEF F!Enter_other, F!Return_, FilesInv, FilesTypeInv
<1>2. TargetInv' /\ Steady(dst, dst', Path(Len(stack)))
  BY <1>1, Unchanged_
<1>3. ASSUME ok', copy_pc' = "return" PROVE Copies(src', dst', Path(Len(stack)))
  <2>1. src[Path(Len(stack))].type = "link" /\ Path(Len(stack)) \in Seq(FileNames) /\ src \in CopyTrees
    BY <1>1, <1>3, StackIs
  <2>2. \A q \in DOMAIN src : Below(q, Path(Len(stack))) => q = Path(Len(stack))
    BY <2>1, LeafAlone
  <2>3. Copied(Path(Len(stack)))
    BY <2>1, <2>2 DEF Copied, Copies
  <2> QED BY <2>3, <1>1 DEF Copied
<1>4. CopyingInv'
  BY <1>1 DEF CopyingInv
<1> QED BY <1>1, <1>2, <1>3, <1>4, QuietStep

LEMMA FilesLastChild ==
  ASSUME F!TreesAreTrees, FilesInv, F!LastChild
  PROVE  FilesInv'
<1>1. /\ copy_pc = "children" /\ UNCHANGED <<src, dst, before, stack, temp, copying>>
      /\ copy_pc' = "return" /\ ok' = TRUE /\ F!Top.children = << >>
  BY DEF F!LastChild, F!Return_
<1>2. TargetInv' /\ Steady(dst, dst', Path(Len(stack)))
  BY <1>1, Unchanged_
<1>3. ASSUME F!Plain PROVE Copies(src', dst', Path(Len(stack)))
  <2> DEFINE p == Path(Len(stack))
  <2>1. /\ p \in Seq(FileNames) /\ src \in CopyTrees /\ Claim(Len(stack)) /\ Len(stack) \in Nat
        /\ stack[Len(stack)].children = << >>
    BY <1>1, <1>3, StackIs DEF FilesInv, FilesTypeInv, ClaimsInv
  <2>2. Listed(Len(stack)) = {}
    <3>1. Len(<< >>) = 0
      BY EmptySeq
    <3> QED BY <3>1, <2>1 DEF Listed
  <2>3. \A x \in F!NamesIn(p) : Copied(Append(p, x))
    BY <2>1, <2>2 DEF Claim
  <2>4. src[p].type = "dir"
    BY <2>1 DEF Claim
  <2> HIDE DEF p
  <2>5. ASSUME NEW q \in DOMAIN src, Below(q, p), src[q].type = "file"
        PROVE  q \in DOMAIN dst /\ dst[q] = src[q]
    <3>1. q \in Seq(FileNames) /\ q # p
      BY <2>1, <2>4, <2>5, FilesLegal
    <3>2. Len(q) > Len(p)
      BY <2>1, <2>5, <3>1, BelowSame
    <3>3. PICK x \in F!NamesIn(p) : Below(q, Append(p, x))
      BY <2>1, <2>5, <3>2, NextDown
    <3> QED BY <2>3, <2>5, <3>3 DEF Copied, Copies
  <2>6. Copied(p)
    BY <2>5 DEF Copied, Copies
  <2> QED BY <2>6, <1>1 DEF p, Copied
<1>4. CopyingInv'
  BY <1>1 DEF CopyingInv
<1> QED BY <1>1, <1>2, <1>3, <1>4, QuietStep

(* Pieces of a file.                                                       *)
LEMMA PieceOf ==
  ASSUME NEW C \in Seq(Nat), NEW a \in Nat, NEW b \in Nat, a <= b, b <= Len(C)
  PROVE  SubSeq(C, a + 1, b) \in Seq(Nat) /\ Len(SubSeq(C, a + 1, b)) = b - a
<1> DEFINE t == SubSeq(C, a + 1, b)
<1>1. Len(C) \in Nat /\ a + 1 \in Int
  BY LenProperties
<1>2. \A j \in a + 1 .. b : C[j] \in Nat
  BY <1>1, ElementOfSeq
<1>3. t \in Seq(Nat) /\ Len(t) = (IF a + 1 <= b THEN b - (a + 1) + 1 ELSE 0)
  BY <1>1, <1>2, SubSeqProperties
<1> HIDE DEF t
<1>4. t \in Seq(Nat) /\ Len(t) = b - a
  BY <1>3
<1> QED BY <1>4 DEF t

LEMMA PieceCut ==
  ASSUME NEW C \in Seq(Nat), NEW w \in Nat, NEW at \in Nat, w <= at, at <= Len(C), NEW m \in 1 .. at - w
  PROVE  /\ SubSeq(SubSeq(C, w + 1, at), m + 1, at - w) = SubSeq(C, w + m + 1, at)
         /\ SubSeq(C, 1, w) \o SubSeq(SubSeq(C, w + 1, at), 1, m) = SubSeq(C, 1, w + m)
<1>1. Len(C) \in Nat
  BY LenProperties
<1>2. w + 1 \in 1 .. Len(C) /\ at \in 1 .. Len(C) /\ at - (w + 1) + 1 = at - w
  BY <1>1
<1>3. ASSUME NEW j \in 1 .. at - w, NEW l \in 1 .. at - w
      PROVE  SubSeq(SubSeq(C, w + 1, at), j, l) = SubSeq(C, (w + 1) + j - 1, (w + 1) + l - 1)
  BY <1>2, SubSeqOfSubSeq
<1>4. SubSeq(SubSeq(C, w + 1, at), m + 1, at - w) = SubSeq(C, w + m + 1, at)
  <2>1. CASE m = at - w
    <3>1. at - w < m + 1 /\ m + 1 \in Int /\ at - w \in Int /\ at < w + m + 1 /\ w + m + 1 \in Int
      BY <2>1
    <3>2. SubSeq(SubSeq(C, w + 1, at), m + 1, at - w) = << >> /\ SubSeq(C, w + m + 1, at) = << >>
      BY <3>1, SubSeqEmpty
    <3> QED BY <3>2
  <2>2. CASE m # at - w
    <3>1. /\ m + 1 \in 1 .. at - w /\ at - w \in 1 .. at - w
          /\ (w + 1) + (m + 1) - 1 = w + m + 1 /\ (w + 1) + (at - w) - 1 = at
      BY <2>2
    <3>2. SubSeq(SubSeq(C, w + 1, at), m + 1, at - w)
            = SubSeq(C, (w + 1) + (m + 1) - 1, (w + 1) + (at - w) - 1)
      BY <3>1, <1>3
    <3> QED BY <3>1, <3>2
  <2> QED BY <2>1, <2>2
<1>5. SubSeq(SubSeq(C, w + 1, at), 1, m) = SubSeq(C, w + 1, w + m)
  <2>1. 1 \in 1 .. at - w /\ (w + 1) + 1 - 1 = w + 1 /\ (w + 1) + m - 1 = w + m
    OBVIOUS
  <2>2. SubSeq(SubSeq(C, w + 1, at), 1, m) = SubSeq(C, (w + 1) + 1 - 1, (w + 1) + m - 1)
    BY <2>1, <1>3
  <2> QED BY <2>1, <2>2
<1>6. SubSeq(C, 1, w) \o SubSeq(C, w + 1, w + m) = SubSeq(C, 1, w + m)
  <2>1. 1 \in 1 .. Len(C) + 1 /\ w \in 1 - 1 .. Len(C) /\ w + m \in w .. Len(C)
    BY <1>1
  <2> QED BY <2>1, ConcatAdjacentSubSeq
<1> QED BY <1>4, <1>5, <1>6

LEMMA CopyingOf ==
  ASSUME NEW p, NEW g, NEW a, NEW b, NEW c, NEW r, r = [path |-> p, goal |-> g, at |-> a, buf |-> b]
  PROVE  [r EXCEPT !.buf = c] = [path |-> p, goal |-> g, at |-> a, buf |-> c]
OBVIOUS

LEMMA NodeIs ==
  ASSUME NEW a
  PROVE  F!File(a).type = "file" /\ F!File(a).content = a /\ F!Dir.type = "dir"
BY DEF F!File, F!Dir, F!Node

(* A file that is opened, and one that has grown.                          *)
LEMMA TargetOpened ==
  ASSUME F!TreesAreTrees, FilesInv, NEW p, F!Reached(p), p \in DOMAIN dst \/ F!MayCreate(p),
         ~ F!Is(p, "dir"), dst' = F!Opened(p), UNCHANGED <<src, before>>
  PROVE  /\ TargetInv' /\ Steady(dst, dst', p) /\ p \in DOMAIN dst'
         /\ F!Plain /\ p \in DOMAIN src => dst'[p] = F!File(<< >>)
<1>1. CASE F!Exists(p) /\ ~ F!Is(p, "file")
  <2>1. dst' = dst /\ p \in DOMAIN dst /\ dst[p].type \notin {"file", "dir"}
    BY <1>1 DEF F!Opened, F!Exists, F!Is
  <2>2. p \in DOMAIN before
    BY <2>1 DEF FilesInv, TargetInv
  <2>3. dst[p] = before[p]
    BY <2>1, <2>2 DEF FilesInv, TargetInv, F!OthersKept
  <2>4. ~ (F!Plain /\ p \in DOMAIN src)
    BY <2>1, <2>2, <2>3 DEF F!Plain
  <2> QED BY <2>1, <2>4, Unchanged_
<1>2. CASE ~ (F!Exists(p) /\ ~ F!Is(p, "file"))
  <2>1. dst' = F!With(p, F!File(<< >>)) /\ (p \in DOMAIN dst => dst[p].type = "file")
    BY <1>2 DEF F!Opened, F!Exists, F!Is
  <2>2. F!File(<< >>).type = "file"
    BY NodeIs
  <2> QED BY <2>1, <2>2, TargetWith
<1> QED BY <1>1, <1>2

LEMMA TargetGrown ==
  ASSUME F!TreesAreTrees, FilesInv, NEW p, F!Reached(p), NEW piece, dst' = F!Grown(p, piece),
         UNCHANGED <<src, before>>, p \in DOMAIN dst
  PROVE  /\ TargetInv' /\ Steady(dst, dst', p) /\ p \in DOMAIN dst'
         /\ \A was : dst[p] = F!File(was) => dst'[p] = F!File(was \o piece)
<1>1. CASE ~ F!Is(p, "file")
  <2>1. dst' = dst /\ dst[p].type # "file"
    BY <1>1 DEF F!Grown, F!Is, F!Exists
  <2>2. \A was : dst[p] # F!File(was)
    BY <2>1, NodeIs
  <2> QED BY <2>1, <2>2, Unchanged_
<1>2. CASE F!Is(p, "file")
  <2> DEFINE node == F!File(dst[p].content \o piece)
  <2>1. dst' = F!With(p, node) /\ dst[p].type = "file" /\ node.type = "file"
    BY <1>2, NodeIs DEF F!Grown, F!Is, F!Exists
  <2>2. ASSUME NEW was, dst[p] = F!File(was) PROVE node = F!File(was \o piece)
    BY <2>2, NodeIs
  <2> HIDE DEF node
  <2>3. TargetInv' /\ Steady(dst, dst', p) /\ p \in DOMAIN dst' /\ dst'[p] = node
    BY <2>1, TargetWith
  <2> QED BY <2>2, <2>3
<1> QED BY <1>1, <1>2

LEMMA FilesEnterFile ==
  ASSUME F!TreesAreTrees, FilesInv, F!Enter_file
  PROVE  FilesInv'
<1> DEFINE p == Path(Len(stack))
           g == F!Lead(Goal(Len(stack)))
<1>1. /\ copy_pc = "enter" /\ UNCHANGED <<src, before, stack, temp>>
      /\ F!Top.path = p /\ F!Top.goal = Goal(Len(stack)) /\ src[p].type = "file" /\ p \in DOMAIN src
      /\ copy_pc' \in {"copy", "return"} /\ ok' \in BOOLEAN
      /\ src \in CopyTrees /\ ok
  BY StackIs DEF F!Enter_file, F!Return_, FilesInv, FilesTypeInv
<1>0. F!Reached(g) /\ (F!Plain => g = p)
  BY <1>1, LeadReached
<1>2. CASE /\ ~ F!Is(g, "dir")
           /\ F!Exists(g) \/ F!MayCreate(g)
           /\ dst' = F!Opened(g)
           /\ copying' = [path |-> p, goal |-> g, at |-> 0, buf |-> << >>]
           /\ copy_pc' = "copy" /\ UNCHANGED <<ok, copy_faults>>
  <2> HIDE DEF g
  <2>1. /\ TargetInv' /\ Steady(dst, dst', g) /\ g \in DOMAIN dst'
        /\ F!Plain => dst'[p] = F!File(<< >>)
    BY <1>0, <1>1, <1>2, TargetOpened DEF F!Exists
  <2>2. CopyingInv'
    <3>1. F!Top'.path = p /\ Len(<< >>) = 0 /\ (F!Plain' <=> F!Plain)
      BY <1>0, <1>1, EmptySeq, Settled_ DEF F!Top
    <3>2. SubSeq(src[p].content, 1, 0) = << >>
      BY SubSeqEmpty
    <3>3. src[p].content \in Seq(Nat)
      <4>1. src[p] \in [type : F!Kinds, content : Seq(Nat), to : Seq(FileNames)]
        BY <1>1, FilesLegal
      <4> QED BY <4>1
    <3>4. Len(src[p].content) \in Nat
      BY <3>3, LenProperties
    <3>5. /\ copying' = [path |-> p, goal |-> copying'.goal, at |-> copying'.at, buf |-> copying'.buf]
          /\ copying'.goal = g /\ copying'.at = 0 /\ copying'.buf = << >>
          /\ copying'.at - Len(copying'.buf) = 0
      BY <1>2, <3>1
    <3>6. 0 \in 0 .. Len(src[p].content) /\ 0 \in 0 .. 0 /\ 0 + 1 = 1
      BY <3>4
    <3>7. F!Reached(copying.goal)' /\ copying'.goal \in DOMAIN dst'
      BY <1>0, <1>1, <2>1, <3>5, Settled_
    <3> HIDE DEF p
    <3> QED BY <1>0, <1>1, <2>1, <3>1, <3>2, <3>5, <3>6, <3>7 DEF CopyingInv
  <2> QED BY <1>0, <1>1, <1>2, <2>1, <2>2, QuietStep
<1>3. CASE F!Return_(FALSE) /\ UNCHANGED <<dst, copying>>
  <2>1. TargetInv' /\ Steady(dst, dst', p)
    BY <1>1, <1>3, Unchanged_
  <2>2. CopyingInv' /\ copy_pc' = "return" /\ ok' = FALSE
    BY <1>3 DEF CopyingInv, F!Return_
  <2> QED BY <1>1, <2>1, <2>2, QuietStep
<1> QED BY <1>1, <1>2, <1>3 DEF F!Enter_file

LEMMA CopyingIs ==
  ASSUME F!TreesAreTrees, FilesInv, copy_pc = "copy"
  PROVE  /\ copying.path = Path(Len(stack))
         /\ copying = [path |-> Path(Len(stack)), goal |-> copying.goal, at |-> copying.at, buf |-> copying.buf]
         /\ F!Top.path = Path(Len(stack))
         /\ Path(Len(stack)) \in DOMAIN src /\ src[Path(Len(stack))].type = "file"
         /\ src[Path(Len(stack))].content \in Seq(Nat)
         /\ src[Path(Len(stack))] = F!File(src[Path(Len(stack))].content)
         /\ Len(src[Path(Len(stack))].content) \in Nat
         /\ copying.at \in 0 .. Len(src[Path(Len(stack))].content)
         /\ copying.at - Len(copying.buf) \in 0 .. copying.at
         /\ copying.buf = SubSeq(src[Path(Len(stack))].content, copying.at - Len(copying.buf) + 1, copying.at)
         /\ F!Reached(copying.goal) /\ copying.goal \in DOMAIN dst
         /\ F!Plain => /\ copying.goal = Path(Len(stack))
                        /\ dst[Path(Len(stack))]
                             = F!File(SubSeq(src[Path(Len(stack))].content, 1, copying.at - Len(copying.buf)))
         /\ src \in CopyTrees /\ Path(Len(stack)) \in Seq(FileNames) /\ Len(copying.buf) \in Nat
<1> DEFINE p == Path(Len(stack))
<1>1. F!Top.path = p /\ p \in DOMAIN src /\ src \in CopyTrees /\ p \in Seq(FileNames)
  BY StackIs
<1>2. src[p] \in [type : F!Kinds, content : Seq(Nat), to : Seq(FileNames)] /\ src[p].to = << >>
  BY <1>1, FilesLegal, SourceLegal
<1>3. src[p].content \in Seq(Nat) /\ src[p] = [type |-> src[p].type, content |-> src[p].content, to |-> << >>]
  BY <1>2
<1>4. Len(src[p].content) \in Nat
  BY <1>3, LenProperties
<1> DEFINE C == src[p].content
<1>5. CopyingInv
  BY DEF FilesInv
<1>6. /\ copying.path = p /\ copying = [path |-> p, goal |-> copying.goal, at |-> copying.at, buf |-> copying.buf]
      /\ src[p].type = "file"
      /\ copying.at \in 0 .. Len(C) /\ copying.at - Len(copying.buf) \in 0 .. copying.at
      /\ copying.buf = SubSeq(C, copying.at - Len(copying.buf) + 1, copying.at)
      /\ F!Reached(copying.goal) /\ copying.goal \in DOMAIN dst
      /\ F!Plain => copying.goal = p /\ dst[p] = F!File(SubSeq(C, 1, copying.at - Len(copying.buf)))
  BY <1>1, <1>5 DEF CopyingInv
<1>7. copying.buf \in Seq(Nat)
  <2> DEFINE w == copying.at - Len(copying.buf)
  <2>1. w \in Nat /\ copying.at \in Nat /\ w <= copying.at /\ copying.at <= Len(C)
    BY <1>4, <1>6
  <2>2. copying.buf = SubSeq(C, w + 1, copying.at)
    BY <1>6
  <2> HIDE DEF w, C
  <2>3. C \in Seq(Nat)
    BY <1>3 DEF C
  <2>4. SubSeq(C, w + 1, copying.at) \in Seq(Nat)
    BY <2>1, <2>3, PieceOf
  <2> QED BY <2>2, <2>4
<1>8. Len(copying.buf) \in Nat
  BY <1>7, LenProperties
<1>9. src[p] = F!File(src[p].content)
  BY <1>3, <1>6 DEF F!File, F!Node
<1> QED BY <1>1, <1>3, <1>4, <1>6, <1>8, <1>9

LEMMA FilesRead ==
  ASSUME F!TreesAreTrees, FilesInv, F!Read
  PROVE  FilesInv'
<1> DEFINE p == Path(Len(stack))
           C == src[p].content
           at == copying.at
           end == IF at + BufSize < Len(C) THEN at + BufSize ELSE Len(C)
<1>1. /\ copy_pc = "copy" /\ copying.buf = << >> /\ UNCHANGED <<src, dst, before, stack, temp>>
      /\ copy_pc' \in {"copy", "return"} /\ ok' \in BOOLEAN /\ ok
  BY DEF F!Read, F!Return_, FilesInv, FilesTypeInv
<1>2. /\ copying.path = p /\ F!Top.path = p /\ p \in DOMAIN src /\ src[p].type = "file"
      /\ C \in Seq(Nat) /\ Len(C) \in Nat /\ at \in 0 .. Len(C)
      /\ F!Reached(copying.goal) /\ copying.goal \in DOMAIN dst /\ src[p] = F!File(C)
      /\ F!Plain => copying.goal = p /\ dst[p] = F!File(SubSeq(C, 1, at))
      /\ src \in CopyTrees /\ p \in Seq(FileNames)
  <2>1. Len(<< >>) = 0 /\ at \in 0 .. Len(C)
    BY <1>1, EmptySeq, CopyingIs
  <2>2. Len(C) \in Nat
    BY <1>1, CopyingIs
  <2>3. at - Len(copying.buf) = at
    BY <1>1, <2>1, <2>2
  <2> QED BY <1>1, <2>2, <2>3, CopyingIs
<1>3. TargetInv' /\ Steady(dst, dst', p)
  BY <1>1, Unchanged_
<1>4. BufSize \in Nat \ {0}
  BY DEF F!TreesAreTrees
<1>5. F!Piece(at) = SubSeq(C, at + 1, end)
  BY <1>2 DEF F!Piece, F!Content
<1>6. end \in Nat /\ at \in Nat /\ at <= end /\ end <= Len(C) /\ (end = at => at = Len(C))
  BY <1>2, <1>4
<1> HIDE DEF end
<1>7. F!Piece(at) \in Seq(Nat) /\ Len(F!Piece(at)) = end - at
  <2> HIDE DEF C, at
  <2>1. C \in Seq(Nat) /\ at \in Nat /\ end \in Nat /\ at <= end /\ end <= Len(C)
    BY <1>2, <1>6
  <2>2. SubSeq(C, at + 1, end) \in Seq(Nat) /\ Len(SubSeq(C, at + 1, end)) = end - at
    BY <2>1, PieceOf
  <2> QED BY <1>5, <2>2
<1>8. CASE /\ F!Piece(at) # << >>
           /\ copying' = [path |-> copying.path, goal |-> copying.goal,
                          at |-> at + Len(F!Piece(at)), buf |-> F!Piece(at)]
           /\ UNCHANGED <<copy_pc, ok, copy_faults>>
  <2>1. /\ copying' = [path |-> p, goal |-> copying'.goal, at |-> copying'.at, buf |-> copying'.buf]
        /\ copying'.buf = F!Piece(at) /\ copying'.at = at + Len(F!Piece(at)) /\ copying'.goal = copying.goal
    <3>3. copying' = [path |-> p, goal |-> copying.goal, at |-> at + Len(F!Piece(at)), buf |-> F!Piece(at)]
      BY <1>2, <1>8
    <3> HIDE DEF p, at
    <3> QED BY <3>3
  <2>2. copying'.at = end /\ copying'.at - Len(copying'.buf) = at
    BY <2>1, <1>6, <1>7
  <2>3. F!Top'.path = p
    BY <1>1, <1>2 DEF F!Top
  <2>4. end \in 0 .. Len(C) /\ at \in 0 .. end
    BY <1>6, <1>2
  <2>5. CopyingInv'
    <3>1. F!Reached(copying.goal)' /\ (F!Plain' <=> F!Plain)
      BY <1>1, <1>2, <2>1, Settled_
    <3> HIDE DEF p, at
    <3> QED BY <1>1, <1>2, <1>5, <2>1, <2>2, <2>3, <2>4, <3>1 DEF CopyingInv
  <2> QED BY <1>1, <1>3, <1>8, <2>5, QuietStep
<1>9. CASE F!Piece(at) = << >> /\ F!Return_(TRUE) /\ UNCHANGED <<copying, copy_faults>>
  <2>1. at = Len(C)
    <3>1. Len(<< >>) = 0
      BY EmptySeq
    <3> QED BY <3>1, <1>6, <1>7, <1>9
  <2>2. F!Plain => p \in DOMAIN dst /\ dst[p] = src[p]
    <3>1. SubSeq(C, 1, Len(C)) = C
      BY <1>2, SubSeqFull
    <3> QED BY <3>1, <2>1, <1>2
  <2>3. \A q \in DOMAIN src : Below(q, p) => q = p
    BY <1>2, LeafAlone
  <2>4. F!Plain => Copies(src', dst', p)
    <3> HIDE DEF p
    <3> QED BY <1>1, <1>2, <2>2, <2>3 DEF Copies
  <2>5. CopyingInv' /\ copy_pc' = "return" /\ ok' = TRUE
    BY <1>9 DEF CopyingInv, F!Return_
  <2> QED BY <1>1, <1>3, <2>4, <2>5, QuietStep
<1>10. CASE F!Return_(FALSE)
  <2>1. CopyingInv' /\ copy_pc' = "return" /\ ok' = FALSE
    BY <1>10 DEF CopyingInv, F!Return_
  <2> QED BY <1>1, <1>3, <2>1, QuietStep
<1> QED BY <1>8, <1>9, <1>10 DEF F!Read

LEMMA FilesWrite ==
  ASSUME F!TreesAreTrees, FilesInv, F!Write
  PROVE  FilesInv'
<1> DEFINE p == Path(Len(stack))
           C == src[p].content
           at == copying.at
           w == at - Len(copying.buf)
           g == copying.goal
<1>1. /\ copy_pc = "copy" /\ copying.buf # << >> /\ UNCHANGED <<src, before, stack, temp>>
      /\ copy_pc' \in {"copy", "return"} /\ ok' \in BOOLEAN /\ ok
  BY DEF F!Write, F!Return_, FilesInv, FilesTypeInv
<1>2. /\ copying.path = p /\ F!Top.path = p /\ p \in DOMAIN src /\ src[p].type = "file"
      /\ C \in Seq(Nat) /\ Len(C) \in Nat /\ at \in 0 .. Len(C) /\ w \in 0 .. at
      /\ copying.buf = SubSeq(C, w + 1, at) /\ Len(copying.buf) \in Nat
      /\ F!Reached(g) /\ g \in DOMAIN dst
      /\ F!Plain => g = p /\ dst[p] = F!File(SubSeq(C, 1, w))
  BY <1>1, CopyingIs
<1>3. CASE \E m \in 1 .. Len(copying.buf) :
             /\ dst' = F!Grown(g, SubSeq(copying.buf, 1, m))
             /\ copying' = [copying EXCEPT !.buf = F!Unwritten(@, m)]
             /\ UNCHANGED <<copy_pc, ok, copy_faults>>
  <2>1. PICK m \in 1 .. Len(copying.buf) :
             /\ dst' = F!Grown(g, SubSeq(copying.buf, 1, m))
             /\ copying' = [copying EXCEPT !.buf = F!Unwritten(@, m)]
             /\ UNCHANGED <<copy_pc, ok, copy_faults>>
    BY <1>3
  <2>2. /\ m \in 1 .. at - w /\ Len(copying.buf) = at - w /\ w \in Nat /\ at \in Nat
        /\ w <= at /\ at <= Len(C)
    <3>1. m \in 1 .. Len(copying.buf)
      OBVIOUS
    <3>2. at \in Nat /\ at <= Len(C) /\ Len(copying.buf) \in Nat
      BY <1>2
    <3>3. at - Len(copying.buf) \in 0 .. at
      BY <1>2
    <3> DEFINE L == Len(copying.buf)
    <3> HIDE DEF C, L, at
    <3> QED BY <3>1, <3>2, <3>3 DEF L
  <2>3. /\ SubSeq(copying.buf, m + 1, Len(copying.buf)) = SubSeq(C, w + m + 1, at)
        /\ SubSeq(C, 1, w) \o SubSeq(copying.buf, 1, m) = SubSeq(C, 1, w + m)
    <3>1. Len(copying.buf) = at - w
      BY <2>2
    <3> HIDE DEF w, C, at
    <3>2. /\ SubSeq(SubSeq(C, w + 1, at), m + 1, at - w) = SubSeq(C, w + m + 1, at)
          /\ SubSeq(C, 1, w) \o SubSeq(SubSeq(C, w + 1, at), 1, m) = SubSeq(C, 1, w + m)
      BY <1>2, <2>2, PieceCut
    <3> QED BY <1>2, <3>1, <3>2
  <2>4. /\ copying' = [path |-> p, goal |-> copying'.goal, at |-> copying'.at, buf |-> copying'.buf]
        /\ copying'.goal = g /\ copying'.at = at /\ copying'.buf = SubSeq(copying.buf, m + 1, Len(copying.buf))
    <3> DEFINE rest == F!Unwritten(copying.buf, m)
    <3>1. copying = [path |-> p, goal |-> g, at |-> at, buf |-> copying.buf]
      BY <1>1, CopyingIs
    <3>2. copying' = [copying EXCEPT !.buf = rest]
      BY <2>1
    <3>3. rest = SubSeq(copying.buf, m + 1, Len(copying.buf))
      BY DEF F!Unwritten
    <3> HIDE DEF rest, p, at, g
    <3>4. [copying EXCEPT !.buf = rest] = [path |-> p, goal |-> g, at |-> at, buf |-> rest]
      BY <3>1, CopyingOf
    <3> QED BY <3>2, <3>3, <3>4
  <2>5. /\ TargetInv' /\ Steady(dst, dst', g) /\ g \in DOMAIN dst'
        /\ \A was : dst[g] = F!File(was) => dst'[g] = F!File(was \o SubSeq(copying.buf, 1, m))
    <3> DEFINE piece == SubSeq(copying.buf, 1, m)
    <3> HIDE DEF g, piece
    <3>1. dst' = F!Grown(g, piece)
      BY <2>1 DEF piece
    <3>2. /\ TargetInv' /\ Steady(dst, dst', g) /\ g \in DOMAIN dst'
          /\ \A was : dst[g] = F!File(was) => dst'[g] = F!File(was \o piece)
      BY <1>1, <1>2, <3>1, TargetGrown
    <3> QED BY <3>2 DEF piece
  <2>6. F!Plain => g = p /\ dst'[p] = F!File(SubSeq(C, 1, w + m))
    <3> DEFINE was == SubSeq(C, 1, w)
               longer == SubSeq(C, 1, w + m)
    <3>1. was \o SubSeq(copying.buf, 1, m) = longer
      BY <2>3
    <3>2. F!Plain => g = p /\ dst[g] = F!File(was)
      BY <1>2
    <3> HIDE DEF was, longer, p, g
    <3>3. F!Plain => g = p /\ dst'[g] = F!File(longer)
      BY <2>5, <3>1, <3>2
    <3> QED BY <3>3 DEF longer
  <2>8. F!Plain => Steady(dst, dst', p)
    BY <2>5, <2>6
  <2>9. Len(copying'.buf) = at - (w + m) /\ w + m \in 0 .. at
    <3>1. w + m \in Nat /\ w + m <= at
      BY <2>2
    <3>2. copying'.buf = SubSeq(C, (w + m) + 1, at)
      BY <2>3, <2>4
    <3>3. C \in Seq(Nat) /\ at \in Nat /\ at <= Len(C)
      BY <1>2, <2>2
    <3> DEFINE k == w + m
    <3> HIDE DEF w, C, at
    <3>4. k \in Nat /\ k <= at /\ copying'.buf = SubSeq(C, k + 1, at)
      BY <3>1, <3>2
    <3> HIDE DEF k
    <3>5. Len(SubSeq(C, k + 1, at)) = at - k
      BY <3>3, <3>4, PieceOf
    <3>6. Len(copying'.buf) = at - k /\ k \in 0 .. at
      BY <3>3, <3>4, <3>5
    <3> QED BY <3>6 DEF k
  <2>10. copying'.at - Len(copying'.buf) = w + m
    BY <2>2, <2>4, <2>9
  <2>11. F!Top'.path = p
    BY <1>1, <1>2 DEF F!Top
  <2>12. CopyingInv'
    <3>1. F!Reached(copying.goal)' /\ (F!Plain' <=> F!Plain)
      BY <1>1, <1>2, <2>4, Settled_
    <3>2. copying'.goal \in DOMAIN dst' /\ (F!Plain => copying'.goal = p)
      BY <2>4, <2>5, <2>6
    <3> HIDE DEF p, w, at, g
    <3> QED BY <1>1, <1>2, <2>3, <2>4, <2>6, <2>9, <2>10, <2>11, <3>1, <3>2 DEF CopyingInv
  <2> QED BY <1>1, <2>1, <2>5, <2>8, <2>12, QuietStep
<1>4. CASE F!Return_(FALSE) /\ UNCHANGED <<dst, copying>>
  <2>1. TargetInv' /\ Steady(dst, dst', p)
    BY <1>1, <1>4, Unchanged_
  <2>2. CopyingInv' /\ copy_pc' = "return" /\ ok' = FALSE
    BY <1>4 DEF CopyingInv, F!Return_
  <2> QED BY <1>1, <2>1, <2>2, QuietStep
<1> QED BY <1>3, <1>4 DEF F!Write

(* A directory that is made, or was there.                                 *)
LEMMA FilesMkdir ==
  ASSUME F!TreesAreTrees, FilesInv, NEW p, F!Reached(p), dst' = F!nob_mkdir_if_not_exists(p),
         UNCHANGED <<src, before>>, F!Exists(p) \/ F!MayCreate(p)
  PROVE  TargetInv' /\ Steady(dst, dst', p)
<1>1. CASE F!Exists(p)
  <2>1. dst' = dst
    BY <1>1 DEF F!nob_mkdir_if_not_exists
  <2> QED BY <2>1, Unchanged_
<1>2. CASE ~ F!Exists(p)
  <2>1. dst' = F!With(p, F!Dir) /\ F!MayCreate(p) /\ p \notin DOMAIN dst
    BY <1>2 DEF F!nob_mkdir_if_not_exists, F!Exists
  <2>2. F!Dir.type = "dir"
    BY NodeIs
  <2> QED BY <2>1, <2>2, TargetWith
<1> QED BY <1>1, <1>2

LEMMA AnyPrefix ==
  ASSUME NEW S, NEW q \in Seq(S), NEW n \in 0 .. Len(q)
  PROVE  /\ SubSeq(q, 1, n) \in Seq(S) /\ Len(SubSeq(q, 1, n)) = n
         /\ \A j \in 1 .. n : SubSeq(q, 1, n)[j] = q[j]
<1> DEFINE t == SubSeq(q, 1, n)
<1>1. Len(q) \in Nat /\ \A j \in 1 .. n : q[j] \in S
  BY LenProperties, ElementOfSeq
<1>2. /\ t \in Seq(S) /\ Len(t) = (IF 1 <= n THEN n - 1 + 1 ELSE 0)
      /\ \A j \in 1 .. n - 1 + 1 : t[j] = q[1 + j - 1]
  BY <1>1, SubSeqProperties
<1> HIDE DEF t
<1>3. t \in Seq(S) /\ Len(t) = n /\ \A j \in 1 .. n : t[j] = q[j]
  BY <1>1, <1>2
<1> QED BY <1>3 DEF t

(* The last call's list is another one.                                    *)
LEMMA ListSet ==
  ASSUME F!TreesAreTrees, FilesInv, copy_pc # "done", NEW list \in Seq(Nat), NEW st,
         st = [stack EXCEPT ![Len(stack)].children = list]
  PROVE  /\ st \in Seq(Frames) /\ Len(st) = Len(stack)
         /\ \A n \in 1 .. Len(stack) :
              st[n].path = Path(n) /\ st[n].goal = Goal(n) /\ st[n].mark = stack[n].mark
         /\ \A n \in 1 .. Len(stack) - 1 : st[n] = stack[n]
         /\ st[Len(stack)].children = list
<1> DEFINE L == Len(stack)
<1>1. stack \in Seq(Frames) /\ L \in Nat \ {0} /\ L \in 1 .. L /\ stack[L] \in Frames
  BY StackIs DEF FilesInv, FilesTypeInv
<1> DEFINE top == [stack[L] EXCEPT !.children = list]
<1>2. /\ top \in Frames /\ top.path = stack[L].path /\ top.goal = stack[L].goal
      /\ top.mark = stack[L].mark /\ top.children = list
  BY <1>1 DEF Frames
<1>3. st = [stack EXCEPT ![L] = top]
  OBVIOUS
<1> HIDE DEF top
<1>4. /\ st \in Seq(Frames) /\ Len(st) = L
      /\ \A n \in 1 .. L : st[n] = IF n = L THEN top ELSE stack[n]
  <2> HIDE DEF L
  <2>1. /\ [stack EXCEPT ![L] = top] \in Seq(Frames) /\ Len([stack EXCEPT ![L] = top]) = Len(stack)
        /\ \A n \in 1 .. Len(stack) : [stack EXCEPT ![L] = top][n] = IF n = L THEN top ELSE stack[n]
    <3>1. L \in 1 .. Len(stack)
      BY <1>1 DEF L
    <3> QED BY <3>1, <1>1, <1>2, ExceptSeq
  <2> QED BY <1>3, <2>1 DEF L
<1>5. \A n \in 1 .. L - 1 : n \in 1 .. L /\ n # L
  BY <1>1
<1> HIDE DEF L
<1>6. /\ st \in Seq(Frames) /\ Len(st) = L
      /\ \A n \in 1 .. L : st[n].path = Path(n) /\ st[n].goal = Goal(n) /\ st[n].mark = stack[n].mark
      /\ \A n \in 1 .. L - 1 : st[n] = stack[n]
      /\ st[L].children = list
  BY <1>1, <1>2, <1>4, <1>5 DEF Path, Goal
<1> QED BY <1>6 DEF L

(* More names after those there are, for the last call's list.             *)
LEMMA NamesAdded ==
  ASSUME F!TreesAreTrees, FilesInv, copy_pc # "done", copy_pc' # "done", UNCHANGED src,
         temp' \in Seq(Names_), Len(temp') >= Len(temp), \A c \in 1 .. Len(temp) : temp'[c] = temp[c],
         Len(stack') = Len(stack),
         \A n \in 1 .. Len(stack) : Path(n)' = Path(n) /\ stack'[n].mark = stack[n].mark,
         \A n \in 1 .. Len(stack) - 1 : Listed(n)' = Listed(n),
         \A c \in Listed(Len(stack))' : c \in 1 .. Len(temp') /\ temp'[c] \in F!NamesIn(Path(Len(stack)))
  PROVE  PathsInv' /\ MarksInv'
<1> DEFINE L == Len(stack)
<1>1. /\ L \in Nat \ {0} /\ L \in 1 .. L /\ 1 \in 1 .. L
      /\ \A n \in 1 .. L : n = L \/ n \in 1 .. L - 1
      /\ \A n \in 1 .. L : \A m \in 1 .. n - 1 : m \in 1 .. L - 1 /\ m \in 1 .. L
      /\ \A n \in 1 .. L : \A m \in 1 .. n : m \in 1 .. L
      /\ \A n \in 1 .. L - 1 : n \in 1 .. L /\ n + 1 \in 1 .. L
  BY StackIs
<1>2. \A p : F!NamesIn(p)' = F!NamesIn(p)
  BY DEF F!NamesIn
<1>3. Len(temp) \in Nat /\ Len(temp') \in Nat
  BY LenProperties DEF FilesInv, FilesTypeInv
<1>4. PathsInv /\ MarksInv
  BY DEF FilesInv
<1>5. PathsInv'
  <2> HIDE DEF L
  <2>1. Len(stack') = L /\ Len(stack) = L /\ \A n \in 1 .. L : Path(n)' = Path(n)
    BY DEF L
  <2>2. Path(1) = << >> /\ \A n \in 1 .. L : Path(n) \in DOMAIN src
    BY <1>1, <1>4, <2>1 DEF PathsInv
  <2>3. \A n \in 1 .. L : \A m \in 1 .. n : Below(Path(n), Path(m))
    BY <1>4, <2>1 DEF PathsInv
  <2>4. \A n \in 1 .. L - 1 : \E x \in F!NamesIn(Path(n)) : Path(n + 1) = Append(Path(n), x)
    BY <1>4, <2>1 DEF PathsInv
  <2>5. \A n \in 1 .. L : \A m \in 1 .. n : Below(Path(n)', Path(m)')
    BY <1>1, <2>1, <2>3
  <2>6. \A n \in 1 .. L - 1 : \E x \in F!NamesIn(Path(n))' : Path(n + 1)' = Append(Path(n)', x)
    BY <1>1, <1>2, <2>1, <2>4
  <2> QED BY <1>1, <2>1, <2>2, <2>5, <2>6 DEF PathsInv
<1>6. MarksInv'
  <2>1. Len(temp') > 0 /\ temp'[1] = "kept"
    BY <1>3, <1>4 DEF MarksInv
  <2>2. stack'[1].mark = 1
    BY <1>1, <1>4 DEF MarksInv
  <2>3. \A n \in 1 .. L : stack'[n].mark \in 1 .. Len(temp')
    BY <1>3, <1>4 DEF MarksInv
  <2>4. \A n \in 1 .. L : \A c \in Listed(n)' : c \in 1 .. Len(temp') /\ temp'[c] \in F!NamesIn(Path(n))'
    <3> SUFFICES ASSUME NEW n \in 1 .. L, NEW c \in Listed(n)'
                 PROVE  c \in 1 .. Len(temp') /\ temp'[c] \in F!NamesIn(Path(n))'
      OBVIOUS
    <3>1. Path(n)' = Path(n) /\ F!NamesIn(Path(n))' = F!NamesIn(Path(n))
      BY <1>2
    <3>2. CASE n = L
      BY <3>1, <3>2
    <3>3. CASE n \in 1 .. L - 1
      <4>1. c \in 1 .. Len(temp) /\ temp[c] \in F!NamesIn(Path(n))
        BY <1>4, <3>3 DEF MarksInv
      <4> QED BY <4>1, <1>3, <3>1
    <3> QED BY <1>1, <3>2, <3>3
  <2>5. \A n \in 1 .. L : \A m \in 1 .. n - 1 :
           /\ stack'[m].mark <= stack'[n].mark
           /\ \A c \in Listed(m)' : c <= stack'[n].mark
    BY <1>1, <1>4 DEF MarksInv
  <2> QED BY <1>1, <2>1, <2>2, <2>3, <2>4, <2>5 DEF MarksInv
<1> QED BY <1>5, <1>6

LEMMA GoalsKept ==
  ASSUME FilesInv, UNCHANGED <<src, before>>,
         \A n \in 1 .. Len(stack') : n \in 1 .. Len(stack) /\ Path(n)' = Path(n) /\ Goal(n)' = Goal(n)
  PROVE  GoalsInv'
BY Settled_ DEF FilesInv, GoalsInv

LEMMA FilesEnterDirectory ==
  ASSUME F!TreesAreTrees, FilesInv, F!Enter_directory
  PROVE  FilesInv'
<1> DEFINE L == Len(stack)
           p == Path(L)
           g == Goal(L)
           N == F!NamesIn(p)
<1>1. /\ copy_pc = "enter" /\ UNCHANGED <<src, before, copying>> /\ ok /\ src \in CopyTrees
      /\ F!Top.path = p /\ F!Top.goal = g /\ src[p].type = "dir" /\ p \in DOMAIN src
      /\ L \in Nat \ {0} /\ L \in 1 .. L
  BY StackIs DEF F!Enter_directory, FilesInv, FilesTypeInv
<1>0. F!Reached(g) /\ (F!Plain => g = p)
  BY <1>1, LeadReached
<1>2. /\ temp \in Seq(Names_) /\ Len(temp) \in Nat
      /\ \A x \in N : x \in Names_
  <2>1. temp \in Seq(Names_)
    BY DEF FilesInv, FilesTypeInv
  <2> QED BY <1>1, <2>1, LenProperties, NameIn DEF Names_
(* All the names, and where they are.                                      *)
<1>3. ASSUME NEW names \in F!SetToSeqs(N)
      PROVE  /\ temp \o names \in Seq(Names_) /\ Len(temp \o names) = Len(temp) + Len(names)
             /\ Len(names) \in Nat /\ Len(names) = Cardinality(N)
             /\ \A c \in 1 .. Len(temp) : (temp \o names)[c] = temp[c]
             /\ \A j \in 1 .. Len(names) : (temp \o names)[Len(temp) + j] = names[j] /\ names[j] \in N
             /\ \A x \in N : \E j \in 1 .. Len(names) : names[j] = x
  <2>1. /\ names \in Seq(N) /\ Len(names) = Cardinality(N) /\ Cardinality(N) \in Nat
        /\ \A x \in N : \E j \in 1 .. Len(names) : names[j] = x
    BY <1>1, <1>3, AllNames
  <2> HIDE DEF N
  <2>2. Len(names) \in Nat /\ \A j \in 1 .. Len(names) : names[j] \in N
    BY <2>1, ElementOfSeq
  <2>3. names \in Seq(Names_)
    <3>1. \A j \in 1 .. Len(names) : names[j] \in Names_
      BY <1>2, <2>2
    <3>2. names \in [1 .. Len(names) -> Names_]
      BY <2>1, <3>1, LenProperties
    <3> QED BY <2>2, <3>2, SeqDef
  <2>4. /\ temp \o names \in Seq(Names_) /\ Len(temp \o names) = Len(temp) + Len(names)
        /\ \A k \in 1 .. Len(temp) + Len(names) :
             (temp \o names)[k] = IF k <= Len(temp) THEN temp[k] ELSE names[k - Len(temp)]
    BY <1>2, <2>3, ConcatProperties
  <2>5. \A c \in 1 .. Len(temp) : (temp \o names)[c] = temp[c]
    BY <1>2, <2>2, <2>4
  <2>6. \A j \in 1 .. Len(names) : (temp \o names)[Len(temp) + j] = names[j]
    <3> SUFFICES ASSUME NEW j \in 1 .. Len(names) PROVE (temp \o names)[Len(temp) + j] = names[j]
      OBVIOUS
    <3>1. /\ Len(temp) + j \in 1 .. Len(temp) + Len(names) /\ ~ (Len(temp) + j <= Len(temp))
          /\ Len(temp) + j - Len(temp) = j
      BY <1>2, <2>2
    <3> QED BY <2>4, <3>1
  <2> QED BY <2>1, <2>2, <2>4, <2>5, <2>6
<1>4. CASE /\ F!Mkdir_succeeds(g) /\ dst' = F!nob_mkdir_if_not_exists(g)
           /\ temp' \in F!nob_read_entire_dir(p)
           /\ stack' = [stack EXCEPT ![Len(stack)].children =
                          [k \in 1 .. Len(temp') - Len(temp) |-> Len(temp) + k]]
           /\ copy_pc' = "children" /\ ok' = ok
  <2>1. PICK names \in F!SetToSeqs(N) : temp' = temp \o names
    BY <1>4 DEF F!nob_read_entire_dir
  <2> DEFINE K == Len(names)
             list == [k \in 1 .. K |-> Len(temp) + k]
  <2> HIDE DEF N
  <2>2. /\ temp' \in Seq(Names_) /\ Len(temp') = Len(temp) + K /\ K \in Nat
        /\ \A c \in 1 .. Len(temp) : temp'[c] = temp[c]
        /\ \A j \in 1 .. K : temp'[Len(temp) + j] = names[j] /\ names[j] \in N
        /\ \A x \in N : \E j \in 1 .. K : names[j] = x
    BY <1>3, <2>1
  <2>3. list \in Seq(Nat) /\ Len(list) = K /\ \A j \in 1 .. K : list[j] = Len(temp) + j
    <3>1. list \in [1 .. K -> Nat]
      BY <1>2, <2>2
    <3>2. list \in Seq(Nat)
      BY <2>2, <3>1, SeqDef
    <3> QED BY <2>2, <3>1, <3>2, LenProperties
  <2>4. stack' = [stack EXCEPT ![L].children = list]
    <3>1. Len(temp') - Len(temp) = K
      BY <1>2, <2>2
    <3> QED BY <1>4, <3>1
  <2> HIDE DEF list
  <2>5. /\ stack' \in Seq(Frames) /\ Len(stack') = Len(stack)
        /\ \A n \in 1 .. Len(stack) :
             stack'[n].path = Path(n) /\ stack'[n].goal = Goal(n) /\ stack'[n].mark = stack[n].mark
        /\ \A n \in 1 .. Len(stack) - 1 : stack'[n] = stack[n]
        /\ stack'[Len(stack)].children = list
    <3>1. copy_pc # "done" /\ list \in Seq(Nat)
      BY <1>1, <2>3
    <3>2. \A st : st = [stack EXCEPT ![Len(stack)].children = list] =>
            /\ st \in Seq(Frames) /\ Len(st) = Len(stack)
            /\ \A n \in 1 .. Len(stack) :
                 st[n].path = Path(n) /\ st[n].goal = Goal(n) /\ st[n].mark = stack[n].mark
            /\ \A n \in 1 .. Len(stack) - 1 : st[n] = stack[n]
            /\ st[Len(stack)].children = list
      BY <3>1, ListSet
    <3>3. stack' = [stack EXCEPT ![Len(stack)].children = list]
      BY <2>4
    <3> QED BY <3>2, <3>3
  <2>6. /\ \A n \in 1 .. L : Path(n)' = Path(n)
        /\ \A n \in 1 .. L - 1 : Listed(n)' = Listed(n)
        /\ Listed(L)' = {Len(temp) + j : j \in 1 .. K}
    <3>1. \A n : Path(n)' = stack'[n].path
      BY DEF Path
    <3>2. \A n : Listed(n)' = {stack'[n].children[j] : j \in 1 .. Len(stack'[n].children)}
      BY DEF Listed
    <3>3. Listed(L)' = {list[j] : j \in 1 .. K}
      BY <2>3, <2>5, <3>2
    <3>4. {list[j] : j \in 1 .. K} = {Len(temp) + j : j \in 1 .. K}
      BY <2>3
    <3>5. \A n \in 1 .. L - 1 : Listed(n)' = Listed(n)
      BY <2>5, <3>2 DEF Listed
    <3> QED BY <2>5, <3>1, <3>3, <3>4, <3>5
  <2>7. TargetInv' /\ Steady(dst, dst', g)
    <3> HIDE DEF g
    <3> QED BY <1>0, <1>1, <1>4, FilesMkdir DEF F!Mkdir_succeeds
  <2>8. \A c \in Listed(L)' : c \in 1 .. Len(temp') /\ temp'[c] \in N
    <3> SUFFICES ASSUME NEW c \in Listed(L)' PROVE c \in 1 .. Len(temp') /\ temp'[c] \in N
      OBVIOUS
    <3>1. PICK j \in 1 .. K : c = Len(temp) + j
      BY <2>6
    <3>2. Len(temp) \in Nat
      BY <1>2
    <3>3. c \in 1 .. Len(temp')
      BY <2>2, <3>1, <3>2
    <3>4. temp'[c] \in N
      BY <2>2, <3>1
    <3> QED BY <3>3, <3>4
  <2>9. PathsInv' /\ MarksInv'
    <3>1. Len(temp') >= Len(temp)
      BY <1>2, <2>2
    <3>2. \A c \in Listed(Len(stack))' : c \in 1 .. Len(temp') /\ temp'[c] \in F!NamesIn(Path(Len(stack)))
      BY <2>8 DEF N
    <3> HIDE DEF p
    <3> QED BY <1>1, <1>4, <2>2, <2>5, <2>6, <3>1, <3>2, NamesAdded
  <2>10. FilesTypeInv'
    <3>1. Len(stack') > 0 /\ ok' \in BOOLEAN /\ ok'
      BY <1>1, <1>4, <2>5
    <3>2. src' \in CopyTrees /\ before' \in CopyTargets /\ copy_pc' = "children"
      BY <1>1, <1>4, StackIs
    <3> QED BY <2>2, <2>5, <3>1, <3>2 DEF FilesTypeInv
  <2>13. GoalsInv'
    <3>1. \A n : Goal(n)' = stack'[n].goal
      BY DEF Goal
    <3>2. \A n \in 1 .. Len(stack') : n \in 1 .. Len(stack) /\ Path(n)' = Path(n) /\ Goal(n)' = Goal(n)
      BY <2>5, <2>6, <3>1
    <3> QED BY <1>1, <3>2, GoalsKept
  <2>11. ClaimsInv'
    <3> SUFFICES ASSUME F!Plain PROVE ClaimsInv'
      BY <1>1, Settled_ DEF ClaimsInv
    <3>1. \A n \in 1 .. L - 1 : Claim(n)'
      <4>1. Len(stack') >= Len(stack)
        BY <1>1, <2>5
      <4>2. Steady(dst, dst', p)
        BY <1>0, <2>7
      <4> QED BY <1>1, <2>2, <2>6, <4>1, <4>2, LowerClaims
    <3>2. ASSUME NEW n \in 1 .. L, n = L PROVE Claim(n)'
      <4>1. Path(n)' = p /\ Listed(n)' = {Len(temp) + j : j \in 1 .. K}
        BY <2>5, <2>6, <3>2
      <4>3. \A x \in N : \E c \in Listed(n)' : temp'[c] = x
        BY <2>2, <4>1
      <4>4. \A x \in F!NamesIn(Path(n))' : \E c \in Listed(n)' : temp'[c] = x
        <5>1. F!NamesIn(Path(n))' = N
          BY <1>1, <4>1 DEF F!NamesIn, N
        <5> QED BY <4>3, <5>1
      <4>5. src'[Path(n)'].type = "dir"
        BY <1>1, <4>1
      <4> QED BY <4>4, <4>5 DEF Claim
    <3>3. \A n \in 1 .. L : Claim(n)'
      <4>1. \A n \in 1 .. L : n \in 1 .. L - 1 \/ n = L
        BY <1>1
      <4> QED BY <3>1, <3>2, <4>1
    <3> QED BY <1>4, <2>5, <3>3 DEF ClaimsInv
  <2>12. CopyingInv' /\ F!CopyFaithful'
    BY <1>4, <2>7 DEF CopyingInv, F!CopyFaithful, TargetInv
  <2> QED BY <2>7, <2>9, <2>10, <2>11, <2>12, <2>13 DEF FilesInv
<1>5. CASE F!Mkdir_fails(g) /\ F!Return_(FALSE) /\ UNCHANGED <<dst, temp, stack>>
  <2>1. TargetInv' /\ Steady(dst, dst', p)
    BY <1>1, <1>5, Unchanged_
  <2>2. CopyingInv' /\ copy_pc' = "return" /\ ok' = FALSE
    BY <1>5 DEF CopyingInv, F!Return_
  <2> QED BY <1>1, <1>5, <2>1, <2>2, QuietStep
<1>6. CASE /\ F!Fault /\ (F!Exists(g) \/ F!MayCreate(g))
           /\ dst' = F!nob_mkdir_if_not_exists(g)
           /\ \E all \in F!nob_read_entire_dir(p), n \in 0 .. F!Cardinality(F!NamesIn(p)) :
                temp' = SubSeq(all, 1, Len(temp) + n)
           /\ F!Return_(FALSE) /\ stack' = stack
  <2>1. PICK names \in F!SetToSeqs(N), n \in 0 .. Cardinality(N) : temp' = SubSeq(temp \o names, 1, Len(temp) + n)
    BY <1>6, SameCounts DEF F!nob_read_entire_dir
  <2> DEFINE all == temp \o names
  <2> HIDE DEF N
  <2>2. /\ all \in Seq(Names_) /\ Len(all) \in Nat /\ Len(temp) + n \in 0 .. Len(all)
        /\ \A c \in 1 .. Len(temp) : all[c] = temp[c]
    <3>1. /\ all \in Seq(Names_) /\ Len(all) = Len(temp) + Len(names)
          /\ Len(names) \in Nat /\ Len(names) = Cardinality(N)
          /\ \A c \in 1 .. Len(temp) : all[c] = temp[c]
      BY <1>3
    <3> HIDE DEF all
    <3> QED BY <1>2, <3>1
  <2> HIDE DEF all
  <2>3. /\ temp' \in Seq(Names_) /\ Len(temp') = Len(temp) + n
        /\ \A c \in 1 .. Len(temp) : temp'[c] = temp[c]
    <3> DEFINE k == Len(temp) + n
    <3>1. k \in 0 .. Len(all) /\ \A c \in 1 .. Len(temp) : c \in 1 .. k
      BY <1>2, <2>2
    <3>2. temp' = SubSeq(all, 1, k)
      BY <2>1 DEF all
    <3> HIDE DEF k
    <3>3. SubSeq(all, 1, k) \in Seq(Names_) /\ Len(SubSeq(all, 1, k)) = k
          /\ \A c \in 1 .. k : SubSeq(all, 1, k)[c] = all[c]
      BY <2>2, <3>1, AnyPrefix
    <3> QED BY <2>2, <3>1, <3>2, <3>3 DEF k
  <2>4. copy_pc' = "return" /\ ok' = FALSE
    BY <1>6 DEF F!Return_
  <2>5. TargetInv'
    <3> HIDE DEF g
    <3> QED BY <1>0, <1>1, <1>6, FilesMkdir
  <2>6. \A m : Path(m)' = Path(m) /\ Goal(m)' = Goal(m) /\ Listed(m)' = Listed(m)
    BY <1>6 DEF Path, Goal, Listed
  <2>7. \A c \in Listed(L) : c \in 1 .. Len(temp) /\ temp[c] \in F!NamesIn(Path(L))
    BY <1>1 DEF FilesInv, MarksInv
  <2>8. PathsInv' /\ MarksInv'
    <3>1. Len(temp') >= Len(temp)
      BY <1>2, <2>3
    <3>2. \A c \in Listed(Len(stack))' : c \in 1 .. Len(temp') /\ temp'[c] \in F!NamesIn(Path(Len(stack)))
      <4>1. Listed(Len(stack))' = Listed(L)
        BY <1>6, <2>6
      <4>2. 1 .. Len(temp) \subseteq 1 .. Len(temp')
        BY <1>2, <2>3
      <4> QED BY <2>3, <2>7, <4>1, <4>2
    <3> HIDE DEF p
    <3> QED BY <1>1, <1>6, <2>3, <2>4, <2>6, <3>1, <3>2, NamesAdded
  <2>9. FilesTypeInv'
    BY <1>1, <1>6, <2>3, <2>4 DEF FilesInv, FilesTypeInv
  <2>10. ClaimsInv' /\ CopyingInv' /\ F!CopyFaithful'
    BY <2>4, <2>5 DEF ClaimsInv, CopyingInv, F!CopyFaithful, TargetInv
  <2>11. GoalsInv'
    BY <1>1, <1>6, <2>6, GoalsKept
  <2> QED BY <2>5, <2>8, <2>9, <2>10, <2>11 DEF FilesInv
<1>7. \/ F!Mkdir_succeeds(g) /\ dst' = F!nob_mkdir_if_not_exists(g)
         /\ temp' \in F!nob_read_entire_dir(p)
         /\ stack' = [stack EXCEPT ![Len(stack)].children =
                        [k \in 1 .. Len(temp') - Len(temp) |-> Len(temp) + k]]
         /\ copy_pc' = "children" /\ ok' = ok
      \/ F!Mkdir_fails(g) /\ F!Return_(FALSE) /\ UNCHANGED <<dst, temp, stack>>
      \/ /\ F!Fault /\ (F!Exists(g) \/ F!MayCreate(g))
         /\ dst' = F!nob_mkdir_if_not_exists(g)
         /\ \E all \in F!nob_read_entire_dir(p), n \in 0 .. F!Cardinality(F!NamesIn(p)) :
              temp' = SubSeq(all, 1, Len(temp) + n)
         /\ F!Return_(FALSE) /\ stack' = stack
  <2> HIDE DEF p, g
  <2> QED BY <1>1 DEF F!Enter_directory
<1> QED BY <1>4, <1>5, <1>6, <1>7

LEMMA FilesChild ==
  ASSUME F!TreesAreTrees, FilesInv, F!Child
  PROVE  FilesInv'
<1> DEFINE L == Len(stack)
           p == Path(L)
           list == stack[L].children
           x == temp[Head(list)]
           q == Append(p, x)
           lead == F!Lead(Goal(L))
           goal == Append(lead, x)
           st == [stack EXCEPT ![Len(stack)].children = Tail(list)]
           new == F!Call_(q, goal, temp)
<1>1. /\ copy_pc = "children" /\ UNCHANGED <<src, dst, before, temp, copying, ok, copy_faults>>
      /\ copy_pc' = "enter" /\ list # << >> /\ ok
      /\ stack' = Append([stack EXCEPT ![Len(stack)].children = Tail(@)], new)
  BY StackIs DEF F!Child, FilesInv, FilesTypeInv
<1>2. /\ L \in Nat \ {0} /\ L \in 1 .. L /\ src \in CopyTrees /\ before \in CopyTargets
      /\ p \in Seq(FileNames) /\ p \in DOMAIN src /\ list \in Seq(Nat)
  BY <1>1, StackIs
<1>3. /\ Tail(list) \in Seq(Nat) /\ Len(Tail(list)) = Len(list) - 1 /\ Len(list) \in Nat \ {0}
      /\ \A j \in 1 .. Len(Tail(list)) : Tail(list)[j] = list[j + 1]
      /\ Head(list) = list[1]
  <2>1. Len(list) \in Nat \ {0}
    BY <1>1, <1>2, EmptySeq
  <2> HIDE DEF list
  <2> QED BY <1>1, <1>2, <2>1, HeadTailProperties
<1>4. /\ Head(list) \in Listed(L)
      /\ \A c \in Listed(L) : c = Head(list) \/ \E j \in 1 .. Len(Tail(list)) : c = Tail(list)[j]
      /\ \A j \in 1 .. Len(Tail(list)) : Tail(list)[j] \in Listed(L)
  <2>1. Listed(L) = {list[j] : j \in 1 .. Len(list)}
    BY DEF Listed
  <2> HIDE DEF list
  <2>2. 1 \in 1 .. Len(list) /\ \A j \in 1 .. Len(Tail(list)) : j + 1 \in 1 .. Len(list)
    BY <1>3
  <2>3. ASSUME NEW j \in 1 .. Len(list), j # 1 PROVE list[j] = Tail(list)[j - 1] /\ j - 1 \in 1 .. Len(Tail(list))
    <3>1. j - 1 \in 1 .. Len(Tail(list)) /\ (j - 1) + 1 = j
      BY <1>3, <2>3
    <3> QED BY <1>3, <3>1
  <2> QED BY <1>3, <2>1, <2>2, <2>3
<1>5. \A c \in Listed(L) : c \in 1 .. Len(temp) /\ temp[c] \in F!NamesIn(p)
  BY <1>2 DEF FilesInv, MarksInv
<1>6. x \in F!NamesIn(p)
  BY <1>4, <1>5
<1>7. x \in FileNames /\ q \in DOMAIN src /\ q \in Seq(FileNames) /\ Below(q, p)
  <2>1. x \in FileNames /\ q \in DOMAIN src
    BY <1>2, <1>6, NameIn
  <2> HIDE DEF p, x
  <2> QED BY <1>2, <2>1, Appending
<1>0. /\ lead \in Seq(FileNames) /\ goal \in Seq(FileNames)
      /\ goal = q \/ F!Led(goal)
      /\ F!Plain => goal = q
  <2>1. lead \in Seq(FileNames) /\ (lead = p \/ F!Led(lead)) /\ (F!Plain => lead = p)
    BY <1>1, LeadReached
  <2> HIDE DEF lead, p, x
  <2>2. goal \in Seq(FileNames) /\ Below(goal, lead)
    BY <1>7, <2>1, Appending
  <2>3. F!Led(lead) => F!Led(goal)
    <3> HIDE DEF goal
    <3>1. ASSUME NEW l \in F!Followed, F!Below(lead, before[l].to) PROVE F!Below(goal, before[l].to)
      <4>1. before[l].to \in Seq(FileNames)
        <5>1. before[l] \in [type : F!Kinds, content : Seq(Nat), to : Seq(FileNames)]
          BY <1>2, FilesLegal DEF F!Followed
        <5> QED BY <5>1
      <4>2. Below(lead, before[l].to)
        BY <3>1 DEF F!Below, Below
      <4>3. Below(goal, before[l].to)
        BY <2>1, <2>2, <4>1, <4>2, BelowTransitive
      <4> QED BY <4>3 DEF F!Below, Below
    <3> QED BY <3>1 DEF F!Led
  <2> QED BY <2>1, <2>2, <2>3
<1>8. Len(temp) \in Nat \ {0} /\ temp \in Seq(Names_)
  BY LenProperties DEF FilesInv, FilesTypeInv, MarksInv
<1>9. new \in Frames /\ new.path = q /\ new.goal = goal /\ new.mark = Len(temp) /\ new.children = << >>
  <2> HIDE DEF q, goal
  <2>1. << >> \in Seq(Nat)
    BY EmptySeq
  <2> QED BY <1>0, <1>7, <1>8, <2>1 DEF Frames, F!Call_
<1>10. /\ st \in Seq(Frames) /\ Len(st) = L
       /\ \A n \in 1 .. L : st[n].path = Path(n) /\ st[n].goal = Goal(n) /\ st[n].mark = stack[n].mark
       /\ \A n \in 1 .. L - 1 : st[n] = stack[n]
       /\ st[L].children = Tail(list)
  <2> DEFINE t == Tail(list)
  <2>1. t \in Seq(Nat) /\ copy_pc # "done"
    BY <1>1, <1>3
  <2> HIDE DEF t
  <2>2. \A s : s = [stack EXCEPT ![Len(stack)].children = t] =>
          /\ s \in Seq(Frames) /\ Len(s) = Len(stack)
          /\ \A n \in 1 .. Len(stack) :
               s[n].path = Path(n) /\ s[n].goal = Goal(n) /\ s[n].mark = stack[n].mark
          /\ \A n \in 1 .. Len(stack) - 1 : s[n] = stack[n]
          /\ s[Len(stack)].children = t
    BY <2>1, ListSet
  <2>3. st = [stack EXCEPT ![Len(stack)].children = t]
    BY DEF t
  <2> HIDE DEF st
  <2> QED BY <2>2, <2>3 DEF t
<1>11. stack' = Append(st, new)
  BY <1>1
<1> HIDE DEF st, new, x, list, lead
<1>12. /\ stack' \in Seq(Frames) /\ Len(stack') = L + 1
       /\ \A n \in 1 .. L : stack'[n] = st[n]
       /\ stack'[L + 1] = new
  <2> HIDE DEF L
  <2> QED BY <1>9, <1>10, <1>11, AppendProperties
<1>13. \A n : Path(n)' = stack'[n].path
  BY DEF Path
<1>14. /\ \A n \in 1 .. L : stack'[n].path = Path(n) /\ stack'[n].mark = stack[n].mark
       /\ \A n \in 1 .. L - 1 : stack'[n].children = stack[n].children
       /\ stack'[L].children = Tail(list)
       /\ stack'[L + 1].path = q /\ stack'[L + 1].mark = Len(temp) /\ stack'[L + 1].children = << >>
       /\ \A n \in 1 .. L : Path(n)' = Path(n)
  <2>1. \A n \in 1 .. L - 1 : n \in 1 .. L
    BY <1>2
  <2> QED BY <1>2, <1>9, <1>10, <1>12, <1>13, <2>1
<1>25. GoalsInv'
  <2>1. \A n : Goal(n)' = stack'[n].goal
    BY DEF Goal
  <2> HIDE DEF goal, q
  <2>2. \A n \in 1 .. L : stack'[n].goal = Goal(n)
    BY <1>10, <1>12
  <2>3. stack'[L + 1].goal = goal /\ stack'[L + 1].path = q
    BY <1>9, <1>12
  <2>4. ASSUME NEW n \in 1 .. Len(stack')
        PROVE  /\ stack'[n].goal = stack'[n].path \/ F!Led(stack'[n].goal)
               /\ F!Plain => stack'[n].goal = stack'[n].path
    <3>1. CASE n \in 1 .. L
      <4>1. /\ Goal(n) = Path(n) \/ F!Led(Goal(n))
            /\ F!Plain => Goal(n) = Path(n)
        BY <3>1 DEF FilesInv, GoalsInv
      <4> QED BY <3>1, <4>1, <1>14, <2>2
    <3>2. CASE n = L + 1
      BY <3>2, <2>3, <1>0
    <3> QED BY <3>1, <3>2, <1>2, <1>12
  <2> QED BY <2>1, <2>4, <1>1, <1>13, Settled_ DEF GoalsInv
<1>15. \A n : Listed(n)' = {stack'[n].children[j] : j \in 1 .. Len(stack'[n].children)}
  BY DEF Listed
<1>16. /\ \A n \in 1 .. L - 1 : Listed(n)' = Listed(n)
       /\ \A n \in 1 .. L : \A c \in Listed(n)' : c \in Listed(n)
       /\ \A n : n = L + 1 => Listed(n)' = {}
  <2>1. \A n \in 1 .. L - 1 : Listed(n)' = Listed(n)
    BY <1>14, <1>15 DEF Listed
  <2>2. ASSUME NEW n, n = L + 1 PROVE Listed(n)' = {}
    <3>1. Len(<< >>) = 0
      BY EmptySeq
    <3> QED BY <2>2, <3>1, <1>14, <1>15
  <2>3. ASSUME NEW n \in 1 .. L, NEW c \in Listed(n)' PROVE c \in Listed(n)
    <3>1. CASE n = L
      <4>1. PICK j \in 1 .. Len(Tail(list)) : c = Tail(list)[j]
        BY <2>3, <3>1, <1>14, <1>15
      <4> QED BY <3>1, <4>1, <1>4
    <3>2. CASE n # L
      <4>1. n \in 1 .. L - 1
        BY <3>2, <1>2
      <4> QED BY <2>1, <2>3, <4>1
    <3> QED BY <3>1, <3>2
  <2> QED BY <2>1, <2>2, <2>3
<1>17. \A n : F!NamesIn(n)' = F!NamesIn(n)
  BY <1>1 DEF F!NamesIn
<1>18. PathsInv /\ MarksInv
  BY DEF FilesInv
<1>19. /\ \A n \in 1 .. L + 1 : n \in 1 .. L \/ n = L + 1
       /\ \A n \in 1 .. L : n = L \/ n \in 1 .. L - 1
       /\ 1 \in 1 .. L /\ (L + 1) - 1 = L
       /\ \A n \in 1 .. L - 1 : n + 1 \in 1 .. L /\ n \in 1 .. L
  BY <1>2
<1>20. PathsInv'
  <2>1. stack'[1].path = << >>
    <3>1. L > 0
      BY <1>2
    <3>2. Path(1) = << >>
      BY <1>18, <3>1 DEF PathsInv
    <3> QED BY <3>2, <1>14, <1>19
  <2>2. \A n \in 1 .. L + 1 : stack'[n].path \in DOMAIN src'
    BY <1>1, <1>7, <1>14, <1>18, <1>19 DEF PathsInv
  <2>3. ASSUME NEW n \in 1 .. L + 1, NEW m \in 1 .. n PROVE Below(stack'[n].path, stack'[m].path)
    <3>1. CASE n \in 1 .. L
      <4>1. m \in 1 .. L
        BY <1>2, <3>1
      <4> QED BY <3>1, <4>1, <1>14, <1>18 DEF PathsInv
    <3>2. CASE n = L + 1 /\ m \in 1 .. L
      <4>1. Below(p, Path(m)) /\ Path(m) \in Seq(FileNames)
        BY <1>1, <1>2, <1>18, <3>2, StackIs DEF PathsInv
      <4>2. Below(q, Path(m))
        BY <4>1, <1>2, <1>7, BelowTransitive
      <4> QED BY <4>2, <3>2, <1>14
    <3>3. CASE n = L + 1 /\ m = L + 1
      <4>1. Len(q) \in Nat
        BY <1>7, LenProperties
      <4> HIDE DEF q
      <4>2. Below(q, q)
        BY <4>1 DEF Below
      <4> QED BY <4>2, <3>3, <1>14
    <3> QED BY <1>2, <3>1, <3>2, <3>3
  <2>4. ASSUME NEW n \in 1 .. L
        PROVE  \E y \in F!NamesIn(stack'[n].path) : stack'[n + 1].path = Append(stack'[n].path, y)
    <3>1. CASE n = L
      BY <3>1, <1>2, <1>6, <1>14
    <3>2. CASE n \in 1 .. L - 1
      <4>1. \E y \in F!NamesIn(Path(n)) : Path(n + 1) = Append(Path(n), y)
        BY <3>2, <1>18 DEF PathsInv
      <4> QED BY <3>2, <4>1, <1>14, <1>19
    <3> QED BY <1>19, <3>1, <3>2
  <2>5. \A n \in 1 .. L : \E y \in F!NamesIn(Path(n))' : Path(n + 1)' = Append(Path(n)', y)
    BY <1>1, <1>13, <2>4 DEF F!NamesIn
  <2> HIDE DEF L
  <2> QED BY <1>12, <1>13, <1>19, <2>1, <2>2, <2>3, <2>5 DEF PathsInv
<1>21. MarksInv'
  <2>1. Len(temp) > 0 /\ temp[1] = "kept" /\ stack'[1].mark = 1
    <3>1. L > 0
      BY <1>2
    <3>2. Len(temp) > 0 /\ temp[1] = "kept" /\ stack[1].mark = 1
      BY <1>18, <3>1 DEF MarksInv
    <3> QED BY <3>2, <1>14, <1>19
  <2>2. \A n \in 1 .. L : stack[n].mark \in 1 .. Len(temp) /\ \A c \in Listed(n) : c \in 1 .. Len(temp)
    BY <1>18 DEF MarksInv
  <2>3. \A n \in 1 .. L + 1 : stack'[n].mark \in 1 .. Len(temp)
    <3> SUFFICES ASSUME NEW n \in 1 .. L + 1 PROVE stack'[n].mark \in 1 .. Len(temp)
      OBVIOUS
    <3>1. CASE n \in 1 .. L
      BY <1>14, <2>2, <3>1
    <3>2. CASE n = L + 1
      <4>1. Len(temp) \in 1 .. Len(temp)
        BY <1>8
      <4> QED BY <1>14, <3>2, <4>1
    <3> QED BY <1>19, <3>1, <3>2
  <2>4. ASSUME NEW n \in 1 .. L + 1, NEW c \in Listed(n)'
        PROVE  c \in 1 .. Len(temp) /\ temp[c] \in F!NamesIn(stack'[n].path)
    <3>1. CASE n \in 1 .. L
      <4>1. c \in Listed(n)
        BY <1>16, <2>4, <3>1
      <4> QED BY <3>1, <4>1, <1>14, <1>18 DEF MarksInv
    <3>2. CASE n = L + 1
      BY <1>16, <2>4, <3>2
    <3> QED BY <1>19, <3>1, <3>2
  <2>5. ASSUME NEW n \in 1 .. L + 1, NEW m \in 1 .. n - 1
        PROVE  stack'[m].mark <= stack'[n].mark /\ \A c \in Listed(m)' : c <= stack'[n].mark
    <3>0. m \in 1 .. L
      BY <1>2
    <3>1. CASE n \in 1 .. L
      <4>1. stack[m].mark <= stack[n].mark /\ \A c \in Listed(m) : c <= stack[n].mark
        BY <3>1, <1>18 DEF MarksInv
      <4> QED BY <3>0, <3>1, <4>1, <1>14, <1>16
    <3>2. CASE n = L + 1
      BY <3>0, <3>2, <1>8, <1>14, <1>16, <2>2
    <3> QED BY <1>19, <3>1, <3>2
  <2>6. \A n \in 1 .. L + 1 : \A c \in Listed(n)' :
          c \in 1 .. Len(temp') /\ temp'[c] \in F!NamesIn(Path(n))'
    BY <1>1, <1>13, <2>4 DEF F!NamesIn
  <2> HIDE DEF L
  <2> QED BY <1>1, <1>12, <2>1, <2>3, <2>5, <2>6 DEF MarksInv
<1>22. FilesTypeInv'
  <2>1. Len(stack') > 0
    BY <1>2, <1>12
  <2> QED BY <1>1, <1>2, <1>8, <1>12, <2>1 DEF FilesInv, FilesTypeInv
<1>23. ClaimsInv'
  <2> SUFFICES ASSUME F!Plain PROVE ClaimsInv'
    BY <1>1, Settled_ DEF ClaimsInv
  <2>1. \A n \in 1 .. L - 1 : Claim(n)'
    <3>1. Len(stack') >= Len(stack)
      BY <1>2, <1>12
    <3>2. Steady(dst, dst', p)
      BY <1>1 DEF Steady
    <3> QED BY <1>1, <1>14, <1>16, <3>1, <3>2, LowerClaims
  <2>2. ASSUME NEW n \in 1 .. L, n = L PROVE Claim(n)'
    <3>1. Claim(n)
      BY <1>1, <2>2 DEF FilesInv, ClaimsInv
    <3>2. Path(n)' = p /\ stack'[n + 1].path = q /\ n < Len(stack')
      <4>1. \A m \in 1 .. L : Path(m)' = Path(m)
        BY <1>14
      <4>2. Path(n)' = Path(n)
        BY <2>2, <4>1
      <4>3. Path(n) = p
        BY <2>2
      <4>4. stack'[n + 1].path = q
        <5>1. stack'[L + 1].path = q
          BY <1>14
        <5> HIDE DEF L, q
        <5> QED BY <2>2, <5>1
      <4>5. n < Len(stack')
        <5>1. Len(stack') = L + 1 /\ L \in Nat
          BY <1>2, <1>12
        <5> HIDE DEF L
        <5> QED BY <2>2, <5>1
      <4> HIDE DEF p, q
      <4> QED BY <4>2, <4>3, <4>4, <4>5
    <3>3. ASSUME NEW y \in F!NamesIn(p)
          PROVE  \/ Copied(Append(p, y))
                 \/ \E c \in Listed(n)' : temp'[c] = y
                 \/ stack'[n + 1].path = Append(p, y)
      <4>1. Copied(Append(p, y)) \/ \E c \in Listed(n) : temp[c] = y
        BY <2>2, <3>1, <3>3 DEF Claim
      <4>2. ASSUME NEW c \in Listed(n), temp[c] = y
            PROVE  c \in Listed(n)' \/ stack'[n + 1].path = Append(p, y)
        <5>1. CASE c = Head(list)
          BY <5>1, <3>2, <4>2 DEF x
        <5>2. CASE \E j \in 1 .. Len(Tail(list)) : c = Tail(list)[j]
          BY <5>2, <1>14, <1>15, <2>2
        <5> QED BY <1>4, <2>2, <5>1, <5>2
      <4> QED BY <4>1, <4>2, <1>1
    <3>4. \A y \in F!NamesIn(Path(n))' :
            \/ Copied(Append(p, y))
            \/ \E c \in Listed(n)' : temp'[c] = y
            \/ n < Len(stack') /\ Path(n + 1)' = Append(p, y)
      <4>1. F!NamesIn(Path(n))' = F!NamesIn(p)
        BY <1>1, <3>2 DEF F!NamesIn
      <4> QED BY <1>13, <3>2, <3>3, <4>1
    <3>5. src'[Path(n)'].type = "dir"
      BY <1>1, <2>2, <3>1, <3>2 DEF Claim
    <3>6. \A y : Copied(Append(p, y)) <=> Copies(src', dst', Append(p, y))
      BY <1>1 DEF Copied
    <3> HIDE DEF p
    <3> QED BY <3>2, <3>4, <3>5, <3>6 DEF Claim, Copied
  <2>3. \A n \in 1 .. L + 1 : n < L + 1 => Claim(n)'
    <3> SUFFICES ASSUME NEW n \in 1 .. L + 1, n < L + 1 PROVE Claim(n)'
      OBVIOUS
    <3>1. n \in 1 .. L
      BY <1>2
    <3> QED BY <1>19, <2>1, <2>2, <3>1
  <2> HIDE DEF L
  <2> QED BY <1>1, <1>12, <2>3 DEF ClaimsInv
<1>24. TargetInv' /\ CopyingInv' /\ F!CopyFaithful'
  <2>1. TargetInv'
    BY <1>1, Unchanged_
  <2> QED BY <1>1, <2>1 DEF CopyingInv, F!CopyFaithful, TargetInv
<1> QED BY <1>20, <1>21, <1>22, <1>23, <1>24, <1>25 DEF FilesInv

LEMMA FilesReturn ==
  ASSUME F!TreesAreTrees, FilesInv, F!Return
  PROVE  FilesInv'
<1> DEFINE L == Len(stack)
           p == Path(L)
           mark == stack[L].mark
<1>1. /\ copy_pc = "return" /\ UNCHANGED <<src, dst, before, copying, ok, copy_faults>>
      /\ temp' = SubSeq(temp, 1, mark) /\ stack' = F!Front(stack)
      /\ copy_pc' = IF L = 1 THEN "done" ELSE IF ok THEN "children" ELSE "return"
  BY StackIs DEF F!Return, F!nob_temp_rewind
<1>2. /\ L \in Nat \ {0} /\ L \in 1 .. L /\ src \in CopyTrees /\ before \in CopyTargets
      /\ stack \in Seq(Frames) /\ temp \in Seq(Names_) /\ Len(temp) \in Nat
      /\ PathsInv /\ MarksInv /\ ok \in BOOLEAN
  BY <1>1, StackIs, LenProperties DEF FilesInv, FilesTypeInv
<1>3. mark \in 1 .. Len(temp) /\ mark \in 0 .. Len(temp) /\ mark \in Nat
  BY <1>2 DEF MarksInv
<1> HIDE DEF mark
<1>4. temp' \in Seq(Names_) /\ Len(temp') = mark /\ \A c \in 1 .. mark : temp'[c] = temp[c]
  BY <1>1, <1>2, <1>3, AnyPrefix
<1>5. stack' \in Seq(Frames) /\ Len(stack') = L - 1 /\ \A n \in 1 .. L - 1 : stack'[n] = stack[n]
  <2> DEFINE k == L - 1
  <2>1. k \in 0 .. L /\ stack' = SubSeq(stack, 1, k)
    BY <1>1, <1>2 DEF F!Front
  <2> HIDE DEF k
  <2>2. /\ SubSeq(stack, 1, k) \in Seq(Frames) /\ Len(SubSeq(stack, 1, k)) = k
        /\ \A j \in 1 .. k : SubSeq(stack, 1, k)[j] = stack[j]
    BY <1>2, <2>1, AnyPrefix
  <2> HIDE DEF L
  <2>3. stack' \in Seq(Frames) /\ Len(stack') = k /\ \A j \in 1 .. k : stack'[j] = stack[j]
    BY <2>1, <2>2
  <2> QED BY <2>3 DEF k
<1>6. \A n \in 1 .. L - 1 : Path(n)' = Path(n) /\ Goal(n)' = Goal(n) /\ Listed(n)' = Listed(n)
  BY <1>5 DEF Path, Goal, Listed
<1>7. /\ \A n \in 1 .. L - 1 : n \in 1 .. L /\ n \in 1 .. L - 1 /\ n + 1 \in 1 .. L
      /\ \A n \in 1 .. L - 1 : \A m \in 1 .. n : m \in 1 .. L - 1
      /\ \A n \in 1 .. L - 1 : \A m \in 1 .. n - 1 : m \in 1 .. L - 1
      /\ \A n \in 1 .. (L - 1) - 1 : n \in 1 .. L - 1 /\ n + 1 \in 1 .. L - 1
      /\ L > 0 /\ (L - 1 > 0 => 1 \in 1 .. L - 1)
  BY <1>2
<1>8. \A q : F!NamesIn(q)' = F!NamesIn(q)
  BY <1>1 DEF F!NamesIn
<1>9. \A n \in 1 .. L - 1 : stack[n].mark <= mark /\ \A c \in Listed(n) : c <= mark
  BY <1>2 DEF MarksInv, mark
<1>10. copy_pc' = "done" => L = 1 /\ temp' = F!Kept
  <2> SUFFICES ASSUME copy_pc' = "done" PROVE L = 1 /\ temp' = F!Kept
    OBVIOUS
  <2>1. L = 1
    BY <1>1
  <2>2. mark = 1 /\ temp[1] = "kept"
    BY <1>2, <1>7, <2>1 DEF MarksInv, mark
  <2>3. 1 \in 1 .. mark
    BY <2>2
  <2>4. Len(temp') = 1 /\ temp'[1] = "kept"
    BY <1>4, <2>2, <2>3
  <2>5. temp' \in [1 .. 1 -> Names_]
    BY <1>4, <2>4, LenProperties
  <2>6. temp' = << "kept" >>
    BY <2>4, <2>5
  <2> QED BY <2>1, <2>6 DEF F!Kept
<1>11. PathsInv'
  <2>1. \A n \in 1 .. L - 1 : Path(n) \in DOMAIN src /\ \A m \in 1 .. n : Below(Path(n), Path(m))
    BY <1>2, <1>7 DEF PathsInv
  <2>2. \A n \in 1 .. L - 1 : \E x \in F!NamesIn(Path(n)) : Path(n + 1) = Append(Path(n), x)
    BY <1>2 DEF PathsInv
  <2>3. Path(1) = << >>
    BY <1>2, <1>7 DEF PathsInv
  <2>4. \A n \in 1 .. L - 1 : \A m \in 1 .. n : Below(Path(n)', Path(m)')
    BY <1>6, <1>7, <2>1
  <2>5. \A n \in 1 .. (L - 1) - 1 : \E x \in F!NamesIn(Path(n))' : Path(n + 1)' = Append(Path(n)', x)
    <3> SUFFICES ASSUME NEW n \in 1 .. (L - 1) - 1
                 PROVE  \E x \in F!NamesIn(Path(n))' : Path(n + 1)' = Append(Path(n)', x)
      OBVIOUS
    <3>1. Path(n)' = Path(n) /\ Path(n + 1)' = Path(n + 1)
      BY <1>6, <1>7
    <3>2. F!NamesIn(Path(n))' = F!NamesIn(Path(n))
      BY <1>1, <3>1 DEF F!NamesIn
    <3> QED BY <1>7, <2>2, <3>1, <3>2
  <2>6. \A n \in 1 .. L - 1 : Path(n)' \in DOMAIN src'
    BY <1>1, <1>6, <2>1
  <2>7. L - 1 > 0 => Path(1)' = << >>
    BY <1>6, <1>7, <2>3
  <2> HIDE DEF L
  <2> QED BY <1>5, <2>4, <2>5, <2>6, <2>7 DEF PathsInv
<1>12. MarksInv'
  <2>1. Len(temp') > 0 /\ temp'[1] = "kept"
    <3>1. 1 \in 1 .. mark
      BY <1>3
    <3> QED BY <3>1, <1>2, <1>3, <1>4 DEF MarksInv
  <2>2. L - 1 > 0 => stack'[1].mark = 1
    BY <1>2, <1>5, <1>7 DEF MarksInv
  <2>3. \A n \in 1 .. L - 1 : stack'[n].mark \in 1 .. Len(temp')
    <3> SUFFICES ASSUME NEW n \in 1 .. L - 1 PROVE stack'[n].mark \in 1 .. Len(temp')
      OBVIOUS
    <3>1. stack[n].mark \in 1 .. Len(temp)
      BY <1>2, <1>7 DEF MarksInv
    <3> QED BY <3>1, <1>3, <1>4, <1>5, <1>9
  <2>4. \A n \in 1 .. L - 1 : \A c \in Listed(n)' :
          c \in 1 .. Len(temp') /\ temp'[c] \in F!NamesIn(Path(n))'
    <3> SUFFICES ASSUME NEW n \in 1 .. L - 1, NEW c \in Listed(n)'
                 PROVE  c \in 1 .. Len(temp') /\ temp'[c] \in F!NamesIn(Path(n))'
      OBVIOUS
    <3>1. c \in Listed(n) /\ Path(n)' = Path(n)
      BY <1>6
    <3>2. c \in 1 .. Len(temp) /\ temp[c] \in F!NamesIn(Path(n))
      BY <1>2, <1>7, <3>1 DEF MarksInv
    <3>3. c \in 1 .. mark
      BY <1>3, <1>9, <3>1, <3>2
    <3>4. F!NamesIn(Path(n))' = F!NamesIn(Path(n))
      BY <1>1, <3>1 DEF F!NamesIn
    <3> QED BY <1>4, <3>2, <3>3, <3>4
  <2>5. \A n \in 1 .. L - 1 : \A m \in 1 .. n - 1 :
          /\ stack'[m].mark <= stack'[n].mark
          /\ \A c \in Listed(m)' : c <= stack'[n].mark
    <3> SUFFICES ASSUME NEW n \in 1 .. L - 1, NEW m \in 1 .. n - 1
                 PROVE  stack'[m].mark <= stack'[n].mark /\ \A c \in Listed(m)' : c <= stack'[n].mark
      OBVIOUS
    <3>1. stack[m].mark <= stack[n].mark /\ \A c \in Listed(m) : c <= stack[n].mark
      BY <1>2, <1>7 DEF MarksInv
    <3> QED BY <3>1, <1>5, <1>6, <1>7
  <2> HIDE DEF L
  <2> QED BY <1>5, <1>10, <2>1, <2>2, <2>3, <2>4, <2>5 DEF MarksInv
<1>13. FilesTypeInv'
  <2>1. copy_pc' # "done" => Len(stack') > 0
    BY <1>1, <1>2, <1>5
  <2>2. copy_pc' \in {"children", "return", "done"} /\ (copy_pc' = "children" => ok')
    BY <1>1
  <2> QED BY <1>1, <1>2, <1>4, <1>5, <2>1, <2>2 DEF FilesTypeInv
<1>14. ok /\ F!Plain => Copied(p)
  BY <1>1, StackIs DEF FilesInv, ClaimsInv
<1>15. ClaimsInv'
  <2> SUFFICES ASSUME ok, F!Plain PROVE ClaimsInv'
    BY <1>1, Settled_ DEF ClaimsInv
  <2>1. \A n \in 1 .. L - 1 : Claim(n)'
    <3> SUFFICES ASSUME NEW n \in 1 .. L - 1 PROVE Claim(n)'
      OBVIOUS
    <3>1. n \in 1 .. L /\ n < L
      BY <1>2
    <3>2. Claim(n)
      BY <3>1 DEF FilesInv, ClaimsInv
    <3>3. Path(n)' = Path(n) /\ Listed(n)' = Listed(n)
      BY <1>6
    <3>4. \A c \in Listed(n) : temp'[c] = temp[c]
      <4>1. \A c \in Listed(n) : c \in 1 .. Len(temp)
        BY <1>2, <3>1 DEF MarksInv
      <4>2. \A c \in Listed(n) : c \in 1 .. mark
        BY <1>3, <1>9, <4>1
      <4> QED BY <1>4, <4>2
    <3>5. ASSUME NEW x \in F!NamesIn(Path(n))
          PROVE  \/ Copied(Append(Path(n), x))
                 \/ \E c \in Listed(n) : temp'[c] = x
                 \/ n < L - 1 /\ Path(n + 1)' = Append(Path(n), x)
      <4>1. CASE n < L - 1
        <5>1. n + 1 \in 1 .. L - 1
          BY <1>2, <4>1
        <5>2. Path(n + 1)' = Path(n + 1)
          BY <1>6, <5>1
        <5> QED BY <3>2, <3>4, <3>5, <4>1, <5>2 DEF Claim
      <4>2. CASE ~ (n < L - 1)
        <5>1. n + 1 = L
          BY <1>2, <4>2
        <5>2. Path(n + 1) = Append(Path(n), x) => Copied(Append(Path(n), x))
          BY <1>14, <5>1
        <5> QED BY <3>2, <3>4, <3>5, <5>2 DEF Claim
      <4> QED BY <4>1, <4>2
    <3>6. F!NamesIn(Path(n))' = F!NamesIn(Path(n)) /\ src'[Path(n)'].type = "dir"
      BY <1>1, <3>2, <3>3 DEF F!NamesIn, Claim
    <3>7. \A y : Copied(y) <=> Copies(src', dst', y)
      BY <1>1 DEF Copied
    <3> HIDE DEF L
    <3> QED BY <1>5, <3>3, <3>5, <3>6, <3>7 DEF Claim, Copied
  <2>2. copy_pc' = "done" => Copied(<< >>)'
    <3> SUFFICES ASSUME copy_pc' = "done" PROVE Copied(<< >>)'
      OBVIOUS
    <3>1. L = 1 /\ Path(1) = << >>
      BY <1>2, <1>7, <1>10 DEF PathsInv
    <3>2. Copied(<< >>)
      BY <1>14, <3>1
    <3> QED BY <1>1, <3>2 DEF Copied
  <2>3. copy_pc' # "return"
    BY <1>1
  <2> HIDE DEF L
  <2> QED BY <1>5, <2>1, <2>2, <2>3 DEF ClaimsInv
<1>16. TargetInv' /\ TargetInv /\ CopyingInv'
  BY <1>1, Unchanged_ DEF CopyingInv, FilesInv
<1>17. F!CopyFaithful'
  <2> SUFFICES ASSUME copy_pc' = "done" PROVE F!CopyFaithful'
    BY <1>16 DEF F!CopyFaithful, TargetInv
  <2>1. ASSUME ok, F!Plain, NEW q \in DOMAIN src, src[q].type = "file"
        PROVE  q \in DOMAIN dst /\ dst[q] = src[q] /\ F!MayCreate(q)
    <3>1. Copied(<< >>)
      <4>1. L = 1 /\ Path(1) = << >>
        BY <1>2, <1>7, <1>10 DEF PathsInv
      <4> QED BY <1>14, <2>1, <4>1
    <3>2. Below(q, << >>)
      <4>1. q \in Seq(FileNames) /\ Len(<< >>) = 0
        BY <1>2, FilesLegal, EmptySeq
      <4>2. Len(q) \in Nat
        BY <4>1, LenProperties
      <4> QED BY <4>1, <4>2 DEF Below
    <3>3. q \in DOMAIN dst /\ dst[q] = src[q]
      BY <2>1, <3>1, <3>2 DEF Copied, Copies
    <3>4. q # F!Outside
      BY <1>2, SourceLegal
    <3> QED BY <3>3, <3>4, <1>16 DEF F!MayCreate, TargetInv
  <2>2. F!OthersKept'
    BY <1>16 DEF TargetInv
  <2>3. temp' = F!Kept
    BY <1>10
  <2>4. \A q : F!MayCreate(q)' <=> F!MayCreate(q)
    BY <1>1 DEF F!MayCreate, F!Is, F!Exists
  <2> QED BY <1>1, <2>1, <2>2, <2>3, <2>4, Settled_ DEF F!CopyFaithful, F!Exists
<1>18. GoalsInv'
  BY <1>1, <1>5, <1>6, <1>7, GoalsKept
<1> QED BY <1>18, <1>11, <1>12, <1>13, <1>15, <1>16, <1>17 DEF FilesInv

LEMMA FilesStart ==
  ASSUME F!TreesAreTrees, F!FilesInit
  PROVE  FilesInv
<1> DEFINE first == F!Call_(<< >>, << >>, temp)
<1>1. /\ src \in CopyTrees /\ dst \in CopyTargets /\ before = dst
      /\ temp = << "kept" >> /\ stack = << first >> /\ copy_pc = "enter" /\ ok = TRUE
  BY DEF F!FilesInit, F!Kept
<1>2. Len(temp) = 1 /\ temp[1] = "kept" /\ temp \in Seq(Names_)
  <2>1. "kept" \in Names_
    BY DEF Names_
  <2> QED BY <1>1, <2>1
<1>3. << >> \in Seq(FileNames) /\ << >> \in Seq(Nat) /\ Len(<< >>) = 0
  BY EmptySeq
<1>4. first \in Frames /\ first.path = << >> /\ first.goal = << >> /\ first.mark = 1 /\ first.children = << >>
  BY <1>2, <1>3 DEF Frames, F!Call_
<1> HIDE DEF first
<1>5. stack \in Seq(Frames) /\ Len(stack) = 1 /\ stack[1] = first
  BY <1>1, <1>4
<1>6. Path(1) = << >> /\ Listed(1) = {} /\ stack[1].mark = 1
  BY <1>3, <1>4, <1>5 DEF Path, Listed
<1>7. FilesTypeInv
  BY <1>1, <1>2, <1>5 DEF FilesTypeInv
<1>8. TargetInv
  BY <1>1, FilesLegal DEF TargetInv, F!OthersKept, F!Is, F!Exists
<1>13. GoalsInv
  <2>1. Goal(1) = << >> /\ \A n \in 1 .. Len(stack) : n = 1
    BY <1>4, <1>5 DEF Goal
  <2> QED BY <2>1, <1>6 DEF GoalsInv
<1>9. PathsInv
  <2>1. << >> \in DOMAIN src
    BY <1>1 DEF F!TreesAreTrees
  <2>2. Below(<< >>, << >>)
    BY <1>3 DEF Below
  <2>3. \A n \in 1 .. Len(stack) : n = 1 /\ \A m \in 1 .. n : m = 1
    BY <1>5
  <2>4. 1 .. Len(stack) - 1 = {}
    BY <1>5
  <2> QED BY <1>6, <2>1, <2>2, <2>3, <2>4 DEF PathsInv
<1>10. MarksInv
  <2>1. \A n \in 1 .. Len(stack) : n = 1 /\ 1 .. n - 1 = {}
    BY <1>5
  <2>2. Len(temp) > 0 /\ stack[1].mark \in 1 .. Len(temp)
    BY <1>2, <1>6
  <2> QED BY <1>1, <1>2, <1>6, <2>1, <2>2 DEF MarksInv
<1>11. ClaimsInv
  BY <1>1, <1>5 DEF ClaimsInv
<1>12. CopyingInv /\ F!CopyFaithful
  BY <1>1, <1>8 DEF CopyingInv, F!CopyFaithful, TargetInv
<1> QED BY <1>7, <1>8, <1>9, <1>10, <1>11, <1>12, <1>13 DEF FilesInv

LEMMA FilesStutter ==
  ASSUME FilesInv, UNCHANGED <<src, dst, before, stack, temp, copying, copy_pc, ok, copy_faults>>
  PROVE  FilesInv'
<1>1. \A n : /\ Path(n)' = Path(n) /\ Goal(n)' = Goal(n)
             /\ Listed(n)' = Listed(n) /\ F!NamesIn(n)' = F!NamesIn(n)
  BY DEF Path, Goal, Listed, F!NamesIn
<1>2. F!Top' = F!Top
  BY DEF F!Top
<1>3. FilesTypeInv' /\ TargetInv'
  BY Unchanged_ DEF FilesInv, FilesTypeInv
<1>4. PathsInv' /\ MarksInv'
  BY <1>1 DEF FilesInv, PathsInv, MarksInv
<1>5. ClaimsInv'
  <2>1. \A q : Copies(src', dst', q) <=> Copied(q)
    BY DEF Copied
  <2>2. \A n : Claim(n) => Claim(n)'
    BY <1>1 DEF Claim, Copied
  <2> QED BY <1>2, <2>1, <2>2, Settled_ DEF FilesInv, ClaimsInv, Copied
<1>6. CopyingInv' /\ F!CopyFaithful'
  <2>1. /\ (F!Plain' <=> F!Plain) /\ (F!Reached(copying.goal)' <=> F!Reached(copying.goal))
        /\ (F!OthersKept' <=> F!OthersKept)
    BY <1>3, Settled_ DEF FilesInv, TargetInv
  <2> QED BY <1>2, <2>1 DEF FilesInv, CopyingInv, F!CopyFaithful, F!MayCreate, F!Is, F!Exists
<1>7. GoalsInv'
  BY <1>1, GoalsKept
<1> QED BY <1>3, <1>4, <1>5, <1>6, <1>7 DEF FilesInv

(* For every tree, every target with whatever links and devices, any order *)
(* of the names and any plan of faults: nob_copy_directory_recursively     *)
(* (nob.h, line 1647) that answers true has copied every regular file, if  *)
(* no path of the copy is a link or a device in the target.  No answer,    *)
(* and no abort, leaves something changed that has no counterpart in the   *)
(* source and does not lie where a link in the way leads: open and mkdir   *)
(* follow those.  And the temporary storage is what it was, although every *)
(* call of the recursion leaves names in it that its callers' lists still  *)
(* point at.                                                               *)
THEOREM CopyIsFaithful == ASSUME F!TreesAreTrees PROVE F!FilesSpec => []CopyFaithful
<1>1. F!FilesInit => FilesInv
  BY FilesStart
<1>2. FilesInv /\ [F!FilesNext]_F!files_vars => FilesInv'
  <2> SUFFICES ASSUME FilesInv, [F!FilesNext]_F!files_vars PROVE FilesInv'
    OBVIOUS
  <2>1. CASE F!Enter_directory
    BY <2>1, FilesEnterDirectory
  <2>2. CASE F!Enter_other
    BY <2>2, FilesEnterOther
  <2>3. CASE F!Enter_file
    BY <2>3, FilesEnterFile
  <2>4. CASE F!Read
    BY <2>4, FilesRead
  <2>5. CASE F!Write
    BY <2>5, FilesWrite
  <2>6. CASE F!Child
    BY <2>6, FilesChild
  <2>7. CASE F!LastChild
    BY <2>7, FilesLastChild
  <2>8. CASE F!Return
    BY <2>8, FilesReturn
  <2>9. CASE UNCHANGED F!files_vars
    BY <2>9, FilesStutter DEF F!files_vars
  <2> QED BY <2>1, <2>2, <2>3, <2>4, <2>5, <2>6, <2>7, <2>8, <2>9 DEF F!FilesNext, F!nob_copy_file
<1>3. FilesInv => CopyFaithful
  BY DEF FilesInv, CopyFaithful
<1> QED BY <1>1, <1>2, <1>3, PTL DEF F!FilesSpec
-----------------------------------------------------------------------------
(* The build programs, as Building has them.                               *)
Words   == FileNames \cup {"build", "o", "src", "limine_bootstub.c"}
BPaths  == Seq(Words)
Root    == << "src" >>
Wanted_ == {"dir", "c", "asm"}

Level   == [path : BPaths, todo : Seq(BPaths)]
Places_ == {"off", "walk", "mkdirs", "cc", "stub", "nasm", "link", "make", "iso_root", "copy", "cp_bios",
            "cp_efi", "xorriso", "install", "qemu"}

(* What the cells in use name; what the walk has still to look at.         *)
Named(cells, n) == {cells[k] : k \in 1 .. n}
Seen            == Named(arena, temp_size)
Spots(w)        == UNION {{<< n, j >> : j \in 1 .. Len(w[n].todo)} : n \in 1 .. Len(w)}
Its(w, x)       == w[x[1]].todo[x[2]]
Ahead(w)        == {Its(w, x) : x \in Spots(w)}
Once(w)         == \A x, y \in Spots(w) : Its(w, x) = Its(w, y) => x = y
Lost(w, Z)      == {Its(w, z) : z \in Z}
Moves(f, r, w, Z) ==
  /\ \A x, y \in Spots(r) : f[x] = f[y] => x = y
  /\ \A x \in Spots(r) : Its(r, x) = Its(w, f[x]) /\ f[x] \in Spots(w) /\ f[x] \notin Z
  /\ \A y \in Spots(w) : y \notin Z => \E x \in Spots(r) : f[x] = y
InNext(cells, n, s) == SubSeq(cells, 1, n) \o << s >> \o SubSeq(cells, n + 2, Len(cells))
Placed(r, cells, n, s) ==
  /\ r \in Seq(BPaths) /\ n \in Nat /\ n + 1 \in 0 .. Len(r) /\ n \in 0 .. Len(r)
  /\ \A k \in 1 .. n : r[k] = cells[k]
  /\ r[n + 1] = s
  /\ Named(r, n) = Named(cells, n) /\ Named(r, n + 1) = Named(cells, n) \cup {s}
TakeOff(w)      == [w EXCEPT ![Len(w)].todo = Tail(@)]
Apart(cells, n) == \A j, k \in 1 .. n : cells[j] = cells[k] => j = k

(* S has been seen of tree t, W is ahead: the one comes from the other, and *)
(* nothing is left behind.                                                  *)
Sound(S, W, t) ==
  /\ Root \in DOMAIN t
  /\ \A p \in S \cup W : p \in DOMAIN t /\ p # << >> /\ B!Front(p) \in S \cup {Root}
  /\ S \cap W = {}
  /\ \A p \in S : t[p] \in Wanted_
Complete(S, W, t) ==
  \A p \in DOMAIN t : p # << >> /\ B!Front(p) \in S \cup {Root} /\ t[p] \in Wanted_ => p \in S \cup W

(* One list is the other's without its first name; with more after it.     *)
OneLess(r, w, L) ==
  /\ Len(r) = L /\ \A n \in 1 .. L - 1 : r[n] = w[n]
  /\ Len(r[L].todo) = Len(w[L].todo) - 1
  /\ \A j \in 1 .. Len(w[L].todo) - 1 : r[L].todo[j] = w[L].todo[j + 1]
OneMore(r, w, L, todo) ==
  Len(r) = L + 1 /\ (\A n \in 1 .. L : r[n] = w[n]) /\ r[L + 1].todo = todo

Below_(p, t) == {q \in DOMAIN t : q # << >> /\ B!Front(q) = p}

-----------------------------------------------------------------------------
(* Trees of sources.                                                       *)
LEMMA SourcesLegal ==
  ASSUME B!SourcesAreLegal, NEW t \in Trees \cup StubTrees, NEW p \in DOMAIN t
  PROVE  /\ p \in Seq(FileNames) /\ p \in BPaths /\ p # << >> /\ Len(p) \in Nat \ {0}
         /\ Len(p) = 1 => p = Root /\ t[p] = "dir"
         /\ Len(p) > 1 => B!Front(p) \in DOMAIN t /\ t[B!Front(p)] = "dir"
<1>1. /\ p \in Seq(STRING) /\ p # << >>
      /\ Len(p) = 1 => p = << "src" >> /\ t[p] = "dir"
      /\ Len(p) > 1 => B!Front(p) \in DOMAIN t /\ t[B!Front(p)] = "dir"
  BY DEF B!SourcesAreLegal
<1>2. p \in Seq(FileNames)
  BY <1>1 DEF FileNames
<1>3. p \in BPaths
  <2>1. FileNames \subseteq Words
    BY DEF Words
  <2> QED BY <1>2, <2>1, SeqMonotonic DEF BPaths
<1>4. Len(p) \in Nat \ {0}
  BY <1>1, <1>2, EmptySeq
<1> QED BY <1>1, <1>2, <1>3, <1>4 DEF Root

(* The root lies in no directory of the tree, and every directory of a     *)
(* path is one.                                                            *)
LEMMA Fronts ==
  ASSUME B!SourcesAreLegal, NEW t \in Trees \cup StubTrees, NEW p \in DOMAIN t
  PROVE  /\ p = Root => B!Front(p) \notin DOMAIN t
         /\ p # Root => B!Front(p) \in DOMAIN t /\ t[B!Front(p)] = "dir" /\ Len(B!Front(p)) < Len(p)
         /\ B!Front(p) # p
<1>1. p \in Seq(FileNames) /\ p # << >> /\ Len(p) \in Nat \ {0}
  BY SourcesLegal
<1>2. F!Front(p) = B!Front(p)
  BY DEF F!Front, B!Front
<1>3. B!Front(p) \in Seq(FileNames) /\ Len(B!Front(p)) = Len(p) - 1
  BY <1>1, <1>2, FrontIs
<1>4. ASSUME p = Root PROVE B!Front(p) \notin DOMAIN t
  <2>1. Len(p) = 1
    BY <1>4 DEF Root
  <2>2. B!Front(p) = << >>
    BY <1>3, <2>1, EmptySeq
  <2> QED BY <2>2, SourcesLegal
<1>5. ASSUME p # Root PROVE B!Front(p) \in DOMAIN t /\ t[B!Front(p)] = "dir"
  <2>1. Len(p) = 1 => p = Root
    BY SourcesLegal
  <2>2. Len(p) # 1
    BY <1>5, <2>1
  <2>3. Len(p) \in Nat \ {0}
    BY <1>1
  <2>4. \A n \in Nat \ {0} : n # 1 => n > 1
    OBVIOUS
  <2>5. Len(p) > 1
    BY <2>2, <2>3, <2>4
  <2> QED BY <2>5, SourcesLegal
<1>6. Len(B!Front(p)) < Len(p)
  BY <1>1, <1>3
<1>7. B!Front(p) # p
  BY <1>1, <1>6
<1> QED BY <1>4, <1>5, <1>6, <1>7

(* A source, or a name that is passed over, is taken.                      *)
LEMMA LeafTaken ==
  ASSUME B!SourcesAreLegal, NEW t \in Trees \cup StubTrees, NEW S, NEW W, Sound(S, W, t),
         NEW e \in W, t[e] \in Wanted_, t[e] # "dir"
  PROVE  Sound(S \cup {e}, W \ {e}, t) /\ (Complete(S, W, t) => Complete(S \cup {e}, W \ {e}, t))
<1>1. e \in DOMAIN t /\ e \notin S
  BY DEF Sound
<1>2. Sound(S \cup {e}, W \ {e}, t)
  BY <1>1 DEF Sound
<1>3. \A p \in DOMAIN t : B!Front(p) # e \/ p = Root
  BY Fronts
<1>4. B!Front(Root) \notin DOMAIN t
  BY Fronts DEF Sound
<1>5. \A p \in DOMAIN t : B!Front(p) # e
  BY <1>1, <1>3, <1>4
<1> QED BY <1>2, <1>5 DEF Complete

LEMMA PassedOver ==
  ASSUME NEW t, NEW S, NEW W, Sound(S, W, t), NEW e \in W
  PROVE  Sound(S, W \ {e}, t) /\ (t[e] \notin Wanted_ /\ Complete(S, W, t) => Complete(S, W \ {e}, t))
BY DEF Sound, Complete

(* A directory is taken, and its names are ahead.                          *)
LEMMA DirectoryTaken ==
  ASSUME B!SourcesAreLegal, NEW t \in Trees \cup StubTrees, NEW S, NEW W, Sound(S, W, t),
         NEW e \in W, t[e] = "dir"
  PROVE  /\ Sound(S \cup {e}, (W \ {e}) \cup Below_(e, t), t)
         /\ Complete(S, W, t) => Complete(S \cup {e}, (W \ {e}) \cup Below_(e, t), t)
         /\ Below_(e, t) \cap W = {}
<1>1. e \in DOMAIN t /\ e \notin S /\ e # << >> /\ B!Front(e) \in S \cup {Root}
  BY DEF Sound
<1>2. \A p \in S \cup {Root} : p \in DOMAIN t
  BY DEF Sound
<1>3. e # Root
  BY <1>1, <1>2, Fronts
<1>4. \A p \in Below_(e, t) : p \in DOMAIN t /\ p # << >> /\ B!Front(p) = e /\ p # e
  BY Fronts DEF Below_
<1>5. \A p \in Below_(e, t) : p \notin S /\ p \notin W
  BY <1>1, <1>3, <1>4 DEF Sound
<1>6. Sound(S \cup {e}, (W \ {e}) \cup Below_(e, t), t)
  BY <1>1, <1>4, <1>5 DEF Sound, Wanted_
<1>7. ASSUME Complete(S, W, t) PROVE Complete(S \cup {e}, (W \ {e}) \cup Below_(e, t), t)
  <2> SUFFICES ASSUME NEW p \in DOMAIN t, p # << >>, B!Front(p) \in S \cup {e} \cup {Root}, t[p] \in Wanted_
               PROVE  p \in (S \cup {e}) \cup ((W \ {e}) \cup Below_(e, t))
    BY DEF Complete
  <2>1. CASE B!Front(p) = e
    BY <2>1 DEF Below_
  <2>2. CASE B!Front(p) # e
    BY <1>7, <2>2 DEF Complete
  <2> QED BY <2>1, <2>2
<1> QED BY <1>5, <1>6, <1>7

(* When nothing is ahead any more, all has been seen.                      *)
LEMMA AllSeen ==
  ASSUME B!SourcesAreLegal, NEW t \in Trees \cup StubTrees, NEW S, Sound(S, {}, t), Complete(S, {}, t)
  PROVE  \A p \in DOMAIN t : t[p] \in Wanted_ => p \in S \cup {Root}
<1> DEFINE T == {n \in Nat : \E p \in DOMAIN t : t[p] \in Wanted_ /\ p \notin S \cup {Root} /\ Len(p) = n}
<1> SUFFICES ASSUME T # {} PROVE FALSE
  <2>1. \A p \in DOMAIN t : Len(p) \in Nat
    BY SourcesLegal
  <2> QED BY <2>1
<1>1. PICK n \in T : \A m \in T : ~ (m < n)
  <2>1. T \in SUBSET Nat
    OBVIOUS
  <2> HIDE DEF T
  <2> QED BY <2>1, Earliest
<1>2. PICK p \in DOMAIN t : t[p] \in Wanted_ /\ p \notin S \cup {Root} /\ Len(p) = n
  OBVIOUS
<1>3. B!Front(p) \in DOMAIN t /\ t[B!Front(p)] = "dir" /\ Len(B!Front(p)) < n /\ p # << >>
  BY <1>2, Fronts, SourcesLegal
<1>4. B!Front(p) \notin S \cup {Root}
  BY <1>2, <1>3 DEF Complete
<1>5. Len(B!Front(p)) \in T
  <2>1. Len(B!Front(p)) \in Nat
    BY <1>3, SourcesLegal
  <2> QED BY <1>3, <1>4, <2>1 DEF Wanted_
<1> QED BY <1>1, <1>3, <1>5

(* A directory read in any order gives each of its names once.             *)
LEMMA NamesOnce ==
  ASSUME B!SourcesAreLegal, NEW t \in Trees \cup StubTrees, NEW p, NEW N, N = Below_(p, t),
         NEW todo \in B!SetToSeqs(N)
  PROVE  /\ todo \in Seq(BPaths)
         /\ Apart(todo, Len(todo)) /\ Named(todo, Len(todo)) = N
<1>0. \A X : (B!IsFiniteSet(X) <=> IsFiniteSet(X)) /\ B!Cardinality(X) = Cardinality(X)
  BY DEF B!IsFiniteSet, IsFiniteSet, B!Cardinality, Cardinality
<1>1. IsFiniteSet(N) /\ N \subseteq BPaths
  <2>1. IsFiniteSet(DOMAIN t)
    BY <1>0 DEF B!SourcesAreLegal
  <2>2. N \subseteq DOMAIN t
    BY DEF Below_
  <2> QED BY <2>1, <2>2, FS_Subset, SourcesLegal
<1>2. Cardinality(N) \in Nat
  BY <1>1, FS_CardinalityType
<1> DEFINE D == 1 .. Cardinality(N)
<1>3. todo \in [D -> N] /\ \A j, k \in D : j # k => todo[j] # todo[k]
  BY <1>0 DEF B!SetToSeqs
<1>4. todo \in Injection(D, N)
  BY <1>3 DEF Injection, IsInjective
<1>5. Cardinality(D) = Cardinality(N)
  BY <1>2, FS_Interval
<1>6. todo \in Surjection(D, N)
  <2> HIDE DEF D
  <2> QED BY <1>1, <1>4, <1>5, FS_Injection
<1>7. todo \in Seq(N)
  BY <1>2, <1>3, SeqDef
<1>8. todo \in Seq(BPaths)
  BY <1>1, <1>7, SeqMonotonic
<1>9. 1 .. Len(todo) = D
  <2>1. DOMAIN todo = 1 .. Len(todo)
    BY <1>7, LenProperties
  <2> HIDE DEF D
  <2> QED BY <1>3, <2>1
<1>10. {todo[j] : j \in D} = N
  <2> HIDE DEF D
  <2> QED BY <1>3, <1>6 DEF Surjection
<1>11. \A j, k \in D : todo[j] = todo[k] => j = k
  BY <1>3
<1> HIDE DEF D
<1> QED BY <1>8, <1>9, <1>10, <1>11 DEF Apart, Named

-----------------------------------------------------------------------------
(* Directories being read, and cells.                                      *)
LEMMA SpotsAre ==
  ASSUME NEW w
  PROVE  /\ \A n, j : << n, j >> \in Spots(w) <=> n \in 1 .. Len(w) /\ j \in 1 .. Len(w[n].todo)
         /\ \A x \in Spots(w) : \E n \in 1 .. Len(w) : \E j \in 1 .. Len(w[n].todo) : x = << n, j >>
         /\ \A n, j : Its(w, << n, j >>) = w[n].todo[j]
BY DEF Spots, Its

(* Lists with some names taken out.                                        *)
LEMMA Moved ==
  ASSUME NEW w, NEW r, Once(w), NEW Z \in SUBSET Spots(w), NEW f, Moves(f, r, w, Z)
  PROVE  Once(r) /\ Ahead(r) = Ahead(w) \ Lost(w, Z)
<1>0. /\ \A x, y \in Spots(r) : f[x] = f[y] => x = y
      /\ \A x \in Spots(r) : Its(r, x) = Its(w, f[x]) /\ f[x] \in Spots(w) /\ f[x] \notin Z
      /\ \A y \in Spots(w) : y \notin Z => \E x \in Spots(r) : f[x] = y
  BY DEF Moves
<1>1. Once(r)
  BY <1>0 DEF Once
<1>2. \A p \in Ahead(r) : p \in Ahead(w) /\ \A z \in Z : p # Its(w, z)
  BY <1>0 DEF Ahead, Once
<1>3. ASSUME NEW p \in Ahead(w), \A z \in Z : p # Its(w, z) PROVE p \in Ahead(r)
  <2>1. PICK y \in Spots(w) : p = Its(w, y)
    BY DEF Ahead
  <2>2. y \notin Z
    BY <1>3, <2>1
  <2>3. PICK x \in Spots(r) : f[x] = y
    BY <1>0, <2>2
  <2> QED BY <1>0, <2>1, <2>3 DEF Ahead
<1>4. \A p : p \in Lost(w, Z) <=> \E z \in Z : p = Its(w, z)
  BY DEF Lost
<1> QED BY <1>1, <1>2, <1>3, <1>4

LEMMA LevelTyped ==
  ASSUME NEW w \in Seq(Level)
  PROVE  /\ Len(w) \in Nat
         /\ \A n \in 1 .. Len(w) : w[n] \in Level /\ w[n].todo \in Seq(BPaths) /\ Len(w[n].todo) \in Nat
<1>1. \A n \in 1 .. Len(w) : w[n] \in Level
  BY ElementOfSeq
<1>2. \A n \in 1 .. Len(w) : w[n].todo \in Seq(BPaths)
  BY <1>1 DEF Level
<1>3. \A s \in Seq(BPaths) : Len(s) \in Nat
  BY LenProperties
<1> QED BY <1>1, <1>2, <1>3, LenProperties

(* The name looked at is off its list.                                     *)
LEMMA TakenOff ==
  ASSUME NEW w \in Seq(Level), w # << >>, NEW top, top = w[Len(w)], top.todo # << >>,
         NEW r, r = TakeOff(w)
  PROVE  /\ r \in Seq(Level) /\ Len(r) = Len(w) /\ Len(w) \in Nat \ {0} /\ Len(top.todo) \in Nat \ {0}
         /\ Head(top.todo) = top.todo[1] /\ Head(top.todo) \in BPaths
         /\ \A n \in 1 .. Len(w) - 1 : r[n] = w[n]
         /\ Len(r[Len(w)].todo) = Len(top.todo) - 1
         /\ \A j \in 1 .. Len(top.todo) - 1 : r[Len(w)].todo[j] = top.todo[j + 1]
<1> DEFINE L == Len(w)
<1>0. L = Len(w)
  OBVIOUS
<1> HIDE DEF L
<1>1. L \in Nat \ {0} /\ L \in 1 .. L /\ top \in Level
  <2>1. L \in Nat \ {0}
    BY <1>0, EmptySeq
  <2>2. L \in 1 .. L
    BY <2>1
  <2> QED BY <1>0, <2>1, <2>2, LevelTyped
<1>2. top.todo \in Seq(BPaths) /\ top.path \in BPaths
  BY <1>1 DEF Level
<1>3. Len(top.todo) \in Nat \ {0}
  BY <1>2, EmptySeq
<1>4. Head(top.todo) = top.todo[1]
  BY <1>2 DEF Head
<1>5. Head(top.todo) \in BPaths /\ Tail(top.todo) \in Seq(BPaths) /\ Len(Tail(top.todo)) = Len(top.todo) - 1
      /\ \A j \in 1 .. Len(top.todo) - 1 : Tail(top.todo)[j] = top.todo[j + 1]
  BY <1>2, HeadTailProperties
<1> DEFINE new == [top EXCEPT !.todo = Tail(top.todo)]
<1>6. new \in Level /\ new.todo = Tail(top.todo)
  BY <1>1, <1>5 DEF Level
<1>7. r = [w EXCEPT ![L] = new]
  BY <1>0 DEF TakeOff
<1> HIDE DEF new
<1>8. r \in Seq(Level) /\ Len(r) = L /\ \A n \in 1 .. L : r[n] = IF n = L THEN new ELSE w[n]
  <2>1. /\ [w EXCEPT ![L] = new] \in Seq(Level) /\ Len([w EXCEPT ![L] = new]) = Len(w)
        /\ \A n \in 1 .. Len(w) : [w EXCEPT ![L] = new][n] = IF n = L THEN new ELSE w[n]
    <3>1. L \in 1 .. Len(w)
      BY <1>0, <1>1
    <3> QED BY <3>1, <1>6, ExceptSeq
  <2> QED BY <1>0, <1>7, <2>1
<1>9. \A n \in 1 .. L - 1 : n \in 1 .. L /\ n # L
  BY <1>1
<1>10. /\ r \in Seq(Level) /\ Len(r) = L /\ r[L].todo = Tail(top.todo)
       /\ \A n \in 1 .. L - 1 : r[n] = w[n]
  BY <1>1, <1>6, <1>8, <1>9
<1> QED BY <1>0, <1>1, <1>3, <1>4, <1>5, <1>10

LEMMA ShorterList ==
  ASSUME NEW w \in Seq(Level), NEW r \in Seq(Level), Once(w),
         NEW L \in Nat \ {0}, L = Len(w), Len(w[L].todo) \in Nat \ {0}, OneLess(r, w, L),
         NEW e, e = w[L].todo[1]
  PROVE  Once(r) /\ e \in Ahead(w) /\ Ahead(r) = Ahead(w) \ {e}
<1> DEFINE After(n, j) == IF n = L THEN j + 1 ELSE j
           f == [x \in Spots(r) |-> << x[1], After(x[1], x[2]) >>]
           z == << L, 1 >>
<1>0. /\ Len(r) = L /\ \A n \in 1 .. L - 1 : r[n] = w[n]
      /\ Len(r[L].todo) = Len(w[L].todo) - 1
      /\ \A j \in 1 .. Len(w[L].todo) - 1 : r[L].todo[j] = w[L].todo[j + 1]
  BY DEF OneLess
<1>1. \A n \in 1 .. L : \A j \in 1 .. Len(r[n].todo) :
        /\ After(n, j) \in 1 .. Len(w[n].todo) /\ r[n].todo[j] = w[n].todo[After(n, j)]
        /\ (n = L => After(n, j) # 1)
  <2> SUFFICES ASSUME NEW n \in 1 .. L, NEW j \in 1 .. Len(r[n].todo)
               PROVE  /\ After(n, j) \in 1 .. Len(w[n].todo) /\ r[n].todo[j] = w[n].todo[After(n, j)]
                      /\ (n = L => After(n, j) # 1)
    OBVIOUS
  <2>1. CASE n = L
    <3>1. j \in 1 .. Len(w[L].todo) - 1 /\ After(n, j) = j + 1
      BY <1>0, <2>1
    <3>2. j + 1 \in 1 .. Len(w[L].todo) /\ j + 1 # 1
      BY <3>1
    <3> QED BY <1>0, <2>1, <3>1, <3>2
  <2>2. CASE n # L
    <3>1. n \in 1 .. L - 1
      BY <2>2
    <3> QED BY <1>0, <2>2, <3>1
  <2> QED BY <2>1, <2>2
<1>2. \A n \in 1 .. L : \A j \in 1 .. Len(w[n].todo) :
        (n = L /\ j = 1) \/ \E k \in 1 .. Len(r[n].todo) : After(n, k) = j
  <2> SUFFICES ASSUME NEW n \in 1 .. L, NEW j \in 1 .. Len(w[n].todo), ~ (n = L /\ j = 1)
               PROVE  \E k \in 1 .. Len(r[n].todo) : After(n, k) = j
    OBVIOUS
  <2>1. CASE n = L
    <3>1. j \in 1 .. Len(w[L].todo) /\ j # 1
      BY <2>1
    <3>2. j - 1 \in 1 .. Len(w[L].todo) - 1 /\ (j - 1) + 1 = j
      BY <3>1
    <3> QED BY <1>0, <2>1, <3>2
  <2>2. CASE n # L
    <3>1. n \in 1 .. L - 1
      BY <2>2
    <3> QED BY <1>0, <2>2, <3>1
  <2> QED BY <2>1, <2>2
<1>3. \A n \in 1 .. L : \A j, k \in 1 .. Len(r[n].todo) : After(n, j) = After(n, k) => j = k
  <2>1. \A j, k \in Int : j + 1 = k + 1 => j = k
    OBVIOUS
  <2>2. \A n \in 1 .. L : \A j \in 1 .. Len(r[n].todo) : j \in Int
    OBVIOUS
  <2> QED BY <2>1, <2>2
<1>4. z \in Spots(w) /\ Its(w, z) = e
  <2>1. L \in 1 .. L /\ 1 \in 1 .. Len(w[L].todo)
    OBVIOUS
  <2> QED BY <2>1, SpotsAre
<1> HIDE DEF After
<1>5. \A n \in 1 .. L : \A j \in 1 .. Len(r[n].todo) : << n, j >> \in Spots(r) /\ f[<< n, j >>] = << n, After(n, j) >>
  BY <1>0, SpotsAre
<1>6. \A x \in Spots(r) : \E n \in 1 .. L : \E j \in 1 .. Len(r[n].todo) : x = << n, j >>
  BY <1>0, SpotsAre
<1>7. DOMAIN f = Spots(r) /\ f = [x \in Spots(r) |-> f[x]]
  OBVIOUS
<1> HIDE DEF f
<1>8. \A x \in Spots(r) : f[x] \in Spots(w) /\ f[x] # z /\ Its(r, x) = Its(w, f[x])
  <2> SUFFICES ASSUME NEW x \in Spots(r) PROVE f[x] \in Spots(w) /\ f[x] # z /\ Its(r, x) = Its(w, f[x])
    OBVIOUS
  <2>1. PICK n \in 1 .. L : \E j \in 1 .. Len(r[n].todo) : x = << n, j >>
    BY <1>6
  <2>2. PICK j \in 1 .. Len(r[n].todo) : x = << n, j >>
    BY <2>1
  <2>3. /\ f[x] = << n, After(n, j) >> /\ After(n, j) \in 1 .. Len(w[n].todo)
        /\ r[n].todo[j] = w[n].todo[After(n, j)] /\ (n = L => After(n, j) # 1)
    BY <1>1, <1>5, <2>2
  <2>4. f[x] # z
    BY <2>3
  <2>5. Its(r, x) = r[n].todo[j]
    BY <2>2 DEF Its
  <2>6. Its(w, f[x]) = w[n].todo[After(n, j)]
    BY <2>3 DEF Its
  <2>7. << n, After(n, j) >> \in Spots(w)
    BY <2>3, SpotsAre
  <2> QED BY <2>3, <2>4, <2>5, <2>6, <2>7
<1>9. \A x, y \in Spots(r) : f[x] = f[y] => x = y
  <2> SUFFICES ASSUME NEW x \in Spots(r), NEW y \in Spots(r), f[x] = f[y] PROVE x = y
    OBVIOUS
  <2>1. PICK n \in 1 .. L : \E j \in 1 .. Len(r[n].todo) : x = << n, j >>
    BY <1>6
  <2>2. PICK j \in 1 .. Len(r[n].todo) : x = << n, j >>
    BY <2>1
  <2>3. PICK m \in 1 .. L : \E k \in 1 .. Len(r[m].todo) : y = << m, k >>
    BY <1>6
  <2>4. PICK k \in 1 .. Len(r[m].todo) : y = << m, k >>
    BY <2>3
  <2>5. << n, After(n, j) >> = << m, After(m, k) >>
    BY <1>5, <2>2, <2>4
  <2>6. n = m /\ After(n, j) = After(n, k)
    BY <2>5
  <2> QED BY <1>3, <2>2, <2>4, <2>6
<1>10. \A y \in Spots(w) : y \notin {z} => \E x \in Spots(r) : f[x] = y
  <2> SUFFICES ASSUME NEW y \in Spots(w), y # z PROVE \E x \in Spots(r) : f[x] = y
    OBVIOUS
  <2>1. PICK n \in 1 .. L : \E j \in 1 .. Len(w[n].todo) : y = << n, j >>
    BY SpotsAre
  <2>2. PICK j \in 1 .. Len(w[n].todo) : y = << n, j >>
    BY <2>1
  <2>3. PICK k \in 1 .. Len(r[n].todo) : After(n, k) = j
    BY <1>2, <2>2
  <2> QED BY <1>5, <2>2, <2>3
<1>12. {z} \in SUBSET Spots(w) /\ {Its(w, y) : y \in {z}} = {e}
  BY <1>4
<1> DEFINE Z == {z}
<1>13. /\ Z \in SUBSET Spots(w) /\ Lost(w, Z) = {e}
       /\ Moves(f, r, w, Z)
  BY <1>8, <1>9, <1>10, <1>12 DEF Lost, Moves
<1> HIDE DEF z, Z
<1>14. Once(r) /\ Ahead(r) = Ahead(w) \ Lost(w, Z)
  BY <1>13, Moved
<1>15. e \in Ahead(w)
  BY <1>4 DEF Ahead
<1> QED BY <1>13, <1>14, <1>15

LEMMA RestIs ==
  ASSUME NEW w \in Seq(Level), w # << >>, w[Len(w)].todo # << >>, Once(w),
         NEW r, r = TakeOff(w)
  PROVE  /\ r \in Seq(Level) /\ Once(r) /\ Head(w[Len(w)].todo) \in BPaths
         /\ Head(w[Len(w)].todo) \in Ahead(w) /\ Ahead(r) = Ahead(w) \ {Head(w[Len(w)].todo)}
<1> DEFINE L == Len(w)
           top == w[Len(w)]
           e == Head(w[Len(w)].todo)
<1>1. L = Len(w) /\ top = w[L] /\ e = Head(top.todo) /\ top.todo # << >> /\ top = w[Len(w)]
  OBVIOUS
<1> HIDE DEF L, top, e
<1>2. /\ r \in Seq(Level) /\ Len(r) = Len(w) /\ Len(w) \in Nat \ {0} /\ Len(top.todo) \in Nat \ {0}
      /\ Head(top.todo) = top.todo[1] /\ Head(top.todo) \in BPaths
      /\ \A n \in 1 .. Len(w) - 1 : r[n] = w[n]
      /\ Len(r[Len(w)].todo) = Len(top.todo) - 1
      /\ \A j \in 1 .. Len(top.todo) - 1 : r[Len(w)].todo[j] = top.todo[j + 1]
  BY <1>1, TakenOff
<1>3. /\ r \in Seq(Level) /\ Len(r) = L /\ L \in Nat \ {0} /\ Len(w[L].todo) \in Nat \ {0}
      /\ e = w[L].todo[1] /\ e \in BPaths
      /\ OneLess(r, w, L)
  BY <1>1, <1>2 DEF OneLess
<1>4. Once(r) /\ e \in Ahead(w) /\ Ahead(r) = Ahead(w) \ {e}
  BY <1>1, <1>3, ShorterList
<1>5. e = Head(w[Len(w)].todo)
  BY <1>1
<1> QED BY <1>3, <1>4, <1>5

LEMMA Longer ==
  ASSUME NEW w \in Seq(Level), Once(w), NEW todo \in Seq(BPaths),
         Apart(todo, Len(todo)), \A x \in Named(todo, Len(todo)) : x \notin Ahead(w),
         NEW L, L = Len(w), NEW r \in Seq(Level), OneMore(r, w, L, todo)
  PROVE  Once(r) /\ Ahead(r) = Ahead(w) \cup Named(todo, Len(todo))
<1> DEFINE N == Named(todo, Len(todo))
<1>0. Len(r) = L + 1 /\ (\A n \in 1 .. L : r[n] = w[n]) /\ r[L + 1].todo = todo
  BY DEF OneMore
<1>1. L \in Nat
  BY LenProperties
<1>2. (\A n \in 1 .. L : n \in 1 .. L + 1 /\ n # L + 1) /\ L + 1 \in 1 .. L + 1
      /\ \A n \in 1 .. L + 1 : n \in 1 .. L \/ n = L + 1
  BY <1>1
<1> DEFINE U == {<< L + 1, j >> : j \in 1 .. Len(todo)}
<1>3. \A x \in Spots(r) : x \in Spots(w) \/ x \in U
  <2> SUFFICES ASSUME NEW x \in Spots(r), x \notin Spots(w) PROVE x \in U
    OBVIOUS
  <2>1. PICK n \in 1 .. L + 1 : \E j \in 1 .. Len(r[n].todo) : x = << n, j >>
    BY <1>0, SpotsAre
  <2>2. PICK j \in 1 .. Len(r[n].todo) : x = << n, j >>
    BY <2>1
  <2>3. n \notin 1 .. L
    BY <1>0, <2>2, SpotsAre
  <2> QED BY <1>0, <1>2, <2>2, <2>3
<1>4. \A x \in Spots(w) : x \in Spots(r) /\ Its(r, x) = Its(w, x)
  <2> SUFFICES ASSUME NEW x \in Spots(w) PROVE x \in Spots(r) /\ Its(r, x) = Its(w, x)
    OBVIOUS
  <2>1. PICK n \in 1 .. L : \E j \in 1 .. Len(w[n].todo) : x = << n, j >>
    BY SpotsAre
  <2>2. PICK j \in 1 .. Len(w[n].todo) : x = << n, j >>
    BY <2>1
  <2>3. r[n] = w[n] /\ n \in 1 .. Len(r)
    BY <1>0, <1>2
  <2>4. x \in Spots(r)
    BY <2>2, <2>3, SpotsAre
  <2>5. Its(r, x) = r[n].todo[j] /\ Its(w, x) = w[n].todo[j]
    BY <2>2 DEF Its
  <2> QED BY <2>3, <2>4, <2>5
<1>5. \A j \in 1 .. Len(todo) : << L + 1, j >> \in Spots(r) /\ Its(r, << L + 1, j >>) = todo[j]
  <2>1. \A j : Its(r, << L + 1, j >>) = r[L + 1].todo[j]
    BY DEF Its
  <2>2. \A j \in 1 .. Len(todo) : << L + 1, j >> \in Spots(r)
    BY <1>0, <1>2, SpotsAre
  <2> QED BY <1>0, <2>1, <2>2
<1>6. \A x \in U : x \in Spots(r) /\ Its(r, x) \in N /\ Its(r, x) \notin Ahead(w)
  BY <1>5 DEF Named
<1>7. \A x \in Spots(w) : Its(w, x) \in Ahead(w)
  BY DEF Ahead
<1>8. ASSUME NEW x \in U, NEW y \in U, Its(r, x) = Its(r, y) PROVE x = y
  <2>1. PICK j \in 1 .. Len(todo) : x = << L + 1, j >>
    OBVIOUS
  <2>2. PICK k \in 1 .. Len(todo) : y = << L + 1, k >>
    OBVIOUS
  <2>3. todo[j] = todo[k]
    BY <1>5, <1>8, <2>1, <2>2
  <2> QED BY <2>1, <2>2, <2>3 DEF Apart
<1>9. ASSUME NEW p \in N PROVE \E x \in U : Its(r, x) = p
  <2>1. PICK j \in 1 .. Len(todo) : todo[j] = p
    BY DEF Named
  <2>2. << L + 1, j >> \in U
    OBVIOUS
  <2> QED BY <1>5, <2>1, <2>2
<1> HIDE DEF U
<1>10. Once(r)
  BY <1>3, <1>4, <1>6, <1>7, <1>8 DEF Once
<1>11. Ahead(r) = Ahead(w) \cup N
  BY <1>3, <1>4, <1>6, <1>9 DEF Ahead
<1> QED BY <1>10, <1>11

LEMMA PushIs ==
  ASSUME NEW w \in Seq(Level), Once(w), NEW p \in BPaths, NEW todo \in Seq(BPaths),
         Apart(todo, Len(todo)), \A x \in Named(todo, Len(todo)) : x \notin Ahead(w),
         NEW r, r = Append(w, [path |-> p, todo |-> todo])
  PROVE  r \in Seq(Level) /\ Once(r) /\ Ahead(r) = Ahead(w) \cup Named(todo, Len(todo))
<1> DEFINE l == [path |-> p, todo |-> todo]
<1>1. l \in Level /\ l.todo = todo /\ r = Append(w, l)
  BY DEF Level
<1> HIDE DEF l
<1> DEFINE L == Len(w)
<1>2. r \in Seq(Level) /\ Len(r) = L + 1 /\ (\A n \in 1 .. L : r[n] = w[n]) /\ r[L + 1] = l
  BY <1>1, AppendProperties
<1>3. L = Len(w)
  OBVIOUS
<1> HIDE DEF L
<1>4. OneMore(r, w, L, todo)
  BY <1>1, <1>2 DEF OneMore
<1>5. Once(r) /\ Ahead(r) = Ahead(w) \cup Named(todo, Len(todo))
  BY <1>2, <1>3, <1>4, Longer
<1> QED BY <1>2, <1>5

LEMMA Shorter ==
  ASSUME NEW w \in Seq(Level), Once(w), NEW L \in Nat \ {0}, L = Len(w),
         NEW r \in Seq(Level), Len(r) = L - 1, \A n \in 1 .. L - 1 : r[n] = w[n]
  PROVE  /\ Once(r) /\ Ahead(r) \subseteq Ahead(w)
         /\ w[L].todo = << >> => Ahead(r) = Ahead(w)
         /\ L = 1 => Ahead(r) = {}
<1>1. (\A n \in 1 .. L - 1 : n \in 1 .. L) /\ \A n \in 1 .. L : n \in 1 .. L - 1 \/ n = L
  OBVIOUS
<1>2. \A x \in Spots(r) : x \in Spots(w) /\ Its(r, x) = Its(w, x)
  <2> SUFFICES ASSUME NEW x \in Spots(r) PROVE x \in Spots(w) /\ Its(r, x) = Its(w, x)
    OBVIOUS
  <2>1. PICK n \in 1 .. L - 1 : \E j \in 1 .. Len(r[n].todo) : x = << n, j >>
    BY SpotsAre
  <2>2. PICK j \in 1 .. Len(r[n].todo) : x = << n, j >>
    BY <2>1
  <2>3. r[n] = w[n] /\ n \in 1 .. Len(w)
    BY <1>1
  <2>4. x \in Spots(w)
    BY <2>2, <2>3, SpotsAre
  <2>5. Its(r, x) = r[n].todo[j] /\ Its(w, x) = w[n].todo[j]
    BY <2>2 DEF Its
  <2> QED BY <2>3, <2>4, <2>5
<1>3. Once(r) /\ Ahead(r) \subseteq Ahead(w)
  BY <1>2 DEF Once, Ahead
<1>4. ASSUME w[L].todo = << >> PROVE Ahead(w) \subseteq Ahead(r)
  <2>1. Len(<< >>) = 0
    BY EmptySeq
  <2>2. \A j \in 1 .. Len(w[L].todo) : FALSE
    BY <1>4, <2>1
  <2>3. \A x \in Spots(w) : x \in Spots(r)
    <3> SUFFICES ASSUME NEW x \in Spots(w) PROVE x \in Spots(r)
      OBVIOUS
    <3>1. PICK n \in 1 .. L : \E j \in 1 .. Len(w[n].todo) : x = << n, j >>
      BY SpotsAre
    <3>2. PICK j \in 1 .. Len(w[n].todo) : x = << n, j >>
      BY <3>1
    <3>3. n # L
      BY <2>2
    <3>4. n \in 1 .. Len(r) /\ r[n] = w[n]
      BY <1>1, <3>3
    <3> QED BY <3>2, <3>4, SpotsAre
  <2> QED BY <1>2, <2>3 DEF Ahead
<1>5. ASSUME L = 1 PROVE Ahead(r) = {}
  <2>1. \A n \in 1 .. Len(r) : FALSE
    BY <1>5
  <2>2. \A x \in Spots(r) : FALSE
    BY <2>1, SpotsAre
  <2> QED BY <2>2 DEF Ahead
<1> QED BY <1>3, <1>4, <1>5

LEMMA PopIs ==
  ASSUME NEW w \in Seq(Level), w # << >>, Once(w), NEW r, r = B!Front(w)
  PROVE  /\ r \in Seq(Level) /\ Once(r) /\ Ahead(r) \subseteq Ahead(w)
         /\ w[Len(w)].todo = << >> => Ahead(r) = Ahead(w)
         /\ Len(w) = 1 => Ahead(r) = {}
<1>1. Len(w) \in Nat \ {0}
  BY EmptySeq
<1>2. Len(w) - 1 \in 0 .. Len(w)
  BY <1>1
<1>3. r \in Seq(Level) /\ Len(r) = Len(w) - 1 /\ \A n \in 1 .. Len(w) - 1 : r[n] = w[n]
  BY <1>2, AnyPrefix DEF B!Front
<1> QED BY <1>1, <1>3, Shorter

(* A name in the next cell, the cells in use stay.                         *)
LEMMA CellsAre ==
  ASSUME NEW cells \in Seq(BPaths), NEW n \in 0 .. Len(cells), NEW s \in BPaths
  PROVE  Placed(InNext(cells, n, s), cells, n, s)
<1> DEFINE r == InNext(cells, n, s)
<1> DEFINE a == SubSeq(cells, 1, n)
           b == << s >>
           c == SubSeq(cells, n + 2, Len(cells))
<1>1. Len(cells) \in Nat /\ n \in Nat
  BY LenProperties
<1>2. a \in Seq(BPaths) /\ Len(a) = n /\ \A k \in 1 .. n : a[k] = cells[k]
  BY AnyPrefix
<1>3. c \in Seq(BPaths) /\ Len(c) \in Nat
  <2>1. \A k \in n + 2 .. Len(cells) : k \in 1 .. Len(cells)
    BY <1>1
  <2>2. \A k \in n + 2 .. Len(cells) : cells[k] \in BPaths
    BY <2>1, ElementOfSeq
  <2>3. n + 2 \in Int /\ Len(cells) \in Int
    BY <1>1
  <2>4. c \in Seq(BPaths)
    BY <2>2, <2>3, SubSeqProperties
  <2> QED BY <2>4, LenProperties
<1>4. b \in Seq(BPaths) /\ Len(b) = 1 /\ b[1] = s
  OBVIOUS
<1>5. r = (a \o b) \o c
  BY DEF InNext
<1> HIDE DEF a, b, c, r
<1>6. /\ a \o b \in Seq(BPaths) /\ Len(a \o b) = n + 1
      /\ \A k \in 1 .. n + 1 : (a \o b)[k] = IF k <= n THEN a[k] ELSE b[k - n]
  <2>1. /\ a \o b \in Seq(BPaths) /\ Len(a \o b) = Len(a) + Len(b)
        /\ \A k \in 1 .. Len(a) + Len(b) : (a \o b)[k] = IF k <= Len(a) THEN a[k] ELSE b[k - Len(a)]
    BY <1>2, <1>4, ConcatProperties
  <2> QED BY <1>2, <1>4, <2>1
<1>7. /\ r \in Seq(BPaths) /\ Len(r) = n + 1 + Len(c)
      /\ \A k \in 1 .. n + 1 + Len(c) : r[k] = IF k <= n + 1 THEN (a \o b)[k] ELSE c[k - (n + 1)]
  <2> DEFINE d == a \o b
  <2>0. d \in Seq(BPaths) /\ Len(d) = n + 1
    BY <1>6
  <2> HIDE DEF d
  <2>1. /\ d \o c \in Seq(BPaths) /\ Len(d \o c) = Len(d) + Len(c)
        /\ \A k \in 1 .. Len(d) + Len(c) : (d \o c)[k] = IF k <= Len(d) THEN d[k] ELSE c[k - Len(d)]
    BY <1>3, <2>0, ConcatProperties
  <2>2. r = d \o c
    BY <1>5 DEF d
  <2>3. /\ r \in Seq(BPaths) /\ Len(r) = n + 1 + Len(c)
        /\ \A k \in 1 .. n + 1 + Len(c) : r[k] = IF k <= n + 1 THEN d[k] ELSE c[k - (n + 1)]
    BY <2>0, <2>1, <2>2
  <2> QED BY <2>3 DEF d
<1>8. \A k \in 1 .. n + 1 : k \in 1 .. n + 1 + Len(c) /\ k <= n + 1 /\ (k \in 1 .. n \/ k = n + 1)
  BY <1>1, <1>3
<1>9. \A k \in 1 .. n : k \in 1 .. n + 1 /\ k <= n /\ k # n + 1
  BY <1>1
<1>10. n + 1 \in 1 .. n + 1 /\ ~ (n + 1 <= n) /\ (n + 1) - n = 1
  BY <1>1
<1>11. \A k \in 1 .. n : r[k] = cells[k]
  BY <1>2, <1>6, <1>7, <1>8, <1>9
<1>12. r[n + 1] = s
  BY <1>4, <1>6, <1>7, <1>8, <1>10
<1>13. n + 1 \in 0 .. Len(r) /\ n \in 0 .. Len(r)
  <2>1. \A a_, b_ \in Nat : a_ + 1 \in 0 .. a_ + 1 + b_ /\ a_ \in 0 .. a_ + 1 + b_
    OBVIOUS
  <2> QED BY <1>1, <1>3, <1>7, <2>1
<1>14. Named(r, n) = Named(cells, n)
  BY <1>11 DEF Named
<1>15. Named(r, n + 1) = Named(cells, n) \cup {s}
  BY <1>8, <1>9, <1>10, <1>11, <1>12 DEF Named
<1> QED BY <1>1, <1>7, <1>11, <1>12, <1>13, <1>14, <1>15 DEF Placed, r

-----------------------------------------------------------------------------
(* What the lists name: sources of one kind, none twice; all of them.      *)
Lists(list, kind, cells, n, t) ==
  /\ list \in Seq(Nat)
  /\ \A j \in 1 .. Len(list) : list[j] \in 1 .. n /\ cells[list[j]] \in DOMAIN t /\ t[cells[list[j]]] = kind
  /\ \A j, k \in 1 .. Len(list) : cells[list[j]] = cells[list[k]] => j = k
Lists_all(list, kind, cells, S, t) ==
  \A p \in S : t[p] = kind => \E j \in 1 .. Len(list) : cells[list[j]] = p

NamesTyped ==
  /\ program \in {"kernel", "bootstub"} /\ tree \in Trees \cup StubTrees
  /\ program = "kernel" => tree \in Trees
  /\ arena \in Seq(BPaths) /\ temp_size \in 0 .. Len(arena)
  /\ walk \in Seq(Level) /\ main_pc \in Places_ /\ unread \in BOOLEAN
  /\ index \in Nat \ {0}

WalkInv ==
  main_pc = "walk" =>
    /\ Once(walk) /\ Sound(Seen, Ahead(walk), tree)
    /\ ~ unread => Complete(Seen, Ahead(walk), tree)
    /\ Lists_all(c_sources, "c", arena, Seen, tree)
    /\ Lists_all(asm_sources, "asm", arena, Seen, tree)

ListsInv ==
  /\ main_pc # "off" =>
       /\ Lists(c_sources, "c", arena, temp_size, tree)
       /\ Lists(asm_sources, "asm", arena, temp_size, tree)
  /\ main_pc \notin {"off", "walk"} /\ ~ unread =>
       /\ Lists_all(c_sources, "c", arena, DOMAIN tree, tree)
       /\ Lists_all(asm_sources, "asm", arena, DOMAIN tree, tree)

NamesInv == NamesTyped /\ WalkInv /\ ListsInv

-----------------------------------------------------------------------------
(* Later cells leave a list alone.                                         *)
LEMMA ListKept ==
  ASSUME NEW list, NEW kind, NEW cells, NEW n \in Nat, NEW t, NEW r, NEW m \in Nat, n <= m,
         \A k \in 1 .. n : r[k] = cells[k], Lists(list, kind, cells, n, t)
  PROVE  /\ Lists(list, kind, r, m, t)
         /\ \A S : Lists_all(list, kind, cells, S, t) => Lists_all(list, kind, r, S, t)
<1>1. \A j \in 1 .. Len(list) : list[j] \in 1 .. n /\ r[list[j]] = cells[list[j]]
  BY DEF Lists
<1>2. \A k \in 1 .. n : k \in 1 .. m
  OBVIOUS
<1>3. /\ list \in Seq(Nat)
      /\ \A j \in 1 .. Len(list) : list[j] \in 1 .. m /\ cells[list[j]] \in DOMAIN t /\ t[cells[list[j]]] = kind
      /\ \A j, k \in 1 .. Len(list) : cells[list[j]] = cells[list[k]] => j = k
  BY <1>1, <1>2 DEF Lists
<1>4. Lists(list, kind, r, m, t)
  BY <1>1, <1>3 DEF Lists
<1>5. \A S : Lists_all(list, kind, cells, S, t) => Lists_all(list, kind, r, S, t)
  BY <1>1 DEF Lists_all
<1> QED BY <1>4, <1>5

(* A name that is not of its kind makes no difference.                     *)
LEMMA ListAllKept ==
  ASSUME NEW list, NEW kind, NEW cells, NEW S, NEW t, NEW e, Lists_all(list, kind, cells, S, t), t[e] # kind
  PROVE  Lists_all(list, kind, cells, S \cup {e}, t)
BY DEF Lists_all

LEMMA ListGrows ==
  ASSUME NEW list, NEW kind, NEW cells, NEW n \in Nat, NEW t, NEW r, NEW e,
         \A k \in 1 .. n : r[k] = cells[k], r[n + 1] = e, e \in DOMAIN t, t[e] = kind,
         e \notin Named(cells, n), Lists(list, kind, cells, n, t),
         NEW l, l = Append(list, n + 1)
  PROVE  /\ Lists(l, kind, r, n + 1, t)
         /\ \A S : Lists_all(list, kind, cells, S, t) => Lists_all(l, kind, r, S \cup {e}, t)
<1> DEFINE L == Len(list)
<1>0. L = Len(list)
  OBVIOUS
<1>1. list \in Seq(Nat) /\ L \in Nat /\ n + 1 \in Nat
  BY LenProperties DEF Lists
<1>2. l \in Seq(Nat) /\ Len(l) = L + 1 /\ (\A j \in 1 .. L : l[j] = list[j]) /\ l[L + 1] = n + 1
  BY <1>1, AppendProperties
<1> HIDE DEF L
<1>3. \A j \in 1 .. L : list[j] \in 1 .. n /\ cells[list[j]] \in DOMAIN t /\ t[cells[list[j]]] = kind
  BY <1>0 DEF Lists
<1>4. \A j \in 1 .. L : r[l[j]] = cells[list[j]] /\ cells[list[j]] # e
  BY <1>2, <1>3 DEF Named
<1>5. (\A j \in 1 .. L : j \in 1 .. L + 1 /\ j # L + 1) /\ L + 1 \in 1 .. L + 1
      /\ (\A j \in 1 .. L + 1 : j \in 1 .. L \/ j = L + 1)
  BY <1>1
<1>6. (\A k \in 1 .. n : k \in 1 .. n + 1) /\ n + 1 \in 1 .. n + 1
  OBVIOUS
<1>7. r[l[L + 1]] = e
  BY <1>2
<1>8. \A j \in 1 .. L + 1 : l[j] \in 1 .. n + 1 /\ r[l[j]] \in DOMAIN t /\ t[r[l[j]]] = kind
  <2> SUFFICES ASSUME NEW j \in 1 .. L + 1
               PROVE  l[j] \in 1 .. n + 1 /\ r[l[j]] \in DOMAIN t /\ t[r[l[j]]] = kind
    OBVIOUS
  <2>1. CASE j \in 1 .. L
    BY <1>2, <1>3, <1>4, <1>6, <2>1
  <2>2. CASE j = L + 1
    BY <1>2, <1>6, <1>7, <2>2
  <2> QED BY <1>5, <2>1, <2>2
<1>9. \A j, k \in 1 .. L : cells[list[j]] = cells[list[k]] => j = k
  BY <1>0 DEF Lists
<1>10. \A j, k \in 1 .. L + 1 : r[l[j]] = r[l[k]] => j = k
  <2> SUFFICES ASSUME NEW j \in 1 .. L + 1, NEW k \in 1 .. L + 1, r[l[j]] = r[l[k]] PROVE j = k
    OBVIOUS
  <2>1. CASE j \in 1 .. L /\ k \in 1 .. L
    BY <1>4, <1>9, <2>1
  <2>2. CASE j \in 1 .. L /\ k = L + 1
    BY <1>4, <1>7, <2>2
  <2>3. CASE j = L + 1 /\ k \in 1 .. L
    BY <1>4, <1>7, <2>3
  <2>4. CASE j = L + 1 /\ k = L + 1
    BY <2>4
  <2> QED BY <1>5, <2>1, <2>2, <2>3, <2>4
<1>11. Lists(l, kind, r, n + 1, t)
  <2>1. 1 .. Len(l) = 1 .. L + 1 /\ l \in Seq(Nat)
    BY <1>2
  <2>2. \A j \in 1 .. Len(l) : l[j] \in 1 .. n + 1 /\ r[l[j]] \in DOMAIN t /\ t[r[l[j]]] = kind
    BY <1>8, <2>1
  <2>3. \A j, k \in 1 .. Len(l) : r[l[j]] = r[l[k]] => j = k
    BY <1>10, <2>1
  <2> QED BY <2>1, <2>2, <2>3 DEF Lists
<1>12. ASSUME NEW S, Lists_all(list, kind, cells, S, t) PROVE Lists_all(l, kind, r, S \cup {e}, t)
  <2> SUFFICES ASSUME NEW p \in S \cup {e}, t[p] = kind PROVE \E j \in 1 .. L + 1 : r[l[j]] = p
    BY <1>2 DEF Lists_all
  <2>1. CASE p = e
    BY <1>5, <1>7, <2>1
  <2>2. CASE p # e
    <3>1. PICK j \in 1 .. L : cells[list[j]] = p
      BY <1>0, <1>12, <2>2 DEF Lists_all
    <3> QED BY <1>4, <1>5, <3>1
  <2> QED BY <2>1, <2>2
<1> QED BY <1>11, <1>12

(* Empty lists.                                                            *)
LEMMA NoList ==
  ASSUME NEW kind, NEW t
  PROVE  Lists(<< >>, kind, << >>, 0, t) /\ Lists_all(<< >>, kind, << >>, {}, t)
<1>1. << >> \in Seq(Nat) /\ Len(<< >>) = 0
  BY EmptySeq
<1>2. \A j \in 1 .. Len(<< >>) : FALSE
  BY <1>1
<1> QED BY <1>1, <1>2 DEF Lists, Lists_all

LEMMA ObjectNamed ==
  ASSUME NEW p \in BPaths, p # << >>
  PROVE  B!Obj(p) \in BPaths
<1>1. << "build" >> \in BPaths /\ << "o" >> \in BPaths
  BY DEF BPaths, Words
<1>2. Tail(p) \in BPaths
  BY HeadTailProperties DEF BPaths
<1> DEFINE q == IF program = "kernel" THEN p ELSE Tail(p)
<1>3. q \in BPaths
  BY <1>2
<1>4. B!Obj(p) = << "build" >> \o q \o << "o" >>
  BY DEF B!Obj
<1> HIDE DEF q
<1>5. << "build" >> \o q \in BPaths
  BY <1>1, <1>3, ConcatProperties DEF BPaths
<1>6. (<< "build" >> \o q) \o << "o" >> \in BPaths
  BY <1>1, <1>5, ConcatProperties DEF BPaths
<1> QED BY <1>4, <1>6

-----------------------------------------------------------------------------
(* The walk.                                                               *)
LEMMA EntryIs ==
  ASSUME B!SourcesAreLegal, NamesInv, B!Walking
  PROVE  /\ main_pc = "walk" /\ walk \in Seq(Level)
         /\ B!Rest \in Seq(Level) /\ Once(B!Rest) /\ B!Entry \in BPaths
         /\ B!Entry \in Ahead(walk) /\ Ahead(B!Rest) = Ahead(walk) \ {B!Entry}
         /\ B!Entry \in DOMAIN tree /\ B!Entry \notin Seen
<1>1. main_pc = "walk" /\ walk # << >> /\ walk[Len(walk)].todo # << >>
  BY DEF B!Walking, B!Top
<1>2. walk \in Seq(Level) /\ Once(walk) /\ Sound(Seen, Ahead(walk), tree)
  BY <1>1 DEF NamesInv, NamesTyped, WalkInv
<1>3. B!Rest = TakeOff(walk) /\ B!Entry = Head(walk[Len(walk)].todo)
  BY DEF B!Rest, TakeOff, B!Entry, B!Top
<1>4. /\ B!Rest \in Seq(Level) /\ Once(B!Rest) /\ B!Entry \in BPaths
      /\ B!Entry \in Ahead(walk) /\ Ahead(B!Rest) = Ahead(walk) \ {B!Entry}
  <2>1. \A r : r = TakeOff(walk) =>
           /\ r \in Seq(Level) /\ Once(r) /\ Head(walk[Len(walk)].todo) \in BPaths
           /\ Head(walk[Len(walk)].todo) \in Ahead(walk)
           /\ Ahead(r) = Ahead(walk) \ {Head(walk[Len(walk)].todo)}
    BY <1>1, <1>2, RestIs
  <2> QED BY <1>3, <2>1
<1>5. B!Entry \in DOMAIN tree /\ B!Entry \notin Seen
  BY <1>2, <1>4 DEF Sound
<1> QED BY <1>1, <1>2, <1>4, <1>5

LEMMA Cells_ ==
  ASSUME NamesInv, NEW s \in BPaths
  PROVE  /\ B!Cells(s) \in Seq(BPaths) /\ temp_size \in Nat /\ temp_size + 1 \in 0 .. Len(B!Cells(s))
         /\ temp_size \in 0 .. Len(B!Cells(s))
         /\ \A k \in 1 .. temp_size : B!Cells(s)[k] = arena[k]
         /\ B!Cells(s)[temp_size + 1] = s
         /\ Named(B!Cells(s), temp_size) = Seen /\ Named(B!Cells(s), temp_size + 1) = Seen \cup {s}
<1>1. arena \in Seq(BPaths) /\ temp_size \in 0 .. Len(arena)
  BY DEF NamesInv, NamesTyped
<1>2. B!Cells(s) = InNext(arena, temp_size, s)
  BY DEF B!Cells, InNext
<1>3. Placed(InNext(arena, temp_size, s), arena, temp_size, s)
  BY <1>1, CellsAre
<1> QED BY <1>2, <1>3 DEF Seen, Placed

(* A name that is passed over.                                             *)
LEMMA WalkHidden ==
  ASSUME B!SourcesAreLegal, NamesInv, B!Walk_hidden
  PROVE  NamesInv'
<1>1. /\ B!Walking /\ tree[B!Entry] = "hidden" /\ walk' = B!Rest
      /\ UNCHANGED <<program, tree, arena, temp_size, c_sources, asm_sources, main_pc, index, unread>>
  BY DEF B!Walk_hidden, B!world, B!lists
<1>2. /\ main_pc = "walk" /\ B!Rest \in Seq(Level) /\ Once(B!Rest)
      /\ B!Entry \in Ahead(walk) /\ Ahead(B!Rest) = Ahead(walk) \ {B!Entry}
  BY <1>1, EntryIs
<1>3. Seen' = Seen
  BY <1>1 DEF Seen
<1>4. Sound(Seen, Ahead(walk), tree) /\ (~ unread => Complete(Seen, Ahead(walk), tree))
  BY <1>2 DEF NamesInv, WalkInv
<1>5. tree[B!Entry] \notin Wanted_
  BY <1>1 DEF Wanted_
<1>6. Sound(Seen, Ahead(B!Rest), tree) /\ (~ unread => Complete(Seen, Ahead(B!Rest), tree))
  BY <1>2, <1>4, <1>5, PassedOver
<1>7. NamesTyped'
  BY <1>1, <1>2 DEF NamesInv, NamesTyped
<1>8. WalkInv'
  BY <1>1, <1>2, <1>3, <1>6 DEF NamesInv, WalkInv
<1>9. ListsInv'
  BY <1>1 DEF NamesInv, ListsInv
<1> QED BY <1>7, <1>8, <1>9 DEF NamesInv

LEMMA WalkOther ==
  ASSUME B!SourcesAreLegal, NamesInv, B!Walk_other
  PROVE  NamesInv'
<1>1. /\ B!Walking /\ walk' = B!Rest /\ arena' = B!Cells(B!Entry)
      /\ UNCHANGED <<program, tree, temp_size, c_sources, asm_sources, main_pc, index>>
      /\ (tree[B!Entry] = "other" /\ unread' = unread) \/ (tree[B!Entry] = "dir" /\ unread' = TRUE)
  BY DEF B!Walk_other, B!world, B!lists
<1>2. /\ main_pc = "walk" /\ B!Rest \in Seq(Level) /\ Once(B!Rest) /\ B!Entry \in BPaths
      /\ B!Entry \in Ahead(walk) /\ Ahead(B!Rest) = Ahead(walk) \ {B!Entry}
  BY <1>1, EntryIs
<1>3. /\ arena' \in Seq(BPaths) /\ temp_size \in Nat /\ temp_size \in 0 .. Len(arena')
      /\ \A k \in 1 .. temp_size : arena'[k] = arena[k]
      /\ Seen' = Seen
  BY <1>1, <1>2, Cells_ DEF Seen
<1>4. Sound(Seen, Ahead(walk), tree) /\ (~ unread => Complete(Seen, Ahead(walk), tree))
  BY <1>2 DEF NamesInv, WalkInv
<1>5. Sound(Seen, Ahead(B!Rest), tree)
  BY <1>2, <1>4, PassedOver
<1>6. ~ unread' => Complete(Seen, Ahead(B!Rest), tree)
  <2>1. tree[B!Entry] = "other" => tree[B!Entry] \notin Wanted_
    BY DEF Wanted_
  <2> QED BY <1>1, <1>2, <1>4, <2>1, PassedOver
<1>7. NamesTyped'
  BY <1>1, <1>2, <1>3 DEF NamesInv, NamesTyped
<1>8. /\ Lists(c_sources, "c", arena, temp_size, tree) /\ Lists(asm_sources, "asm", arena, temp_size, tree)
      /\ Lists_all(c_sources, "c", arena, Seen, tree) /\ Lists_all(asm_sources, "asm", arena, Seen, tree)
  BY <1>2 DEF NamesInv, WalkInv, ListsInv
<1>9. /\ Lists(c_sources, "c", arena', temp_size, tree) /\ Lists(asm_sources, "asm", arena', temp_size, tree)
      /\ Lists_all(c_sources, "c", arena', Seen, tree) /\ Lists_all(asm_sources, "asm", arena', Seen, tree)
  <2>1. temp_size <= temp_size
    BY <1>3
  <2> QED BY <1>3, <1>8, <2>1, ListKept
<1>10. WalkInv'
  BY <1>1, <1>2, <1>3, <1>5, <1>6, <1>9 DEF WalkInv
<1>11. ListsInv'
  BY <1>1, <1>2, <1>9 DEF ListsInv
<1> QED BY <1>7, <1>10, <1>11 DEF NamesInv

LEMMA WalkSource ==
  ASSUME B!SourcesAreLegal, NamesInv, B!Walk_source
  PROVE  NamesInv'
<1>1. /\ B!Walking /\ walk' = B!Rest /\ arena' = B!Cells(B!Entry) /\ temp_size' = temp_size + 1
      /\ UNCHANGED <<program, tree, main_pc, index, unread>>
      /\ tree[B!Entry] \in {"c", "asm"}
      /\ c_sources'   = IF tree[B!Entry] = "c"   THEN Append(c_sources, temp_size + 1)   ELSE c_sources
      /\ asm_sources' = IF tree[B!Entry] = "asm" THEN Append(asm_sources, temp_size + 1) ELSE asm_sources
  BY DEF B!Walk_source, B!world, B!AfterSource, B!New
<1>2. /\ main_pc = "walk" /\ B!Rest \in Seq(Level) /\ Once(B!Rest) /\ B!Entry \in BPaths
      /\ B!Entry \in Ahead(walk) /\ Ahead(B!Rest) = Ahead(walk) \ {B!Entry}
      /\ B!Entry \in DOMAIN tree /\ B!Entry \notin Seen
  BY <1>1, EntryIs
<1>3. /\ arena' \in Seq(BPaths) /\ temp_size \in Nat /\ temp_size' \in 0 .. Len(arena')
      /\ \A k \in 1 .. temp_size : arena'[k] = arena[k]
      /\ arena'[temp_size + 1] = B!Entry
      /\ Seen' = Seen \cup {B!Entry}
  BY <1>1, <1>2, Cells_ DEF Seen
<1>4. Sound(Seen, Ahead(walk), tree) /\ (~ unread => Complete(Seen, Ahead(walk), tree)) /\ tree \in Trees \cup StubTrees
  BY <1>2 DEF NamesInv, WalkInv, NamesTyped
<1>5. tree[B!Entry] \in Wanted_ /\ tree[B!Entry] # "dir"
  BY <1>1 DEF Wanted_
<1>6. /\ Sound(Seen \cup {B!Entry}, Ahead(B!Rest), tree)
      /\ ~ unread => Complete(Seen \cup {B!Entry}, Ahead(B!Rest), tree)
  BY <1>2, <1>4, <1>5, LeafTaken
<1>7. NamesTyped'
  BY <1>1, <1>2, <1>3 DEF NamesInv, NamesTyped
<1>8. /\ Lists(c_sources, "c", arena, temp_size, tree) /\ Lists(asm_sources, "asm", arena, temp_size, tree)
      /\ Lists_all(c_sources, "c", arena, Seen, tree) /\ Lists_all(asm_sources, "asm", arena, Seen, tree)
  BY <1>2 DEF NamesInv, WalkInv, ListsInv
<1>9. ASSUME NEW list, NEW kind, NEW l, Lists(list, kind, arena, temp_size, tree),
             Lists_all(list, kind, arena, Seen, tree),
             l = IF tree[B!Entry] = kind THEN Append(list, temp_size + 1) ELSE list
      PROVE  Lists(l, kind, arena', temp_size + 1, tree) /\ Lists_all(l, kind, arena', Seen \cup {B!Entry}, tree)
  <2>0. B!Entry \notin Named(arena, temp_size) /\ temp_size + 1 \in Nat /\ temp_size <= temp_size + 1
    BY <1>2, <1>3 DEF Seen
  <2>1. CASE tree[B!Entry] = kind
    BY <1>2, <1>3, <1>9, <2>0, <2>1, ListGrows
  <2>2. CASE tree[B!Entry] # kind
    <3>1. Lists_all(list, kind, arena, Seen \cup {B!Entry}, tree)
      BY <1>9, <2>2, ListAllKept
    <3>2. /\ Lists(list, kind, arena', temp_size + 1, tree)
          /\ \A S : Lists_all(list, kind, arena, S, tree) => Lists_all(list, kind, arena', S, tree)
      BY <1>3, <1>9, <2>0, ListKept
    <3> QED BY <1>9, <2>2, <3>1, <3>2
  <2> QED BY <2>1, <2>2
<1>10. /\ Lists(c_sources', "c", arena', temp_size + 1, tree)
       /\ Lists_all(c_sources', "c", arena', Seen \cup {B!Entry}, tree)
  BY <1>1, <1>8, <1>9
<1>11. /\ Lists(asm_sources', "asm", arena', temp_size + 1, tree)
       /\ Lists_all(asm_sources', "asm", arena', Seen \cup {B!Entry}, tree)
  BY <1>1, <1>8, <1>9
<1>12. WalkInv'
  BY <1>1, <1>2, <1>3, <1>6, <1>10, <1>11 DEF WalkInv
<1>13. ListsInv'
  BY <1>1, <1>2, <1>10, <1>11 DEF ListsInv
<1> QED BY <1>7, <1>12, <1>13 DEF NamesInv

LEMMA WalkDirectory ==
  ASSUME B!SourcesAreLegal, NamesInv, B!Walk_directory
  PROVE  NamesInv'
<1>1. /\ B!Walking /\ arena' = B!Cells(B!Entry) /\ temp_size' = temp_size + 1
      /\ UNCHANGED <<program, tree, c_sources, asm_sources, index, unread>>
      /\ tree[B!Entry] = "dir"
      /\ (B!Into(B!Entry) /\ main_pc' = main_pc) \/ (walk' = << >> /\ main_pc' = "off")
  BY DEF B!Walk_directory, B!world, B!New
<1>2. /\ main_pc = "walk" /\ B!Rest \in Seq(Level) /\ Once(B!Rest) /\ B!Entry \in BPaths
      /\ B!Entry \in Ahead(walk) /\ Ahead(B!Rest) = Ahead(walk) \ {B!Entry}
      /\ B!Entry \in DOMAIN tree /\ B!Entry \notin Seen
  BY <1>1, EntryIs
<1>3. /\ arena' \in Seq(BPaths) /\ temp_size \in Nat /\ temp_size' \in 0 .. Len(arena')
      /\ \A k \in 1 .. temp_size : arena'[k] = arena[k]
      /\ arena'[temp_size + 1] = B!Entry
      /\ Seen' = Seen \cup {B!Entry}
  BY <1>1, <1>2, Cells_ DEF Seen
<1>4. Sound(Seen, Ahead(walk), tree) /\ (~ unread => Complete(Seen, Ahead(walk), tree)) /\ tree \in Trees \cup StubTrees
  BY <1>2 DEF NamesInv, WalkInv, NamesTyped
<1> DEFINE N == Below_(B!Entry, tree)
<1>5. /\ Sound(Seen \cup {B!Entry}, (Ahead(walk) \ {B!Entry}) \cup N, tree)
      /\ ~ unread => Complete(Seen \cup {B!Entry}, (Ahead(walk) \ {B!Entry}) \cup N, tree)
      /\ N \cap Ahead(walk) = {}
  BY <1>1, <1>2, <1>4, DirectoryTaken
<1>6. /\ Lists(c_sources, "c", arena, temp_size, tree) /\ Lists(asm_sources, "asm", arena, temp_size, tree)
      /\ Lists_all(c_sources, "c", arena, Seen, tree) /\ Lists_all(asm_sources, "asm", arena, Seen, tree)
  BY <1>2 DEF NamesInv, WalkInv, ListsInv
<1>7. /\ Lists_all(c_sources, "c", arena, Seen \cup {B!Entry}, tree)
      /\ Lists_all(asm_sources, "asm", arena, Seen \cup {B!Entry}, tree)
  BY <1>1, <1>6, ListAllKept
<1>8. /\ Lists(c_sources, "c", arena', temp_size + 1, tree)
      /\ Lists(asm_sources, "asm", arena', temp_size + 1, tree)
      /\ Lists_all(c_sources, "c", arena', Seen \cup {B!Entry}, tree)
      /\ Lists_all(asm_sources, "asm", arena', Seen \cup {B!Entry}, tree)
  <2>1. temp_size + 1 \in Nat /\ temp_size <= temp_size + 1
    BY <1>3
  <2> QED BY <1>3, <1>6, <1>7, <2>1, ListKept
<1>9. ListsInv'
  BY <1>1, <1>2, <1>8 DEF ListsInv
<1>10. CASE main_pc' = "off"
  <2>1. << >> \in Seq(Level)
    BY EmptySeq
  <2>2. NamesTyped'
    BY <1>1, <1>2, <1>3, <1>10, <2>1 DEF NamesInv, NamesTyped, Places_
  <2>3. WalkInv'
    BY <1>10 DEF WalkInv
  <2> QED BY <1>9, <2>2, <2>3 DEF NamesInv
<1>11. CASE B!Into(B!Entry) /\ main_pc' = main_pc
  <2>1. B!Names(B!Entry) = N
    BY DEF B!Names, Below_
  <2>2. PICK todo \in B!SetToSeqs(N) : walk' = Append(B!Rest, [path |-> B!Entry, todo |-> todo])
    BY <1>11, <2>1 DEF B!Into
  <2>3. todo \in Seq(BPaths) /\ Apart(todo, Len(todo)) /\ Named(todo, Len(todo)) = N
    BY <1>4, NamesOnce
  <2> HIDE DEF N
  <2>4. \A x \in Named(todo, Len(todo)) : x \notin Ahead(B!Rest)
    BY <1>2, <1>5, <2>3
  <2>5. walk' \in Seq(Level) /\ Once(walk') /\ Ahead(walk') = Ahead(B!Rest) \cup N
    <3>1. \A r : r = Append(B!Rest, [path |-> B!Entry, todo |-> todo]) =>
             r \in Seq(Level) /\ Once(r) /\ Ahead(r) = Ahead(B!Rest) \cup Named(todo, Len(todo))
      BY <1>2, <2>3, <2>4, PushIs
    <3> QED BY <2>2, <2>3, <3>1
  <2>6. NamesTyped'
    BY <1>1, <1>2, <1>3, <1>11, <2>5 DEF NamesInv, NamesTyped
  <2>7. WalkInv'
    BY <1>1, <1>2, <1>3, <1>5, <1>8, <1>11, <2>5 DEF WalkInv
  <2> QED BY <1>9, <2>6, <2>7 DEF NamesInv
<1> QED BY <1>1, <1>10, <1>11

LEMMA WalkEnd ==
  ASSUME B!SourcesAreLegal, NamesInv, B!Walk_end
  PROVE  NamesInv'
<1>1. /\ main_pc = "walk" /\ walk # << >> /\ walk' = B!Front(walk)
      /\ (walk[Len(walk)].todo = << >> /\ unread' = unread) \/ unread' = TRUE
      /\ main_pc' = IF Len(walk) = 1 THEN "mkdirs" ELSE main_pc
      /\ UNCHANGED <<program, tree, arena, temp_size, c_sources, asm_sources, index>>
  BY DEF B!Walk_end, B!world, B!lists, B!Top
<1>2. walk \in Seq(Level) /\ Once(walk) /\ tree \in Trees \cup StubTrees
  BY <1>1 DEF NamesInv, NamesTyped, WalkInv
<1>3. /\ walk' \in Seq(Level) /\ Once(walk') /\ Ahead(walk') \subseteq Ahead(walk)
      /\ walk[Len(walk)].todo = << >> => Ahead(walk') = Ahead(walk)
      /\ Len(walk) = 1 => Ahead(walk') = {}
  <2>1. \A r : r = B!Front(walk) =>
           /\ r \in Seq(Level) /\ Once(r) /\ Ahead(r) \subseteq Ahead(walk)
           /\ walk[Len(walk)].todo = << >> => Ahead(r) = Ahead(walk)
           /\ Len(walk) = 1 => Ahead(r) = {}
    BY <1>1, <1>2, PopIs
  <2> QED BY <1>1, <2>1
<1>4. Seen' = Seen
  BY <1>1 DEF Seen
<1>5. /\ Sound(Seen, Ahead(walk), tree) /\ (~ unread => Complete(Seen, Ahead(walk), tree))
      /\ Lists(c_sources, "c", arena, temp_size, tree) /\ Lists(asm_sources, "asm", arena, temp_size, tree)
      /\ Lists_all(c_sources, "c", arena, Seen, tree) /\ Lists_all(asm_sources, "asm", arena, Seen, tree)
  BY <1>1 DEF NamesInv, WalkInv, ListsInv
<1>6. Sound(Seen, Ahead(walk'), tree) /\ (~ unread' => Complete(Seen, Ahead(walk'), tree))
  <2>1. Sound(Seen, Ahead(walk'), tree)
    BY <1>3, <1>5 DEF Sound
  <2>2. ~ unread' => Complete(Seen, Ahead(walk'), tree)
    BY <1>1, <1>3, <1>5
  <2> QED BY <2>1, <2>2
<1>7. NamesTyped'
  BY <1>1, <1>3 DEF NamesInv, NamesTyped, Places_
<1>8. WalkInv'
  BY <1>1, <1>3, <1>4, <1>5, <1>6 DEF WalkInv
<1>9. ASSUME main_pc' \notin {"off", "walk"}, ~ unread'
      PROVE  /\ Lists_all(c_sources, "c", arena, DOMAIN tree, tree)
             /\ Lists_all(asm_sources, "asm", arena, DOMAIN tree, tree)
  <2>1. Sound(Seen, {}, tree) /\ Complete(Seen, {}, tree)
    BY <1>1, <1>3, <1>6, <1>9
  <2>2. \A p \in DOMAIN tree : tree[p] \in Wanted_ => p \in Seen \cup {Root}
    BY <1>2, <2>1, AllSeen
  <2>3. Root \in DOMAIN tree /\ tree[Root] = "dir"
    <3>1. Root \in DOMAIN tree
      BY <2>1 DEF Sound
    <3>2. Len(Root) = 1
      BY DEF Root
    <3> QED BY <1>2, <3>1, <3>2, SourcesLegal
  <2>4. \A p \in DOMAIN tree : tree[p] \in {"c", "asm"} => p \in Seen
    BY <2>2, <2>3 DEF Wanted_
  <2> QED BY <1>5, <2>4 DEF Lists_all
<1>10. ListsInv'
  BY <1>1, <1>5, <1>9 DEF ListsInv
<1> QED BY <1>7, <1>8, <1>10 DEF NamesInv

-----------------------------------------------------------------------------
(* The steps around the walk.                                              *)
LEMMA NamesGoOn ==
  ASSUME NamesInv, main_pc \notin {"off", "walk"}, main_pc' \in Places_, main_pc' # "walk",
         UNCHANGED <<program, tree, c_sources, asm_sources, unread>>, walk' \in Seq(Level),
         arena' \in Seq(BPaths), temp_size' \in 0 .. Len(arena'), temp_size <= temp_size',
         index' \in Nat \ {0},
         \A k \in 1 .. temp_size : arena'[k] = arena[k]
  PROVE  NamesInv'
<1>1. temp_size \in Nat /\ temp_size' \in Nat
  <2>1. Len(arena) \in Nat /\ Len(arena') \in Nat
    BY LenProperties DEF NamesInv, NamesTyped
  <2> QED BY <2>1 DEF NamesInv, NamesTyped
<1>2. NamesTyped'
  BY DEF NamesInv, NamesTyped
<1>3. WalkInv'
  BY DEF WalkInv
<1>4. Lists(c_sources, "c", arena, temp_size, tree) /\ Lists(asm_sources, "asm", arena, temp_size, tree)
  BY DEF NamesInv, ListsInv
<1>5. /\ Lists(c_sources, "c", arena', temp_size', tree) /\ Lists(asm_sources, "asm", arena', temp_size', tree)
      /\ \A S : Lists_all(c_sources, "c", arena, S, tree) => Lists_all(c_sources, "c", arena', S, tree)
      /\ \A S : Lists_all(asm_sources, "asm", arena, S, tree) => Lists_all(asm_sources, "asm", arena', S, tree)
  BY <1>1, <1>4, ListKept
<1>6. ListsInv'
  BY <1>5 DEF NamesInv, ListsInv
<1> QED BY <1>2, <1>3, <1>6 DEF NamesInv

LEMMA NamesGone ==
  ASSUME NamesInv, main_pc' = "off", UNCHANGED <<program, tree>>, walk' \in Seq(Level), unread' \in BOOLEAN,
         arena' \in Seq(BPaths), temp_size' \in 0 .. Len(arena'), index' \in Nat \ {0}
  PROVE  NamesInv'
BY DEF NamesInv, NamesTyped, WalkInv, ListsInv, Places_

LEMMA AllCleared ==
  ASSUME B!Cleared, walk' = << >>
  PROVE  /\ walk' \in Seq(Level) /\ unread' \in BOOLEAN
         /\ arena' \in Seq(BPaths) /\ temp_size' \in 0 .. Len(arena') /\ index' \in Nat \ {0}
<1>1. << >> \in Seq(Level) /\ << >> \in Seq(BPaths) /\ Len(<< >>) = 0
  BY EmptySeq
<1>2. \A s : s = << >> => s \in Seq(Level) /\ s \in Seq(BPaths) /\ 0 \in 0 .. Len(s)
  BY <1>1
<1>3. arena' = << >> /\ temp_size' = 0 /\ index' = 1 /\ unread' = FALSE
  BY DEF B!Cleared
<1>4. index' \in Nat \ {0} /\ unread' \in BOOLEAN
  <2>1. index' \in Nat \ {0}
    BY <1>3
  <2>2. unread' \in BOOLEAN
    BY <1>3
  <2> QED BY <2>1, <2>2
<1>5. arena' \in Seq(BPaths) /\ 0 \in 0 .. Len(arena')
  BY <1>2, <1>3
<1>6. walk' \in Seq(Level)
  BY <1>2
<1> QED BY <1>3, <1>4, <1>5, <1>6

LEMMA NamesBegun ==
  ASSUME B!SourcesAreLegal, B!BuildInit
  PROVE  NamesInv
<1>1. << >> \in Seq(Level) /\ << >> \in Seq(BPaths) /\ Len(<< >>) = 0
  BY EmptySeq
<1>2. \A s : s = << >> => s \in Seq(Level) /\ s \in Seq(BPaths) /\ 0 \in 0 .. Len(s)
  BY <1>1
<1>3. /\ arena = << >> /\ temp_size = 0 /\ walk = << >> /\ index = 1 /\ unread = FALSE /\ main_pc = "off"
      /\ program \in {"kernel", "bootstub"} /\ tree \in Trees \cup StubTrees /\ (program = "kernel" => tree \in Trees)
  BY DEF B!BuildInit
<1>4. index \in Nat \ {0} /\ unread \in BOOLEAN /\ main_pc \in Places_
  <2>1. index \in Nat \ {0}
    BY <1>3
  <2>2. unread \in BOOLEAN
    BY <1>3
  <2>3. main_pc \in Places_
    BY <1>3 DEF Places_
  <2> QED BY <2>1, <2>2, <2>3
<1>5. arena \in Seq(BPaths) /\ 0 \in 0 .. Len(arena)
  BY <1>2, <1>3
<1>6. walk \in Seq(Level)
  BY <1>2, <1>3
<1>7. temp_size \in 0 .. Len(arena)
  BY <1>3, <1>5
<1>8. NamesTyped
  BY <1>3, <1>4, <1>5, <1>6, <1>7 DEF NamesTyped
<1> QED BY <1>3, <1>8 DEF NamesInv, WalkInv, ListsInv

LEMMA NamesStart ==
  ASSUME B!SourcesAreLegal, NamesInv, B!Start
  PROVE  NamesInv'
<1>1. /\ B!Cleared /\ UNCHANGED <<program, tree>>
      /\ \/ /\ Root \in DOMAIN tree
            /\ \E todo \in B!SetToSeqs(B!Names(Root)) : walk' = << [path |-> Root, todo |-> todo] >>
            /\ main_pc' = "walk"
         \/ walk' = << >> /\ main_pc' = "off"
  BY DEF B!Start, Root
<1>2. /\ arena' = << >> /\ temp_size' = 0 /\ unread' = FALSE /\ index' = 1 /\ c_sources' = << >> /\ asm_sources' = << >>
  BY <1>1 DEF B!Cleared
<1>3. arena' \in Seq(BPaths) /\ temp_size' \in 0 .. Len(arena')
  <2>1. << >> \in Seq(BPaths) /\ Len(<< >>) = 0
    BY EmptySeq
  <2> QED BY <1>2, <2>1
<1>4. CASE walk' = << >> /\ main_pc' = "off"
  BY <1>1, <1>4, AllCleared, NamesGone
<1>5. CASE /\ Root \in DOMAIN tree
           /\ \E todo \in B!SetToSeqs(B!Names(Root)) : walk' = << [path |-> Root, todo |-> todo] >>
           /\ main_pc' = "walk"
  <2> DEFINE N == Below_(Root, tree)
  <2>1. B!Names(Root) = N
    BY DEF B!Names, Below_
  <2>2. PICK todo \in B!SetToSeqs(N) : walk' = << [path |-> Root, todo |-> todo] >>
    BY <1>5, <2>1
  <2>3. tree \in Trees \cup StubTrees
    BY DEF NamesInv, NamesTyped
  <2>4. todo \in Seq(BPaths) /\ Apart(todo, Len(todo)) /\ Named(todo, Len(todo)) = N
    BY <2>3, NamesOnce
  <2>5. Root \in BPaths
    BY DEF Root, BPaths, Words
  <2>6. << >> \in Seq(Level) /\ Once(<< >>) /\ Ahead(<< >>) = {}
    <3>1. << >> \in Seq(Level) /\ Len(<< >>) = 0
      BY EmptySeq
    <3>2. \A n \in 1 .. Len(<< >>) : FALSE
      BY <3>1
    <3>3. \A x \in Spots(<< >>) : FALSE
      BY <3>2, SpotsAre
    <3> QED BY <3>1, <3>3 DEF Once, Ahead
  <2>7. Append(<< >>, [path |-> Root, todo |-> todo]) = << [path |-> Root, todo |-> todo] >>
    OBVIOUS
  <2>8. walk' \in Seq(Level) /\ Once(walk') /\ Ahead(walk') = {} \cup N
    <3> DEFINE w == << >>
               r == Append(w, [path |-> Root, todo |-> todo])
    <3>1. w \in Seq(Level) /\ Once(w) /\ Ahead(w) = {} /\ r = Append(w, [path |-> Root, todo |-> todo]) /\ walk' = r
      BY <2>2, <2>6, <2>7
    <3> HIDE DEF w, r, N
    <3>2. r \in Seq(Level) /\ Once(r) /\ Ahead(r) = Ahead(w) \cup Named(todo, Len(todo))
      <4>1. \A x \in Named(todo, Len(todo)) : x \notin Ahead(w)
        BY <3>1
      <4> QED BY <2>4, <2>5, <3>1, <4>1, PushIs
    <3> QED BY <2>4, <3>1, <3>2
  <2>9. Seen' = {}
    BY <1>2 DEF Seen, Named
  <2>10. Sound({}, N, tree) /\ Complete({}, N, tree)
    BY <1>5 DEF Sound, Complete, Below_
  <2>11. NamesTyped'
    <3>1. index' \in Nat \ {0} /\ unread' \in BOOLEAN /\ main_pc' \in Places_
      <4>1. index' \in Nat \ {0}
        BY <1>2
      <4>2. unread' \in BOOLEAN
        BY <1>2
      <4>3. main_pc' \in Places_
        BY <1>5 DEF Places_
      <4> QED BY <4>1, <4>2, <4>3
    <3>2. program' \in {"kernel", "bootstub"} /\ tree' \in Trees \cup StubTrees
          /\ (program' = "kernel" => tree' \in Trees)
      BY <1>1 DEF NamesInv, NamesTyped
    <3> QED BY <1>3, <2>8, <3>1, <3>2 DEF NamesTyped
  <2>12. /\ Lists(c_sources', "c", arena', temp_size', tree) /\ Lists(asm_sources', "asm", arena', temp_size', tree)
         /\ Lists_all(c_sources', "c", arena', {}, tree) /\ Lists_all(asm_sources', "asm", arena', {}, tree)
    BY <1>2, NoList
  <2>13. WalkInv'
    BY <1>1, <2>8, <2>9, <2>10, <2>12 DEF WalkInv
  <2>14. ListsInv'
    BY <1>1, <1>5, <2>12 DEF ListsInv
  <2> QED BY <2>11, <2>13, <2>14 DEF NamesInv
<1> QED BY <1>1, <1>4, <1>5

LEMMA NamesSame ==
  ASSUME NamesInv, UNCHANGED <<program, tree, arena, temp_size, walk, c_sources, asm_sources, main_pc, index, unread>>
  PROVE  NamesInv'
<1>1. Seen' = Seen
  BY DEF Seen
<1> QED BY <1>1 DEF NamesInv, NamesTyped, WalkInv, ListsInv

LEMMA NamesMkdirs ==
  ASSUME NamesInv, B!Mkdirs
  PROVE  NamesInv'
<1>1. /\ main_pc = "mkdirs" /\ main_pc' = "cc"
      /\ UNCHANGED <<program, tree, arena, temp_size, walk, c_sources, asm_sources, unread>>
      /\ index' = 1
  BY DEF B!Mkdirs, B!world, B!lists
<1>2. temp_size <= temp_size
  <2>1. Len(arena) \in Nat
    BY LenProperties DEF NamesInv, NamesTyped
  <2> QED BY <2>1 DEF NamesInv, NamesTyped
<1>3. walk' \in Seq(Level) /\ arena' \in Seq(BPaths) /\ temp_size' \in 0 .. Len(arena')
  BY <1>1 DEF NamesInv, NamesTyped
<1> QED BY <1>1, <1>2, <1>3, NamesGoOn DEF Places_

(* The sources listed behind the walk.                                     *)
LEMMA ListedSource ==
  ASSUME B!SourcesAreLegal, NamesInv, main_pc # "off", NEW list \in {c_sources, asm_sources},
         NEW k \in 1 .. Len(list)
  PROVE  /\ list[k] \in 1 .. temp_size /\ arena[list[k]] \in DOMAIN tree
         /\ arena[list[k]] \in BPaths /\ arena[list[k]] # << >>
<1>1. Lists(c_sources, "c", arena, temp_size, tree) /\ Lists(asm_sources, "asm", arena, temp_size, tree)
  BY DEF NamesInv, ListsInv
<1>2. list[k] \in 1 .. temp_size /\ arena[list[k]] \in DOMAIN tree
  BY <1>1 DEF Lists
<1>3. tree \in Trees \cup StubTrees
  BY DEF NamesInv, NamesTyped
<1> QED BY <1>2, <1>3, SourcesLegal

LEMMA NamesCompile ==
  ASSUME B!SourcesAreLegal, NamesInv, NEW list \in {c_sources, asm_sources}, NEW next \in Places_, next # "walk",
         main_pc \notin {"off", "walk"}, B!Compile_each(list, next)
  PROVE  NamesInv'
<1>1. temp_size \in Nat /\ arena \in Seq(BPaths) /\ temp_size \in 0 .. Len(arena) /\ walk \in Seq(Level)
      /\ main_pc \in Places_ /\ index \in Nat \ {0}
  <2>1. Len(arena) \in Nat
    BY LenProperties DEF NamesInv, NamesTyped
  <2> QED BY <2>1 DEF NamesInv, NamesTyped
<1> DEFINE p == arena[list[index]]
<1>2. CASE /\ index <= Len(list) /\ index' = index + 1
           /\ arena' = B!Cells(B!Obj(p)) /\ temp_size' = temp_size + 1
           /\ UNCHANGED <<program, tree, walk, c_sources, asm_sources, unread>>
           /\ main_pc' \in {main_pc, "off"}
  <2>1. index \in 1 .. Len(list)
    <3>1. list \in Seq(Nat)
      BY DEF NamesInv, ListsInv, Lists
    <3>2. Len(list) \in Nat
      BY <3>1, LenProperties
    <3> QED BY <1>1, <1>2, <3>2
  <2>2. p \in BPaths /\ p # << >>
    BY <2>1, ListedSource
  <2> HIDE DEF p
  <2>3. B!Obj(p) \in BPaths
    BY <2>2, ObjectNamed
  <2>4. /\ arena' \in Seq(BPaths) /\ temp_size' \in 0 .. Len(arena')
        /\ \A k \in 1 .. temp_size : arena'[k] = arena[k]
    BY <1>2, <2>3, Cells_
  <2>5. temp_size <= temp_size' /\ index' \in Nat \ {0} /\ walk' \in Seq(Level)
    BY <1>1, <1>2
  <2>6. CASE main_pc' = main_pc
    BY <1>1, <1>2, <2>4, <2>5, <2>6, NamesGoOn
  <2>7. CASE main_pc' = "off"
    <3>1. unread' \in BOOLEAN
      BY <1>2 DEF NamesInv, NamesTyped
    <3> QED BY <1>2, <2>4, <2>5, <2>7, <3>1, NamesGone
  <2> QED BY <1>2, <2>6, <2>7
<1>3. CASE /\ main_pc' = next /\ index' = 1
           /\ UNCHANGED <<program, tree, arena, temp_size, walk, c_sources, asm_sources, unread>>
  <2>1. temp_size <= temp_size
    BY <1>1
  <2>2. /\ arena' \in Seq(BPaths) /\ temp_size' \in 0 .. Len(arena') /\ walk' \in Seq(Level)
        /\ temp_size <= temp_size' /\ \A k \in 1 .. temp_size : arena'[k] = arena[k]
    BY <1>1, <1>3, <2>1
  <2> QED BY <1>1, <1>3, <2>2, NamesGoOn
<1>4. \/ /\ index <= Len(list) /\ index' = index + 1
         /\ arena' = B!Cells(B!Obj(p)) /\ temp_size' = temp_size + 1
         /\ UNCHANGED <<program, tree, walk, c_sources, asm_sources, unread>>
         /\ main_pc' \in {main_pc, "off"}
      \/ /\ main_pc' = next /\ index' = 1
         /\ UNCHANGED <<program, tree, arena, temp_size, walk, c_sources, asm_sources, unread>>
  BY DEF B!Compile_each, B!New, B!world, B!lists, B!Compile, B!Command, B!Failed
<1> QED BY <1>2, <1>3, <1>4

LEMMA NamesStub ==
  ASSUME NamesInv, B!Compile_stub
  PROVE  NamesInv'
<1>1. /\ main_pc = "stub" /\ main_pc' \in {"nasm", "off"}
      /\ UNCHANGED <<program, tree, arena, temp_size, walk, c_sources, asm_sources, index, unread>>
  BY DEF B!Compile_stub, B!Compile, B!Command, B!Failed, B!world
<1>2. temp_size \in Nat /\ arena \in Seq(BPaths) /\ temp_size \in 0 .. Len(arena) /\ walk \in Seq(Level)
      /\ index \in Nat \ {0}
  <2>1. Len(arena) \in Nat
    BY LenProperties DEF NamesInv, NamesTyped
  <2> QED BY <2>1 DEF NamesInv, NamesTyped
<1>3. temp_size <= temp_size
  BY <1>2
<1>4. /\ arena' \in Seq(BPaths) /\ temp_size' \in 0 .. Len(arena') /\ walk' \in Seq(Level)
      /\ temp_size <= temp_size' /\ (\A k \in 1 .. temp_size : arena'[k] = arena[k]) /\ index' \in Nat \ {0}
  BY <1>1, <1>2, <1>3
<1>5. main_pc' \in Places_ /\ main_pc' # "walk"
  BY <1>1 DEF Places_
<1> QED BY <1>1, <1>4, <1>5, NamesGoOn

(* The commands behind the sources.                                        *)
Course_ == {<< "link", "make" >>, << "make", "iso_root" >>, << "iso_root", "copy" >>, << "copy", "cp_bios" >>,
            << "cp_bios", "cp_efi" >>, << "cp_efi", "xorriso" >>, << "xorriso", "install" >>,
            << "install", "qemu" >>, << "qemu", "off" >>}

LEMMA FinishCourse ==
  ASSUME B!Finish
  PROVE  /\ main_pc \notin {"off", "walk"} /\ (main_pc' = "off" \/ << main_pc, main_pc' >> \in Course_)
         /\ IF main_pc' = "off" THEN B!Cleared /\ walk' = << >> ELSE UNCHANGED B!memory
         /\ UNCHANGED <<program, tree>>
<1>1. /\ IF main_pc' = "off" THEN B!Cleared /\ walk' = << >> ELSE UNCHANGED B!memory
      /\ UNCHANGED <<program, tree>>
  BY DEF B!Finish, B!world
<1>2. \A possible, done, halves, next : B!Command(possible, done, halves, next) => main_pc' \in {next, "off"}
  BY DEF B!Command, B!Failed
<1>3. main_pc \notin {"off", "walk"} /\ (main_pc' = "off" \/ << main_pc, main_pc' >> \in Course_)
  BY <1>2 DEF B!Finish, Course_
<1> QED BY <1>1, <1>3

LEMMA NamesFinish ==
  ASSUME NamesInv, B!Finish
  PROVE  NamesInv'
<1>1. /\ main_pc \notin {"off", "walk"} /\ (main_pc' = "off" \/ << main_pc, main_pc' >> \in Course_)
      /\ IF main_pc' = "off" THEN B!Cleared /\ walk' = << >> ELSE UNCHANGED B!memory
      /\ UNCHANGED <<program, tree>>
  BY FinishCourse
<1>2. CASE main_pc' = "off"
  BY <1>1, <1>2, AllCleared, NamesGone
<1>3. CASE main_pc' # "off"
  <2>1. UNCHANGED <<arena, temp_size, walk, c_sources, asm_sources, index, unread>>
    BY <1>1, <1>3 DEF B!memory, B!lists
  <2>2. temp_size \in Nat /\ arena \in Seq(BPaths) /\ temp_size \in 0 .. Len(arena) /\ walk \in Seq(Level)
        /\ index \in Nat \ {0}
    <3>1. Len(arena) \in Nat
      BY LenProperties DEF NamesInv, NamesTyped
    <3> QED BY <3>1 DEF NamesInv, NamesTyped
  <2>3. temp_size <= temp_size
    BY <2>2
  <2>4. /\ arena' \in Seq(BPaths) /\ temp_size' \in 0 .. Len(arena') /\ walk' \in Seq(Level)
        /\ temp_size <= temp_size' /\ (\A k \in 1 .. temp_size : arena'[k] = arena[k]) /\ index' \in Nat \ {0}
    BY <2>1, <2>2, <2>3
  <2>5. main_pc' \in Places_ /\ main_pc' # "walk"
    BY <1>1, <1>3 DEF Places_, Course_
  <2> QED BY <1>1, <2>1, <2>4, <2>5, NamesGoOn
<1> QED BY <1>2, <1>3

LEMMA NamesKilled ==
  ASSUME NamesInv, B!Killed
  PROVE  NamesInv'
<1>1. main_pc' = "off" /\ B!Cleared /\ walk' = << >> /\ UNCHANGED <<program, tree>>
  BY DEF B!Killed, B!world
<1> QED BY <1>1, AllCleared, NamesGone

LEMMA NamesStep ==
  ASSUME B!SourcesAreLegal, NamesInv, [B!BuildNext]_B!build_vars
  PROVE  NamesInv'
<1>1. CASE B!Start
  BY <1>1, NamesStart
<1>2. CASE B!walk_directory
  BY <1>2, WalkHidden, WalkDirectory, WalkSource, WalkOther, WalkEnd DEF B!walk_directory
<1>3. CASE B!Mkdirs
  BY <1>3, NamesMkdirs
<1>4. CASE B!Compile_c
  <2>1. PICK next \in {"stub", "off"} : main_pc = "cc" /\ B!Compile_each(c_sources, next)
    BY <1>4 DEF B!Compile_c
  <2> QED BY <2>1, NamesCompile DEF Places_
<1>5. CASE B!Compile_stub
  BY <1>5, NamesStub
<1>6. CASE B!Compile_asm
  BY <1>6, NamesCompile DEF B!Compile_asm, Places_
<1>7. CASE B!Finish
  BY <1>7, NamesFinish
<1>8. CASE B!Killed
  BY <1>8, NamesKilled
<1>9. CASE \E p \in Edited \cap B!Sources : B!Edit(p)
  BY <1>9, NamesSame DEF B!Edit, B!lists
<1>10. CASE UNCHANGED B!build_vars
  BY <1>10, NamesSame DEF B!build_vars
<1> QED BY <1>1, <1>2, <1>3, <1>4, <1>5, <1>6, <1>7, <1>8, <1>9, <1>10 DEF B!BuildNext

-----------------------------------------------------------------------------
(* How many there are.                                                     *)
NamedBy(list, cells) == {cells[list[j]] : j \in 1 .. Len(list)}

LEMMA ListCounted ==
  ASSUME NEW list, NEW kind, NEW cells, NEW n, NEW t, Lists(list, kind, cells, n, t)
  PROVE  /\ IsFiniteSet(NamedBy(list, cells)) /\ Cardinality(NamedBy(list, cells)) = Len(list)
         /\ Len(list) \in Nat
<1> DEFINE L == Len(list)
           D == 1 .. L
           f == [j \in D |-> cells[list[j]]]
           C == NamedBy(list, cells)
<1>1. L \in Nat
  BY LenProperties DEF Lists
<1>2. \A j, k \in D : cells[list[j]] = cells[list[k]] => j = k
  BY DEF Lists
<1>3. C = {cells[list[j]] : j \in D}
  BY DEF NamedBy
<1> HIDE DEF C, L
<1>4. IsFiniteSet(D) /\ Cardinality(D) = L
  BY <1>1, FS_Interval
<1> HIDE DEF D
<1>5. f \in Bijection(D, C)
  BY <1>2, <1>3 DEF Bijection, Injection, Surjection, IsInjective
<1>6. ExistsBijection(D, C)
  BY <1>5 DEF ExistsBijection
<1>7. IsFiniteSet(C) /\ Cardinality(C) = L
  BY <1>4, <1>6, FS_Bijection
<1> QED BY <1>1, <1>7 DEF C, L

LEMMA ListedIs ==
  ASSUME NamesInv, main_pc # "off"
  PROVE  /\ B!Listed = NamedBy(c_sources, arena) \cup NamedBy(asm_sources, arena)
         /\ DOMAIN c_sources = 1 .. Len(c_sources) /\ DOMAIN asm_sources = 1 .. Len(asm_sources)
         /\ \A p \in NamedBy(c_sources, arena) : p \in DOMAIN tree /\ tree[p] = "c"
         /\ \A p \in NamedBy(asm_sources, arena) : p \in DOMAIN tree /\ tree[p] = "asm"
<1>1. Lists(c_sources, "c", arena, temp_size, tree) /\ Lists(asm_sources, "asm", arena, temp_size, tree)
  BY DEF NamesInv, ListsInv
<1>2. DOMAIN c_sources = 1 .. Len(c_sources) /\ DOMAIN asm_sources = 1 .. Len(asm_sources)
  BY <1>1, LenProperties DEF Lists
<1>3. B!Listed = NamedBy(c_sources, arena) \cup NamedBy(asm_sources, arena)
  BY <1>2 DEF B!Listed, B!Range, NamedBy
<1>4. /\ \A p \in NamedBy(c_sources, arena) : p \in DOMAIN tree /\ tree[p] = "c"
      /\ \A p \in NamedBy(asm_sources, arena) : p \in DOMAIN tree /\ tree[p] = "asm"
  BY <1>1 DEF NamedBy, Lists
<1> QED BY <1>2, <1>3, <1>4

LEMMA StubElsewhere ==
  ASSUME B!SourcesAreLegal, NEW t \in Trees \cup StubTrees
  PROVE  B!Stub \notin DOMAIN t
<1>1. Len(B!Stub) = 1 /\ B!Stub # Root
  BY DEF B!Stub, Root
<1> QED BY <1>1, SourcesLegal

LEMMA AllNamed ==
  ASSUME B!SourcesAreLegal, NamesInv
  PROVE  B!NamesKept
<1> SUFFICES ASSUME main_pc \notin {"off", "walk"}
             PROVE  /\ \A k \in DOMAIN c_sources : arena[c_sources[k]] \in B!Sources /\ tree[arena[c_sources[k]]] = "c"
                    /\ \A k \in DOMAIN asm_sources :
                         arena[asm_sources[k]] \in B!Sources /\ tree[arena[asm_sources[k]]] = "asm"
                    /\ B!Cardinality(B!Listed) = Len(c_sources) + Len(asm_sources)
                    /\ ~ unread => B!Listed = B!Sources \ {B!Stub}
  BY DEF B!NamesKept
<1> DEFINE C == NamedBy(c_sources, arena)
           A == NamedBy(asm_sources, arena)
<1>1. /\ B!Listed = C \cup A
      /\ DOMAIN c_sources = 1 .. Len(c_sources) /\ DOMAIN asm_sources = 1 .. Len(asm_sources)
      /\ \A p \in C : p \in DOMAIN tree /\ tree[p] = "c"
      /\ \A p \in A : p \in DOMAIN tree /\ tree[p] = "asm"
  BY ListedIs
<1>2. \A p : p \in B!Sources <=> (p \in DOMAIN tree /\ tree[p] \in {"c", "asm"}) \/ p = B!Stub
  BY DEF B!Sources
<1>3. B!Stub \notin DOMAIN tree
  BY StubElsewhere DEF NamesInv, NamesTyped
<1>4. Lists(c_sources, "c", arena, temp_size, tree) /\ Lists(asm_sources, "asm", arena, temp_size, tree)
  BY DEF NamesInv, ListsInv
<1>5. /\ \A k \in DOMAIN c_sources : arena[c_sources[k]] \in C
      /\ \A k \in DOMAIN asm_sources : arena[asm_sources[k]] \in A
  BY <1>1 DEF NamedBy
<1>6. /\ IsFiniteSet(C) /\ Cardinality(C) = Len(c_sources) /\ Len(c_sources) \in Nat
      /\ IsFiniteSet(A) /\ Cardinality(A) = Len(asm_sources) /\ Len(asm_sources) \in Nat
  BY <1>4, ListCounted
<1>7. ~ unread => /\ \A p \in DOMAIN tree : tree[p] = "c" => p \in C
                  /\ \A p \in DOMAIN tree : tree[p] = "asm" => p \in A
  BY DEF NamesInv, ListsInv, Lists_all, NamedBy
<1> HIDE DEF C, A
<1>8. C \cap A = {}
  BY <1>1
<1>9. Cardinality(C \cup A) = Len(c_sources) + Len(asm_sources)
  <2>1. Cardinality(C \cup A) = Cardinality(C) + Cardinality(A) - Cardinality(C \cap A)
    BY <1>6, FS_Union
  <2>2. Cardinality(C \cap A) = 0
    BY <1>8, FS_EmptySet
  <2> QED BY <1>6, <2>1, <2>2
<1>10. B!Cardinality(B!Listed) = Len(c_sources) + Len(asm_sources)
  <2>1. \A S : B!Cardinality(S) = Cardinality(S)
    BY DEF B!Cardinality, Cardinality
  <2> QED BY <1>1, <1>9, <2>1
<1>11. /\ \A k \in DOMAIN c_sources : arena[c_sources[k]] \in B!Sources /\ tree[arena[c_sources[k]]] = "c"
       /\ \A k \in DOMAIN asm_sources : arena[asm_sources[k]] \in B!Sources /\ tree[arena[asm_sources[k]]] = "asm"
  BY <1>1, <1>2, <1>5
<1>12. ~ unread => B!Listed = B!Sources \ {B!Stub}
  BY <1>1, <1>2, <1>3, <1>7
<1> QED BY <1>10, <1>11, <1>12

(* For every tree of sources, every plan of faults, edits, kills and       *)
(* starts: behind the walk of kernel/nob.c (main, line 106) the lists      *)
(* name the sources there are, each once, however many names have been     *)
(* made in the temporary storage since.                                    *)
THEOREM NamesStay == ASSUME B!SourcesAreLegal PROVE B!BuildSpec => []NamesKept
<1>1. B!BuildInit => NamesInv
  BY NamesBegun
<1>2. NamesInv /\ [B!BuildNext]_B!build_vars => NamesInv'
  BY NamesStep
<1>3. NamesInv => NamesKept
  BY AllNamed DEF NamesKept
<1> QED BY <1>1, <1>2, <1>3, PTL DEF B!BuildSpec

-----------------------------------------------------------------------------
(* The image.  What a kernel's source is compiled to, and which have been. *)
ObjectOf(p) == IF p = B!Stub THEN B!StubObj ELSE << "build" >> \o p \o << "o" >>
FirstOf(list, cells, n) == {cells[list[j]] : j \in 1 .. n}
CellsOf(list, cells)    == {IF list[k] = 0 THEN B!StubObj ELSE cells[list[k]] : k \in 1 .. Len(list)}
Compiled(p, obj, v0, v) ==
  /\ ObjectOf(p) \in DOMAIN obj
  /\ \E n \in Nat : obj[ObjectOf(p)] = B!Made({<< p, n >>}) /\ v0[p] <= n /\ n <= v[p]
ObjectsAre(D, list, cells, obj, v0, v) ==
  CellsOf(list, cells) = {ObjectOf(p) : p \in D} /\ \A p \in D : Compiled(p, obj, v0, v)

Joined(new, obj, p, v) ==
  new = [q \in DOMAIN obj \cup {ObjectOf(p)} |-> IF q = ObjectOf(p) THEN B!Made({<< p, v[p] >>}) ELSE obj[q]]
AsBefore(r, cells, n) == \A k \in 1 .. n : r[k] = cells[k]
Behind(l, list, x)    == l = Append(list, x)
InCell(x, o, r, n, m) == \/ x = 0 /\ o = B!StubObj
                         \/ x = n + 1 /\ m = n + 1 /\ r[x] = o

(* A file made in this build of the sources S, each once.                  *)
Fresh(file, S, v0, v) ==
  /\ file[1] = "made" /\ {m[1] : m \in file[2]} = S
  /\ \A m \in file[2] : m[2] \in Nat /\ v0[m[1]] <= m[2] /\ m[2] <= v[m[1]]
  /\ \A l, m \in file[2] : l[1] = m[1] => l = m

Shape(d) ==
  /\ d = [made |-> d.made, obj |-> d.obj, kernel |-> d.kernel, tool |-> d.tool, iso |-> d.iso,
          boot |-> d.boot, image |-> d.image]
  /\ d.image = [state |-> d.image.state, kernel |-> d.image.kernel, boot |-> d.image.boot,
                installed |-> d.image.installed]

VersionsInv ==
  /\ version \in [B!Sources -> Nat] /\ version0 \in [B!Sources -> Nat]
  /\ \A p \in B!Sources : version0[p] <= version[p]

Numbers(list, n) == list \in Seq(Nat) /\ \A k \in 1 .. Len(list) : list[k] <= n
Objects_(D) == ObjectsAre(D, objs, arena, disk.obj, version0, version)
Fresh_(file) == Fresh(file, B!Listed \cup {B!Stub}, version0, version)

ObjectsInv ==
  /\ main_pc \in {"walk", "mkdirs"} => objs = << >>
  /\ main_pc \notin {"off", "walk", "mkdirs", "cc"} => program = "kernel"
  /\ main_pc \in {"cc", "stub", "nasm", "link"} /\ program = "kernel" => Numbers(objs, temp_size)
  /\ main_pc = "cc" /\ program = "kernel" =>
       index <= Len(c_sources) + 1 /\ Objects_(FirstOf(c_sources, arena, index - 1))
  /\ main_pc = "stub" => index = 1 /\ Objects_(NamedBy(c_sources, arena))
  /\ main_pc = "nasm" =>
       /\ index <= Len(asm_sources) + 1
       /\ Objects_(NamedBy(c_sources, arena) \cup {B!Stub} \cup FirstOf(asm_sources, arena, index - 1))
  /\ main_pc = "link" => Objects_(NamedBy(c_sources, arena) \cup {B!Stub} \cup NamedBy(asm_sources, arena))

ChainInv ==
  /\ Shape(disk) /\ disk.boot \subseteq {"bios", "efi"}
  /\ main_pc \in {"make", "iso_root", "copy"} => Fresh_(disk.kernel)
  /\ main_pc \in {"cp_bios", "cp_efi", "xorriso"} => Fresh_(disk.iso)
  /\ main_pc \in {"cp_efi", "xorriso"} => "bios" \in disk.boot
  /\ main_pc = "xorriso" => "efi" \in disk.boot
  /\ main_pc \in {"install", "qemu"} =>
       Fresh_(disk.image.kernel) /\ disk.image.state = "whole" /\ disk.image.boot = {"bios", "efi"}
  /\ main_pc = "qemu" => disk.image.installed

ImageInv == VersionsInv /\ ObjectsInv /\ ChainInv

-----------------------------------------------------------------------------
(* Two sources have two objects.                                           *)
LEMMA ObjectsApart ==
  ASSUME B!SourcesAreLegal, NEW t \in Trees, NEW p \in DOMAIN t \cup {B!Stub}, NEW q \in DOMAIN t \cup {B!Stub},
         ObjectOf(p) = ObjectOf(q)
  PROVE  p = q
<1>1. << "build" >> \in BPaths /\ << "o" >> \in BPaths /\ << "src", "limine_bootstub.c" >> \in BPaths
  BY DEF BPaths, Words
<1>2. \A s \in DOMAIN t : s \in BPaths /\ s # B!Stub /\ s # << "src", "limine_bootstub.c" >>
  BY SourcesLegal, StubElsewhere DEF B!SourcesAreLegal
<1>3. ASSUME NEW s \in BPaths, NEW r \in BPaths,
             << "build" >> \o s \o << "o" >> = << "build" >> \o r \o << "o" >>
      PROVE  s = r
  <2>1. << "build" >> \o s \in Seq(Words) /\ << "build" >> \o r \in Seq(Words)
    BY <1>1, ConcatProperties DEF BPaths
  <2>2. << "build" >> \o s = << "build" >> \o r
    BY <1>1, <1>3, <2>1, ConcatSimplifications DEF BPaths
  <2> QED BY <1>1, <2>2, ConcatSimplifications DEF BPaths
<1>4. B!StubObj = << "build" >> \o << "src", "limine_bootstub.c" >> \o << "o" >>
  BY DEF B!StubObj
<1>5. CASE p \in DOMAIN t /\ q \in DOMAIN t
  BY <1>2, <1>3, <1>5 DEF ObjectOf
<1>6. CASE p \in DOMAIN t /\ q = B!Stub
  BY <1>1, <1>2, <1>3, <1>4, <1>6 DEF ObjectOf
<1>7. CASE p = B!Stub /\ q \in DOMAIN t
  BY <1>1, <1>2, <1>3, <1>4, <1>7 DEF ObjectOf
<1>8. CASE p = B!Stub /\ q = B!Stub
  BY <1>8
<1> QED BY <1>5, <1>6, <1>7, <1>8

(* One more object, in a cell of its own or the stub's.                    *)
LEMMA NumberAdded ==
  ASSUME NEW list, NEW n \in Nat, Numbers(list, n), NEW cells, NEW r, AsBefore(r, cells, n),
         NEW o, NEW x, NEW m \in Nat, n <= m, InCell(x, o, r, n, m),
         NEW l, Behind(l, list, x)
  PROVE  Numbers(l, m) /\ CellsOf(l, r) = CellsOf(list, cells) \cup {o}
<1> DEFINE L == Len(list)
           Cell(k) == IF list[k] = 0 THEN B!StubObj ELSE cells[list[k]]
           Cell_(k) == IF l[k] = 0 THEN B!StubObj ELSE r[l[k]]
<1>1. list \in Seq(Nat) /\ L \in Nat /\ \A k \in 1 .. L : list[k] \in Nat /\ list[k] <= n
  <2>1. list \in Seq(Nat) /\ \A k \in 1 .. L : list[k] <= n
    BY DEF Numbers
  <2>2. \A k \in 1 .. L : list[k] \in Nat
    BY <2>1, ElementOfSeq
  <2> QED BY <2>1, <2>2, LenProperties
<1>0. \/ x = 0 /\ o = B!StubObj
      \/ x = n + 1 /\ m = n + 1 /\ r[x] = o
  BY DEF InCell
<1>2. x \in Nat /\ x <= m
  BY <1>0
<1>3. l \in Seq(Nat) /\ Len(l) = L + 1 /\ (\A k \in 1 .. L : l[k] = list[k]) /\ l[L + 1] = x
  BY <1>1, <1>2, AppendProperties DEF Behind
<1>4. CellsOf(list, cells) = {Cell(k) : k \in 1 .. L} /\ CellsOf(l, r) = {Cell_(k) : k \in 1 .. L + 1}
  BY <1>3 DEF CellsOf
<1> HIDE DEF L
<1>5. (\A k \in 1 .. L : k \in 1 .. L + 1) /\ L + 1 \in 1 .. L + 1 /\ \A k \in 1 .. L + 1 : k \in 1 .. L \/ k = L + 1
  BY <1>1
<1>6. \A k \in 1 .. L : list[k] = 0 \/ list[k] \in 1 .. n
  BY <1>1
<1>7. \A k \in 1 .. L : Cell_(k) = Cell(k)
  BY <1>3, <1>6 DEF AsBefore
<1>8. Cell_(L + 1) = o
  <2>1. CASE x = 0 /\ o = B!StubObj
    BY <1>3, <2>1
  <2>2. CASE x = n + 1 /\ m = n + 1 /\ r[x] = o
    <3>1. x # 0
      BY <2>2
    <3> QED BY <1>3, <2>2, <3>1
  <2> QED BY <1>0, <2>1, <2>2
<1>9. \A k \in 1 .. L + 1 : l[k] <= m
  <2> SUFFICES ASSUME NEW k \in 1 .. L + 1 PROVE l[k] <= m
    OBVIOUS
  <2>1. CASE k \in 1 .. L
    <3>1. l[k] = list[k] /\ list[k] \in Nat /\ list[k] <= n
      BY <1>1, <1>3, <2>1
    <3> QED BY <3>1
  <2>2. CASE k = L + 1
    BY <1>2, <1>3, <2>2
  <2> QED BY <1>5, <2>1, <2>2
<1>10. Numbers(l, m)
  BY <1>3, <1>9 DEF Numbers
<1> HIDE DEF Cell, Cell_
<1>11. CellsOf(l, r) = CellsOf(list, cells) \cup {o}
  BY <1>4, <1>5, <1>7, <1>8
<1> QED BY <1>10, <1>11

LEMMA CellsKept ==
  ASSUME NEW list, NEW n \in Nat, Numbers(list, n), NEW cells, NEW r, \A k \in 1 .. n : r[k] = cells[k]
  PROVE  CellsOf(list, r) = CellsOf(list, cells)
<1>1. list \in Seq(Nat) /\ \A k \in 1 .. Len(list) : list[k] <= n
  BY DEF Numbers
<1>2. \A k \in 1 .. Len(list) : list[k] \in Nat
  BY <1>1, ElementOfSeq
<1>3. \A k \in 1 .. Len(list) : list[k] = 0 \/ list[k] \in 1 .. n
  BY <1>1, <1>2
<1> QED BY <1>3 DEF CellsOf

(* A source compiled as it is: nothing compiled before it is lost.         *)
LEMMA OneCompiled ==
  ASSUME B!SourcesAreLegal, NEW t \in Trees, NEW D \in SUBSET (DOMAIN t \cup {B!Stub}),
         NEW p \in DOMAIN t \cup {B!Stub}, NEW obj, NEW v0, NEW v, v[p] \in Nat, v0[p] <= v[p],
         \A q \in D : Compiled(q, obj, v0, v),
         NEW new, Joined(new, obj, p, v)
  PROVE  \A q \in D \cup {p} : Compiled(q, new, v0, v)
<1>1. Compiled(p, new, v0, v)
  <2>1. ObjectOf(p) \in DOMAIN new /\ new[ObjectOf(p)] = B!Made({<< p, v[p] >>})
    BY DEF Joined
  <2>2. v[p] <= v[p]
    OBVIOUS
  <2> QED BY <2>1, <2>2 DEF Compiled
<1>2. ASSUME NEW q \in D, q # p PROVE Compiled(q, new, v0, v)
  <2>1. ObjectOf(q) # ObjectOf(p)
    BY <1>2, ObjectsApart
  <2>2. Compiled(q, obj, v0, v)
    OBVIOUS
  <2>3. ObjectOf(q) \in DOMAIN new /\ new[ObjectOf(q)] = obj[ObjectOf(q)]
    BY <2>1, <2>2 DEF Compiled, Joined
  <2> QED BY <2>2, <2>3 DEF Compiled
<1> QED BY <1>1, <1>2

(* The kernel linked of all of them.                                       *)
LEMMA LinkedFresh ==
  ASSUME NEW D, NEW list, NEW cells, NEW obj, NEW v0, NEW v, ObjectsAre(D, list, cells, obj, v0, v)
  PROVE  Fresh(B!Made(UNION {obj[o][2] : o \in CellsOf(list, cells)}), D, v0, v)
<1> DEFINE M == UNION {obj[o][2] : o \in CellsOf(list, cells)}
<1>1. \A p \in D : \E n \in Nat : obj[ObjectOf(p)] = B!Made({<< p, n >>}) /\ v0[p] <= n /\ n <= v[p]
  BY DEF ObjectsAre, Compiled
<1>2. CellsOf(list, cells) = {ObjectOf(p) : p \in D}
  BY DEF ObjectsAre
<1>3. \A m : m \in M <=> \E p \in D : m \in obj[ObjectOf(p)][2]
  BY <1>2
<1> HIDE DEF M
<1>4. \A p \in D : \E n \in Nat : obj[ObjectOf(p)][2] = {<< p, n >>} /\ v0[p] <= n /\ n <= v[p]
  <2>1. \A m : B!Made(m)[2] = m
    BY DEF B!Made
  <2> QED BY <1>1, <2>1
<1>5. \A m \in M : \E p \in D : \E n \in Nat :
        m = << p, n >> /\ obj[ObjectOf(p)][2] = {<< p, n >>} /\ v0[p] <= n /\ n <= v[p]
  BY <1>3, <1>4
<1>6. \A m \in M : m[1] \in D /\ m[2] \in Nat /\ v0[m[1]] <= m[2] /\ m[2] <= v[m[1]] /\ obj[ObjectOf(m[1])][2] = {m}
  BY <1>5
<1>7. ASSUME NEW p \in D PROVE \E m \in M : m[1] = p
  <2>1. PICK n \in Nat : obj[ObjectOf(p)][2] = {<< p, n >>}
    BY <1>4
  <2>2. << p, n >> \in M
    BY <1>3, <2>1
  <2>3. << p, n >>[1] = p
    OBVIOUS
  <2> QED BY <2>2, <2>3
<1>8. \A l, m \in M : l[1] = m[1] => l = m
  BY <1>6
<1>9. {m[1] : m \in M} = D
  BY <1>6, <1>7
<1>10. B!Made(M)[1] = "made" /\ B!Made(M)[2] = M
  BY DEF B!Made
<1>11. Fresh(B!Made(M), D, v0, v)
  BY <1>6, <1>8, <1>9, <1>10 DEF Fresh
<1> QED BY <1>11 DEF M

(* Sources only get newer.                                                 *)
LEMMA NewerObject ==
  ASSUME NEW S, NEW v0 \in [S -> Nat], NEW v \in [S -> Nat], NEW w \in [S -> Nat], \A p \in S : v[p] <= w[p],
         NEW p \in S, NEW obj, Compiled(p, obj, v0, v)
  PROVE  Compiled(p, obj, v0, w)
<1>1. v[p] \in Nat /\ w[p] \in Nat /\ v[p] <= w[p]
  OBVIOUS
<1>2. \A n \in Nat : n <= v[p] => n <= w[p]
  BY <1>1
<1> QED BY <1>2 DEF Compiled

LEMMA NewerFile ==
  ASSUME NEW S, NEW v0 \in [S -> Nat], NEW v \in [S -> Nat], NEW w \in [S -> Nat], \A p \in S : v[p] <= w[p],
         NEW X \in SUBSET S, NEW file, Fresh(file, X, v0, v)
  PROVE  Fresh(file, X, v0, w)
<1>1. \A m \in file[2] : m[1] \in S /\ m[2] \in Nat /\ v0[m[1]] <= m[2] /\ m[2] <= v[m[1]]
  BY DEF Fresh
<1>2. \A p \in S : v[p] \in Nat /\ w[p] \in Nat /\ v[p] <= w[p]
  OBVIOUS
<1>3. \A p \in S : \A n \in Nat : n <= v[p] => n <= w[p]
  BY <1>2
<1>4. \A m \in file[2] : m[2] <= w[m[1]]
  BY <1>1, <1>3
<1> QED BY <1>1, <1>4 DEF Fresh

-----------------------------------------------------------------------------
(* A disk with one thing on it changed.                                    *)
LEMMA DiskChanged ==
  ASSUME NEW d, Shape(d), NEW x
  PROVE  /\ Shape([d EXCEPT !.made = x]) /\ [d EXCEPT !.made = x].boot = d.boot
         /\ Shape([d EXCEPT !.obj = x]) /\ [d EXCEPT !.obj = x].boot = d.boot /\ [d EXCEPT !.obj = x].obj = x
         /\ Shape([d EXCEPT !.kernel = x]) /\ [d EXCEPT !.kernel = x].boot = d.boot /\ [d EXCEPT !.kernel = x].kernel = x
         /\ Shape([d EXCEPT !.tool = x]) /\ [d EXCEPT !.tool = x].boot = d.boot /\ [d EXCEPT !.tool = x].kernel = d.kernel
         /\ Shape([d EXCEPT !.iso = x]) /\ [d EXCEPT !.iso = x].boot = d.boot /\ [d EXCEPT !.iso = x].iso = x
         /\ Shape([d EXCEPT !.boot = x]) /\ [d EXCEPT !.boot = x].boot = x /\ [d EXCEPT !.boot = x].iso = d.iso
<1>1. d = [made |-> d.made, obj |-> d.obj, kernel |-> d.kernel, tool |-> d.tool, iso |-> d.iso,
           boot |-> d.boot, image |-> d.image]
  BY DEF Shape
<1>2. d.image = [state |-> d.image.state, kernel |-> d.image.kernel, boot |-> d.image.boot,
                 installed |-> d.image.installed]
  BY DEF Shape
<1>3. Shape([d EXCEPT !.made = x]) /\ [d EXCEPT !.made = x].boot = d.boot
  BY <1>1, <1>2 DEF Shape
<1>4. Shape([d EXCEPT !.obj = x]) /\ [d EXCEPT !.obj = x].boot = d.boot /\ [d EXCEPT !.obj = x].obj = x
  BY <1>1, <1>2 DEF Shape
<1>5. Shape([d EXCEPT !.kernel = x]) /\ [d EXCEPT !.kernel = x].boot = d.boot /\ [d EXCEPT !.kernel = x].kernel = x
  BY <1>1, <1>2 DEF Shape
<1>6. Shape([d EXCEPT !.tool = x]) /\ [d EXCEPT !.tool = x].boot = d.boot /\ [d EXCEPT !.tool = x].kernel = d.kernel
  BY <1>1, <1>2 DEF Shape
<1>7. Shape([d EXCEPT !.iso = x]) /\ [d EXCEPT !.iso = x].boot = d.boot /\ [d EXCEPT !.iso = x].iso = x
  BY <1>1, <1>2 DEF Shape
<1>8. Shape([d EXCEPT !.boot = x]) /\ [d EXCEPT !.boot = x].boot = x /\ [d EXCEPT !.boot = x].iso = d.iso
  BY <1>1, <1>2 DEF Shape
<1> QED BY <1>3, <1>4, <1>5, <1>6, <1>7, <1>8

LEMMA ImageChanged ==
  ASSUME NEW d, Shape(d), NEW s, NEW k, NEW b, NEW y
  PROVE  /\ Shape([d EXCEPT !.image = [state |-> s, kernel |-> k, boot |-> b, installed |-> y]])
         /\ [d EXCEPT !.image = [state |-> s, kernel |-> k, boot |-> b, installed |-> y]].boot = d.boot
         /\ [d EXCEPT !.image = [state |-> s, kernel |-> k, boot |-> b, installed |-> y]].image
              = [state |-> s, kernel |-> k, boot |-> b, installed |-> y]
<1>1. d = [made |-> d.made, obj |-> d.obj, kernel |-> d.kernel, tool |-> d.tool, iso |-> d.iso,
           boot |-> d.boot, image |-> d.image]
  BY DEF Shape
<1> QED BY <1>1 DEF Shape

LEMMA ImageTouched ==
  ASSUME NEW d, Shape(d), NEW x
  PROVE  /\ Shape([d EXCEPT !.image.state = x]) /\ [d EXCEPT !.image.state = x].boot = d.boot
         /\ Shape([d EXCEPT !.image.installed = x]) /\ [d EXCEPT !.image.installed = x].boot = d.boot
         /\ [d EXCEPT !.image.installed = x].image
              = [state |-> d.image.state, kernel |-> d.image.kernel, boot |-> d.image.boot, installed |-> x]
<1>1. d = [made |-> d.made, obj |-> d.obj, kernel |-> d.kernel, tool |-> d.tool, iso |-> d.iso,
           boot |-> d.boot, image |-> d.image]
  BY DEF Shape
<1>2. d.image = [state |-> d.image.state, kernel |-> d.image.kernel, boot |-> d.image.boot,
                 installed |-> d.image.installed]
  BY DEF Shape
<1>3. [d EXCEPT !.image.state = x]
        = [d EXCEPT !.image = [state |-> x, kernel |-> d.image.kernel, boot |-> d.image.boot,
                               installed |-> d.image.installed]]
  BY <1>1, <1>2
<1>4. [d EXCEPT !.image.installed = x]
        = [d EXCEPT !.image = [state |-> d.image.state, kernel |-> d.image.kernel, boot |-> d.image.boot,
                               installed |-> x]]
  BY <1>1, <1>2
<1>5. Shape([d EXCEPT !.image.state = x]) /\ [d EXCEPT !.image.state = x].boot = d.boot
  BY <1>3, ImageChanged
<1>6. Shape([d EXCEPT !.image.installed = x]) /\ [d EXCEPT !.image.installed = x].boot = d.boot
  BY <1>4, ImageChanged
<1>7. [d EXCEPT !.image.installed = x].image
        = [state |-> d.image.state, kernel |-> d.image.kernel, boot |-> d.image.boot, installed |-> x]
  BY <1>1, <1>2
<1> QED BY <1>5, <1>6, <1>7

Within(list, L, n) == \A j \in 1 .. L : list[j] \in 1 .. n

LEMMA FirstGrows ==
  ASSUME NEW list, NEW n, NEW cells, NEW r, AsBefore(r, cells, n), NEW L \in Nat, Within(list, L, n), NEW k \in 1 .. L
  PROVE  FirstOf(list, r, k) = FirstOf(list, cells, k - 1) \cup {cells[list[k]]}
<1>1. /\ \A j \in 1 .. k : j \in 1 .. L /\ (j \in 1 .. k - 1 \/ j = k)
      /\ (\A j \in 1 .. k - 1 : j \in 1 .. k) /\ k \in 1 .. k
  OBVIOUS
<1>2. \A j \in 1 .. k : r[list[j]] = cells[list[j]]
  BY <1>1 DEF AsBefore, Within
<1> QED BY <1>1, <1>2 DEF FirstOf

LEMMA FirstSame ==
  ASSUME NEW list, NEW n, NEW cells, NEW r, AsBefore(r, cells, n), NEW L \in Nat, Within(list, L, n)
  PROVE  FirstOf(list, r, L) = FirstOf(list, cells, L)
BY DEF FirstOf, AsBefore, Within

(* One more source compiled into an object of its own.                     *)
LEMMA ObjectAdded ==
  ASSUME B!SourcesAreLegal, NEW t \in Trees, NEW D \in SUBSET (DOMAIN t \cup {B!Stub}),
         NEW p \in DOMAIN t \cup {B!Stub}, NEW list, NEW cells, NEW obj, NEW v0, NEW v, NEW n \in Nat,
         Numbers(list, n), ObjectsAre(D, list, cells, obj, v0, v), v[p] \in Nat, v0[p] <= v[p],
         NEW r, AsBefore(r, cells, n), NEW x, NEW m \in Nat, n <= m,
         InCell(x, ObjectOf(p), r, n, m), NEW new, Joined(new, obj, p, v),
         NEW l, Behind(l, list, x)
  PROVE  Numbers(l, m) /\ ObjectsAre(D \cup {p}, l, r, new, v0, v)
<1>1. CellsOf(list, cells) = {ObjectOf(q) : q \in D} /\ \A q \in D : Compiled(q, obj, v0, v)
  BY DEF ObjectsAre
<1>2. Numbers(l, m) /\ CellsOf(l, r) = CellsOf(list, cells) \cup {ObjectOf(p)}
  <2>1. PICK o : o = ObjectOf(p)
    OBVIOUS
  <2>2. InCell(x, o, r, n, m)
    BY <2>1
  <2>3. Numbers(l, m) /\ CellsOf(l, r) = CellsOf(list, cells) \cup {o}
    BY <2>2, NumberAdded
  <2> QED BY <2>1, <2>3
<1>3. \A q \in D \cup {p} : Compiled(q, new, v0, v)
  BY <1>1, OneCompiled
<1>4. CellsOf(l, r) = {ObjectOf(q) : q \in D \cup {p}}
  BY <1>1, <1>2
<1> QED BY <1>2, <1>3, <1>4 DEF ObjectsAre

-----------------------------------------------------------------------------
(* The steps around the compilers.                                         *)
LEMMA VersionsKept ==
  ASSUME ImageInv, UNCHANGED <<tree, version>>, version0' \in {version0, version}
  PROVE  VersionsInv'
<1>1. B!Sources' = B!Sources
  BY DEF B!Sources
<1>2. VersionsInv
  BY DEF ImageInv
<1>3. \A p \in B!Sources : version[p] <= version[p]
  BY <1>2 DEF VersionsInv
<1> QED BY <1>1, <1>2, <1>3 DEF VersionsInv

LEMMA ImageAway ==
  ASSUME VersionsInv', main_pc' \in {"off", "walk", "mkdirs"}, main_pc' # "off" => objs' = << >>,
         Shape(disk'), disk'.boot \subseteq {"bios", "efi"}
  PROVE  ImageInv'
BY DEF ImageInv, ObjectsInv, ChainInv

LEMMA ImageBegun ==
  ASSUME B!BuildInit
  PROVE  ImageInv
<1>1. version = [p \in B!Sources |-> 0] /\ version0 = version /\ main_pc = "off" /\ disk = B!EmptyDisk
  BY DEF B!BuildInit
<1>2. VersionsInv
  BY <1>1 DEF VersionsInv
<1>3. Shape(disk) /\ disk.boot \subseteq {"bios", "efi"}
  BY <1>1 DEF Shape, B!EmptyDisk, B!NoImage
<1> QED BY <1>1, <1>2, <1>3 DEF ImageInv, ObjectsInv, ChainInv

LEMMA ImageStart ==
  ASSUME ImageInv, B!Start
  PROVE  ImageInv'
<1>1. /\ UNCHANGED <<tree, version, disk>> /\ version0' = version /\ objs' = << >> /\ main_pc' \in {"off", "walk"}
  BY DEF B!Start, B!Cleared
<1>2. Shape(disk') /\ disk'.boot \subseteq {"bios", "efi"}
  BY <1>1 DEF ImageInv, ChainInv
<1> QED BY <1>1, <1>2, VersionsKept, ImageAway

LEMMA ImageWalk ==
  ASSUME ImageInv, B!walk_directory
  PROVE  ImageInv'
<1>1. /\ UNCHANGED <<tree, version, version0, disk, objs>> /\ main_pc = "walk" /\ main_pc' \in {"walk", "off", "mkdirs"}
  BY DEF B!walk_directory, B!Walk_hidden, B!Walk_directory, B!Walk_source, B!Walk_other, B!Walk_end, B!Walking,
         B!world, B!lists
<1>2. objs = << >> /\ Shape(disk') /\ disk'.boot \subseteq {"bios", "efi"}
  BY <1>1 DEF ImageInv, ObjectsInv, ChainInv
<1> QED BY <1>1, <1>2, VersionsKept, ImageAway

LEMMA ImageKilled ==
  ASSUME ImageInv, B!Killed
  PROVE  ImageInv'
<1>1. UNCHANGED <<tree, version, version0>> /\ main_pc' = "off"
  BY DEF B!Killed, B!world
<1>2. Shape(disk) /\ disk.boot \subseteq {"bios", "efi"}
  BY DEF ImageInv, ChainInv
<1>3. disk' \in {disk, [disk EXCEPT !.kernel = B!Torn], [disk EXCEPT !.iso = B!Torn],
                 [disk EXCEPT !.image.state = "torn"]}
  BY DEF B!Killed
<1>4. Shape(disk') /\ disk'.boot = disk.boot
  <2>1. CASE disk' = disk
    BY <1>2, <2>1
  <2>2. CASE disk' = [disk EXCEPT !.kernel = B!Torn]
    BY <1>2, <2>2, DiskChanged
  <2>3. CASE disk' = [disk EXCEPT !.iso = B!Torn]
    BY <1>2, <2>3, DiskChanged
  <2>4. CASE disk' = [disk EXCEPT !.image.state = "torn"]
    BY <1>2, <2>4, ImageTouched
  <2> QED BY <1>3, <2>1, <2>2, <2>3, <2>4
<1> QED BY <1>1, <1>2, <1>4, VersionsKept, ImageAway

LEMMA NoObject ==
  ASSUME NEW list, NEW cells, NEW cells_, NEW obj, NEW v0, NEW v, NEW n
  PROVE  /\ Numbers(<< >>, n) /\ ObjectsAre(FirstOf(list, cells, 0), << >>, cells_, obj, v0, v)
         /\ FirstOf(list, cells, 0) = {}
<1>1. << >> \in Seq(Nat) /\ Len(<< >>) = 0
  BY EmptySeq
<1>2. \A k \in 1 .. 0 : FALSE
  OBVIOUS
<1>3. FirstOf(list, cells, 0) = {}
  BY <1>2 DEF FirstOf
<1>4. CellsOf(<< >>, cells_) = {}
  BY <1>1, <1>2 DEF CellsOf
<1> QED BY <1>1, <1>2, <1>3, <1>4 DEF Numbers, ObjectsAre

LEMMA ImageMkdirs ==
  ASSUME NamesInv, ImageInv, B!Mkdirs
  PROVE  ImageInv'
<1>1. /\ main_pc = "mkdirs" /\ main_pc' = "cc" /\ index' = 1 /\ \E x : disk' = [disk EXCEPT !.made = x]
      /\ UNCHANGED <<program, tree, version, version0, arena, temp_size, c_sources, asm_sources, objs>>
  BY DEF B!Mkdirs, B!world, B!lists
<1>2. Shape(disk) /\ disk.boot \subseteq {"bios", "efi"} /\ objs = << >>
  BY <1>1 DEF ImageInv, ChainInv, ObjectsInv
<1>3. Shape(disk') /\ disk'.boot \subseteq {"bios", "efi"}
  <2>1. PICK x : disk' = [disk EXCEPT !.made = x]
    BY <1>1
  <2>2. Shape(disk') /\ disk'.boot = disk.boot
    BY <1>2, <2>1, DiskChanged
  <2> QED BY <1>2, <2>2
<1>4. VersionsInv'
  BY <1>1, VersionsKept
<1>5. index' <= Len(c_sources') + 1 /\ index' - 1 = 0
  <2>1. c_sources \in Seq(Nat)
    BY <1>1 DEF NamesInv, ListsInv, Lists
  <2>2. Len(c_sources) \in Nat
    BY <2>1, LenProperties
  <2> QED BY <1>1, <2>2
<1>6. /\ Numbers(objs', temp_size')
      /\ ObjectsAre(FirstOf(c_sources', arena', index' - 1), objs', arena', disk'.obj, version0', version')
  BY <1>1, <1>2, <1>5, NoObject
<1>7. ObjectsInv'
  BY <1>1, <1>5, <1>6 DEF ObjectsInv, Objects_
<1>8. ChainInv'
  BY <1>1, <1>3 DEF ChainInv
<1> QED BY <1>4, <1>7, <1>8 DEF ImageInv

-----------------------------------------------------------------------------
(* Where the walk's names are.                                             *)
LEMMA ListShort ==
  ASSUME NamesInv, main_pc # "off", NEW list \in {c_sources, asm_sources}
  PROVE  /\ Len(list) \in Nat /\ \A j \in 1 .. Len(list) : list[j] \in 1 .. temp_size
         /\ NamedBy(list, arena) = FirstOf(list, arena, Len(list))
         /\ \A j \in 1 .. Len(list) : arena[list[j]] \in DOMAIN tree /\ arena[list[j]] \in B!Sources
<1>1. Lists(c_sources, "c", arena, temp_size, tree) /\ Lists(asm_sources, "asm", arena, temp_size, tree)
  BY DEF NamesInv, ListsInv
<1>2. Len(list) \in Nat
  BY <1>1, LenProperties DEF Lists
<1>3. \A j \in 1 .. Len(list) : list[j] \in 1 .. temp_size /\ arena[list[j]] \in DOMAIN tree
                                /\ tree[arena[list[j]]] \in {"c", "asm"}
  BY <1>1 DEF Lists
<1>4. NamedBy(list, arena) = FirstOf(list, arena, Len(list))
  BY DEF NamedBy, FirstOf
<1> QED BY <1>2, <1>3, <1>4 DEF B!Sources

LEMMA FirstKnown ==
  ASSUME NamesInv, main_pc # "off", NEW list \in {c_sources, asm_sources}, NEW n \in Nat, n <= Len(list)
  PROVE  /\ \A p \in FirstOf(list, arena, n) : p \in DOMAIN tree /\ p \in B!Sources
         /\ \A p \in NamedBy(list, arena) : p \in DOMAIN tree /\ p \in B!Sources
<1>1. /\ Len(list) \in Nat
      /\ \A j \in 1 .. Len(list) : arena[list[j]] \in DOMAIN tree /\ arena[list[j]] \in B!Sources
  BY ListShort
<1>2. \A j \in 1 .. n : j \in 1 .. Len(list)
  BY <1>1
<1> QED BY <1>1, <1>2 DEF FirstOf, NamedBy

LEMMA ObjectsWritten ==
  ASSUME ImageInv, NEW new, disk' = [disk EXCEPT !.obj = new]
  PROVE  Shape(disk') /\ disk'.boot = disk.boot /\ disk'.obj = new
<1>1. Shape(disk)
  BY DEF ImageInv, ChainInv
<1>2. Shape(disk') /\ disk'.boot = disk.boot
  BY <1>1, DiskChanged
<1>3. [disk EXCEPT !.obj = new].obj = new
  BY <1>1, DiskChanged
<1> QED BY <1>2, <1>3

(* A compiler's step: it has made an object more, or the build is over.    *)
LEMMA CompileStep ==
  ASSUME B!SourcesAreLegal, NamesInv, ImageInv, main_pc # "off", program = "kernel", NEW p \in B!Sources,
         NEW D \in SUBSET (DOMAIN tree \cup {B!Stub}), Numbers(objs, temp_size), Objects_(D),
         NEW x, NEW m \in Nat, temp_size <= m, NEW r, AsBefore(r, arena, temp_size),
         InCell(x, ObjectOf(p), r, temp_size, m), Behind(objs', objs, x),
         disk' = B!With(ObjectOf(p), B!Made({<< p, version[p] >>}))
  PROVE  /\ Numbers(objs', m) /\ ObjectsAre(D \cup {p}, objs', r, disk'.obj, version0, version)
         /\ Shape(disk') /\ disk'.boot = disk.boot
<1>1. tree \in Trees /\ temp_size \in Nat
  <2>1. Len(arena) \in Nat
    BY LenProperties DEF NamesInv, NamesTyped
  <2> QED BY <2>1 DEF NamesInv, NamesTyped
<1>2. p \in DOMAIN tree \cup {B!Stub} /\ version[p] \in Nat /\ version0[p] <= version[p]
  BY DEF ImageInv, VersionsInv, B!Sources
<1>3. Shape(disk) /\ ObjectsAre(D, objs, arena, disk.obj, version0, version)
  BY DEF ImageInv, ChainInv, Objects_
<1>4. PICK new : new = [q \in DOMAIN disk.obj \cup {ObjectOf(p)} |->
                          IF q = ObjectOf(p) THEN B!Made({<< p, version[p] >>}) ELSE disk.obj[q]]
  OBVIOUS
<1>5. disk' = [disk EXCEPT !.obj = new]
  BY <1>4 DEF B!With
<1>6. Shape(disk') /\ disk'.boot = disk.boot /\ disk'.obj = new
  BY <1>5, ObjectsWritten
<1>7. Joined(new, disk.obj, p, version)
  BY <1>4 DEF Joined
<1>8. PICK l : l = objs'
  OBVIOUS
<1>9. Behind(l, objs, x)
  BY <1>8
<1>10. Numbers(l, m) /\ ObjectsAre(D \cup {p}, l, r, new, version0, version)
  BY <1>1, <1>2, <1>3, <1>7, <1>9, ObjectAdded
<1> QED BY <1>6, <1>8, <1>10

LEMMA CompileOver ==
  ASSUME ImageInv, UNCHANGED <<tree, version, version0>>, main_pc' = "off",
         NEW o, NEW file, disk' \in {disk, B!With(o, file)}
  PROVE  ImageInv'
<1>1. VersionsInv'
  BY VersionsKept
<1>2. Shape(disk) /\ disk.boot \subseteq {"bios", "efi"}
  BY DEF ImageInv, ChainInv
<1>3. Shape(disk') /\ disk'.boot = disk.boot
  <2>1. CASE disk' = disk
    BY <1>2, <2>1
  <2>2. CASE disk' = B!With(o, file)
    <3>1. PICK new : disk' = [disk EXCEPT !.obj = new]
      BY <2>2 DEF B!With
    <3> QED BY <3>1, ObjectsWritten
  <2> QED BY <2>1, <2>2
<1> QED BY <1>1, <1>2, <1>3, ImageAway

LEMMA CompileEach ==
  ASSUME B!SourcesAreLegal, NamesInv, ImageInv, main_pc # "off", program = "kernel",
         NEW list \in {c_sources, asm_sources}, NEW next, B!Compile_each(list, next),
         NEW D \in SUBSET (DOMAIN tree \cup {B!Stub}), index <= Len(list) + 1, Numbers(objs, temp_size),
         Objects_(D \cup FirstOf(list, arena, index - 1))
  PROVE  \/ ImageInv' /\ main_pc' = "off"
         \/ /\ main_pc' = main_pc /\ index' <= Len(list) + 1 /\ Numbers(objs', temp_size')
            /\ ObjectsAre(D \cup FirstOf(list, arena', index' - 1), objs', arena', disk'.obj, version0, version)
            /\ Shape(disk') /\ disk'.boot = disk.boot /\ AsBefore(arena', arena, temp_size)
         \/ /\ main_pc' = next /\ index' = 1 /\ UNCHANGED <<arena, temp_size, objs, disk>>
            /\ Objects_(D \cup NamedBy(list, arena))
<1> DEFINE p == arena[list[index]]
           L == Len(list)
<1>1. /\ L \in Nat /\ (\A j \in 1 .. L : list[j] \in 1 .. temp_size) /\ NamedBy(list, arena) = FirstOf(list, arena, L)
      /\ \A j \in 1 .. L : arena[list[j]] \in DOMAIN tree /\ arena[list[j]] \in B!Sources
  BY ListShort
<1>2. index \in Nat \ {0} /\ index <= L + 1
  BY DEF NamesInv, NamesTyped
<1>3. \/ /\ index <= L /\ index' = index + 1
         /\ arena' = B!Cells(B!Obj(p)) /\ temp_size' = temp_size + 1 /\ objs' = Append(objs, temp_size + 1)
         /\ B!Compile(p, B!Obj(p), B!Front(p), main_pc)
      \/ index > L /\ main_pc' = next /\ index' = 1 /\ UNCHANGED <<arena, temp_size, objs, disk>>
  BY DEF B!Compile_each, B!New, B!lists
<1>4. UNCHANGED <<tree, version, version0>>
  BY DEF B!Compile_each, B!world
<1> HIDE DEF L
<1>5. CASE index > L /\ main_pc' = next /\ index' = 1 /\ UNCHANGED <<arena, temp_size, objs, disk>>
  <2>1. index - 1 = L
    BY <1>1, <1>2, <1>5
  <2>2. Objects_(D \cup NamedBy(list, arena))
    BY <1>1, <2>1
  <2> QED BY <1>5, <2>2
<1>6. CASE /\ index <= L /\ index' = index + 1
           /\ arena' = B!Cells(B!Obj(p)) /\ temp_size' = temp_size + 1 /\ objs' = Append(objs, temp_size + 1)
           /\ B!Compile(p, B!Obj(p), B!Front(p), main_pc)
  <2>1. index \in 1 .. L
    BY <1>1, <1>2, <1>6
  <2>2. p \in BPaths /\ p # << >> /\ p \in B!Sources /\ p \in DOMAIN tree /\ list[index] \in 1 .. temp_size
    <3>1. p \in BPaths /\ p # << >>
      BY <2>1, ListedSource DEF L
    <3> QED BY <1>1, <2>1, <3>1
  <2> DEFINE o == B!Obj(p)
  <2>3. o = ObjectOf(p) /\ o \in BPaths
    <3>1. p # B!Stub
      BY <2>2, StubElsewhere DEF NamesInv, NamesTyped
    <3>2. B!Obj(p) \in BPaths
      BY <2>2, ObjectNamed
    <3> QED BY <3>1, <3>2 DEF B!Obj, ObjectOf
  <2>4. \/ disk' = B!With(o, B!Made({<< p, version[p] >>})) /\ main_pc' = main_pc
        \/ disk' \in {disk, B!With(o, B!NoFile)} /\ main_pc' = "off"
    BY <1>6 DEF B!Compile, B!Command, B!Failed
  <2>5. CASE disk' \in {disk, B!With(o, B!NoFile)} /\ main_pc' = "off"
    BY <1>4, <2>5, CompileOver
  <2>6. CASE disk' = B!With(o, B!Made({<< p, version[p] >>})) /\ main_pc' = main_pc
    <3> DEFINE E == D \cup FirstOf(list, arena, index - 1)
               r == B!Cells(B!Obj(p))
    <3>1. temp_size \in Nat /\ (\A k \in 1 .. temp_size : r[k] = arena[k]) /\ r[temp_size + 1] = o
      BY <2>3, Cells_
    <3>2. arena' = r
      BY <1>6
    <3> HIDE DEF r, o, p
    <3>3. AsBefore(r, arena, temp_size) /\ InCell(temp_size + 1, ObjectOf(p), r, temp_size, temp_size + 1)
      BY <2>3, <3>1 DEF AsBefore, InCell
    <3>4. index - 1 \in Nat /\ index - 1 <= L /\ index \in 1 .. L /\ temp_size + 1 \in Nat /\ temp_size <= temp_size + 1
      BY <1>1, <2>1, <3>1
    <3>5. E \in SUBSET (DOMAIN tree \cup {B!Stub})
      BY <3>4, FirstKnown DEF L
    <3>6. Behind(objs', objs, temp_size + 1)
      BY <1>6 DEF Behind
    <3>7. disk' = B!With(ObjectOf(p), B!Made({<< p, version[p] >>}))
      BY <2>3, <2>6
    <3>8. Objects_(E)
      OBVIOUS
    <3> HIDE DEF E
    <3>9. /\ Numbers(objs', temp_size + 1) /\ ObjectsAre(E \cup {p}, objs', r, disk'.obj, version0, version)
          /\ Shape(disk') /\ disk'.boot = disk.boot
      BY <2>2, <3>3, <3>4, <3>5, <3>6, <3>7, <3>8, CompileStep
    <3>10. FirstOf(list, r, index) = FirstOf(list, arena, index - 1) \cup {p}
      <4>1. Within(list, L, temp_size)
        BY <1>1 DEF Within
      <4>2. FirstOf(list, r, index) = FirstOf(list, arena, index - 1) \cup {arena[list[index]]}
        BY <1>1, <3>3, <3>4, <4>1, FirstGrows
      <4> QED BY <4>2 DEF p
    <3>11. index' - 1 = index /\ index' <= L + 1
      <4>1. L \in Nat
        BY <1>1
      <4>2. index \in 1 .. L
        BY <2>1
      <4>3. index' = index + 1
        BY <1>6
      <4> QED BY <4>1, <4>2, <4>3
    <3>12. E \cup {p} = D \cup FirstOf(list, r, index)
      BY <3>10 DEF E
    <3>13. /\ main_pc' = main_pc /\ index' <= L + 1 /\ Numbers(objs', temp_size')
           /\ ObjectsAre(D \cup FirstOf(list, arena', index' - 1), objs', arena', disk'.obj, version0, version)
           /\ Shape(disk') /\ disk'.boot = disk.boot /\ AsBefore(arena', arena, temp_size)
      BY <1>6, <2>6, <3>2, <3>3, <3>9, <3>11, <3>12
    <3> QED BY <3>13 DEF L
  <2> QED BY <2>4, <2>5, <2>6
<1> QED BY <1>3, <1>5, <1>6

LEMMA CompileKeeps ==
  ASSUME NEW list, NEW next, B!Compile_each(list, next)
  PROVE  UNCHANGED <<program, tree, version, version0, c_sources, asm_sources>> /\ main_pc' \in {main_pc, next, "off"}
BY DEF B!Compile_each, B!world, B!lists, B!Compile, B!Command, B!Failed

-----------------------------------------------------------------------------
(* The compilers.                                                          *)
LEMMA OffImage ==
  ASSUME ImageInv, main_pc \notin {"off", "walk", "mkdirs", "cc"}
  PROVE  program = "kernel"
BY DEF ImageInv, ObjectsInv

LEMMA StubsCompile ==
  ASSUME NamesInv, ImageInv, program # "kernel", main_pc = "cc", NEW next \in {"off"},
         B!Compile_each(c_sources, next)
  PROVE  ImageInv'
<1>1. /\ UNCHANGED <<program, tree, version, version0>> /\ main_pc' \in {"cc", "off"}
  BY CompileKeeps
<1>2. \E o, file : disk' \in {disk, B!With(o, file)}
  BY DEF B!Compile_each, B!Compile, B!Command
<1>3. PICK o : \E file : disk' \in {disk, B!With(o, file)}
  BY <1>2
<1>4. PICK file : disk' \in {disk, B!With(o, file)}
  BY <1>3
<1>5. CASE main_pc' = "off"
  BY <1>1, <1>4, <1>5, CompileOver
<1>6. CASE main_pc' = "cc"
  <2>1. Shape(disk) /\ disk.boot \subseteq {"bios", "efi"}
    BY DEF ImageInv, ChainInv
  <2>2. Shape(disk') /\ disk'.boot = disk.boot
    <3>1. CASE disk' = disk
      BY <2>1, <3>1
    <3>2. CASE disk' = B!With(o, file)
      <4>1. PICK new : disk' = [disk EXCEPT !.obj = new]
        BY <3>2 DEF B!With
      <4> QED BY <4>1, ObjectsWritten
    <3> QED BY <1>4, <3>1, <3>2
  <2>3. VersionsInv'
    BY <1>1, VersionsKept
  <2>4. ObjectsInv'
    BY <1>1, <1>6 DEF ObjectsInv
  <2>5. ChainInv'
    BY <1>6, <2>1, <2>2 DEF ChainInv
  <2> QED BY <2>3, <2>4, <2>5 DEF ImageInv
<1> QED BY <1>1, <1>5, <1>6

LEMMA ImageCompile_c ==
  ASSUME B!SourcesAreLegal, NamesInv, ImageInv, B!Compile_c
  PROVE  ImageInv'
<1>1. CASE program # "kernel"
  <2>1. main_pc = "cc" /\ B!Compile_each(c_sources, "off")
    BY <1>1 DEF B!Compile_c
  <2> QED BY <1>1, <2>1, StubsCompile
<1>2. CASE program = "kernel"
  <2>1. main_pc = "cc" /\ B!Compile_each(c_sources, "stub")
    BY <1>2 DEF B!Compile_c
  <2>2. UNCHANGED <<program, tree, version, version0, c_sources, asm_sources>>
    BY <2>1, CompileKeeps
  <2>3. index <= Len(c_sources) + 1 /\ Objects_(FirstOf(c_sources, arena, index - 1)) /\ Numbers(objs, temp_size)
    BY <1>2, <2>1 DEF ImageInv, ObjectsInv
  <2>4. {} \cup FirstOf(c_sources, arena, index - 1) = FirstOf(c_sources, arena, index - 1)
    OBVIOUS
  <2>5. \/ ImageInv' /\ main_pc' = "off"
        \/ /\ main_pc' = main_pc /\ index' <= Len(c_sources) + 1 /\ Numbers(objs', temp_size')
           /\ ObjectsAre({} \cup FirstOf(c_sources, arena', index' - 1), objs', arena', disk'.obj, version0, version)
           /\ Shape(disk') /\ disk'.boot = disk.boot /\ AsBefore(arena', arena, temp_size)
        \/ /\ main_pc' = "stub" /\ index' = 1 /\ UNCHANGED <<arena, temp_size, objs, disk>>
           /\ Objects_({} \cup NamedBy(c_sources, arena))
    <3> DEFINE D == {}
    <3>1. D \in SUBSET (DOMAIN tree \cup {B!Stub}) /\ Objects_(D \cup FirstOf(c_sources, arena, index - 1))
      BY <2>3, <2>4
    <3> HIDE DEF D
    <3>2. \/ ImageInv' /\ main_pc' = "off"
          \/ /\ main_pc' = main_pc /\ index' <= Len(c_sources) + 1 /\ Numbers(objs', temp_size')
             /\ ObjectsAre(D \cup FirstOf(c_sources, arena', index' - 1), objs', arena', disk'.obj, version0, version)
             /\ Shape(disk') /\ disk'.boot = disk.boot /\ AsBefore(arena', arena, temp_size)
          \/ /\ main_pc' = "stub" /\ index' = 1 /\ UNCHANGED <<arena, temp_size, objs, disk>>
             /\ Objects_(D \cup NamedBy(c_sources, arena))
      BY <1>2, <2>1, <2>3, <3>1, CompileEach
    <3> QED BY <3>2 DEF D
  <2>6. VersionsInv' /\ disk.boot \subseteq {"bios", "efi"} /\ Shape(disk)
    BY <2>2, VersionsKept DEF ImageInv, ChainInv
  <2>7. CASE ImageInv'
    BY <2>7
  <2>8. CASE /\ main_pc' = main_pc /\ index' <= Len(c_sources) + 1 /\ Numbers(objs', temp_size')
             /\ ObjectsAre({} \cup FirstOf(c_sources, arena', index' - 1), objs', arena', disk'.obj, version0, version)
             /\ Shape(disk') /\ disk'.boot = disk.boot
    <3>1. {} \cup FirstOf(c_sources, arena', index' - 1) = FirstOf(c_sources, arena', index' - 1)
      OBVIOUS
    <3>2. ObjectsInv'
      BY <2>1, <2>2, <2>8, <3>1 DEF ObjectsInv, Objects_
    <3>3. ChainInv'
      BY <2>1, <2>6, <2>8 DEF ChainInv
    <3> QED BY <2>6, <3>2, <3>3 DEF ImageInv
  <2>9. CASE /\ main_pc' = "stub" /\ index' = 1 /\ UNCHANGED <<arena, temp_size, objs, disk>>
             /\ Objects_({} \cup NamedBy(c_sources, arena))
    <3>1. {} \cup NamedBy(c_sources, arena) = NamedBy(c_sources, arena)
      OBVIOUS
    <3>2. ObjectsAre(NamedBy(c_sources, arena), objs, arena, disk.obj, version0, version)
      BY <2>9, <3>1 DEF Objects_
    <3>3. ObjectsInv'
      BY <1>2, <2>2, <2>3, <2>9, <3>2 DEF ObjectsInv, Objects_, NamedBy
    <3>4. ChainInv'
      BY <2>6, <2>9 DEF ChainInv
    <3> QED BY <2>6, <3>3, <3>4 DEF ImageInv
  <2> QED BY <2>5, <2>7, <2>8, <2>9
<1> QED BY <1>1, <1>2

LEMMA ImageCompile_stub ==
  ASSUME B!SourcesAreLegal, NamesInv, ImageInv, B!Compile_stub
  PROVE  ImageInv'
<1> DEFINE C == NamedBy(c_sources, arena)
           Z == FirstOf(asm_sources, arena, 0)
<1>1. /\ UNCHANGED <<program, tree, version, version0, arena, temp_size, c_sources, asm_sources, index>>
      /\ main_pc = "stub" /\ objs' = Append(objs, 0)
  BY DEF B!Compile_stub, B!world
<1>2. /\ program = "kernel" /\ index = 1 /\ Objects_(C) /\ Numbers(objs, temp_size)
      /\ Shape(disk) /\ disk.boot \subseteq {"bios", "efi"}
  BY <1>1 DEF ImageInv, ObjectsInv, ChainInv
<1>3. ObjectOf(B!Stub) = B!StubObj /\ B!Stub \in B!Sources
  BY DEF ObjectOf, B!Sources
<1>4. \/ disk' = B!With(B!StubObj, B!Made({<< B!Stub, version[B!Stub] >>})) /\ main_pc' = "nasm"
      \/ disk' \in {disk, B!With(B!StubObj, B!NoFile)} /\ main_pc' = "off"
  BY DEF B!Compile_stub, B!Compile, B!Command, B!Failed
<1>5. CASE disk' \in {disk, B!With(B!StubObj, B!NoFile)} /\ main_pc' = "off"
  BY <1>1, <1>5, CompileOver
<1>6. CASE disk' = B!With(B!StubObj, B!Made({<< B!Stub, version[B!Stub] >>})) /\ main_pc' = "nasm"
  <2>1. temp_size \in Nat /\ temp_size <= temp_size
    <3>1. Len(arena) \in Nat
      BY LenProperties DEF NamesInv, NamesTyped
    <3> QED BY <3>1 DEF NamesInv, NamesTyped
  <2>2. /\ AsBefore(arena, arena, temp_size) /\ Behind(objs', objs, 0)
        /\ InCell(0, ObjectOf(B!Stub), arena, temp_size, temp_size)
    <3>1. AsBefore(arena, arena, temp_size)
      BY DEF AsBefore
    <3>2. Behind(objs', objs, 0)
      BY <1>1 DEF Behind
    <3>3. InCell(0, ObjectOf(B!Stub), arena, temp_size, temp_size)
      <4>1. \A o, r, n, m : o = B!StubObj => InCell(0, o, r, n, m)
        BY DEF InCell
      <4> QED BY <1>3, <4>1
    <3> QED BY <3>1, <3>2, <3>3
  <2>3. C \in SUBSET (DOMAIN tree \cup {B!Stub})
    <3>1. Len(c_sources) \in Nat
      BY <1>1, ListShort
    <3>2. 0 \in Nat /\ 0 <= Len(c_sources)
      BY <3>1
    <3>3. \A p \in NamedBy(c_sources, arena) : p \in DOMAIN tree
      BY <1>1, <3>2, FirstKnown
    <3> QED BY <3>3
  <2>4. disk' = B!With(ObjectOf(B!Stub), B!Made({<< B!Stub, version[B!Stub] >>}))
    BY <1>3, <1>6
  <2> HIDE DEF C
  <2>5. /\ Numbers(objs', temp_size)
        /\ ObjectsAre(C \cup {B!Stub}, objs', arena, disk'.obj, version0, version)
        /\ Shape(disk') /\ disk'.boot = disk.boot
    <3>1. main_pc # "off"
      BY <1>1
    <3> QED BY <1>2, <1>3, <2>1, <2>2, <2>3, <2>4, <3>1, CompileStep
  <2>6. FirstOf(asm_sources, arena, 0) = {}
    BY NoObject
  <2>7. index' - 1 = 0 /\ index' <= Len(asm_sources') + 1
    <3>1. Len(asm_sources) \in Nat
      BY <1>1, ListShort
    <3> QED BY <1>1, <1>2, <3>1
  <2>8. C \cup {B!Stub} = C \cup {B!Stub} \cup FirstOf(asm_sources', arena', index' - 1)
    BY <1>1, <2>6, <2>7
  <2>9. C' = C
    BY <1>1 DEF C, NamedBy
  <2>10. VersionsInv'
    BY <1>1, VersionsKept
  <2>11. /\ Numbers(objs', temp_size')
         /\ ObjectsAre(NamedBy(c_sources', arena') \cup {B!Stub} \cup FirstOf(asm_sources', arena', index' - 1),
                       objs', arena', disk'.obj, version0', version')
    BY <1>1, <2>5, <2>8, <2>9 DEF C
  <2>12. ObjectsInv'
    BY <1>1, <1>2, <1>6, <2>7, <2>11 DEF ObjectsInv, Objects_
  <2>13. ChainInv'
    BY <1>2, <1>6, <2>5 DEF ChainInv
  <2> QED BY <2>10, <2>12, <2>13 DEF ImageInv
<1> QED BY <1>4, <1>5, <1>6

LEMMA ImageCompile_asm ==
  ASSUME B!SourcesAreLegal, NamesInv, ImageInv, B!Compile_asm
  PROVE  ImageInv'
<1> DEFINE D == NamedBy(c_sources, arena) \cup {B!Stub}
<1>1. main_pc = "nasm" /\ B!Compile_each(asm_sources, "link")
  BY DEF B!Compile_asm
<1>2. UNCHANGED <<program, tree, version, version0, c_sources, asm_sources>>
  BY <1>1, CompileKeeps
<1>3. /\ index <= Len(asm_sources) + 1 /\ Objects_(D \cup FirstOf(asm_sources, arena, index - 1))
      /\ Numbers(objs, temp_size) /\ program = "kernel" /\ Shape(disk) /\ disk.boot \subseteq {"bios", "efi"}
  BY <1>1 DEF ImageInv, ObjectsInv, ChainInv
<1>4. D \in SUBSET (DOMAIN tree \cup {B!Stub})
  <2>1. Len(c_sources) \in Nat
    BY <1>1, ListShort
  <2>2. 0 \in Nat /\ 0 <= Len(c_sources)
    BY <2>1
  <2>3. \A p \in NamedBy(c_sources, arena) : p \in DOMAIN tree
    BY <1>1, <2>2, FirstKnown
  <2> QED BY <2>3
<1>5. \/ ImageInv' /\ main_pc' = "off"
      \/ /\ main_pc' = main_pc /\ index' <= Len(asm_sources) + 1 /\ Numbers(objs', temp_size')
         /\ ObjectsAre(D \cup FirstOf(asm_sources, arena', index' - 1), objs', arena', disk'.obj, version0, version)
         /\ Shape(disk') /\ disk'.boot = disk.boot /\ AsBefore(arena', arena, temp_size)
      \/ /\ main_pc' = "link" /\ index' = 1 /\ UNCHANGED <<arena, temp_size, objs, disk>>
         /\ Objects_(D \cup NamedBy(asm_sources, arena))
  <2> HIDE DEF D
  <2> QED BY <1>1, <1>3, <1>4, CompileEach
<1>6. VersionsInv'
  BY <1>2, VersionsKept
<1>7. CASE ImageInv'
  BY <1>7
<1>8. CASE /\ main_pc' = main_pc /\ index' <= Len(asm_sources) + 1 /\ Numbers(objs', temp_size')
           /\ ObjectsAre(D \cup FirstOf(asm_sources, arena', index' - 1), objs', arena', disk'.obj, version0, version)
           /\ Shape(disk') /\ disk'.boot = disk.boot /\ AsBefore(arena', arena, temp_size)
  <2>1. NamedBy(c_sources, arena') = NamedBy(c_sources, arena)
    <3>1. /\ Len(c_sources) \in Nat /\ \A j \in 1 .. Len(c_sources) : c_sources[j] \in 1 .. temp_size
      BY <1>1, ListShort
    <3> QED BY <1>8, <3>1 DEF NamedBy, AsBefore
  <2>2. ObjectsAre(NamedBy(c_sources, arena') \cup {B!Stub} \cup FirstOf(asm_sources, arena', index' - 1),
                   objs', arena', disk'.obj, version0, version)
    BY <1>8, <2>1
  <2>3. ObjectsInv'
    BY <1>1, <1>2, <1>3, <1>8, <2>2 DEF ObjectsInv, Objects_
  <2>4. ChainInv'
    BY <1>1, <1>3, <1>8 DEF ChainInv
  <2> QED BY <1>6, <2>3, <2>4 DEF ImageInv
<1>9. CASE /\ main_pc' = "link" /\ index' = 1 /\ UNCHANGED <<arena, temp_size, objs, disk>>
           /\ Objects_(D \cup NamedBy(asm_sources, arena))
  <2>1. ObjectsAre(NamedBy(c_sources, arena) \cup {B!Stub} \cup NamedBy(asm_sources, arena),
                   objs, arena, disk.obj, version0, version)
    BY <1>9 DEF Objects_
  <2>2. ObjectsInv'
    BY <1>2, <1>3, <1>9, <2>1 DEF ObjectsInv, Objects_, NamedBy
  <2>3. ChainInv'
    BY <1>3, <1>9 DEF ChainInv
  <2> QED BY <1>6, <2>2, <2>3 DEF ImageInv
<1> QED BY <1>5, <1>7, <1>8, <1>9

-----------------------------------------------------------------------------
(* The commands behind the compilers.                                      *)
Linked == [disk EXCEPT !.kernel = B!Made(UNION {disk.obj[o][2] : o \in B!Objects})]
Broken == {disk, [disk EXCEPT !.kernel = B!NoFile], [disk EXCEPT !.tool = FALSE], [disk EXCEPT !.iso = B!Torn],
           [disk EXCEPT !.image = B!Image("torn")], [disk EXCEPT !.image.state = "torn"]}

(* What each of them does when it ends well.                               *)
Carried ==
  \/ main_pc = "link" /\ main_pc' = "make" /\ disk' = Linked
  \/ main_pc = "make" /\ main_pc' = "iso_root" /\ disk' = [disk EXCEPT !.tool = TRUE]
  \/ main_pc = "iso_root" /\ main_pc' = "copy" /\ disk' = disk
  \/ main_pc = "copy" /\ main_pc' = "cp_bios" /\ disk' = [disk EXCEPT !.iso = disk.kernel]
  \/ main_pc = "cp_bios" /\ main_pc' = "cp_efi" /\ disk' = [disk EXCEPT !.boot = disk.boot \cup {"bios"}]
  \/ main_pc = "cp_efi" /\ main_pc' = "xorriso" /\ disk' = [disk EXCEPT !.boot = disk.boot \cup {"efi"}]
  \/ main_pc = "xorriso" /\ main_pc' = "install" /\ disk' = [disk EXCEPT !.image = B!Image("whole")]
  \/ main_pc = "install" /\ main_pc' = "qemu" /\ disk' = [disk EXCEPT !.image.installed = TRUE]

LEMMA CommandIs ==
  ASSUME NEW possible, NEW done, NEW halves, NEW next, B!Command(possible, done, halves, next)
  PROVE  \/ possible /\ disk' = done /\ main_pc' = next
         \/ (disk' \in halves \/ disk' = disk) /\ main_pc' = "off"
BY DEF B!Command, B!Failed

LEMMA FinishIs ==
  ASSUME B!Finish
  PROVE  /\ UNCHANGED <<program, tree, version, version0>>
         /\ main_pc' # "off" => UNCHANGED <<arena, temp_size, c_sources, asm_sources, objs>>
         /\ Carried \/ (disk' \in Broken /\ main_pc' = "off")
<1>1. UNCHANGED <<program, tree, version, version0>>
  BY DEF B!Finish, B!world
<1>2. main_pc' # "off" => UNCHANGED <<arena, temp_size, c_sources, asm_sources, objs>>
  BY DEF B!Finish, B!memory, B!lists
<1> DEFINE Ends == Carried \/ (disk' \in Broken /\ main_pc' = "off")
           possible == << "bin" >> \in disk.made /\ \A o \in B!Objects : B!HasObject(o)
           M == B!Made(UNION {disk.obj[o][2] : o \in B!Objects})
<1> SUFFICES ASSUME TRUE PROVE Ends
  BY <1>1, <1>2
<1>3. CASE /\ main_pc = "link"
           /\ B!Command(possible, [disk EXCEPT !.kernel = IF possible THEN M ELSE B!NoFile],
                        {[disk EXCEPT !.kernel = B!NoFile]}, "make")
  <2> HIDE DEF M, possible
  <2>1. \/ possible /\ main_pc' = "make" /\ disk' = [disk EXCEPT !.kernel = IF possible THEN M ELSE B!NoFile]
        \/ disk' \in {[disk EXCEPT !.kernel = B!NoFile], disk} /\ main_pc' = "off"
    BY <1>3, CommandIs
  <2>2. CASE possible /\ main_pc' = "make" /\ disk' = [disk EXCEPT !.kernel = IF possible THEN M ELSE B!NoFile]
    <3>1. disk' = [disk EXCEPT !.kernel = M]
      BY <2>2
    <3> QED BY <1>3, <2>2, <3>1 DEF Carried, Linked, M
  <2>3. CASE disk' \in {[disk EXCEPT !.kernel = B!NoFile], disk} /\ main_pc' = "off"
    BY <2>3 DEF Broken
  <2> QED BY <2>1, <2>2, <2>3
<1>4. CASE /\ main_pc = "make"
           /\ B!Command(TRUE, [disk EXCEPT !.tool = TRUE], {[disk EXCEPT !.tool = FALSE]}, "iso_root")
  <2>1. \/ main_pc' = "iso_root" /\ disk' = [disk EXCEPT !.tool = TRUE]
        \/ disk' \in {[disk EXCEPT !.tool = FALSE], disk} /\ main_pc' = "off"
    BY <1>4 DEF B!Command, B!Failed
  <2>2. CASE main_pc' = "iso_root" /\ disk' = [disk EXCEPT !.tool = TRUE]
    BY <1>4, <2>2 DEF Carried
  <2>3. CASE disk' \in {[disk EXCEPT !.tool = FALSE], disk} /\ main_pc' = "off"
    BY <2>3 DEF Broken
  <2> QED BY <2>1, <2>2, <2>3
<1>5. CASE /\ main_pc = "iso_root"
           /\ B!Command(TRUE, disk, {}, "copy")
  <2>1. \/ main_pc' = "copy" /\ disk' = disk
        \/ disk' \in {disk} /\ main_pc' = "off"
    BY <1>5 DEF B!Command, B!Failed
  <2>2. CASE main_pc' = "copy" /\ disk' = disk
    BY <1>5, <2>2 DEF Carried
  <2>3. CASE disk' \in {disk} /\ main_pc' = "off"
    BY <2>3 DEF Broken
  <2> QED BY <2>1, <2>2, <2>3
<1>6. CASE /\ main_pc = "copy"
           /\ B!Command(disk.kernel # B!NoFile, [disk EXCEPT !.iso = disk.kernel], {[disk EXCEPT !.iso = B!Torn]}, "cp_bios")
  <2>1. \/ main_pc' = "cp_bios" /\ disk' = [disk EXCEPT !.iso = disk.kernel]
        \/ disk' \in {[disk EXCEPT !.iso = B!Torn], disk} /\ main_pc' = "off"
    BY <1>6, CommandIs
  <2>2. CASE main_pc' = "cp_bios" /\ disk' = [disk EXCEPT !.iso = disk.kernel]
    BY <1>6, <2>2 DEF Carried
  <2>3. CASE disk' \in {[disk EXCEPT !.iso = B!Torn], disk} /\ main_pc' = "off"
    BY <2>3 DEF Broken
  <2> QED BY <2>1, <2>2, <2>3
<1>7. CASE /\ main_pc = "cp_bios"
           /\ B!Command(TRUE, [disk EXCEPT !.boot = disk.boot \cup {"bios"}], {}, "cp_efi")
  <2>1. \/ main_pc' = "cp_efi" /\ disk' = [disk EXCEPT !.boot = disk.boot \cup {"bios"}]
        \/ disk' \in {disk} /\ main_pc' = "off"
    BY <1>7 DEF B!Command, B!Failed
  <2>2. CASE main_pc' = "cp_efi" /\ disk' = [disk EXCEPT !.boot = disk.boot \cup {"bios"}]
    BY <1>7, <2>2 DEF Carried
  <2>3. CASE disk' \in {disk} /\ main_pc' = "off"
    BY <2>3 DEF Broken
  <2> QED BY <2>1, <2>2, <2>3
<1>8. CASE /\ main_pc = "cp_efi"
           /\ B!Command(TRUE, [disk EXCEPT !.boot = disk.boot \cup {"efi"}], {}, "xorriso")
  <2>1. \/ main_pc' = "xorriso" /\ disk' = [disk EXCEPT !.boot = disk.boot \cup {"efi"}]
        \/ disk' \in {disk} /\ main_pc' = "off"
    BY <1>8 DEF B!Command, B!Failed
  <2>2. CASE main_pc' = "xorriso" /\ disk' = [disk EXCEPT !.boot = disk.boot \cup {"efi"}]
    BY <1>8, <2>2 DEF Carried
  <2>3. CASE disk' \in {disk} /\ main_pc' = "off"
    BY <2>3 DEF Broken
  <2> QED BY <2>1, <2>2, <2>3
<1>9. CASE /\ main_pc = "xorriso"
           /\ B!Command(disk.boot # {}, [disk EXCEPT !.image = B!Image("whole")],
                        {[disk EXCEPT !.image = B!Image("torn")]}, "install")
  <2>1. \/ main_pc' = "install" /\ disk' = [disk EXCEPT !.image = B!Image("whole")]
        \/ disk' \in {[disk EXCEPT !.image = B!Image("torn")], disk} /\ main_pc' = "off"
    BY <1>9, CommandIs
  <2>2. CASE main_pc' = "install" /\ disk' = [disk EXCEPT !.image = B!Image("whole")]
    BY <1>9, <2>2 DEF Carried
  <2>3. CASE disk' \in {[disk EXCEPT !.image = B!Image("torn")], disk} /\ main_pc' = "off"
    BY <2>3 DEF Broken
  <2> QED BY <2>1, <2>2, <2>3
<1>10. CASE /\ main_pc = "install"
           /\ B!Command(disk.tool /\ disk.image.state = "whole", [disk EXCEPT !.image.installed = TRUE],
                        {[disk EXCEPT !.image.state = "torn"]}, "qemu")
  <2>1. \/ main_pc' = "qemu" /\ disk' = [disk EXCEPT !.image.installed = TRUE]
        \/ disk' \in {[disk EXCEPT !.image.state = "torn"], disk} /\ main_pc' = "off"
    BY <1>10, CommandIs
  <2>2. CASE main_pc' = "qemu" /\ disk' = [disk EXCEPT !.image.installed = TRUE]
    BY <1>10, <2>2 DEF Carried
  <2>3. CASE disk' \in {[disk EXCEPT !.image.state = "torn"], disk} /\ main_pc' = "off"
    BY <2>3 DEF Broken
  <2> QED BY <2>1, <2>2, <2>3
<1>11. CASE /\ main_pc = "qemu"
           /\ B!Command(TRUE, disk, {}, "off")
  <2>1. \/ main_pc' = "off" /\ disk' = disk
        \/ disk' \in {disk} /\ main_pc' = "off"
    BY <1>11 DEF B!Command, B!Failed
  <2> QED BY <2>1 DEF Broken
<1> HIDE DEF Ends
<1> QED BY <1>3, <1>4, <1>5, <1>6, <1>7, <1>8, <1>9, <1>10, <1>11 DEF B!Finish

LEMMA BrokenShape ==
  ASSUME ImageInv, disk' \in Broken
  PROVE  Shape(disk') /\ disk'.boot \subseteq {"bios", "efi"}
<1>1. Shape(disk) /\ disk.boot \subseteq {"bios", "efi"}
  BY DEF ImageInv, ChainInv
<1>2. CASE disk' = disk
  BY <1>1, <1>2
<1>3. CASE disk' = [disk EXCEPT !.kernel = B!NoFile]
  BY <1>1, <1>3, DiskChanged
<1>4. CASE disk' = [disk EXCEPT !.tool = FALSE]
  BY <1>1, <1>4, DiskChanged
<1>5. CASE disk' = [disk EXCEPT !.iso = B!Torn]
  BY <1>1, <1>5, DiskChanged
<1>6. CASE disk' = [disk EXCEPT !.image = B!Image("torn")]
  BY <1>1, <1>6, ImageChanged DEF B!Image
<1>7. CASE disk' = [disk EXCEPT !.image.state = "torn"]
  BY <1>1, <1>7, ImageTouched
<1> QED BY <1>2, <1>3, <1>4, <1>5, <1>6, <1>7 DEF Broken

(* What has been linked is of this build, and goes on as it is.            *)
LEMMA LinkIs ==
  ASSUME NamesInv, ImageInv, main_pc = "link", disk' = Linked
  PROVE  Fresh(disk'.kernel, B!Listed \cup {B!Stub}, version0, version)
<1> DEFINE D == NamedBy(c_sources, arena) \cup {B!Stub} \cup NamedBy(asm_sources, arena)
<1>1. /\ Shape(disk) /\ ObjectsAre(D, objs, arena, disk.obj, version0, version) /\ objs \in Seq(Nat)
  BY DEF ImageInv, ChainInv, ObjectsInv, Objects_, Numbers
<1>2. D = B!Listed \cup {B!Stub}
  BY ListedIs
<1>3. B!Objects = CellsOf(objs, arena)
  <2>1. DOMAIN objs = 1 .. Len(objs)
    BY <1>1, LenProperties
  <2> QED BY <2>1 DEF B!Objects, B!Range, CellsOf
<1> HIDE DEF D
<1>4. PICK M : M = B!Made(UNION {disk.obj[o][2] : o \in CellsOf(objs, arena)})
  OBVIOUS
<1>5. Fresh(M, D, version0, version)
  BY <1>1, <1>4, LinkedFresh
<1>6. disk' = [disk EXCEPT !.kernel = M]
  BY <1>3, <1>4 DEF Linked
<1>7. disk'.kernel = M
  <2>1. [disk EXCEPT !.kernel = M].kernel = M
    BY <1>1, DiskChanged
  <2> QED BY <1>6, <2>1
<1> QED BY <1>2, <1>5, <1>7

LEMMA CarriedShape ==
  ASSUME ImageInv, Carried
  PROVE  Shape(disk') /\ disk'.boot \subseteq {"bios", "efi"}
<1>1. Shape(disk) /\ disk.boot \subseteq {"bios", "efi"}
  BY DEF ImageInv, ChainInv
<1>2. CASE disk' = Linked
  <2>1. PICK x : disk' = [disk EXCEPT !.kernel = x]
    BY <1>2 DEF Linked
  <2> QED BY <1>1, <2>1, DiskChanged
<1>3. CASE disk' = [disk EXCEPT !.tool = TRUE]
  BY <1>1, <1>3, DiskChanged
<1>4. CASE disk' = disk
  BY <1>1, <1>4
<1>5. CASE disk' = [disk EXCEPT !.iso = disk.kernel]
  BY <1>1, <1>5, DiskChanged
<1>6. CASE disk' = [disk EXCEPT !.boot = disk.boot \cup {"bios"}]
  <2>1. PICK x : x = disk.boot \cup {"bios"}
    OBVIOUS
  <2>2. disk' = [disk EXCEPT !.boot = x]
    BY <1>6, <2>1
  <2>3. Shape(disk')
    BY <1>1, <2>2, DiskChanged
  <2>4. [disk EXCEPT !.boot = x].boot = x
    BY <1>1, DiskChanged
  <2> QED BY <1>1, <2>1, <2>2, <2>3, <2>4
<1>7. CASE disk' = [disk EXCEPT !.boot = disk.boot \cup {"efi"}]
  <2>1. PICK x : x = disk.boot \cup {"efi"}
    OBVIOUS
  <2>2. disk' = [disk EXCEPT !.boot = x]
    BY <1>7, <2>1
  <2>3. Shape(disk')
    BY <1>1, <2>2, DiskChanged
  <2>4. [disk EXCEPT !.boot = x].boot = x
    BY <1>1, DiskChanged
  <2> QED BY <1>1, <2>1, <2>2, <2>3, <2>4
<1>8. CASE disk' = [disk EXCEPT !.image = B!Image("whole")]
  BY <1>1, <1>8, ImageChanged DEF B!Image
<1>9. CASE disk' = [disk EXCEPT !.image.installed = TRUE]
  BY <1>1, <1>9, ImageTouched
<1> QED BY <1>2, <1>3, <1>4, <1>5, <1>6, <1>7, <1>8, <1>9 DEF Carried

LEMMA ImageFinish ==
  ASSUME NamesInv, ImageInv, B!Finish
  PROVE  ImageInv'
<1>1. /\ UNCHANGED <<program, tree, version, version0>>
      /\ main_pc' # "off" => UNCHANGED <<arena, temp_size, c_sources, asm_sources, objs>>
      /\ Carried \/ (disk' \in Broken /\ main_pc' = "off")
  BY FinishIs
<1>2. VersionsInv'
  BY <1>1, VersionsKept
<1>3. CASE disk' \in Broken /\ main_pc' = "off"
  BY <1>2, <1>3, BrokenShape, ImageAway
<1>4. CASE Carried
  <2>1. Shape(disk) /\ Shape(disk') /\ disk.boot \subseteq {"bios", "efi"} /\ disk'.boot \subseteq {"bios", "efi"}
    BY <1>4, CarriedShape DEF ImageInv, ChainInv
  <2>2. main_pc \notin {"off", "walk", "mkdirs", "cc"}
        /\ main_pc' \in {"make", "iso_root", "copy", "cp_bios", "cp_efi", "xorriso", "install", "qemu"}
    BY <1>4 DEF Carried
  <2>3. program' = "kernel"
    BY <1>1, <2>2, OffImage
  <2>4. ObjectsInv'
    BY <2>2, <2>3 DEF ObjectsInv
  <2> DEFINE S == B!Listed \cup {B!Stub}
             Good(file) == Fresh(file, S, version0, version)
  <2>5. (B!Listed \cup {B!Stub})' = S
    BY <1>1, <2>2 DEF B!Listed
  <2>6. /\ main_pc' \in {"make", "iso_root", "copy"} => Good(disk'.kernel)
        /\ main_pc' \in {"cp_bios", "cp_efi", "xorriso"} => Good(disk'.iso)
        /\ main_pc' \in {"cp_efi", "xorriso"} => "bios" \in disk'.boot
        /\ main_pc' = "xorriso" => "efi" \in disk'.boot
        /\ main_pc' \in {"install", "qemu"} =>
             Good(disk'.image.kernel) /\ disk'.image.state = "whole" /\ disk'.image.boot = {"bios", "efi"}
        /\ main_pc' = "qemu" => disk'.image.installed
    <3>1. /\ main_pc \in {"make", "iso_root", "copy"} => Good(disk.kernel)
          /\ main_pc \in {"cp_bios", "cp_efi", "xorriso"} => Good(disk.iso)
          /\ main_pc \in {"cp_efi", "xorriso"} => "bios" \in disk.boot
          /\ main_pc = "xorriso" => "efi" \in disk.boot
          /\ main_pc \in {"install", "qemu"} =>
               Good(disk.image.kernel) /\ disk.image.state = "whole" /\ disk.image.boot = {"bios", "efi"}
      BY DEF ImageInv, ChainInv, Fresh_
    <3>2. CASE main_pc = "link" /\ main_pc' = "make" /\ disk' = Linked
      BY <3>2, LinkIs
    <3> HIDE DEF Good
    <3>3. CASE main_pc = "make" /\ main_pc' = "iso_root" /\ disk' = [disk EXCEPT !.tool = TRUE]
      <4>1. disk'.kernel = disk.kernel
        BY <2>1, <3>3, DiskChanged
      <4> QED BY <3>1, <3>3, <4>1
    <3>4. CASE main_pc = "iso_root" /\ main_pc' = "copy" /\ disk' = disk
      BY <3>1, <3>4
    <3>5. CASE main_pc = "copy" /\ main_pc' = "cp_bios" /\ disk' = [disk EXCEPT !.iso = disk.kernel]
      <4>1. [disk EXCEPT !.iso = disk.kernel].iso = disk.kernel
        BY <2>1, DiskChanged
      <4>2. disk'.iso = disk.kernel
        BY <3>5, <4>1
      <4> QED BY <3>1, <3>5, <4>2
    <3>6. CASE /\ main_pc = "cp_bios" /\ main_pc' = "cp_efi"
               /\ disk' = [disk EXCEPT !.boot = disk.boot \cup {"bios"}]
      <4>1. disk'.boot = disk.boot \cup {"bios"} /\ disk'.iso = disk.iso
        BY <2>1, <3>6, DiskChanged
      <4> QED BY <3>1, <3>6, <4>1
    <3>7. CASE /\ main_pc = "cp_efi" /\ main_pc' = "xorriso"
               /\ disk' = [disk EXCEPT !.boot = disk.boot \cup {"efi"}]
      <4>1. disk'.boot = disk.boot \cup {"efi"} /\ disk'.iso = disk.iso
        BY <2>1, <3>7, DiskChanged
      <4> QED BY <3>1, <3>7, <4>1
    <3>8. CASE /\ main_pc = "xorriso" /\ main_pc' = "install"
               /\ disk' = [disk EXCEPT !.image = B!Image("whole")]
      <4>1. B!Image("whole") = [state |-> "whole", kernel |-> disk.iso, boot |-> disk.boot, installed |-> FALSE]
        BY DEF B!Image
      <4>2. disk'.image = [state |-> "whole", kernel |-> disk.iso, boot |-> disk.boot, installed |-> FALSE]
        BY <2>1, <3>8, <4>1, ImageChanged
      <4>3. disk'.image.state = "whole" /\ disk'.image.kernel = disk.iso /\ disk'.image.boot = disk.boot
        BY <4>2
      <4>4. disk.boot = {"bios", "efi"}
        BY <2>1, <3>1, <3>8
      <4> QED BY <3>1, <3>8, <4>3, <4>4
    <3>9. CASE /\ main_pc = "install" /\ main_pc' = "qemu"
               /\ disk' = [disk EXCEPT !.image.installed = TRUE]
      <4>1. disk'.image = [state |-> disk.image.state, kernel |-> disk.image.kernel, boot |-> disk.image.boot,
                           installed |-> TRUE]
        BY <2>1, <3>9, ImageTouched
      <4>2. /\ disk'.image.state = disk.image.state /\ disk'.image.kernel = disk.image.kernel
            /\ disk'.image.boot = disk.image.boot /\ disk'.image.installed
        BY <4>1
      <4> QED BY <3>1, <3>9, <4>2
    <3> QED BY <1>4, <3>2, <3>3, <3>4, <3>5, <3>6, <3>7, <3>8, <3>9 DEF Carried
  <2>7. ChainInv'
    BY <1>1, <2>1, <2>5, <2>6 DEF ChainInv, Fresh_
  <2> QED BY <1>2, <2>4, <2>7 DEF ImageInv
<1> QED BY <1>1, <1>3, <1>4

(* A source is written meanwhile.                                          *)
LEMMA ImageEdit ==
  ASSUME NamesInv, ImageInv, NEW p \in B!Sources, B!Edit(p)
  PROVE  ImageInv'
<1>1. /\ version' = [version EXCEPT ![p] = @ + 1]
      /\ UNCHANGED <<program, tree, version0, arena, temp_size, c_sources, asm_sources, objs, disk, main_pc, index>>
  BY DEF B!Edit, B!lists
<1>2. B!Sources' = B!Sources /\ B!Listed' = B!Listed
  BY <1>1 DEF B!Sources, B!Listed
<1>3. /\ version \in [B!Sources -> Nat] /\ version0 \in [B!Sources -> Nat]
      /\ \A q \in B!Sources : version0[q] <= version[q]
  BY DEF ImageInv, VersionsInv
<1> DEFINE S == B!Sources
<1> HIDE DEF S
<1>4. /\ version' \in [S -> Nat] /\ \A q \in S : version[q] <= version'[q]
  <2>1. version \in [S -> Nat] /\ p \in S
    BY <1>3 DEF S
  <2>2. PICK w : w = [version EXCEPT ![p] = @ + 1]
    OBVIOUS
  <2>3. w \in [S -> Nat] /\ \A q \in S : version[q] <= w[q]
    BY <2>1, <2>2
  <2> QED BY <1>1, <2>2, <2>3
<1>5. VersionsInv'
  <2>1. \A q \in S : version0[q] <= version'[q]
    <3> SUFFICES ASSUME NEW q \in S PROVE version0[q] <= version'[q]
      OBVIOUS
    <3>1. version0[q] \in Nat /\ version[q] \in Nat /\ version0[q] <= version[q]
      BY <1>3 DEF S
    <3>2. version'[q] \in Nat /\ version[q] <= version'[q]
      BY <1>4
    <3> QED BY <3>1, <3>2
  <2> QED BY <1>1, <1>2, <1>3, <1>4, <2>1 DEF VersionsInv, S
<1>6. ASSUME NEW D \in SUBSET S, Objects_(D)
      PROVE  ObjectsAre(D, objs, arena, disk.obj, version0, version')
  <2>1. CellsOf(objs, arena) = {ObjectOf(q) : q \in D} /\ \A q \in D : Compiled(q, disk.obj, version0, version)
    BY <1>6 DEF Objects_, ObjectsAre
  <2>2. \A q \in D : Compiled(q, disk.obj, version0, version')
    <3> SUFFICES ASSUME NEW q \in D PROVE Compiled(q, disk.obj, version0, version')
      OBVIOUS
    <3>1. q \in S /\ Compiled(q, disk.obj, version0, version)
      BY <2>1
    <3> QED BY <1>3, <1>4, <3>1, NewerObject DEF S
  <2> QED BY <2>1, <2>2 DEF ObjectsAre
<1>7. ASSUME NEW file, main_pc # "off", Fresh_(file)
      PROVE  Fresh(file, B!Listed \cup {B!Stub}, version0, version')
  <2>1. B!Listed \cup {B!Stub} \in SUBSET S
    BY <1>7, ListedIs DEF B!Sources, S
  <2> QED BY <1>3, <1>4, <1>7, <2>1, NewerFile DEF Fresh_, S
<1>8. main_pc # "off" => /\ NamedBy(c_sources, arena) \subseteq S /\ NamedBy(asm_sources, arena) \subseteq S /\ B!Stub \in S
  BY ListedIs DEF B!Sources, S
<1>9. ASSUME NEW list \in {c_sources, asm_sources}, main_pc # "off", index <= Len(list) + 1
      PROVE  FirstOf(list, arena, index - 1) \subseteq S
  <2>1. Len(list) \in Nat
    BY <1>9, ListShort
  <2>2. index \in Nat \ {0}
    BY DEF NamesInv, NamesTyped
  <2>3. index - 1 \in Nat /\ index - 1 <= Len(list)
    BY <1>9, <2>1, <2>2
  <2> QED BY <1>9, <2>3, FirstKnown DEF S
<1>10. /\ main_pc \in {"walk", "mkdirs"} => objs = << >>
       /\ main_pc \notin {"off", "walk", "mkdirs", "cc"} => program = "kernel"
       /\ main_pc \in {"cc", "stub", "nasm", "link"} /\ program = "kernel" => Numbers(objs, temp_size)
       /\ main_pc = "cc" /\ program = "kernel" => index <= Len(c_sources) + 1
       /\ main_pc = "stub" => index = 1
       /\ main_pc = "nasm" => index <= Len(asm_sources) + 1
  BY DEF ImageInv, ObjectsInv
<1>11. main_pc = "cc" /\ program = "kernel" =>
         ObjectsAre(FirstOf(c_sources, arena, index - 1), objs, arena, disk.obj, version0, version')
  <2> SUFFICES ASSUME main_pc = "cc", program = "kernel"
               PROVE  ObjectsAre(FirstOf(c_sources, arena, index - 1), objs, arena, disk.obj, version0, version')
    OBVIOUS
  <2>1. Objects_(FirstOf(c_sources, arena, index - 1)) /\ index <= Len(c_sources) + 1
    BY DEF ImageInv, ObjectsInv
  <2>2. FirstOf(c_sources, arena, index - 1) \in SUBSET S
    BY <1>9, <2>1
  <2> QED BY <1>6, <2>1, <2>2
<1>12. main_pc = "stub" => ObjectsAre(NamedBy(c_sources, arena), objs, arena, disk.obj, version0, version')
  <2> SUFFICES ASSUME main_pc = "stub"
               PROVE  ObjectsAre(NamedBy(c_sources, arena), objs, arena, disk.obj, version0, version')
    OBVIOUS
  <2>1. Objects_(NamedBy(c_sources, arena))
    BY DEF ImageInv, ObjectsInv
  <2>2. NamedBy(c_sources, arena) \in SUBSET S
    BY <1>8
  <2> QED BY <1>6, <2>1, <2>2
<1>13. main_pc = "nasm" =>
         ObjectsAre(NamedBy(c_sources, arena) \cup {B!Stub} \cup FirstOf(asm_sources, arena, index - 1),
                    objs, arena, disk.obj, version0, version')
  <2> DEFINE D == NamedBy(c_sources, arena) \cup {B!Stub} \cup FirstOf(asm_sources, arena, index - 1)
  <2> SUFFICES ASSUME main_pc = "nasm" PROVE ObjectsAre(D, objs, arena, disk.obj, version0, version')
    OBVIOUS
  <2>1. Objects_(D) /\ index <= Len(asm_sources) + 1
    BY DEF ImageInv, ObjectsInv
  <2>2. D \in SUBSET S
    BY <1>8, <1>9, <2>1
  <2> HIDE DEF D
  <2> QED BY <1>6, <2>1, <2>2
<1>14. main_pc = "link" =>
         ObjectsAre(NamedBy(c_sources, arena) \cup {B!Stub} \cup NamedBy(asm_sources, arena),
                    objs, arena, disk.obj, version0, version')
  <2> DEFINE D == NamedBy(c_sources, arena) \cup {B!Stub} \cup NamedBy(asm_sources, arena)
  <2> SUFFICES ASSUME main_pc = "link" PROVE ObjectsAre(D, objs, arena, disk.obj, version0, version')
    OBVIOUS
  <2>1. Objects_(D)
    BY DEF ImageInv, ObjectsInv
  <2>2. D \in SUBSET S
    BY <1>8
  <2> HIDE DEF D
  <2> QED BY <1>6, <2>1, <2>2
<1>15. ObjectsInv'
  <2>1. /\ NamedBy(c_sources', arena') = NamedBy(c_sources, arena)
        /\ NamedBy(asm_sources', arena') = NamedBy(asm_sources, arena)
    BY <1>1
  <2> QED BY <1>1, <1>10, <1>11, <1>12, <1>13, <1>14, <2>1 DEF ObjectsInv, Objects_
<1>16. ChainInv'
  <2>1. /\ Shape(disk) /\ disk.boot \subseteq {"bios", "efi"}
        /\ main_pc \in {"make", "iso_root", "copy"} => Fresh_(disk.kernel)
        /\ main_pc \in {"cp_bios", "cp_efi", "xorriso"} => Fresh_(disk.iso)
        /\ main_pc \in {"cp_efi", "xorriso"} => "bios" \in disk.boot
        /\ main_pc = "xorriso" => "efi" \in disk.boot
        /\ main_pc \in {"install", "qemu"} =>
             Fresh_(disk.image.kernel) /\ disk.image.state = "whole" /\ disk.image.boot = {"bios", "efi"}
        /\ main_pc = "qemu" => disk.image.installed
    BY DEF ImageInv, ChainInv
  <2>2. /\ main_pc \in {"make", "iso_root", "copy"} =>
             Fresh(disk.kernel, B!Listed \cup {B!Stub}, version0, version')
        /\ main_pc \in {"cp_bios", "cp_efi", "xorriso"} =>
             Fresh(disk.iso, B!Listed \cup {B!Stub}, version0, version')
        /\ main_pc \in {"install", "qemu"} =>
             Fresh(disk.image.kernel, B!Listed \cup {B!Stub}, version0, version')
    BY <1>7, <2>1
  <2> QED BY <1>1, <1>2, <2>1, <2>2 DEF ChainInv, Fresh_
<1> QED BY <1>5, <1>15, <1>16 DEF ImageInv

LEMMA ImageSame ==
  ASSUME ImageInv, UNCHANGED B!build_vars
  PROVE  ImageInv'
<1>1. UNCHANGED <<program, tree, version, version0, arena, temp_size, c_sources, asm_sources, objs, disk, main_pc, index>>
  BY DEF B!build_vars
<1>2. VersionsInv'
  BY <1>1, VersionsKept
<1>3. ObjectsInv'
  BY <1>1 DEF ImageInv, ObjectsInv, Objects_
<1>4. B!Listed' = B!Listed
  BY <1>1 DEF B!Listed
<1>5. ChainInv'
  BY <1>1, <1>4 DEF ImageInv, ChainInv, Fresh_
<1> QED BY <1>2, <1>3, <1>5 DEF ImageInv

LEMMA ImageStep ==
  ASSUME B!SourcesAreLegal, NamesInv, ImageInv, [B!BuildNext]_B!build_vars
  PROVE  ImageInv'
<1>1. CASE B!Start
  BY <1>1, ImageStart
<1>2. CASE B!walk_directory
  BY <1>2, ImageWalk
<1>3. CASE B!Mkdirs
  BY <1>3, ImageMkdirs
<1>4. CASE B!Compile_c
  BY <1>4, ImageCompile_c
<1>5. CASE B!Compile_stub
  BY <1>5, ImageCompile_stub
<1>6. CASE B!Compile_asm
  BY <1>6, ImageCompile_asm
<1>7. CASE B!Finish
  BY <1>7, ImageFinish
<1>8. CASE B!Killed
  BY <1>8, ImageKilled
<1>9. CASE \E p \in Edited \cap B!Sources : B!Edit(p)
  BY <1>9, ImageEdit
<1>10. CASE UNCHANGED B!build_vars
  BY <1>10, ImageSame
<1> QED BY <1>1, <1>2, <1>3, <1>4, <1>5, <1>6, <1>7, <1>8, <1>9, <1>10 DEF B!BuildNext

(* A fresh file has as many versions in it as sources.                     *)
LEMMA FreshCounted ==
  ASSUME NEW file, NEW S, IsFiniteSet(S), NEW v0, NEW v, Fresh(file, S, v0, v)
  PROVE  Cardinality(file[2]) = Cardinality({m[1] : m \in file[2]})
<1> DEFINE M == file[2]
           f == [p \in S |-> CHOOSE m \in M : m[1] = p]
<1>1. {m[1] : m \in M} = S /\ \A l, m \in M : l[1] = m[1] => l = m
  BY DEF Fresh
<1> HIDE DEF M
<1>2. \A p \in S : \E m \in M : m[1] = p
  BY <1>1
<1>3. \A p \in S : f[p] \in M /\ f[p][1] = p
  BY <1>2
<1>4. f \in [S -> M] /\ \A p, q \in S : f[p] = f[q] => p = q
  BY <1>3
<1>5. \A m \in M : m[1] \in S /\ f[m[1]] = m
  BY <1>1, <1>3
<1> HIDE DEF f
<1>6. f \in Bijection(S, M)
  BY <1>4, <1>5 DEF Bijection, Injection, Surjection, IsInjective
<1>7. ExistsBijection(S, M)
  BY <1>6 DEF ExistsBijection
<1>8. Cardinality(M) = Cardinality(S)
  BY <1>7, FS_Bijection
<1> QED BY <1>1, <1>8 DEF M

LEMMA ImageMeant ==
  ASSUME B!SourcesAreLegal, NamesInv, ImageInv
  PROVE  B!ImageCurrent
<1> SUFFICES ASSUME main_pc = "qemu"
             PROVE  /\ disk.image.state = "whole" /\ disk.image.installed /\ disk.image.boot = {"bios", "efi"}
                    /\ disk.image.kernel[1] = "made"
                    /\ {m[1] : m \in disk.image.kernel[2]} = {p \in B!Sources : unread => p \in B!Listed \cup {B!Stub}}
                    /\ \A m \in disk.image.kernel[2] : version0[m[1]] <= m[2] /\ m[2] <= version[m[1]]
                    /\ B!Cardinality(disk.image.kernel[2]) = B!Cardinality({m[1] : m \in disk.image.kernel[2]})
  BY DEF B!ImageCurrent
<1> DEFINE S == B!Listed \cup {B!Stub}
           file == disk.image.kernel
<1>1. /\ Fresh(file, S, version0, version) /\ disk.image.state = "whole" /\ disk.image.boot = {"bios", "efi"}
      /\ disk.image.installed
  BY DEF ImageInv, ChainInv, Fresh_
<1>2. /\ file[1] = "made" /\ {m[1] : m \in file[2]} = S
      /\ \A m \in file[2] : version0[m[1]] <= m[2] /\ m[2] <= version[m[1]]
  BY <1>1 DEF Fresh
<1>3. S = {p \in B!Sources : unread => p \in S}
  <2>1. B!NamesKept
    BY AllNamed
  <2>2. ~ unread => B!Listed = B!Sources \ {B!Stub}
    BY <2>1 DEF B!NamesKept
  <2>3. B!Listed \cup {B!Stub} \subseteq B!Sources
    BY ListedIs DEF B!Sources
  <2>4. unread \in BOOLEAN
    BY DEF NamesInv, NamesTyped
  <2> QED BY <2>2, <2>3, <2>4
<1>4. IsFiniteSet(S)
  <2>1. Lists(c_sources, "c", arena, temp_size, tree) /\ Lists(asm_sources, "asm", arena, temp_size, tree)
    BY DEF NamesInv, ListsInv
  <2>2. IsFiniteSet(NamedBy(c_sources, arena)) /\ IsFiniteSet(NamedBy(asm_sources, arena))
    BY <2>1, ListCounted
  <2>3. IsFiniteSet(B!Listed)
    BY <2>2, ListedIs, FS_Union
  <2> QED BY <2>3, FS_AddElement
<1>5. B!Cardinality(file[2]) = B!Cardinality({m[1] : m \in file[2]})
  <2>1. \A X : B!Cardinality(X) = Cardinality(X)
    BY DEF B!Cardinality, Cardinality
  <2> HIDE DEF S, file
  <2>2. Cardinality(file[2]) = Cardinality({m[1] : m \in file[2]})
    BY <1>1, <1>4, FreshCounted
  <2> QED BY <2>1, <2>2
<1> HIDE DEF file
<1>6. {m[1] : m \in file[2]} = {p \in B!Sources : unread => p \in B!Listed \cup {B!Stub}}
  BY <1>2, <1>3
<1> QED BY <1>1, <1>2, <1>5, <1>6 DEF file

(* For every tree of sources, every plan of faults, edits, kills and       *)
(* starts: what kernel/nob.c (main, line 250) starts in the end is the     *)
(* kernel of this build, of each source that was listed once, as it was at *)
(* some moment of this build, on an image the boot loader is installed on, *)
(* whatever earlier builds have left behind.                               *)
THEOREM ImageIsCurrent == ASSUME B!SourcesAreLegal PROVE B!BuildSpec => []ImageCurrent
<1>1. B!BuildInit => NamesInv /\ ImageInv
  BY NamesBegun, ImageBegun
<1>2. NamesInv /\ ImageInv /\ [B!BuildNext]_B!build_vars => (NamesInv /\ ImageInv)'
  BY NamesStep, ImageStep
<1>3. NamesInv /\ ImageInv => ImageCurrent
  BY ImageMeant DEF ImageCurrent
<1> QED BY <1>1, <1>2, <1>3, PTL DEF B!BuildSpec
=============================================================================
