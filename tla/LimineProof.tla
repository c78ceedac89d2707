---------------------------- MODULE LimineProof ----------------------------
(***************************************************************************)
(* The loader's tool, for every device, image and plan of faults: undoing  *)
(* an install gives back the device there was.  And for every executable   *)
(* and command line: enroll-config writes where it should and nowhere else.*)
(***************************************************************************)
EXTENDS BiosInstall, Enrolling, SequenceTheorems, WellFoundedInduction, TLAPS

(* The cells of a device d that a call, or an entry of the log, is about.  *)
Span(d, o) == {c \in DOMAIN d : o.at <= c /\ c < o.at + o.count}

IsOp(o)       == o.at \in Int /\ o.count \in Int
IsOps(q)      == q \in Seq(Range(q)) /\ \A j \in 1 .. Len(q) : IsOp(q[j])
IsLog(d, log) == IsOps(log) /\ \A j \in 1 .. Len(log) : DOMAIN log[j].data = Span(d, log[j])

(* What the log knows of a cell: the first entry about it, or the last one *)
(* when it is undone, has what was on d.                                   *)
Touched(d, log, c) == \E j \in 1 .. Len(log) : c \in Span(d, log[j])
Remembers(d, log, c) ==
  \A j \in 1 .. Len(log) :
    c \in Span(d, log[j]) /\ (\A n \in 1 .. j - 1 : c \notin Span(d, log[n])) =>
      log[j].data[c] = d[c]
Restores(d, log, c) ==
  \A j \in 1 .. Len(log) :
    c \in Span(d, log[j]) /\ (\A n \in j + 1 .. Len(log) : c \notin Span(d, log[n])) =>
      log[j].data[c] = d[c]

(* It is still to be undone, in the entries from the n-th on, of which     *)
(* `done` blocks of `size` bytes are done.                                 *)
Awaits(d, log, n, done, size, c) ==
  \E j \in n .. Len(log) :
    /\ c \in Span(d, log[j])
    /\ j = n => c \div size >= log[n].at \div size + done

-----------------------------------------------------------------------------
(* The invariant.                                                          *)
Original == scenario.disk
Cells    == DOMAIN Original
Log      == uninstall_data

PlanInv == scenario \in Scenarios /\ Calls = Plan(scenario).calls

PlaceInv == k \in Nat \ {0} /\ progress \in Nat

FlagInv ==
  /\ pc \in {"init", "install", "cleanup", "undo", "retry", "close", "exit"}
  /\ later \in BOOLEAN /\ ok \in BOOLEAN /\ writing \in BOOLEAN /\ retry \in BOOLEAN
  /\ write_failed \in BOOLEAN /\ flush_failed \in BOOLEAN
  /\ later => ok
  /\ ok => pc \in {"cleanup", "close", "exit"} \/ later
  /\ pc \in {"install", "cleanup"} => ~ later

CountInv == PlanInv /\ PlaceInv /\ FlagInv

(* The device and its cache: while calls are made, the cache holds all of  *)
(* one block, and what will be on the medium.                              *)
DeviceInv ==
  /\ DOMAIN disk = Cells /\ DOMAIN cache \subseteq Cells /\ DOMAIN held \subseteq Cells
  /\ block_size \in {512, 2048, 4096} /\ cached_block \in Int
  /\ cache_state \in {"CLEAN", "DIRTY"}

Good ==
  /\ DOMAIN cache = Block(cached_block)
  /\ \A c \in DOMAIN cache : cache[c] = Flushed[c]

CacheInv == pc = "install" \/ (pc = "undo" /\ ~ write_failed) => Good

StartInv ==
  pc = "init" /\ ~ later =>
    disk = Original /\ held = Empty /\ torn = {} /\ Log = << >> /\ progress = 0 /\ ~ writing

(* What is on the medium, with the stream and with the cache.              *)
Pristine(c) == disk[c] = Original[c] /\ Settled[c] = Original[c] /\ Flushed[c] = Original[c]

(* Nothing has been written but what the log knows of, and the write that  *)
(* is being made.                                                          *)
Busy == IF writing THEN Span(Original, Calls[k]) ELSE {}

InstallInv ==
  pc = "install" =>
    /\ torn = {} /\ IsLog(Original, Log)
    /\ writing => k <= Len(Calls) /\ Calls[k].op = "write"
    /\ \A c \in Cells :
         /\ Remembers(Original, Log, c)
         /\ Touched(Original, Log, c) \/ c \in Busy \/ Pristine(c)

(* A write in progress has read what it replaces, as far as it is.         *)
SavedInv ==
  pc = "install" /\ k <= Len(Calls) /\ Calls[k].op = "write" =>
    \A c \in Span(Original, Calls[k]) :
      writing \/ c \div block_size < BlockNow(Calls[k]) =>
        Touched(Original, Log, c) \/ (c \in DOMAIN buffer /\ buffer[c] = Original[c])

CleanupInv ==
  pc = "cleanup" =>
    /\ ok => torn = {}
    /\ IsLog(Original, Log)
    /\ \A c \in Cells \ torn :
         /\ Remembers(Original, Log, c)
         /\ Touched(Original, Log, c) \/ (disk[c] = Original[c] /\ Settled[c] = Original[c])

(* A whole file knows how to undo a finished install.                      *)
FileInv ==
  (pc \in {"close", "exit"} /\ ok /\ ~ later) \/ (pc = "init" /\ later) =>
    /\ pc # "close" => held = Empty
    /\ torn = {} /\ Log = << >>
    /\ file.count = Len(file.entries) =>
         /\ IsLog(Original, file.entries)
         /\ \A c \in Cells :
              /\ Restores(Original, file.entries, c)
              /\ \/ Touched(Original, file.entries, c)
                 \/ disk[c] = Original[c] /\ Settled[c] = Original[c]

(* What the rest of the log does not undo is undone.                       *)
UndoInv ==
  pc \in {"undo", "retry"} =>
    /\ IsLog(Original, Log)
    /\ ~ write_failed /\ ~ flush_failed =>
         \A c \in Cells \ (torn \cup lost) :
           /\ Restores(Original, Log, c)
           /\ Awaits(Original, Log, k, progress, block_size, c) \/ Flushed[c] = Original[c]

CloseInv ==
  pc = "close" /\ ~ write_failed /\ ~ flush_failed /\ (IF later THEN Log # << >> ELSE ~ ok) =>
    \A c \in Cells \ (torn \cup lost) : Settled[c] = Original[c]

IInv ==
  /\ CountInv /\ DeviceInv /\ CacheInv /\ StartInv /\ InstallInv /\ SavedInv /\ CleanupInv
  /\ FileInv /\ UndoInv /\ CloseInv /\ Undone

-----------------------------------------------------------------------------
(* The calls of a plan are about bytes that have numbers.                  *)
Fields == {"calls", "dev", "going", "lb_size", "gpt", "mbr", "active", "loc_a", "loc_b"}

IsPlan(p) ==
  /\ DOMAIN p = Fields /\ IsOps(p.calls)
  /\ p.lb_size \in {512, 4096} /\ p.loc_a \in Int /\ p.loc_b \in Int

(* A later plan that knows what the earlier one knew.                      *)
Follows(q, p) ==
  /\ IsPlan(q)
  /\ q.dev = p.dev /\ q.lb_size = p.lb_size /\ q.going = p.going /\ q.gpt = p.gpt

Continues(q, p) == IsPlan(q) /\ q.lb_size = p.lb_size /\ q.gpt = p.gpt

(* A plan for a device with two GPT headers, which it has not written to.  *)
OnGpt(s, p) == p.dev = s.disk /\ IsGpt(Primary(p)) /\ IsGpt(Secondary(p))

LEMMA OpsOf ==
  ASSUME NEW S, NEW q \in Seq(S), \A x \in S : IsOp(x)
  PROVE  IsOps(q)
<1>1. q \in Seq(Range(q))
  BY SeqOfRange DEF Range
<1>2. \A j \in 1 .. Len(q) : q[j] \in S
  OBVIOUS
<1>3. QED
  BY <1>1, <1>2 DEF IsOps

LEMMA OpsIn ==
  ASSUME NEW q, IsOps(q)
  PROVE  /\ q \in Seq(Range(q)) /\ Len(q) \in Nat
         /\ \A x \in Range(q) : IsOp(x)
<1>1. q \in Seq(Range(q))
  BY DEF IsOps
<1>2. DOMAIN q = 1 .. Len(q) /\ Len(q) \in Nat
  BY <1>1, LenProperties
<1>3. \A x \in Range(q) : IsOp(x)
  BY <1>2 DEF IsOps, Range
<1>4. QED
  BY <1>1, <1>2, <1>3

LEMMA OpsConcat ==
  ASSUME NEW q, IsOps(q), NEW r, IsOps(r)
  PROVE  IsOps(q \o r)
<1> DEFINE S == Range(q) \cup Range(r)
<1>1. q \in Seq(S) /\ r \in Seq(S)
  BY OpsIn, SeqMonotonic
<1>2. q \o r \in Seq(S)
  BY <1>1, ConcatProperties
<1>3. \A x \in S : IsOp(x)
  BY OpsIn
<1> HIDE DEF S
<1>4. QED
  BY <1>2, <1>3, OpsOf

LEMMA OpsAppend ==
  ASSUME NEW q, IsOps(q), NEW o, IsOp(o)
  PROVE  IsOps(Append(q, o))
<1> DEFINE S == Range(q) \cup {o}
<1>1. q \in Seq(S)
  BY OpsIn, SeqMonotonic
<1>2. Append(q, o) \in Seq(S)
  BY <1>1, AppendProperties
<1>3. \A x \in S : IsOp(x)
  BY OpsIn
<1> HIDE DEF S
<1>4. QED
  BY <1>2, <1>3, OpsOf

(* Ask, Tell, Clear and Abort.                                             *)
LEMMA AskPlan ==
  ASSUME NEW p, IsPlan(p), NEW at \in Int, NEW count \in Int
  PROVE  Follows(Ask(p, at, count), p)
<1> DEFINE o == [op |-> "read", at |-> at, count |-> count]
<1>1. IsOp(o)
  BY DEF IsOp
<1>2. IsOps(Append(p.calls, o))
  BY <1>1, OpsAppend DEF IsPlan
<1> HIDE DEF o
<1>3. CASE p.going
  <2>1. Ask(p, at, count) = [p EXCEPT !.calls = Append(@, o)]
    BY <1>3 DEF Ask, o
  <2>2. QED
    BY <1>2, <2>1 DEF IsPlan, Follows, Fields
<1>4. CASE ~ p.going
  BY <1>4 DEF Ask, Follows
<1>5. QED
  BY <1>3, <1>4

LEMMA TellPlan ==
  ASSUME NEW p, IsPlan(p), NEW at \in Int, NEW count \in Int, NEW v
  PROVE  Continues(Tell(p, at, count, v), p)
<1> DEFINE o == [op |-> "write", at |-> at, count |-> count, data |-> Bytes(p, at, count, v)]
<1>1. IsOp(o)
  BY DEF IsOp
<1>2. IsOps(Append(p.calls, o))
  BY <1>1, OpsAppend DEF IsPlan
<1> HIDE DEF o
<1>3. CASE p.going
  <2>1. Tell(p, at, count, v) = [p EXCEPT !.calls = Append(@, o), !.dev = Written(@, at, count, v)]
    BY <1>3 DEF Tell, o
  <2>2. QED
    BY <1>2, <2>1 DEF Continues, IsPlan, Fields
<1>4. CASE ~ p.going
  BY <1>4 DEF Tell, Continues
<1>5. QED
  BY <1>3, <1>4

LEMMA ClearPlan ==
  ASSUME NEW p, IsPlan(p), NEW n \in Nat, NEW at \in [1 .. n -> Int], NEW count \in Int
  PROVE  Continues(Clear(p, at, count), p)
<1> DEFINE zeros == [i \in DOMAIN at |-> Bytes(p, at[i], count, [c \in Nat |-> Zero])]
           ops == [i \in DOMAIN at |-> [op |-> "write", at |-> at[i], count |-> count, data |-> zeros[i]]]
           S == {ops[i] : i \in 1 .. n}
           dev == Over([c \in UNION {DOMAIN zeros[i] : i \in DOMAIN at} |-> Zero], p.dev)
<1>5. Clear(p, at, count) = [p EXCEPT !.calls = @ \o ops, !.dev = dev]
  BY Zenon DEF Clear
<1> HIDE DEF zeros, dev
<1>8. \A i \in 1 .. n : IsOp(ops[i])
  BY DEF IsOp
<1>1. \A x \in S : IsOp(x)
  BY <1>8, Zenon
<1>0. DOMAIN at = 1 .. n
  OBVIOUS
<1>7. \A i \in 1 .. n : ops[i] \in S
  BY Zenon
<1> HIDE DEF S
<1>2. ops \in [1 .. n -> S]
  BY <1>0, <1>7
<1>3. ops \in Seq(S)
  BY <1>2, SeqDef
<1> HIDE DEF ops
<1>4. IsOps(p.calls \o ops)
  BY <1>1, <1>3, OpsOf, OpsConcat DEF IsPlan
<1>6. QED
  BY <1>4, <1>5 DEF Continues, IsPlan, Fields

LEMMA AbortPlan ==
  ASSUME NEW p, IsPlan(p)
  PROVE  Continues(Abort(p), p) /\ ~ Abort(p).going
BY DEF Abort, Continues, IsPlan, Fields

LEMMA Followed ==
  ASSUME NEW q, NEW p, Follows(q, p)
  PROVE  Continues(q, p)
BY DEF Follows, Continues

(* What a header or an entry of the device there was has in it.            *)
LEMMA Numbers ==
  ASSUME NEW s \in Scenarios, NEW p, p.dev = s.disk, NEW c
  PROVE  /\ IsGpt(At(p, c)) => /\ alternate_lba(At(p, c)) \in Nat
                               /\ partition_entry_lba(At(p, c)) \in Nat
                               /\ number_of_partition_entries(At(p, c)) \in Nat
         /\ IsEntry(At(p, c)) => At(p, c)[3] \in Nat /\ At(p, c)[4] \in Nat
<1>1. CASE c \in DOMAIN s.disk
  BY <1>1, ScenariosAreLegal DEF At
<1>2. CASE c \notin DOMAIN s.disk
  BY <1>2 DEF At, Zero, Num, IsGpt, IsEntry
<1>3. QED
  BY <1>1, <1>2

LEMMA FindGptPlan ==
  ASSUME NEW s \in Scenarios, NEW p, IsPlan(p), p.dev = s.disk, ~ p.gpt
  PROVE  /\ IsPlan(FindGpt(s, p))
         /\ FindGpt(s, p).going /\ FindGpt(s, p).gpt => OnGpt(s, FindGpt(s, p))
<1> DEFINE small == Ask(p, 512, 96)
           big   == Ask(small, 4096, 96)
           found == IF IsGpt(At(p, 512)) THEN [small EXCEPT !.lb_size = 512, !.gpt = TRUE]
                    ELSE IF IsGpt(At(p, 4096)) THEN [big EXCEPT !.lb_size = 4096, !.gpt = TRUE]
                    ELSE big
           at    == alternate_lba(At(p, found.lb_size)) * found.lb_size
           both  == Ask(found, at, 96)
<1>a. Follows(small, p)
  BY AskPlan
<1> HIDE DEF small
<1>b. Follows(big, small)
  BY <1>a, AskPlan DEF Follows
<1> HIDE DEF big
<1>1. Follows(small, p) /\ Follows(big, p)
  BY <1>a, <1>b DEF Follows
<1>2. /\ IsPlan(found) /\ found.dev = s.disk /\ found.lb_size \in {512, 4096}
      /\ found.gpt => IsGpt(At(p, found.lb_size))
  BY <1>1 DEF Follows, IsPlan, Fields
<1> HIDE DEF found
<1>3. FindGpt(s, p) = IF ~ found.gpt THEN found
                      ELSE IF s.force_mbr THEN Abort(found)
                      ELSE IF IsGpt(At(p, at)) THEN both ELSE Abort(both)
  BY DEF FindGpt, found, small, big
<1>4. CASE ~ found.gpt
  BY <1>2, <1>3, <1>4
<1>5. CASE found.gpt
  <2>1. at \in Int
    BY <1>2, <1>5, Numbers
  <2> HIDE DEF at
  <2>2. Follows(both, found)
    BY <1>2, <2>1, AskPlan
  <2> HIDE DEF both
  <2>3. CASE s.force_mbr
    BY <1>2, <1>3, <1>5, <2>3, AbortPlan DEF Continues
  <2>4. CASE ~ s.force_mbr /\ ~ IsGpt(At(p, at))
    BY <1>3, <1>5, <2>2, <2>4, AbortPlan DEF Follows, Continues
  <2>5. CASE ~ s.force_mbr /\ IsGpt(At(p, at))
    <3>1. FindGpt(s, p) = both
      BY <1>3, <1>5, <2>5
    <3>2. at = both.lb_size * alternate_lba(Primary(both))
      <4>1. Primary(both) = At(p, found.lb_size)
        BY <1>2, <2>2 DEF Primary, At, Follows
      <4>2. alternate_lba(Primary(both)) \in Nat
        BY <1>2, <1>5, <4>1, Numbers
      <4>3. QED
        BY <4>1, <4>2, <2>2, <1>2 DEF at, Follows
    <3>3. IsGpt(Primary(both)) /\ IsGpt(Secondary(both))
      BY <1>2, <1>5, <2>2, <2>5, <3>2 DEF Primary, Secondary, At, Follows
    <3>4. QED
      BY <1>2, <2>2, <3>1, <3>3 DEF OnGpt, Follows
  <2>6. QED
    BY <2>3, <2>4, <2>5
<1>6. QED
  BY <1>4, <1>5

(* A GPT that becomes an MBR.                                              *)
LEMMA EntriesPlan ==
  ASSUME NEW s \in Scenarios, NEW p, IsPlan(p), OnGpt(s, p)
  PROVE  Follows(AskEntries(p), p)
<1>1. EntryAt(p, Primary(p), 0) \in Int /\ number_of_partition_entries(Primary(p)) \in Nat
  BY Numbers DEF OnGpt, EntryAt, Primary, IsPlan, size_of_partition_entry
<1>2. number_of_partition_entries(Primary(p)) * size_of_partition_entry \in Int
  BY <1>1 DEF size_of_partition_entry
<1>3. QED
  BY <1>1, <1>2, AskPlan DEF AskEntries

LEMMA FollowsGpt ==
  ASSUME NEW s, NEW p, NEW q, OnGpt(s, p), Follows(q, p)
  PROVE  OnGpt(s, q)
BY DEF OnGpt, Follows, Primary, Secondary, At

LEMMA PartitionPlan ==
  ASSUME NEW p, IsPlan(p), NEW slot \in Int, NEW e
  PROVE  Continues(WritePartition(p, slot, e), p)
<1> DEFINE base == 446 + 16 * slot
           type == Tell(p, base + 4, 1, [c \in Nat |-> Num(gpt2mbr_type(e[2]))])
           lba  == Tell(type, base + 8, 4, [c \in Nat |-> Num(e[3])])
           size == Tell(lba, base + 12, 4, [c \in Nat |-> Num(e[4] - e[3] + 1)])
           chs  == Tell(size, base + 1, 3, [c \in Nat |-> << "chs", e[3] >>])
           last == Tell(chs, base + 5, 3, [c \in Nat |-> << "chs", e[4] >>])
<1>1. WritePartition(p, slot, e) = last
  BY DEF WritePartition, WriteLba, WriteChs
<1>2. base \in Int
  OBVIOUS
<1> HIDE DEF base
<1>3. Continues(type, p)
  BY <1>2, TellPlan
<1> HIDE DEF type
<1>4. Continues(lba, type)
  BY <1>2, <1>3, TellPlan DEF Continues
<1> HIDE DEF lba
<1>5. Continues(size, lba)
  BY <1>2, <1>4, TellPlan DEF Continues
<1> HIDE DEF size
<1>6. Continues(chs, size)
  BY <1>2, <1>5, TellPlan DEF Continues
<1> HIDE DEF chs
<1>7. Continues(last, chs)
  BY <1>2, <1>6, TellPlan DEF Continues
<1> HIDE DEF last
<1>8. QED
  BY <1>1, <1>3, <1>4, <1>5, <1>6, <1>7 DEF Continues

LEMMA ConvertPlan ==
  ASSUME NEW s \in Scenarios, NEW p, IsPlan(p), OnGpt(s, p)
  PROVE  IsPlan(Convert(p)) /\ ~ Convert(p).gpt
<1> DEFINE parts  == SetToSortSeq(UsedEntries(p), <)
           other  == SecondArray(p)
           places == [i \in 1 .. 34 |-> (i - 1) * p.lb_size]
           others == [i \in 1 .. 33 |-> (other + i - 1) * p.lb_size]
           zeroed == Clear(p, places, p.lb_size)
           nuked  == Clear(zeroed, others, p.lb_size)
           id_1   == WriteId(nuked, 440)
           id_2   == WriteId(id_1, 441)
           id_3   == WriteId(id_2, 442)
           id_4   == WriteId(id_3, 443)
           Listed(q, i) ==
             IF i \notin DOMAIN parts THEN q
             ELSE WritePartition(q, i - 1, At(p, EntryAt(p, Primary(p), parts[i])))
           all == Listed(Listed(Listed(Listed(id_4, 1), 2), 3), 4)
<1>1. Convert(p) = [all EXCEPT !.gpt = FALSE]
  BY Zenon DEF Convert
<1> HIDE DEF parts
<1>2. ASSUME NEW q, IsPlan(q), NEW i \in Int PROVE IsPlan(Listed(q, i))
  <2>1. i - 1 \in Int
    OBVIOUS
  <2>2. IsPlan(WritePartition(q, i - 1, At(p, EntryAt(p, Primary(p), parts[i]))))
    BY <1>2, <2>1, PartitionPlan DEF Continues
  <2>3. QED
    BY <1>2, <2>2
<1> HIDE DEF Listed
<1>3. other \in Int
  BY Numbers DEF OnGpt, SecondArray, Primary
<1> HIDE DEF other
<1>4. places \in [1 .. 34 -> Int] /\ others \in [1 .. 33 -> Int]
  BY <1>3 DEF IsPlan
<1> HIDE DEF places, others
<1>11. 34 \in Nat /\ 33 \in Nat /\ p.lb_size \in Int
  BY DEF IsPlan
<1>5. IsPlan(zeroed)
  BY <1>4, <1>11, ClearPlan DEF Continues
<1> HIDE DEF zeroed
<1>6. IsPlan(nuked)
  BY <1>4, <1>5, <1>11, ClearPlan DEF Continues
<1> HIDE DEF nuked
<1>7. ASSUME NEW q, IsPlan(q), NEW at \in Int PROVE IsPlan(WriteId(q, at))
  BY <1>7, TellPlan DEF WriteId, Continues
<1>8. IsPlan(id_4)
  BY <1>6, <1>7
<1> HIDE DEF id_4
<1>9. IsPlan(all)
  BY <1>2, <1>8
<1> HIDE DEF all
<1>10. QED
  BY <1>1, <1>9 DEF IsPlan, Fields

LEMMA HybridPlan ==
  ASSUME NEW s \in Scenarios, NEW p, IsPlan(p), p.going /\ p.gpt => OnGpt(s, p)
  PROVE  /\ IsPlan(ConvertHybrid(s, p))
         /\ ConvertHybrid(s, p).going /\ ConvertHybrid(s, p).gpt => OnGpt(s, ConvertHybrid(s, p))
<1> DEFINE iso == Ask(p, 32769, 5)
<1>1. Follows(iso, p)
  BY AskPlan
<1>2. CASE ~ (p.going /\ p.gpt /\ s.convert)
  BY <1>2 DEF ConvertHybrid
<1>3. CASE p.going /\ p.gpt /\ s.convert
  <2>1. ConvertHybrid(s, p) \in {iso, Convert(AskEntries(iso)), AskEntries(iso)}
    BY <1>3 DEF ConvertHybrid
  <2> HIDE DEF iso
  <2>2. IsPlan(iso) /\ OnGpt(s, iso)
    BY <1>1, <1>3, FollowsGpt DEF Follows
  <2>3. IsPlan(AskEntries(iso)) /\ OnGpt(s, AskEntries(iso))
    BY <2>2, EntriesPlan, FollowsGpt DEF Follows
  <2>4. IsPlan(Convert(AskEntries(iso))) /\ ~ Convert(AskEntries(iso)).gpt
    BY <2>3, ConvertPlan
  <2>5. QED
    BY <2>1, <2>2, <2>3, <2>4
<1>4. QED
  BY <1>2, <1>3

(* The checks on an MBR.                                                   *)
LEMMA RepairPlan ==
  ASSUME NEW s, NEW p, IsPlan(p), NEW at \in Int, NEW count \in Int, NEW v
  PROVE  Continues(Repair(s, p, at, count, v), p)
<1>1. CASE s.force_mbr
  BY <1>1, TellPlan DEF Repair
<1>2. CASE ~ s.force_mbr
  BY <1>2 DEF Repair, Continues, IsPlan, Fields
<1>3. QED
  BY <1>1, <1>2

LEMMA CheckFlagPlan ==
  ASSUME NEW s, NEW p, IsPlan(p), NEW at \in Int
  PROVE  Continues(CheckFlag(s, p, at), p)
<1> DEFINE flag  == At(p, at)[2]
           high  == (flag \div 128) * 128
           seen  == Ask(p, at, 1)
           fixed == IF flag \in {0, 128} THEN seen ELSE Repair(s, seen, at, 1, Num(high))
           set   == fixed.active \/ high = 128
<1>1. CheckFlag(s, p, at) = [fixed EXCEPT !.active = set]
  BY DEF CheckFlag
<1> HIDE DEF flag, high, set
<1>2. Continues(seen, p)
  BY AskPlan, Followed
<1> HIDE DEF seen
<1>3. Continues(Repair(s, seen, at, 1, Num(high)), seen)
  BY <1>2, RepairPlan DEF Continues
<1>4. Continues(fixed, p)
  BY <1>2, <1>3 DEF Continues
<1> HIDE DEF fixed
<1>5. QED
  BY <1>1, <1>4 DEF Continues, IsPlan, Fields

LEMMA CheckPartitionPlan ==
  ASSUME NEW s, NEW p, IsPlan(p), NEW at \in Int
  PROVE  Continues(CheckPartition(s, p, at), p)
<1> DEFINE begun  == Ask(CheckFlag(s, p, at), at + 4, 1)
           start_ == Ask(begun, at + 8, 4)
<1>1. \/ CheckPartition(s, p, at) = begun
      \/ CheckPartition(s, p, at) = Abort(start_)
      \/ CheckPartition(s, p, at) = start_
  BY DEF CheckPartition
<1>2. Continues(CheckFlag(s, p, at), p)
  BY CheckFlagPlan
<1>3. Continues(begun, p)
  BY <1>2, AskPlan, Followed DEF Continues
<1> HIDE DEF begun
<1>4. Continues(start_, p)
  BY <1>3, AskPlan, Followed DEF Continues
<1> HIDE DEF start_
<1>5. Continues(Abort(start_), p)
  BY <1>4, AbortPlan DEF Continues
<1>6. QED
  BY <1>1, <1>3, <1>4, <1>5

LEMMA CheckSignaturePlan ==
  ASSUME NEW s, NEW p, IsPlan(p), NEW at \in Int, NEW size \in Int, NEW signature, NEW count \in Int
  PROVE  Continues(CheckSignature(s, p, at, size, signature, count), p)
<1> DEFINE seen == Ask(p, at, size)
<1>1. CheckSignature(s, p, at, size, signature, count) \in {seen, Repair(s, seen, at, count, Zero)}
  BY DEF CheckSignature
<1>2. Continues(seen, p)
  BY AskPlan, Followed
<1> HIDE DEF seen
<1>3. Continues(Repair(s, seen, at, count, Zero), p)
  BY <1>2, RepairPlan DEF Continues
<1>4. QED
  BY <1>1, <1>2, <1>3

LEMMA MbrPlan ==
  ASSUME NEW s, NEW p, IsPlan(p), p.going /\ p.gpt => OnGpt(s, p)
  PROVE  /\ IsPlan(CheckMbr(s, p))
         /\ CheckMbr(s, p).going /\ CheckMbr(s, p).gpt => OnGpt(s, CheckMbr(s, p))
<1> DEFINE Part(q, at) == CheckPartition(s, q, at)
           Sign(q, at, size, signature, count) == CheckSignature(s, q, at, size, signature, count)
           begun == [p EXCEPT !.mbr = TRUE]
           parts == Part(Part(Part(Part(begun, 446), 462), 478), 494)
           ntfs  == Sign(Sign(parts, 4, 8, "_ECH_FS_", 8), 3, 4, "NTFS", 4)
           fat   == Sign(Sign(Sign(ntfs, 54, 3, "FAT", 5), 82, 3, "FAT", 5), 3, 5, "FAT32", 5)
           signs == Sign(fat, 1080, 2, "ext", 2)
           last  == Tell(signs, 446, 1, [c \in Nat |-> Num(128)])
<1>0. CheckMbr(s, p) = IF ~ p.going \/ p.gpt THEN p
                       ELSE IF ~ signs.mbr THEN Abort(signs)
                       ELSE IF signs.active THEN signs ELSE last
  BY Zenon DEF CheckMbr
<1> HIDE DEF last, signs
<1>1. CASE ~ p.going \/ p.gpt
  BY <1>0, <1>1
<1>2. CASE p.going /\ ~ p.gpt
  <2>1. CheckMbr(s, p) \in {Abort(signs), signs, last}
    BY <1>0, <1>2
  <2>2. Continues(begun, p)
    BY DEF Continues, IsPlan, Fields
  <2> HIDE DEF begun
  <2>3. ASSUME NEW q, Continues(q, p), NEW at \in Int PROVE Continues(Part(q, at), p)
    BY <2>3, CheckPartitionPlan DEF Continues
  <2>4. ASSUME NEW q, Continues(q, p), NEW at \in Int, NEW size \in Int, NEW signature, NEW count \in Int
        PROVE  Continues(Sign(q, at, size, signature, count), p)
    BY <2>4, CheckSignaturePlan DEF Continues
  <2> HIDE DEF Part, Sign
  <2>5. Continues(parts, p)
    BY <2>2, <2>3
  <2> HIDE DEF parts
  <2>6. Continues(ntfs, p)
    BY <2>4, <2>5
  <2> HIDE DEF ntfs
  <2>7. Continues(fat, p)
    BY <2>4, <2>6
  <2> HIDE DEF fat
  <2>8. Continues(signs, p)
    BY <2>4, <2>7 DEF signs
  <2>9. Continues(last, p) /\ Continues(Abort(signs), p)
    BY <2>8, TellPlan, AbortPlan DEF Continues, last
  <2>10. QED
    BY <1>2, <2>1, <2>8, <2>9 DEF Continues
<1>3. QED
  BY <1>1, <1>2

(* Where stage 2 goes.                                                     *)
LEMMA Sizes ==
  ASSUME NEW s \in Scenarios
  PROVE  /\ s.image \in Int /\ s.part_ndx \in Nat
         /\ stage2_size_a(s) \in Int /\ stage2_size_b(s) \in Int
<1>1. s.image \in Nat /\ s.part_ndx \in Nat
  BY ScenariosAreLegal
<1>2. Sectors(s) \in Int
  BY <1>1 DEF Sectors, DIV_ROUNDUP
<1>3. QED
  BY <1>1, <1>2 DEF stage2_size_a, stage2_size_b

LEMMA Blocks_ ==
  ASSUME NEW p, IsPlan(p), NEW n \in Int
  PROVE  n * p.lb_size \in Int /\ p.lb_size * n \in Int
         /\ n \div p.lb_size \in Int /\ AlignDown(n, p.lb_size) \in Int
<1>1. CASE p.lb_size = 512
  BY <1>1 DEF AlignDown
<1>2. CASE p.lb_size = 4096
  BY <1>2 DEF AlignDown
<1>3. QED
  BY <1>1, <1>2 DEF IsPlan

LEMMA EntryAtInt ==
  ASSUME NEW p, IsPlan(p), NEW header, partition_entry_lba(header) \in Int, NEW i \in Int
  PROVE  EntryAt(p, header, i) \in Int
BY Blocks_ DEF EntryAt, size_of_partition_entry

LEMMA Least ==
  ASSUME NEW T \in SUBSET Nat, T # {}
  PROVE  \E n \in T : \A m \in T : ~ (m < n)
<1> DEFINE R == OpToRel(<, Nat)
<1>1. IsWellFoundedOn(R, Nat)
  BY NatLessThanWellFounded
<1>2. \A a, b \in Nat : a < b => << a, b >> \in R
  BY DEF OpToRel
<1> HIDE DEF R
<1>3. PICK n \in T : \A m \in T : ~ (<< m, n >> \in R)
  BY <1>1, WFMin
<1>4. QED
  BY <1>2, <1>3

LEMMA Greatest ==
  ASSUME NEW n \in Nat, NEW S \in SUBSET (0 .. n - 1), S # {}
  PROVE  Max(S) \in S
<1> DEFINE T == {n - x : x \in S}
<1>6. \A x \in S : x \in Nat /\ n - x \in Nat
  OBVIOUS
<1>1. T \in SUBSET Nat /\ T # {}
  BY <1>6
<1> HIDE DEF T
<1>2. PICK t \in T : \A u \in T : ~ (u < t)
  BY <1>1, Least
<1>3. PICK m \in S : t = n - m
  BY <1>2 DEF T
<1>4. \A x \in S : m >= x
  <2>1. ASSUME NEW x \in S PROVE m >= x
    <3>1. n - x \in T
      BY DEF T
    <3>2. ~ (n - x < n - m)
      BY <1>2, <1>3, <3>1
    <3>3. QED
      BY <3>2
  <2>2. QED
    BY <2>1
<1>5. QED
  BY <1>4 DEF Max

LEMMA ClearEntriesPlan ==
  ASSUME NEW p, IsPlan(p), NEW header, partition_entry_lba(header) \in Int,
         NEW from \in Int, NEW count \in Int, count >= from
  PROVE  IsPlan(ClearEntries(p, header, from, count))
<1> DEFINE at == [i \in 1 .. count - from |-> EntryAt(p, header, from + i - 1)]
<1>1. count - from \in Nat /\ 128 \in Int
  OBVIOUS
<1>2. \A i \in 1 .. count - from : EntryAt(p, header, from + i - 1) \in Int
  <2>1. ASSUME NEW i \in 1 .. count - from PROVE EntryAt(p, header, from + i - 1) \in Int
    <3>1. from + i - 1 \in Int
      OBVIOUS
    <3>2. QED
      BY <3>1, EntryAtInt
  <2>2. QED
    BY <2>1
<1>3. at \in [1 .. count - from -> Int]
  BY <1>2
<1> HIDE DEF at
<1>4. IsPlan(Clear(p, at, 128))
  BY <1>1, <1>3, ClearPlan DEF Continues
<1>5. QED
  BY <1>4 DEF ClearEntries, at, size_of_partition_entry

LEMMA EmbedPlan ==
  ASSUME NEW s \in Scenarios, NEW p, IsPlan(p), OnGpt(s, p)
  PROVE  IsPlan(Embed(s, p))
<1> DEFINE End(header, size) ==
             AlignDown((partition_entry_lba(header) + 32) * p.lb_size - size, p.lb_size)
           loc_a == End(Primary(p), stage2_size_a(s))
           loc_b == End(Secondary(p), stage2_size_b(s))
           unused == IF UsedEntries(p) = {} THEN 0 ELSE Max(UsedEntries(p)) + 1
           count == NewCount(p, loc_a)
           seen  == AskEntries(p)
           one   == ClearEntries(seen, Primary(p), unused, count)
           two   == ClearEntries(one, Secondary(p), unused, count)
           summed == Ask(two, EntryAt(p, Primary(p), 0), count * size_of_partition_entry)
           content == Array(two, count)
           head  == Tell(summed, p.lb_size, 96, [c \in Nat |-> Shrunk(Primary(p), Primary(p), count, content)])
           heads == Tell(head, p.lb_size * alternate_lba(Primary(p)), 96,
                         [c \in Nat |-> Shrunk(Primary(p), Secondary(p), count, content)])
<1>1. Embed(s, p) = IF count < unused THEN Abort(seen) ELSE [heads EXCEPT !.loc_a = loc_a, !.loc_b = loc_b]
  BY Zenon DEF Embed
<1>2. /\ partition_entry_lba(Primary(p)) \in Nat /\ partition_entry_lba(Secondary(p)) \in Nat
      /\ alternate_lba(Primary(p)) \in Nat /\ number_of_partition_entries(Primary(p)) \in Nat
  BY Numbers DEF OnGpt, Primary, Secondary
<1>3. unused \in Int
  <2>1. CASE UsedEntries(p) = {}
    BY <2>1
  <2>2. CASE UsedEntries(p) # {}
    <3>1. UsedEntries(p) \in SUBSET (0 .. number_of_partition_entries(Primary(p)) - 1)
      BY DEF UsedEntries
    <3>2. Max(UsedEntries(p)) \in UsedEntries(p)
      BY <1>2, <2>2, <3>1, Greatest
    <3>3. Max(UsedEntries(p)) \in Int
      BY <1>2, <3>1, <3>2
    <3>4. QED
      BY <2>2, <3>3
  <2>3. QED
    BY <2>1, <2>2
<1> HIDE DEF unused, content, heads, head, summed, two, one, seen, count, loc_a, loc_b
<1>4. ASSUME NEW header, partition_entry_lba(header) \in Nat, NEW size \in Int
      PROVE  End(header, size) \in Int
  <2> DEFINE top == partition_entry_lba(header) + 32
  <2>1. top \in Int
    BY <1>4
  <2> HIDE DEF top
  <2>2. top * p.lb_size - size \in Int
    BY <1>4, <2>1, Blocks_
  <2>3. AlignDown(top * p.lb_size - size, p.lb_size) \in Int
    BY <2>2, Blocks_
  <2>4. QED
    BY <2>3 DEF top
<1> HIDE DEF End
<1>5. loc_a \in Int /\ loc_b \in Int
  BY <1>2, <1>4, Sizes DEF loc_a, loc_b
<1>6. count \in Int /\ count * 128 \in Int
  <2>1. CASE p.lb_size = 512
    BY <1>2, <1>5, <2>1 DEF count, NewCount, size_of_partition_entry
  <2>2. CASE p.lb_size = 4096
    BY <1>2, <1>5, <2>2 DEF count, NewCount, size_of_partition_entry
  <2>3. QED
    BY <2>1, <2>2 DEF IsPlan
<1>7. IsPlan(seen)
  BY EntriesPlan DEF seen, Follows
<1>8. CASE count < unused
  BY <1>1, <1>7, <1>8, AbortPlan DEF Continues
<1>9. CASE ~ (count < unused)
  <2>1. count >= unused
    BY <1>3, <1>6, <1>9
  <2>2. IsPlan(one)
    BY <1>2, <1>3, <1>6, <1>7, <2>1, ClearEntriesPlan DEF one
  <2>3. IsPlan(two)
    BY <1>2, <1>3, <1>6, <2>1, <2>2, ClearEntriesPlan DEF two
  <2>4. EntryAt(p, Primary(p), 0) \in Int
    BY <1>2, EntryAtInt
  <2>5. IsPlan(summed)
    BY <1>6, <2>3, <2>4, AskPlan, Followed DEF summed, size_of_partition_entry, Continues
  <2>6. p.lb_size \in Int /\ p.lb_size * alternate_lba(Primary(p)) \in Int
    BY <1>2, Blocks_ DEF IsPlan
  <2>7. IsPlan(head)
    BY <2>5, <2>6, TellPlan DEF head, Continues
  <2>8. IsPlan(heads)
    BY <2>6, <2>7, TellPlan DEF heads, Continues
  <2>9. IsPlan([heads EXCEPT !.loc_a = loc_a, !.loc_b = loc_b])
    BY <1>5, <2>8 DEF IsPlan, Fields
  <2>10. QED
    BY <1>1, <1>9, <2>9
<1>10. QED
  BY <1>8, <1>9

LEMMA InPartitionPlan ==
  ASSUME NEW s \in Scenarios, NEW p, IsPlan(p), OnGpt(s, p)
  PROVE  IsPlan(InPartition(s, p))
<1> DEFINE at    == EntryAt(p, Primary(p), s.part_ndx - 1)
           seen  == Ask(p, at, size_of_partition_entry)
           loc_a == At(p, at)[3] * p.lb_size
           end_a == loc_a + stage2_size_a(s)
           loc_b == IF end_a % p.lb_size = 0 THEN end_a ELSE AlignDown(end_a + p.lb_size, p.lb_size)
<1>1. InPartition(s, p) =
        IF s.part_ndx - 1 > number_of_partition_entries(Primary(p)) THEN Abort(p)
        ELSE IF ~ IsEntry(At(p, at)) THEN Abort(seen)
        ELSE [seen EXCEPT !.loc_a = loc_a, !.loc_b = loc_b]
  BY DEF InPartition
<1>2. at \in Int
  BY Numbers, EntryAtInt, Sizes DEF OnGpt, Primary
<1> HIDE DEF loc_b, end_a, loc_a, seen, at
<1>3. IsPlan(seen)
  BY <1>2, AskPlan DEF seen, Follows, size_of_partition_entry
<1>4. CASE IsEntry(At(p, at))
  <2>1. At(p, at)[3] \in Nat
    BY <1>4, Numbers DEF OnGpt
  <2>2. loc_a \in Int
    BY <2>1, Blocks_ DEF loc_a
  <2>3. end_a \in Int /\ end_a + p.lb_size \in Int
    BY <2>2, Sizes DEF end_a, IsPlan
  <2>4. loc_b \in Int
    BY <2>3, Blocks_ DEF loc_b
  <2>5. IsPlan([seen EXCEPT !.loc_a = loc_a, !.loc_b = loc_b])
    BY <1>3, <2>2, <2>4 DEF IsPlan, Fields
  <2>6. QED
    BY <1>1, <1>4, <2>5, AbortPlan DEF Continues
<1>5. CASE ~ IsEntry(At(p, at))
  BY <1>1, <1>3, <1>5, AbortPlan DEF Continues
<1>6. QED
  BY <1>4, <1>5

LEMMA LocatePlan ==
  ASSUME NEW s \in Scenarios, NEW p, IsPlan(p), p.going /\ p.gpt => OnGpt(s, p)
  PROVE  IsPlan(Locate(s, p))
<1>1. CASE ~ p.going
  BY <1>1 DEF Locate
<1>2. CASE p.going /\ ~ p.gpt
  <2>1. 512 + stage2_size_a(s) \in Int
    BY Sizes
  <2>2. Locate(s, p) = [p EXCEPT !.loc_a = 512, !.loc_b = 512 + stage2_size_a(s)]
    BY <1>2 DEF Locate
  <2>3. QED
    BY <2>1, <2>2 DEF IsPlan, Fields
<1>3. CASE p.going /\ p.gpt
  BY <1>3, EmbedPlan, InPartitionPlan DEF Locate
<1>4. QED
  BY <1>1, <1>2, <1>3

LEMMA StagesPlan ==
  ASSUME NEW s \in Scenarios, NEW p, IsPlan(p)
  PROVE  IsPlan(WriteStages(s, p))
<1> DEFINE kept  == Ask(Ask(p, 218, 6), 440, 70)
           half  == WriteHalves(s, kept)
           sizes == WriteNumber(WriteNumber(half, 420, 2, stage2_size_a(s)), 422, 2, stage2_size_b(s))
           said  == WriteNumber(WriteNumber(sizes, 424, 8, p.loc_a), 432, 8, p.loc_b)
<1>1. WriteStages(s, p) = Tell(Tell(said, 218, 6, p.dev), 440, 70, p.dev)
  BY Zenon DEF WriteStages, PutBack
<1>2. ASSUME NEW q, IsPlan(q), NEW at \in Int, NEW count \in Int, NEW v
      PROVE  IsPlan(Tell(q, at, count, v)) /\ IsPlan(Ask(q, at, count)) /\ IsPlan(WriteNumber(q, at, count, v))
  BY <1>2, TellPlan, AskPlan DEF WriteNumber, Follows, Continues
<1>3. IsPlan(kept)
  <2>1. IsPlan(Ask(p, 218, 6))
    BY <1>2
  <2>2. QED
    BY <1>2, <2>1
<1> HIDE DEF kept
<1>4. IsPlan(half)
  <2> DEFINE a    == stage2_size_a(s)
             boot == Tell(kept, 0, 512, [c \in Nat |-> Image(c)])
             one  == Tell(boot, kept.loc_a, a, [c \in Nat |-> Image(512 + c - kept.loc_a)])
             two  == Tell(one, kept.loc_b, s.image - 512 - a, [c \in Nat |-> Image(512 + a + c - kept.loc_b)])
  <2>1. half = two
    BY Zenon DEF WriteHalves
  <2>2. a \in Int /\ s.image - 512 - a \in Int /\ kept.loc_a \in Int /\ kept.loc_b \in Int
    BY <1>3, Sizes DEF IsPlan
  <2> HIDE DEF two, a
  <2>3. IsPlan(boot)
    BY <1>2, <1>3
  <2> HIDE DEF boot
  <2>4. IsPlan(one)
    BY <1>2, <2>2, <2>3
  <2> HIDE DEF one
  <2>5. IsPlan(two)
    BY <1>2, <2>2, <2>4 DEF two
  <2>6. QED
    BY <2>1, <2>5
<1> HIDE DEF half
<1>5. IsPlan(sizes)
  BY <1>2, <1>4
<1> HIDE DEF sizes
<1>6. IsPlan(said)
  BY <1>2, <1>5
<1> HIDE DEF said
<1>7. QED
  BY <1>1, <1>2, <1>6

(* Whatever the device and the options, the calls made are about bytes.    *)
LEMMA PlanCalls ==
  ASSUME NEW s \in Scenarios
  PROVE  IsOps(Plan(s).calls)
<1> DEFINE begun == [calls |-> << >>, dev |-> s.disk, going |-> TRUE, lb_size |-> 512, gpt |-> FALSE,
                     mbr |-> FALSE, active |-> FALSE, loc_a |-> 0, loc_b |-> 0]
<1>1. IsOps(<< >>)
  BY EmptySeq DEF IsOps
<1>2. IsPlan(begun) /\ begun.dev = s.disk /\ ~ begun.gpt
  BY <1>1 DEF IsPlan, Fields
<1>3. Plan(s) = WriteStages(s, Locate(s, CheckMbr(s, ConvertHybrid(s, FindGpt(s, begun)))))
  BY DEF Plan
<1> HIDE DEF begun
<1> DEFINE found == FindGpt(s, begun)
<1>4. IsPlan(found) /\ (found.going /\ found.gpt => OnGpt(s, found))
  BY <1>2, FindGptPlan
<1> HIDE DEF found
<1> DEFINE hybrid == ConvertHybrid(s, found)
<1>5. IsPlan(hybrid) /\ (hybrid.going /\ hybrid.gpt => OnGpt(s, hybrid))
  BY <1>4, HybridPlan
<1> HIDE DEF hybrid
<1> DEFINE checked == CheckMbr(s, hybrid)
<1>6. IsPlan(checked) /\ (checked.going /\ checked.gpt => OnGpt(s, checked))
  BY <1>5, MbrPlan
<1> HIDE DEF checked
<1>7. IsPlan(WriteStages(s, Locate(s, checked)))
  BY <1>6, LocatePlan, StagesPlan
<1>8. QED
  BY <1>3, <1>7 DEF found, hybrid, checked, IsPlan

-----------------------------------------------------------------------------
(* What the log knows.                                                     *)
LEMMA LogIn ==
  ASSUME NEW d, NEW log, IsLog(d, log)
  PROVE  /\ log \in Seq(Range(log)) /\ Len(log) \in Nat
         /\ \A j \in 1 .. Len(log) : IsOp(log[j]) /\ DOMAIN log[j].data = Span(d, log[j])
BY OpsIn DEF IsLog, IsOps

(* The empty log knows nothing.                                            *)
LEMMA LogEmpty ==
  ASSUME NEW d, NEW c
  PROVE  IsLog(d, << >>) /\ Remembers(d, << >>, c) /\ ~ Touched(d, << >>, c)
BY EmptySeq DEF IsLog, IsOps, Remembers, Touched

(* An entry that knows what was there is only asked for cells that no      *)
(* earlier one is about.                                                   *)
LEMMA LogAppend ==
  ASSUME NEW d, NEW log, IsLog(d, log), NEW o, IsOp(o), DOMAIN o.data = Span(d, o)
  PROVE  /\ IsLog(d, Append(log, o))
         /\ \A c : Touched(d, Append(log, o), c) <=> Touched(d, log, c) \/ c \in Span(d, o)
         /\ \A c : Remembers(d, log, c) /\ (c \in Span(d, o) => Touched(d, log, c) \/ o.data[c] = d[c])
                     => Remembers(d, Append(log, o), c)
<1> DEFINE q == Append(log, o)
<1>1. log \in Seq(Range(log)) /\ Len(log) \in Nat
  BY LogIn
<1>2. /\ Len(q) = Len(log) + 1 /\ q[Len(log) + 1] = o
      /\ \A j \in 1 .. Len(log) : q[j] = log[j]
  <2>1. log \in Seq(Range(log) \cup {o})
    BY <1>1, SeqMonotonic
  <2>2. QED
    BY <2>1, AppendProperties
<1>3. IsOps(q)
  BY OpsAppend DEF IsLog
<1> HIDE DEF q
<1>4. \A j \in 1 .. Len(q) : j \in 1 .. Len(log) \/ j = Len(log) + 1
  BY <1>1, <1>2
<1>5. IsLog(d, q)
  BY <1>2, <1>3, <1>4, LogIn DEF IsLog
<1>6. ASSUME NEW c PROVE Touched(d, q, c) <=> Touched(d, log, c) \/ c \in Span(d, o)
  <2>1. CASE Touched(d, q, c)
    <3>1. PICK j \in 1 .. Len(q) : c \in Span(d, q[j])
      BY <2>1 DEF Touched
    <3>2. QED
      BY <1>2, <1>4, <3>1 DEF Touched
  <2>2. CASE Touched(d, log, c)
    <3>1. PICK j \in 1 .. Len(log) : c \in Span(d, log[j])
      BY <2>2 DEF Touched
    <3>2. j \in 1 .. Len(q) /\ q[j] = log[j]
      BY <1>1, <1>2
    <3>3. QED
      BY <2>2, <3>1, <3>2 DEF Touched
  <2>3. CASE c \in Span(d, o)
    <3>1. Len(log) + 1 \in 1 .. Len(q)
      BY <1>1, <1>2
    <3>2. QED
      BY <1>2, <2>3, <3>1 DEF Touched
  <2>4. QED
    BY <2>1, <2>2, <2>3
<1>7. ASSUME NEW c, Remembers(d, log, c), c \in Span(d, o) => Touched(d, log, c) \/ o.data[c] = d[c]
      PROVE  Remembers(d, q, c)
  <2>1. ASSUME NEW j \in 1 .. Len(q), c \in Span(d, q[j]), \A n \in 1 .. j - 1 : c \notin Span(d, q[n])
        PROVE  q[j].data[c] = d[c]
    <3>1. CASE j \in 1 .. Len(log)
      <4>1. \A n \in 1 .. j - 1 : n \in 1 .. Len(log) /\ c \notin Span(d, log[n])
        BY <1>1, <1>2, <2>1, <3>1
      <4>2. QED
        BY <1>2, <1>7, <2>1, <3>1, <4>1 DEF Remembers
    <3>2. CASE j = Len(log) + 1
      <4>1. ~ Touched(d, log, c)
        BY <1>1, <1>2, <2>1, <3>2 DEF Touched
      <4>2. QED
        BY <1>2, <1>7, <2>1, <3>2, <4>1
    <3>3. QED
      BY <1>4, <3>1, <3>2
  <2>2. QED
    BY <2>1 DEF Remembers
<1>8. QED
  BY <1>5, <1>6, <1>7 DEF q

(* Undone from its end, a log that remembers restores.                     *)
LEMMA LogReverse ==
  ASSUME NEW d, NEW log, IsLog(d, log)
  PROVE  /\ IsLog(d, Reverse(log)) /\ Len(Reverse(log)) = Len(log)
         /\ \A c : Touched(d, Reverse(log), c) <=> Touched(d, log, c)
         /\ \A c : Remembers(d, log, c) => Restores(d, Reverse(log), c)
<1> DEFINE q == Reverse(log)
           L == Len(log)
<1>1. log \in Seq(Range(log)) /\ L \in Nat
  BY LogIn
<1> HIDE DEF L
<1>2. q = [j \in 1 .. L |-> log[(L - j) + 1]]
  BY DEF Reverse, L
<1> HIDE DEF q
<1>3. \A j \in 1 .. L : (L - j) + 1 \in 1 .. L /\ L - ((L - j) + 1) + 1 = j
  BY <1>1
<1>4. \A j \in 1 .. L : log[(L - j) + 1] \in Range(log)
  <2>1. \A j \in 1 .. L : log[j] \in Range(log)
    BY <1>1 DEF L
  <2>2. QED
    BY <1>3, <2>1
<1>5. q \in [1 .. L -> Range(log)]
  BY <1>2, <1>4
<1>6. q \in Seq(Range(log)) /\ Len(q) = L
  BY <1>1, <1>5, SeqDef, LenProperties
<1>7. \A j \in 1 .. L : q[j] = log[(L - j) + 1]
  BY <1>2
<1>8. IsLog(d, q)
  <2>1. IsOps(q)
    <3>1. \A x \in Range(log) : IsOp(x)
      BY OpsIn DEF IsLog
    <3>2. QED
      BY <1>6, <3>1, OpsOf
  <2>2. \A j \in 1 .. L : DOMAIN log[j].data = Span(d, log[j])
    BY LogIn DEF L
  <2>3. \A j \in 1 .. L : DOMAIN q[j].data = Span(d, q[j])
    BY <1>3, <1>7, <2>2
  <2>4. QED
    BY <1>6, <2>1, <2>3 DEF IsLog
<1>9. ASSUME NEW c PROVE Touched(d, q, c) <=> Touched(d, log, c)
  <2>1. CASE Touched(d, q, c)
    <3>1. PICK j \in 1 .. L : c \in Span(d, q[j])
      BY <1>6, <2>1 DEF Touched
    <3>2. QED
      BY <1>3, <1>7, <2>1, <3>1 DEF Touched, L
  <2>2. CASE Touched(d, log, c)
    <3>1. PICK j \in 1 .. L : c \in Span(d, log[j])
      BY <2>2 DEF Touched, L
    <3>2. (L - j) + 1 \in 1 .. L /\ q[(L - j) + 1] = log[j]
      BY <1>3, <1>7
    <3>3. QED
      BY <1>6, <2>2, <3>1, <3>2 DEF Touched
  <2>3. QED
    BY <2>1, <2>2
<1>10. ASSUME NEW c, Remembers(d, log, c) PROVE Restores(d, q, c)
  <2>1. ASSUME NEW j \in 1 .. L, c \in Span(d, q[j]), \A n \in j + 1 .. L : c \notin Span(d, q[n])
        PROVE  q[j].data[c] = d[c]
    <3> DEFINE m == (L - j) + 1
    <3>1. m \in 1 .. L /\ q[j] = log[m]
      BY <1>3, <1>7
    <3>2. ASSUME NEW n \in 1 .. m - 1 PROVE c \notin Span(d, log[n])
      <4>1. (L - n) + 1 \in j + 1 .. L /\ (L - n) + 1 \in 1 .. L /\ n \in 1 .. L
        BY <1>1
      <4>2. q[(L - n) + 1] = log[n]
        BY <1>3, <1>7, <4>1
      <4>3. QED
        BY <2>1, <4>1, <4>2
    <3> HIDE DEF m
    <3>3. QED
      BY <1>10, <2>1, <3>1, <3>2 DEF Remembers, L
  <2>2. QED
    BY <1>6, <2>1 DEF Restores
<1>11. QED
  BY <1>6, <1>8, <1>9, <1>10 DEF q, L

-----------------------------------------------------------------------------
(* The device, as it would be if the cache were flushed now: what a call   *)
(* of it, a flush and a fault may do to that.                              *)
LEMMA InBlock ==
  ASSUME NEW size \in {512, 2048, 4096}, NEW c \in Int, NEW b \in Int
  PROVE  c \div size \in Int /\ (b * size <= c /\ c < b * size + size <=> c \div size = b)
OBVIOUS

Within(c, b, size) == b * size <= c /\ c < b * size + size

LEMMA FirstBlocks ==
  ASSUME NEW size \in {512, 2048, 4096}, NEW c \in Nat
  PROVE  (Within(c, 0, size) <=> c < size) /\ ~ Within(c, -1, size)
<1>1. CASE size = 512
  BY <1>1 DEF Within
<1>2. CASE size = 2048
  BY <1>2 DEF Within
<1>3. CASE size = 4096
  BY <1>3 DEF Within
<1>4. QED
  BY <1>1, <1>2, <1>3

LEMMA BlockOrder ==
  ASSUME NEW size \in {512, 2048, 4096}, NEW c \in Int, NEW e \in Int, c <= e
  PROVE  c \div size <= e \div size
OBVIOUS

LEMMA CellNumbers ==
  ASSUME CountInv
  PROVE  Cells \subseteq Nat
BY ScenariosAreLegal DEF CountInv, PlanInv, PlaceInv, FlagInv, Cells, Original

(* The bytes a call is about lie from its first block to its last; those   *)
(* it deals with now are the ones in its present block.                    *)
LEMMA ChunkIs ==
  ASSUME CountInv, DeviceInv, NEW o, IsOp(o)
  PROVE  /\ BlockNow(o) \in Int /\ BlockNow(o) >= o.at \div block_size
         /\ CellsOf(o) = Span(Original, o)
         /\ Chunk(o) = {c \in Span(Original, o) : c \div block_size = BlockNow(o)}
         /\ \A b \in Int : Block(b) = {c \in Cells : c \div block_size = b}
         /\ \A c \in Span(Original, o) :
              /\ c \in Cells /\ c \div block_size \in Int /\ c \div block_size >= o.at \div block_size
              /\ LastBlock(o) => c \div block_size <= BlockNow(o)
<1>1. BlockNow(o) \in Int /\ BlockNow(o) >= o.at \div block_size
  <2>1. o.at \div block_size \in Int /\ progress \in Nat
    BY InBlock DEF DeviceInv, CountInv, PlanInv, PlaceInv, FlagInv, IsOp
  <2>2. QED
    BY <2>1 DEF BlockNow
<1>2. CellsOf(o) = Span(Original, o)
  BY DEF CellsOf, CellsIn, Span, DeviceInv, Cells
<1>3. \A b \in Int : Block(b) = {c \in Cells : c \div block_size = b}
  <2>1. ASSUME NEW b \in Int, NEW c \in Cells
        PROVE  c \in Block(b) <=> c \div block_size = b
    <3>1. c \in Int
      BY CellNumbers
    <3>2. c \in Block(b) <=> b * block_size <= c /\ c < b * block_size + block_size
      BY DEF Block, CellsIn, DeviceInv
    <3>3. QED
      BY <3>1, <3>2, InBlock DEF DeviceInv
  <2>2. \A b : Block(b) \subseteq Cells
    BY DEF Block, CellsIn, DeviceInv
  <2>3. QED
    BY <2>1, <2>2
<1>4. Chunk(o) = {c \in Span(Original, o) : c \div block_size = BlockNow(o)}
  BY <1>1, <1>2, <1>3 DEF Chunk, Span, Cells
<1>5. ASSUME NEW c \in Span(Original, o)
      PROVE  /\ c \in Cells /\ c \div block_size \in Int /\ c \div block_size >= o.at \div block_size
             /\ LastBlock(o) => c \div block_size <= BlockNow(o)
  <2>1. c \in Cells /\ c \in Int /\ o.at <= c /\ c <= o.at + o.count - 1 /\ o.at + o.count - 1 \in Int
    BY CellNumbers DEF Span, Cells, IsOp
  <2>2. c \div block_size \in Int /\ o.at \div block_size <= c \div block_size
        /\ c \div block_size <= (o.at + o.count - 1) \div block_size
        /\ o.at \div block_size \in Int
    BY <2>1, InBlock, BlockOrder DEF DeviceInv, IsOp
  <2>3. QED
    BY <2>1, <2>2 DEF LastBlock
<1>6. QED
  BY <1>1, <1>2, <1>3, <1>4, <1>5

(* No step but a write changes what a flush would leave, but where the     *)
(* stream loses it, and nothing gets to the medium, or back, that was not  *)
(* there, in the stream or in the cache.                                   *)
Held(c, v) == v = disk[c] \/ v = Settled[c] \/ v = Flushed[c]
Contained  == \A c \in Cells : Held(c, disk'[c]) /\ Held(c, Settled'[c]) /\ Held(c, Flushed'[c])
Steady     == lost \subseteq lost' /\ \A c \in Cells : c \in lost' \/ Flushed'[c] = Flushed[c]

LEMMA FlushedIs ==
  ASSUME DeviceInv
  PROVE  /\ DOMAIN Settled = Cells /\ DOMAIN Flushed = Cells
         /\ \A c \in Cells : /\ Settled[c] = IF c \in DOMAIN held THEN held[c] ELSE disk[c]
                             /\ Flushed[c] = IF cache_state = "DIRTY" /\ c \in DOMAIN cache
                                             THEN cache[c] ELSE Settled[c]
BY DEF DeviceInv, Flushed, Settled, Over

LEMMA EmptyDomain == DOMAIN Empty = {}
BY DEF Empty

(* A stream that holds nothing, and the cache of a clean block.            *)
LEMMA EmptyIs ==
  ASSUME NEW d
  PROVE  DOMAIN Empty = {} /\ (DOMAIN Over(Empty, d) = DOMAIN d)
         /\ \A c \in DOMAIN d : Over(Empty, d)[c] = d[c]
BY DEF Over, Empty

LEMMA SettledNext ==
  ASSUME DOMAIN disk' = Cells, Cells' = Cells, held' = Empty
  PROVE  /\ DOMAIN Settled' = Cells /\ \A c \in Cells : Settled'[c] = disk'[c]
         /\ cache_state' = "CLEAN" => \A c \in Cells : Flushed'[c] = disk'[c]
BY EmptyIs DEF Settled, Flushed, Over

(* The same of the next state.                                             *)
LEMMA FlushedNext ==
  ASSUME DeviceInv'
  PROVE  /\ DOMAIN Flushed' = Cells'
         /\ \A c \in Cells' : Flushed'[c] = IF cache_state' = "DIRTY" /\ c \in DOMAIN cache'
                                           THEN cache'[c] ELSE Settled'[c]
BY DEF DeviceInv, Flushed, Settled, Over

LEMMA CacheIs ==
  ASSUME DeviceInv, Good, NEW b
  PROVE  /\ DOMAIN DiskWith(b) = Cells /\ DOMAIN HeldWith(b) \subseteq Cells
         /\ DOMAIN CacheWith(b) = Block(b) /\ Block(b) \subseteq Cells
         /\ \A c \in Block(b) : CacheWith(b)[c] = Flushed[c]
<1>1. \A x \in DOMAIN cache : cache[x] = Flushed[x]
  BY DEF Good
<1>2. Block(b) \subseteq Cells
  BY DEF Block, CellsIn, DeviceInv
<1>3. CASE cached_block = b
  <2>1. CacheWith(b) = cache /\ DiskWith(b) = disk /\ HeldWith(b) = held /\ DOMAIN cache = Block(b)
    BY <1>3 DEF CacheWith, DiskWith, HeldWith, Good
  <2>2. QED
    BY <1>1, <1>2, <2>1 DEF DeviceInv
<1>4. CASE cached_block # b
  <2>1. CacheWith(b) = [c \in Block(b) |-> Flushed[c]] /\ DiskWith(b) = Flushed /\ HeldWith(b) = Empty
    BY <1>4 DEF CacheWith, DiskWith, HeldWith
  <2>2. DOMAIN Empty = {}
    BY EmptyIs
  <2>3. QED
    BY <1>2, <2>1, <2>2, FlushedIs
<1>5. QED
  BY <1>3, <1>4

(* Reading a block: what is read is what a flush would leave.              *)
LEMMA ReadStep ==
  ASSUME CountInv, DeviceInv, Good, NEW o, IsOp(o), _device_read(o), scenario' = scenario
  PROVE  /\ DeviceInv' /\ Good' /\ block_size' = block_size
         /\ Contained /\ \A c \in Cells : Flushed'[c] = Flushed[c]
         /\ DOMAIN buffer' = DOMAIN buffer \cup Chunk(o)
         /\ \A c \in DOMAIN buffer' : buffer'[c] = IF c \in Chunk(o) THEN Flushed[c] ELSE buffer[c]
<1> DEFINE b == BlockNow(o)
<1>1. b \in Int /\ Chunk(o) \subseteq Block(b)
  BY ChunkIs DEF Chunk
<1>2. /\ disk' = DiskWith(b) /\ held' = HeldWith(b) /\ cache' = CacheWith(b) /\ cached_block' = b
      /\ cache_state' = (IF cached_block = b THEN cache_state ELSE "CLEAN")
      /\ block_size' = block_size
      /\ buffer' = [c \in DOMAIN buffer \cup Chunk(o) |->
                      IF c \in Chunk(o) THEN CacheWith(b)[c] ELSE buffer[c]]
  BY DEF _device_read
<1> HIDE DEF b
<1>3. DOMAIN disk' = Cells /\ DOMAIN held' \subseteq Cells /\ DOMAIN disk = Cells /\ Cells' = Cells
  BY <1>2, CacheIs DEF DeviceInv, Cells, Original
<1>4. Block(cached_block)' = Block(b)
  BY <1>2, <1>3 DEF Block, CellsIn
<1>5. DeviceInv'
  BY <1>1, <1>2, <1>3, CacheIs DEF DeviceInv
<1>6. DOMAIN cache' = Block(b) /\ (\A c \in Block(b) : cache'[c] = Flushed[c]) /\ Block(b) \subseteq Cells
  BY <1>2, CacheIs
<1>7. Contained /\ \A c \in Cells : Flushed'[c] = Flushed[c]
  <2>1. CASE cached_block = b
    <3>1. /\ disk' = disk /\ held' = held /\ cache' = cache /\ cache_state' = cache_state
      BY <1>2, <2>1 DEF DiskWith, HeldWith, CacheWith
    <3>2. Settled' = Settled /\ Flushed' = Flushed
      BY <3>1 DEF Settled, Flushed, Over
    <3>3. QED
      BY <3>1, <3>2 DEF Contained, Held
  <2>2. CASE cached_block # b
    <3>1. disk' = Flushed /\ held' = Empty /\ cache_state' = "CLEAN"
      BY <1>2, <2>2 DEF DiskWith, HeldWith, CacheWith
    <3>2. QED
      BY <1>3, <3>1, SettledNext DEF Contained, Held
  <2>3. QED
    BY <2>1, <2>2
<1>8. Good'
  BY <1>4, <1>6, <1>7 DEF Good
<1>9. QED
  BY <1>1, <1>2, <1>5, <1>6, <1>7, <1>8, CacheIs

(* Writing a block changes what a flush would leave, there and only there. *)
LEMMA WriteStep ==
  ASSUME CountInv, DeviceInv, Good, NEW o, IsOp(o), _device_write(o), scenario' = scenario
  PROVE  /\ DeviceInv' /\ Good' /\ block_size' = block_size /\ lost' = lost
         /\ \A c \in Cells : Held(c, disk'[c]) /\ Held(c, Settled'[c])
         /\ \A c \in Cells : Flushed'[c] = IF c \in Chunk(o) THEN o.data[c] ELSE Flushed[c]
<1> DEFINE b == BlockNow(o)
<1>1. b \in Int /\ Chunk(o) \subseteq Block(b)
  BY ChunkIs DEF Chunk
<1>2. /\ disk' = DiskWith(b) /\ held' = HeldWith(b) /\ cached_block' = b /\ cache_state' = "DIRTY"
      /\ cache' = [c \in DOMAIN CacheWith(b) |-> IF c \in Chunk(o) THEN o.data[c] ELSE CacheWith(b)[c]]
      /\ block_size' = block_size /\ lost' = lost
  BY DEF _device_write
<1> HIDE DEF b
<1>3. DOMAIN disk' = Cells /\ DOMAIN held' \subseteq Cells /\ Cells' = Cells
  BY <1>2, CacheIs DEF Cells, Original
<1>4. Block(cached_block)' = Block(b)
  BY <1>2, <1>3 DEF Block, CellsIn, DeviceInv
<1>5. DOMAIN cache' = Block(b) /\ Block(b) \subseteq Cells
      /\ \A c \in Block(b) : cache'[c] = IF c \in Chunk(o) THEN o.data[c] ELSE Flushed[c]
  BY <1>2, CacheIs
<1>6. DeviceInv'
  BY <1>1, <1>2, <1>3, <1>5 DEF DeviceInv
<1>7. DOMAIN Flushed' = Cells
      /\ \A c \in Cells : Flushed'[c] = IF c \in Block(b) THEN cache'[c] ELSE Settled'[c]
  BY <1>2, <1>3, <1>5, <1>6, FlushedNext
<1>8. /\ \A c \in Cells : Held(c, disk'[c]) /\ Held(c, Settled'[c])
      /\ \A c \in Cells \ Block(b) : Settled'[c] = Flushed[c]
  <2>1. CASE cached_block = b
    <3>1. disk' = disk /\ held' = held /\ DOMAIN cache = Block(b)
      BY <1>2, <2>1 DEF DiskWith, HeldWith, Good
    <3>2. Settled' = Settled
      BY <3>1 DEF Settled, Over
    <3>3. QED
      BY <3>1, <3>2, FlushedIs DEF Held
  <2>2. CASE cached_block # b
    <3>1. disk' = Flushed /\ held' = Empty
      BY <1>2, <2>2 DEF DiskWith, HeldWith
    <3>2. \A c \in Cells : Settled'[c] = Flushed[c]
      BY <1>3, <3>1, SettledNext
    <3>3. QED
      BY <3>1, <3>2 DEF Held
  <2>3. QED
    BY <2>1, <2>2
<1>9. \A c \in Cells : Flushed'[c] = IF c \in Chunk(o) THEN o.data[c] ELSE Flushed[c]
  BY <1>1, <1>5, <1>7, <1>8
<1>10. Good'
  BY <1>4, <1>5, <1>7 DEF Good
<1>11. QED
  BY <1>2, <1>6, <1>8, <1>9, <1>10

(* What the stream loses is noted, and nothing else changes.               *)
LEMMA LoseStep ==
  ASSUME NEW d, NEW pending, DOMAIN d = Cells, DOMAIN pending \subseteq Cells, Cells' = Cells,
         Lose(d, pending)
  PROVE  /\ DOMAIN disk' = Cells /\ DOMAIN held' \subseteq Cells /\ lost \subseteq lost'
         /\ \A c \in Cells : disk'[c] = d[c] /\ Settled'[c] = d[c]
         /\ \A c \in Cells : c \in lost' \/ d[c] = Over(pending, d)[c]
<1>1. disk' = d /\ held' = Empty /\ lost' = lost \cup {c \in DOMAIN pending : pending[c] # d[c]}
  BY DEF Lose
<1>2. DOMAIN held' = {}
  BY <1>1, EmptyIs
<1>3. \A c \in Cells : Over(pending, d)[c] = IF c \in DOMAIN pending THEN pending[c] ELSE d[c]
  BY DEF Over
<1>4. QED
  BY <1>1, <1>2, <1>3, SettledNext

LEMMA FlushStep ==
  ASSUME DeviceInv, Flush, Cells' = Cells
  PROVE  /\ DOMAIN disk' = Cells /\ DOMAIN held' \subseteq Cells /\ lost' = lost
         /\ \A c \in Cells : Held(c, disk'[c]) /\ Settled'[c] = Flushed[c]
<1>1. lost' = lost
  BY DEF Flush
<1>2. CASE cache_state = "CLEAN" /\ UNCHANGED <<disk, held>>
  <2>1. Settled' = Settled /\ Flushed = Settled
    BY <1>2 DEF Settled, Flushed, Over
  <2>2. QED
    BY <1>1, <1>2, <2>1 DEF DeviceInv, Held
<1>3. CASE disk' = Flushed /\ held' = Empty
  <2>1. DOMAIN held' = {} /\ DOMAIN disk' = Cells
    BY <1>3, EmptyIs, FlushedIs
  <2>2. QED
    BY <1>1, <1>3, <2>1, SettledNext DEF Held
<1>4. CASE cache_state = "DIRTY" /\ disk' = Settled /\ held' = cache
  <2>1. DOMAIN disk' = Cells /\ DOMAIN held' \subseteq Cells
    BY <1>4, FlushedIs DEF DeviceInv
  <2>2. Settled' = Flushed
    BY <1>4 DEF Settled, Flushed
  <2>3. QED
    BY <1>1, <1>4, <2>1, <2>2 DEF Held
<1>5. QED
  BY <1>2, <1>3, <1>4 DEF Flush

LEMMA FlushFails ==
  ASSUME DeviceInv, Flush_fails, Cells' = Cells
  PROVE  /\ DOMAIN disk' = Cells /\ DOMAIN held' \subseteq Cells /\ lost \subseteq lost'
         /\ cache_state = "DIRTY"
         /\ \A c \in Cells : /\ disk'[c] = disk[c] \/ disk'[c] = Settled[c]
                             /\ Settled'[c] = disk'[c]
                             /\ c \in lost' \/ Settled'[c] = Settled[c]
<1>1. CASE Lose(disk, held)
  BY <1>1, LoseStep DEF Flush_fails, DeviceInv, Settled
<1>2. CASE disk' = Settled /\ held' = Empty /\ UNCHANGED lost
  <2>1. DOMAIN held' = {} /\ DOMAIN disk' = Cells
    BY <1>2, EmptyIs, FlushedIs
  <2>2. QED
    BY <1>2, <2>1, SettledNext DEF Flush_fails
<1>3. QED
  BY <1>1, <1>2 DEF Flush_fails

(* A fault loses nothing that was written but what it notes, whatever it   *)
(* leaves in the cache.                                                    *)
LEMMA FlushFailsStep ==
  ASSUME DeviceInv, device_flush_cache_fails, scenario' = scenario
  PROVE  DeviceInv' /\ Steady /\ Contained /\ block_size' = block_size
<1>1. /\ UNCHANGED <<block_size, cache, cached_block, cache_state>> /\ Flush_fails /\ Cells' = Cells
  BY DEF device_flush_cache_fails, Cells, Original
<1>2. DeviceInv'
  BY <1>1, FlushFails DEF DeviceInv
<1>3. ASSUME NEW c \in Cells
      PROVE  /\ Held(c, disk'[c]) /\ Held(c, Settled'[c]) /\ Held(c, Flushed'[c])
             /\ c \in lost' \/ Flushed'[c] = Flushed[c]
  <2>1. Flushed'[c] = IF c \in DOMAIN cache THEN cache[c] ELSE Settled'[c]
    BY <1>1, <1>2, FlushFails, FlushedNext
  <2>2. Flushed[c] = IF c \in DOMAIN cache THEN cache[c] ELSE Settled[c]
    BY <1>1, FlushFails, FlushedIs
  <2>3. QED
    BY <1>1, <2>1, <2>2, FlushFails DEF Held
<1>4. lost \subseteq lost'
  BY <1>1, FlushFails
<1>5. QED
  BY <1>1, <1>2, <1>3, <1>4 DEF Steady, Contained

LEMMA FaultStep ==
  ASSUME DeviceInv, NEW b, device_cache_block_fails(b), scenario' = scenario
  PROVE  DeviceInv' /\ Steady /\ Contained /\ block_size' = block_size
<1>1. Cells' = Cells
  BY DEF Cells, Original
<1>2. CASE /\ \/ cache_state = "CLEAN" /\ Lose(disk, held)
              \/ cache_state = "DIRTY" /\ Lose(Settled, cache)
           /\ cache_state' = "CLEAN"
           /\ UNCHANGED <<device_size, block_size, cache, cached_block>>
  <2>1. /\ DOMAIN disk' = Cells /\ DOMAIN held' \subseteq Cells /\ lost \subseteq lost'
        /\ \A c \in Cells : /\ disk'[c] = disk[c] \/ disk'[c] = Settled[c]
                            /\ Settled'[c] = disk'[c]
                            /\ c \in lost' \/ disk'[c] = Flushed[c]
    <3>1. CASE cache_state = "CLEAN" /\ Lose(disk, held)
      <4>1. Flushed = Over(held, disk)
        BY <3>1 DEF Flushed, Settled
      <4>2. QED
        BY <1>1, <3>1, <4>1, LoseStep DEF DeviceInv
    <3>2. CASE cache_state = "DIRTY" /\ Lose(Settled, cache)
      <4>1. Flushed = Over(cache, Settled) /\ DOMAIN Settled = Cells
        BY <3>2, FlushedIs DEF Flushed
      <4>2. QED
        BY <1>1, <3>2, <4>1, LoseStep DEF DeviceInv
    <3>3. QED
      BY <1>2, <3>1, <3>2
  <2>2. Flushed' = Settled'
    BY <1>2 DEF Flushed
  <2>3. DeviceInv'
    BY <1>1, <1>2, <2>1 DEF DeviceInv
  <2>4. QED
    BY <1>2, <2>1, <2>2, <2>3 DEF Steady, Contained, Held
<1>3. CASE /\ disk' = Flushed /\ held' = Empty /\ cache_state' = "CLEAN"
           /\ cache' \in {cache, [c \in DOMAIN cache |-> Garbage]}
           /\ UNCHANGED <<device_size, lost, block_size, cached_block>>
  <2>1. DOMAIN cache' = DOMAIN cache /\ DOMAIN held' = {} /\ DOMAIN disk' = Cells
    BY <1>3, EmptyIs, FlushedIs
  <2>2. \A c \in Cells : disk'[c] = Flushed[c] /\ Settled'[c] = Flushed[c] /\ Flushed'[c] = Flushed[c]
    BY <1>1, <1>3, <2>1, SettledNext
  <2>3. DeviceInv'
    BY <1>1, <1>3, <2>1 DEF DeviceInv
  <2>4. QED
    BY <1>3, <2>2, <2>3 DEF Steady, Contained, Held
<1>4. QED
  BY <1>2, <1>3, FlushFailsStep DEF device_cache_block_fails

(* A device that has just been opened, and one whose cache was dropped.    *)
LEMMA InitStep ==
  ASSUME CountInv, DeviceInv, device_init, scenario' = scenario
  PROVE  /\ DeviceInv' /\ disk' = disk /\ held' = held /\ Settled' = Settled
         /\ held = Empty => Good' /\ \A c \in Cells : Flushed'[c] = disk[c]
<1>1. PICK n \in DOMAIN guesses :
        /\ Probe(n)
        /\ cache' = [c \in {d \in DOMAIN disk : d < guesses[n]} |-> disk[c]]
        /\ cached_block' = 0 /\ cache_state' = "CLEAN"
        /\ UNCHANGED <<disk, device_size, held, lost>>
  BY DEF device_init
<1>2. block_size' = guesses[n] /\ guesses[n] \in {512, 2048, 4096}
  BY <1>1 DEF Probe, guesses
<1>3. Settled' = Settled /\ Flushed' = Settled' /\ Cells' = Cells
  BY <1>1 DEF Flushed, Settled, Over, Cells, Original
<1>4. DeviceInv'
  BY <1>1, <1>2, <1>3 DEF DeviceInv
<1>5. Cells \subseteq Nat
  BY CellNumbers
<1>6. \A c : c \in Block(cached_block)' <=> c \in Cells /\ Within(c, 0, guesses[n])
  BY <1>1, <1>2 DEF Block, CellsIn, DeviceInv, Within
<1>7. Block(cached_block)' = {c \in DOMAIN disk : c < guesses[n]}
  <2>1. ASSUME NEW c \in Cells PROVE Within(c, 0, guesses[n]) <=> c < guesses[n]
    <3>1. c \in Nat
      BY <1>5
    <3>2. QED
      BY <1>2, <3>1, FirstBlocks
  <2>2. QED
    BY <1>6, <2>1 DEF DeviceInv
<1>8. held = Empty => \A c \in Cells : Flushed'[c] = disk[c]
  BY <1>3, EmptyIs DEF Settled, DeviceInv
<1>9. held = Empty => Good'
  <2>1. SUFFICES ASSUME held = Empty PROVE Good'
    OBVIOUS
  <2>2. DOMAIN cache' \subseteq Cells /\ \A c \in DOMAIN cache' : cache'[c] = disk[c]
    BY <1>1 DEF DeviceInv
  <2>3. DOMAIN cache' = Block(cached_block)'
    BY <1>1, <1>7
  <2>4. \A c \in DOMAIN cache' : cache'[c] = Flushed'[c]
    BY <1>8, <2>1, <2>2
  <2>5. QED
    BY <2>3, <2>4 DEF Good
<1>10. QED
  BY <1>1, <1>3, <1>4, <1>8, <1>9

LEMMA DropStep ==
  ASSUME CountInv, scenario' = scenario, DOMAIN disk' = Cells, DOMAIN held' \subseteq Cells,
         block_size' \in {512, 2048, 4096},
         cache' = Empty, cached_block' = Nowhere, cache_state' = "CLEAN"
  PROVE  DeviceInv' /\ Good' /\ Flushed' = Settled'
<1>1. Flushed' = Settled' /\ Cells' = Cells
  BY DEF Flushed, Cells, Original
<1>2. DOMAIN cache' = {}
  BY DEF Empty
<1>3. DeviceInv'
  BY <1>1, <1>2 DEF DeviceInv, Nowhere
<1>4. Cells \subseteq Nat
  BY CellNumbers
<1>5. \A c : c \in Block(cached_block)' <=> c \in Cells /\ Within(c, -1, block_size')
  BY DEF Block, CellsIn, Nowhere, Within
<1>6. Block(cached_block)' = {}
  <2>1. \A c \in Cells : ~ Within(c, -1, block_size')
    <3>1. SUFFICES ASSUME NEW c \in Cells PROVE ~ Within(c, -1, block_size')
      OBVIOUS
    <3>2. c \in Nat
      BY <1>4
    <3>3. QED
      BY <3>2, FirstBlocks
  <2>2. QED
    BY <1>5, <2>1
<1>7. QED
  BY <1>1, <1>2, <1>3, <1>6 DEF Good

-----------------------------------------------------------------------------
(* The invariant, step by step.                                            *)
LEMMA CallIs ==
  ASSUME CountInv, k <= Len(Calls)
  PROVE  IsOp(Calls[k])
BY PlanCalls DEF CountInv, PlanInv, PlaceInv, FlagInv, IsOps

LEMMA CallIsNext ==
  ASSUME CountInv', k' <= Len(Calls')
  PROVE  IsOp(Calls'[k'])
BY PlanCalls DEF CountInv, PlanInv, PlaceInv, IsOps

LEMMA EntryIs ==
  ASSUME CountInv, NEW d, IsLog(d, Log), k <= Len(Log)
  PROVE  IsOp(Log[k]) /\ DOMAIN Log[k].data = Span(d, Log[k])
BY LogIn DEF CountInv, PlanInv, PlaceInv, FlagInv

LEMMA LengthIs ==
  ASSUME CountInv
  PROVE  Len(Calls) \in Nat
BY PlanCalls, OpsIn DEF CountInv, PlanInv, PlaceInv, FlagInv

LEMMA Begin ==
  ASSUME NEW size \in {512, 2048, 4096}, NEW d, DOMAIN d \subseteq Nat, NEW o, IsOp(o),
         NEW c \in Span(d, o)
  PROVE  /\ c \div size \in Int /\ o.at \div size \in Int /\ o.at \div size + 0 <= c \div size
         /\ ~ (c \div size < o.at \div size + 0)
<1>1. c \in Int /\ o.at \in Int /\ o.at <= c
  BY DEF Span, IsOp
<1>2. c \div size \in Int /\ o.at \div size \in Int /\ o.at \div size <= c \div size
  BY <1>1, InBlock, BlockOrder
<1>3. QED
  BY <1>2

LEMMA CountInit ==
  ASSUME Init
  PROVE  CountInv
<1>1. PlanInv
  BY DEF Init, PlanInv, Calls
<1>2. PlaceInv
  BY DEF Init, PlaceInv
<1>3. FlagInv
  BY DEF Init, FlagInv
<1>4. QED
  BY <1>1, <1>2, <1>3 DEF CountInv

LEMMA PlanStep ==
  ASSUME PlanInv, Next
  PROVE  /\ PlanInv' /\ scenario' = scenario /\ plan' = plan /\ Calls' = Calls
         /\ Original' = Original /\ Cells' = Cells
<1> SUFFICES scenario' = scenario /\ plan' = plan
  BY DEF PlanInv, Calls, Original, Cells
<1>1. CASE start
  BY <1>1 DEF start
<1>2. CASE read_block
  BY <1>2 DEF read_block, Installing, Advance
<1>3. CASE save_block
  BY <1>3 DEF save_block, Installing, Advance
<1>4. CASE write_block
  BY <1>4 DEF write_block, Installing, Advance
<1>5. CASE call_fails
  BY <1>5 DEF call_fails, Installing
<1>6. CASE install_done
  BY <1>6 DEF install_done
<1>7. CASE undo_install
  BY <1>7 DEF undo_install, BeginUninstall
<1>8. CASE store_uninstall_data
  BY <1>8 DEF store_uninstall_data
<1>9. CASE run_uninstall
  BY <1>9 DEF run_uninstall
<1>10. CASE load_uninstall_data
  BY <1>10 DEF load_uninstall_data, BeginUninstall
<1>11. CASE undo_block
  BY <1>11 DEF undo_block, Undoing
<1>12. CASE undo_fails
  BY <1>12 DEF undo_fails, Undoing
<1>13. CASE try_again
  BY <1>13 DEF try_again
<1>14. CASE undo_done
  BY <1>14 DEF undo_done
<1>15. CASE close
  BY <1>15 DEF close
<1>16. QED
  BY <1>1, <1>2, <1>3, <1>4, <1>5, <1>6, <1>7, <1>8, <1>9, <1>10, <1>11, <1>12, <1>13, <1>14, <1>15
     DEF Next

LEMMA PlaceStep ==
  ASSUME PlaceInv, Next
  PROVE  PlaceInv'
<1>1. CASE start
  BY <1>1 DEF start, PlaceInv
<1>2. CASE read_block
  BY <1>2 DEF read_block, Installing, Advance, PlaceInv
<1>3. CASE save_block
  BY <1>3 DEF save_block, Installing, Advance, PlaceInv
<1>4. CASE write_block
  <2>1. /\ progress' = 0 \/ progress' = progress + 1
        /\ k' = k + 1 \/ k' = k
    BY <1>4 DEF write_block, Advance
  <2>2. QED
    BY <2>1 DEF PlaceInv
<1>5. CASE call_fails
  BY <1>5 DEF call_fails, Installing, PlaceInv
<1>6. CASE install_done
  BY <1>6 DEF install_done, PlaceInv
<1>7. CASE undo_install
  BY <1>7 DEF undo_install, BeginUninstall, PlaceInv
<1>8. CASE store_uninstall_data
  BY <1>8 DEF store_uninstall_data, PlaceInv
<1>9. CASE run_uninstall
  BY <1>9 DEF run_uninstall, PlaceInv
<1>10. CASE load_uninstall_data
  BY <1>10 DEF load_uninstall_data, BeginUninstall, PlaceInv
<1>11. CASE undo_block
  BY <1>11 DEF undo_block, Undoing, PlaceInv
<1>12. CASE undo_fails
  BY <1>12 DEF undo_fails, Undoing, PlaceInv
<1>13. CASE try_again
  BY <1>13 DEF try_again, PlaceInv
<1>14. CASE undo_done
  BY <1>14 DEF undo_done, PlaceInv
<1>15. CASE close
  BY <1>15 DEF close, PlaceInv
<1>16. QED
  BY <1>1, <1>2, <1>3, <1>4, <1>5, <1>6, <1>7, <1>8, <1>9, <1>10, <1>11, <1>12, <1>13, <1>14, <1>15
     DEF Next

LEMMA FlagStep ==
  ASSUME FlagInv, Next
  PROVE  FlagInv'
<1>1. CASE start
  BY <1>1 DEF start, FlagInv
<1>2. CASE read_block
  BY <1>2 DEF read_block, Installing, Advance, FlagInv
<1>3. CASE save_block
  BY <1>3 DEF save_block, Installing, Advance, FlagInv
<1>4. CASE write_block
  BY <1>4 DEF write_block, Installing, Advance, FlagInv
<1>5. CASE call_fails
  BY <1>5 DEF call_fails, Installing, FlagInv
<1>6. CASE install_done
  BY <1>6 DEF install_done, FlagInv
<1>7. CASE undo_install
  BY <1>7 DEF undo_install, BeginUninstall, FlagInv
<1>8. CASE store_uninstall_data
  BY <1>8 DEF store_uninstall_data, FlagInv
<1>9. CASE run_uninstall
  BY <1>9 DEF run_uninstall, FlagInv
<1>10. CASE load_uninstall_data
  BY <1>10 DEF load_uninstall_data, BeginUninstall, FlagInv
<1>11. CASE undo_block
  BY <1>11 DEF undo_block, Undoing, FlagInv
<1>12. CASE undo_fails
  BY <1>12 DEF undo_fails, Undoing, FlagInv
<1>13. CASE try_again
  BY <1>13 DEF try_again, FlagInv
<1>14. CASE undo_done
  BY <1>14 DEF undo_done, FlagInv
<1>15. CASE close
  BY <1>15 DEF close, FlagInv
<1>16. QED
  BY <1>1, <1>2, <1>3, <1>4, <1>5, <1>6, <1>7, <1>8, <1>9, <1>10, <1>11, <1>12, <1>13, <1>14, <1>15
     DEF Next

(* Where a step leads leaves most of the invariant nothing to say.         *)
LEMMA ToInstall ==
  ASSUME pc' = "install"
  PROVE  StartInv' /\ CleanupInv' /\ FileInv' /\ UndoInv' /\ CloseInv' /\ Undone'
BY DEF StartInv, CleanupInv, FileInv, UndoInv, CloseInv, Undone, SaysUndone

LEMMA ToCleanup ==
  ASSUME pc' = "cleanup"
  PROVE  CacheInv' /\ StartInv' /\ InstallInv' /\ SavedInv' /\ FileInv' /\ UndoInv' /\ CloseInv' /\ Undone'
BY DEF CacheInv, StartInv, InstallInv, SavedInv, FileInv, UndoInv, CloseInv, Undone, SaysUndone

LEMMA ToUndo ==
  ASSUME pc' \in {"undo", "retry"}
  PROVE  StartInv' /\ InstallInv' /\ SavedInv' /\ CleanupInv' /\ FileInv' /\ CloseInv' /\ Undone'
BY DEF StartInv, InstallInv, SavedInv, CleanupInv, FileInv, CloseInv, Undone, SaysUndone

LEMMA ToClose ==
  ASSUME pc' = "close"
  PROVE  CacheInv' /\ StartInv' /\ InstallInv' /\ SavedInv' /\ CleanupInv' /\ UndoInv' /\ Undone'
BY DEF CacheInv, StartInv, InstallInv, SavedInv, CleanupInv, UndoInv, Undone, SaysUndone

LEMMA ToExit ==
  ASSUME pc' = "exit"
  PROVE  CacheInv' /\ StartInv' /\ InstallInv' /\ SavedInv' /\ CleanupInv' /\ UndoInv' /\ CloseInv'
BY DEF CacheInv, StartInv, InstallInv, SavedInv, CleanupInv, UndoInv, CloseInv

LEMMA StepStart ==
  ASSUME IInv, CountInv', scenario' = scenario, Calls' = Calls, Original' = Original, Cells' = Cells,
         start
  PROVE  IInv'
<1>1. /\ CountInv /\ DeviceInv /\ disk = Original /\ held = Empty /\ torn = {} /\ Log = << >> /\ progress = 0
      /\ writing = FALSE /\ ok = FALSE
  BY DEF start, IInv, StartInv, CountInv, PlanInv, PlaceInv, FlagInv
<1>2. CASE device_init /\ pc' = "install"
  <2>1. /\ DeviceInv' /\ Good' /\ disk' = disk
        /\ \A c \in Cells : Settled'[c] = disk[c] /\ Flushed'[c] = disk[c]
    <3>1. \A c \in Cells : Settled[c] = disk[c]
      BY <1>1, EmptyIs DEF Settled, DeviceInv
    <3>2. QED
      BY <1>1, <1>2, <3>1, InitStep
  <2>2. /\ Log' = << >> /\ writing' = FALSE /\ torn' = {} /\ progress' = 0
    BY <1>1 DEF start, Log
  <2>3. CacheInv'
    BY <2>1 DEF CacheInv
  <2>4. InstallInv'
    BY <1>1, <2>1, <2>2, LogEmpty DEF InstallInv, Pristine
  <2>5. SavedInv'
    <3>1. SUFFICES ASSUME k' <= Len(Calls'), NEW c \in Span(Original', Calls'[k'])
                   PROVE  ~ (c \div block_size' < BlockNow(Calls[k])')
      BY <2>2 DEF SavedInv
    <3>2. IsOp(Calls'[k']) /\ k' = k
      BY <1>1, <3>1, CallIs DEF start
    <3>3. block_size' \in {512, 2048, 4096} /\ DOMAIN Original' \subseteq Nat
      BY <1>1, <2>1, CellNumbers DEF DeviceInv, Cells
    <3>4. BlockNow(Calls[k])' = Calls'[k'].at \div block_size' + 0
      BY <2>2 DEF BlockNow
    <3>5. QED
      BY <3>1, <3>2, <3>3, <3>4, Begin
  <2>6. QED
    BY <1>2, <2>1, <2>3, <2>4, <2>5, ToInstall DEF IInv
<1>3. CASE device_init_fails /\ pc' = "exit"
  <2>1. disk' = disk /\ DeviceInv' /\ ok' = FALSE /\ later' = FALSE
    BY <1>1, <1>3 DEF start, device_init_fails, DeviceInv, CountInv, PlanInv, PlaceInv, FlagInv
  <2>2. FileInv' /\ Undone'
    BY <1>1, <1>3, <2>1 DEF FileInv, Undone, SaysUndone, Original
  <2>3. QED
    BY <1>3, <2>1, <2>2, ToExit DEF IInv
<1>4. QED
  BY <1>2, <1>3 DEF start

(* The install: what the log does not know of is as it was.                *)
LEMMA StepRead ==
  ASSUME IInv, CountInv', scenario' = scenario, Calls' = Calls, Original' = Original, Cells' = Cells,
         read_block
  PROVE  IInv'
<1> DEFINE o == Calls[k]
<1>1. CountInv /\ DeviceInv /\ CacheInv /\ InstallInv /\ pc = "install" /\ Good
  BY DEF read_block, Installing, IInv, CacheInv
<1>2. k <= Len(Calls) /\ IsOp(o) /\ o.op = "read"
  BY <1>1, CallIs DEF read_block, Installing
<1>3. /\ pc' = "install" /\ torn' = torn /\ Log' = Log /\ writing' = writing
      /\ (k' = k \/ (k' = k + 1 /\ progress' = 0)) /\ _device_read(o)
  BY <1>1 DEF read_block, Advance, Log
<1>4. writing = FALSE
  BY <1>1, <1>2 DEF InstallInv, CountInv, FlagInv
<1>5. DeviceInv' /\ Good' /\ Contained
  BY <1>1, <1>2, <1>3, ReadStep
<1>6. InstallInv'
  BY <1>1, <1>3, <1>4, <1>5 DEF InstallInv, Contained, Held, Pristine, Busy
<1>7. SavedInv'
  <2>1. SUFFICES ASSUME k' <= Len(Calls'), Calls'[k'].op = "write", NEW c \in Span(Original', Calls'[k'])
                 PROVE  ~ (c \div block_size' < BlockNow(Calls[k])')
    BY <1>3, <1>4 DEF SavedInv
  <2>2. k' = k + 1 /\ progress' = 0
    BY <1>2, <1>3, <2>1
  <2>3. IsOp(Calls'[k'])
    BY <2>1, CallIsNext
  <2>4. block_size' \in {512, 2048, 4096} /\ DOMAIN Original' \subseteq Nat
    BY <1>1, <1>5, CellNumbers DEF DeviceInv, Cells
  <2>5. BlockNow(Calls[k])' = Calls'[k'].at \div block_size' + 0
    BY <2>2 DEF BlockNow
  <2>6. ~ (c \div block_size' < Calls'[k'].at \div block_size' + 0)
    BY <2>1, <2>3, <2>4, Begin
  <2>7. QED
    BY <2>5, <2>6
<1>8. QED
  BY <1>3, <1>5, <1>6, <1>7, ToInstall DEF IInv, CacheInv

LEMMA StepSave ==
  ASSUME IInv, CountInv', scenario' = scenario, Calls' = Calls, Original' = Original, Cells' = Cells,
         save_block
  PROVE  IInv'
<1> DEFINE o == Calls[k]
<1>1. CountInv /\ DeviceInv /\ CacheInv /\ InstallInv /\ SavedInv /\ pc = "install" /\ Good
  BY DEF save_block, Installing, IInv, CacheInv
<1>2. k <= Len(Calls) /\ IsOp(o) /\ o.op = "write" /\ writing = FALSE
  BY <1>1, CallIs DEF save_block, Installing, CountInv, FlagInv
<1>3. /\ pc' = "install" /\ torn' = torn /\ Log' = Log /\ k' = k /\ _device_read(o)
      /\ LastBlock(o) => writing' = TRUE
      /\ ~ LastBlock(o) => writing' = FALSE /\ progress' = progress + 1
  BY <1>1, <1>2 DEF save_block, Advance, Log
<1>4. /\ DeviceInv' /\ Good' /\ Contained /\ block_size' = block_size
      /\ DOMAIN buffer' = DOMAIN buffer \cup Chunk(o)
      /\ \A c \in DOMAIN buffer' : buffer'[c] = IF c \in Chunk(o) THEN Flushed[c] ELSE buffer[c]
  BY <1>1, <1>2, <1>3, ReadStep
<1>5. InstallInv'
  BY <1>1, <1>2, <1>3, <1>4 DEF InstallInv, Contained, Held, Pristine, Busy
<1>6. ASSUME NEW c \in Span(Original, o), c \div block_size <= BlockNow(o)
      PROVE  Touched(Original, Log, c) \/ (c \in DOMAIN buffer' /\ buffer'[c] = Original[c])
  <2>1. c \in Cells /\ c \div block_size \in Int /\ BlockNow(o) \in Int
    BY <1>1, <1>2, ChunkIs
  <2>2. CASE c \in Chunk(o)
    BY <1>1, <1>2, <1>4, <2>1, <2>2 DEF InstallInv, Pristine, Busy
  <2>3. CASE c \notin Chunk(o)
    <3>1. c \div block_size # BlockNow(o)
      BY <1>1, <1>2, <2>3, ChunkIs
    <3>2. c \div block_size < BlockNow(o)
      BY <1>6, <2>1, <3>1
    <3>3. Touched(Original, Log, c) \/ (c \in DOMAIN buffer /\ buffer[c] = Original[c])
      BY <1>1, <1>2, <3>2 DEF SavedInv
    <3>4. QED
      BY <1>4, <2>3, <3>3
  <2>4. QED
    BY <2>2, <2>3
<1>7. SavedInv'
  <2>1. SUFFICES ASSUME NEW c \in Span(Original, o), writing' \/ c \div block_size' < BlockNow(Calls[k])'
                 PROVE  c \div block_size <= BlockNow(o)
    BY <1>3, <1>6 DEF SavedInv
  <2>2. /\ c \div block_size \in Int /\ BlockNow(o) \in Int
        /\ LastBlock(o) => c \div block_size <= BlockNow(o)
    BY <1>1, <1>2, ChunkIs
  <2>3. CASE ~ LastBlock(o)
    <3>1. BlockNow(Calls[k])' = o.at \div block_size + (progress + 1)
      BY <1>3, <1>4, <2>3 DEF BlockNow
    <3>2. BlockNow(o) = o.at \div block_size + progress
      BY DEF BlockNow
    <3>3. o.at \div block_size \in Int /\ progress \in Int
      BY <1>1, <1>2, InBlock DEF DeviceInv, CountInv, PlaceInv, IsOp
    <3>4. c \div block_size < BlockNow(Calls[k])'
      BY <1>3, <1>4, <2>1, <2>3
    <3> HIDE DEF o
    <3>5. QED
      BY <2>2, <3>1, <3>2, <3>3, <3>4
  <2>4. QED
    BY <2>2, <2>3
<1>8. QED
  BY <1>3, <1>4, <1>5, <1>7, ToInstall DEF IInv, CacheInv

LEMMA StepWrite ==
  ASSUME IInv, CountInv', scenario' = scenario, Calls' = Calls, Original' = Original, Cells' = Cells,
         write_block
  PROVE  IInv'
<1> DEFINE o == Calls[k]
           old == [c \in CellsOf(o) |-> buffer[c]]
           entry == Logged(o, old)
<1>1. CountInv /\ DeviceInv /\ CacheInv /\ InstallInv /\ SavedInv /\ pc = "install" /\ Good
  BY DEF write_block, Installing, IInv, CacheInv
<1>2. k <= Len(Calls) /\ IsOp(o) /\ writing = TRUE /\ o.op = "write" /\ IsLog(Original, Log)
  BY <1>1, CallIs DEF write_block, Installing, CountInv, FlagInv, InstallInv
<1>3. /\ pc' = "install" /\ torn' = torn /\ _device_write(o)
      /\ LastBlock(o) => /\ k' = k + 1 /\ writing' = FALSE /\ progress' = 0
                         /\ Log' = Append(Log, entry)
      /\ ~ LastBlock(o) => k' = k /\ writing' = writing /\ Log' = Log
  BY <1>1, <1>2 DEF write_block, Advance, Log
<1>4. /\ DeviceInv' /\ Good' /\ block_size' = block_size
      /\ \A c \in Cells : Held(c, disk'[c]) /\ Held(c, Settled'[c])
      /\ \A c \in Cells : Flushed'[c] = IF c \in Chunk(o) THEN o.data[c] ELSE Flushed[c]
  BY <1>1, <1>2, <1>3, WriteStep
<1>5. Busy = Span(Original, o) /\ CellsOf(o) = Span(Original, o) /\ Chunk(o) \subseteq Span(Original, o)
      /\ torn = {}
  BY <1>1, <1>2, ChunkIs DEF Busy, InstallInv, Chunk
<1>6. \A c \in Cells \ Busy :
        Touched(Original, Log, c) \/ (disk'[c] = Original[c] /\ Settled'[c] = Original[c] /\ Flushed'[c] = Original[c])
  BY <1>1, <1>4, <1>5 DEF InstallInv, Held, Pristine
<1>7. \A c \in Span(Original, o) :
        Touched(Original, Log, c) \/ (c \in DOMAIN buffer /\ buffer[c] = Original[c])
  BY <1>1, <1>2 DEF SavedInv
<1>8. CASE LastBlock(o)
  <2>1. entry.at = o.at /\ entry.count = o.count /\ entry.data = old
    BY DEF Logged
  <2>2. Span(Original, entry) = Span(Original, o) /\ IsOp(entry)
    BY <1>2, <2>1 DEF Span, IsOp
  <2>3. DOMAIN entry.data = Span(Original, entry) /\ \A c \in Span(Original, o) : entry.data[c] = buffer[c]
    BY <1>5, <2>1, <2>2
  <2>4. Log' = Append(Log, entry) /\ writing' = FALSE /\ k' = k + 1 /\ progress' = 0
    BY <1>3, <1>8
  <2> HIDE DEF entry, old
  <2>5. /\ IsLog(Original, Log')
        /\ \A c : Touched(Original, Log', c) <=> Touched(Original, Log, c) \/ c \in Span(Original, o)
    BY <1>2, <2>2, <2>3, <2>4, LogAppend
  <2>6. ASSUME NEW c \in Cells PROVE Remembers(Original, Log', c)
    <3>1. Remembers(Original, Log, c)
      BY <1>1, <2>6 DEF InstallInv
    <3>2. c \in Span(Original, entry) => Touched(Original, Log, c) \/ entry.data[c] = Original[c]
      BY <1>7, <2>2, <2>3
    <3>3. QED
      BY <1>2, <2>2, <2>3, <2>4, <3>1, <3>2, LogAppend
  <2>7. InstallInv'
    BY <1>3, <1>5, <1>6, <2>4, <2>5, <2>6 DEF InstallInv, Pristine
  <2>8. SavedInv'
    <3>1. SUFFICES ASSUME k' <= Len(Calls'), NEW c \in Span(Original', Calls'[k'])
                   PROVE  ~ (c \div block_size' < BlockNow(Calls[k])')
      BY <2>4 DEF SavedInv
    <3>2. IsOp(Calls'[k'])
      BY <3>1, CallIsNext
    <3>3. block_size' \in {512, 2048, 4096} /\ DOMAIN Original' \subseteq Nat
      BY <1>1, <1>4, CellNumbers DEF DeviceInv, Cells
    <3>4. BlockNow(Calls[k])' = Calls'[k'].at \div block_size' + 0
      BY <2>4 DEF BlockNow
    <3>5. ~ (c \div block_size' < Calls'[k'].at \div block_size' + 0)
      BY <3>1, <3>2, <3>3, Begin
    <3>6. QED
      BY <3>4, <3>5
  <2>9. QED
    BY <1>3, <1>4, <2>7, <2>8, ToInstall DEF IInv, CacheInv
<1>9. CASE ~ LastBlock(o)
  <2>1. Log' = Log /\ k' = k /\ writing' = writing /\ buffer' = buffer
    BY <1>3, <1>9 DEF _device_write
  <2>2. Busy' = Busy
    BY <2>1 DEF Busy
  <2>3. InstallInv'
    BY <1>1, <1>2, <1>3, <1>6, <2>1, <2>2 DEF InstallInv, Pristine
  <2>4. SavedInv'
    BY <1>7, <2>1 DEF SavedInv
  <2>5. QED
    BY <1>3, <1>4, <2>3, <2>4, ToInstall DEF IInv, CacheInv
<1>10. QED
  BY <1>8, <1>9

LEMMA StepFails ==
  ASSUME IInv, CountInv', scenario' = scenario, Calls' = Calls, Original' = Original, Cells' = Cells,
         call_fails
  PROVE  IInv'
<1> DEFINE o == Calls[k]
<1>1. CountInv /\ DeviceInv /\ InstallInv /\ pc = "install" /\ IsOp(o)
  BY CallIs DEF call_fails, Installing, IInv
<1>2. /\ torn' = IF writing THEN CellsOf(o) ELSE {}
      /\ pc' = "cleanup" /\ Log' = Log /\ ok' = ok
  BY DEF call_fails, Log
<1>3. torn' = Busy
  BY <1>1, <1>2, ChunkIs DEF Busy
<1>4. ok = FALSE
  BY <1>1 DEF CountInv, FlagInv
<1>5. DeviceInv' /\ Contained
  <2>1. CASE device_cache_block_fails(BlockNow(o))
    BY <1>1, <2>1, FaultStep
  <2>2. CASE UNCHANGED device_vars
    BY <1>1, <2>2 DEF device_vars, DeviceInv, Contained, Held, Settled, Flushed, Over
  <2>3. QED
    BY <2>1, <2>2 DEF call_fails
<1>6. CleanupInv'
  BY <1>1, <1>2, <1>3, <1>4, <1>5 DEF CleanupInv, InstallInv, Contained, Held, Pristine
<1>7. QED
  BY <1>2, <1>5, <1>6, ToCleanup DEF IInv

LEMMA StepDone ==
  ASSUME IInv, CountInv', scenario' = scenario, Calls' = Calls, Original' = Original, Cells' = Cells,
         install_done
  PROVE  IInv'
<1>1. CountInv /\ DeviceInv /\ InstallInv /\ pc = "install" /\ ~ (k <= Len(Calls))
  BY LengthIs DEF install_done, IInv, CountInv, PlaceInv
<1>2. pc' = "cleanup" /\ Log' = Log /\ torn' = torn
  BY DEF install_done, Log
<1>3. Busy = {} /\ torn = {}
  BY <1>1 DEF Busy, InstallInv
<1>4. DeviceInv' /\ \A c \in Cells : Held(c, disk'[c]) /\ Held(c, Settled'[c])
  <2>1. CASE UNCHANGED device_vars
    BY <1>1, <2>1 DEF device_vars, DeviceInv, Settled, Over, Held
  <2>2. CASE device_flush_cache
    <3>1. Flush /\ cache_state' = "CLEAN" /\ UNCHANGED <<block_size, cache, cached_block>>
      BY <2>2 DEF device_flush_cache
    <3>2. QED
      BY <1>1, <3>1, FlushStep DEF DeviceInv, Held
  <2>3. CASE device_flush_cache_fails
    BY <1>1, <2>3, FlushFailsStep DEF Contained
  <2>4. QED
    BY <2>1, <2>2, <2>3 DEF install_done
<1>5. CleanupInv'
  BY <1>1, <1>2, <1>3, <1>4 DEF CleanupInv, InstallInv, Held, Pristine
<1>6. QED
  BY <1>2, <1>4, <1>5, ToCleanup DEF IInv

-----------------------------------------------------------------------------
(* The undoing: every cell is as it was or still waits for an entry of the *)
(* log that knows.                                                         *)
LEMMA AllAwait ==
  ASSUME NEW size \in {512, 2048, 4096}, NEW d, DOMAIN d \subseteq Nat, NEW log, IsLog(d, log), NEW c,
         Touched(d, log, c)
  PROVE  Awaits(d, log, 1, 0, size, c)
<1>1. PICK j \in 1 .. Len(log) : c \in Span(d, log[j])
  BY DEF Touched
<1>2. 1 \in 1 .. Len(log) /\ Len(log) \in Nat
  BY <1>1, LogIn
<1>3. ASSUME j = 1 PROVE c \div size >= log[1].at \div size + 0
  <2>1. IsOp(log[1])
    BY <1>2, LogIn
  <2>2. QED
    BY <1>1, <1>3, <2>1, Begin
<1>4. QED
  BY <1>1, <1>2, <1>3 DEF Awaits

LEMMA NoneAwaits ==
  ASSUME NEW d, NEW log, IsLog(d, log), NEW n \in Int, ~ (n <= Len(log)), NEW done, NEW size, NEW c
  PROVE  ~ Awaits(d, log, n, done, size, c)
BY LogIn DEF Awaits

LEMMA StepUndoInstall ==
  ASSUME IInv, CountInv', scenario' = scenario, Calls' = Calls, Original' = Original, Cells' = Cells,
         undo_install
  PROVE  IInv'
<1>1. CountInv /\ DeviceInv /\ CleanupInv /\ pc = "cleanup"
  BY DEF undo_install, IInv
<1>2. /\ pc' = "undo" /\ Log' = Reverse(Log) /\ torn' = torn /\ disk' = disk /\ held' = held
      /\ block_size' = block_size
      /\ cache' = Empty /\ cached_block' = Nowhere /\ cache_state' = "CLEAN" /\ k' = 1 /\ progress' = 0
  BY DEF undo_install, BeginUninstall, LogToUndo, reverse_uninstall_data, Log
<1>3. DeviceInv' /\ Good' /\ Flushed' = Settled
  <2>1. Settled' = Settled
    BY <1>2 DEF Settled, Over
  <2>2. QED
    BY <1>1, <1>2, <2>1, DropStep DEF DeviceInv
<1>4. IsLog(Original, Log)
  BY <1>1 DEF CleanupInv
<1>5. /\ IsLog(Original, Log')
      /\ \A c : Touched(Original, Log', c) <=> Touched(Original, Log, c)
      /\ \A c : Remembers(Original, Log, c) => Restores(Original, Log', c)
  BY <1>2, <1>4, LogReverse
<1>6. ASSUME NEW c \in Cells \ torn
      PROVE  /\ Restores(Original, Log', c)
             /\ Awaits(Original, Log', 1, 0, block_size, c) \/ Flushed'[c] = Original[c]
  <2>1. Remembers(Original, Log, c) /\ (Touched(Original, Log, c) \/ Settled[c] = Original[c])
    BY <1>1 DEF CleanupInv
  <2>2. block_size \in {512, 2048, 4096} /\ DOMAIN Original \subseteq Nat
    BY <1>1, CellNumbers DEF DeviceInv, Cells
  <2>3. Touched(Original, Log', c) => Awaits(Original, Log', 1, 0, block_size, c)
    BY <1>5, <2>2, AllAwait
  <2>4. QED
    BY <1>3, <1>5, <2>1, <2>3
<1>7. UndoInv'
  BY <1>2, <1>5, <1>6 DEF UndoInv
<1>8. QED
  BY <1>2, <1>3, <1>7, ToUndo DEF IInv, CacheInv

LEMMA StepStore ==
  ASSUME IInv, CountInv', scenario' = scenario, Calls' = Calls, Original' = Original, Cells' = Cells,
         store_uninstall_data
  PROVE  IInv'
<1>1. CountInv /\ DeviceInv /\ CleanupInv /\ pc = "cleanup" /\ ok = TRUE /\ later = FALSE
  BY DEF store_uninstall_data, IInv, CountInv, FlagInv
<1>2. /\ pc' = "close" /\ Log' = << >> /\ torn' = torn /\ later' = later /\ ok' = ok
      /\ UNCHANGED <<disk, held, block_size, cache, cached_block, cache_state>>
  BY DEF store_uninstall_data, Log
<1>3. DeviceInv' /\ disk' = disk /\ Settled' = Settled
  BY <1>1, <1>2 DEF DeviceInv, Settled, Over
<1>4. IsLog(Original, Log) /\ torn = {} /\ Len(Log) \in Nat
  BY <1>1, LogIn DEF CleanupInv
<1>5. \A c \in Cells :
        /\ Remembers(Original, Log, c)
        /\ Touched(Original, Log, c) \/ (disk'[c] = Original[c] /\ Settled'[c] = Original[c])
  BY <1>1, <1>3, <1>4 DEF CleanupInv
<1>6. ASSUME file'.count = Len(file'.entries)
      PROVE  /\ IsLog(Original, file'.entries)
             /\ \A c \in Cells : /\ Restores(Original, file'.entries, c)
                                 /\ \/ Touched(Original, file'.entries, c)
                                    \/ disk'[c] = Original[c] /\ Settled'[c] = Original[c]
  <2>1. CASE file' = [count |-> Len(Log), entries |-> Reverse(Log)]
    <3>1. file'.entries = Reverse(Log)
      BY <2>1
    <3>2. QED
      BY <1>2, <1>4, <1>5, <3>1, LogReverse
  <2>2. CASE \E n \in {0, Len(Log) - 1} :
               file' = [count |-> Len(Log), entries |-> SubSeq(Reverse(Log), 1, n)]
    <3>1. PICK n \in {0, Len(Log) - 1} :
                 file' = [count |-> Len(Log), entries |-> SubSeq(Reverse(Log), 1, n)]
      BY <2>2
    <3>2. file'.count = Len(Log) /\ file'.entries = SubSeq(Reverse(Log), 1, n)
      BY <3>1
    <3>3. n \in Int /\ (n = 0 \/ n = Len(Log) - 1)
      BY <1>4
    <3>4. Len(SubSeq(Reverse(Log), 1, n)) = IF 1 <= n THEN n - 1 + 1 ELSE 0
      <4>1. \A i \in 1 .. n : Reverse(Log)[i] \in {Reverse(Log)[j] : j \in 1 .. n}
        OBVIOUS
      <4>2. QED
        BY <3>3, <4>1, SubSeqProperties
    <3>5. Len(Log) = 0 /\ n < 1
      <4>1. Len(Log) = IF 1 <= n THEN n - 1 + 1 ELSE 0
        BY <1>6, <3>2, <3>4
      <4>2. QED
        BY <1>4, <3>3, <4>1
    <3>6. file'.entries = << >>
      BY <3>2, <3>3, <3>5, SubSeqEmpty
    <3>7. \A c : ~ Touched(Original, Log, c) /\ Restores(Original, << >>, c)
      BY <3>5, EmptySeq DEF Touched, Restores
    <3>8. QED
      BY <1>2, <1>5, <3>6, <3>7, LogEmpty
  <2>3. QED
    BY <2>1, <2>2 DEF store_uninstall_data, LogToUndo, reverse_uninstall_data, Log
<1>7. FileInv'
  BY <1>2, <1>4, <1>6 DEF FileInv
<1>8. CloseInv'
  BY <1>1, <1>2 DEF CloseInv
<1>9. QED
  BY <1>2, <1>3, <1>7, <1>8, ToClose DEF IInv

LEMMA StepRun ==
  ASSUME IInv, CountInv', scenario' = scenario, Calls' = Calls, Original' = Original, Cells' = Cells,
         run_uninstall
  PROVE  IInv'
<1>1. /\ pc = "exit" /\ ok = TRUE /\ later = FALSE /\ pc' = "init" /\ later' = TRUE
      /\ UNCHANGED <<disk, held, lost, block_size, cache, cached_block, cache_state, uninstall_data, file, torn>>
  BY DEF run_uninstall, device_vars, IInv, CountInv, FlagInv
<1>2. DeviceInv'
  BY <1>1 DEF IInv, DeviceInv
<1>3. FileInv'
  BY <1>1 DEF IInv, FileInv, Log, Settled, Over
<1>4. CacheInv' /\ StartInv' /\ InstallInv' /\ SavedInv' /\ CleanupInv' /\ UndoInv' /\ CloseInv'
      /\ Undone'
  BY <1>1 DEF CacheInv, StartInv, InstallInv, SavedInv, CleanupInv, UndoInv, CloseInv, Undone, SaysUndone
<1>5. QED
  BY <1>2, <1>3, <1>4 DEF IInv

LEMMA StepLoad ==
  ASSUME IInv, CountInv', scenario' = scenario, Calls' = Calls, Original' = Original, Cells' = Cells,
         load_uninstall_data
  PROVE  IInv'
<1>1. CountInv /\ DeviceInv /\ FileInv /\ pc = "init" /\ later = TRUE /\ later' = TRUE /\ torn' = torn
  BY DEF load_uninstall_data, IInv, CountInv, FlagInv
<1>2. Log = << >> /\ torn = {} /\ held = Empty
  BY <1>1 DEF FileInv
<1>3. ASSUME pc' = "exit", Log' = Log, DeviceInv' PROVE IInv'
  <2>1. FileInv' /\ Undone'
    BY <1>1, <1>2, <1>3 DEF FileInv, Undone, SaysUndone, Log
  <2>2. QED
    BY <1>3, <2>1, ToExit DEF IInv
<1>4. CASE device_init_fails /\ pc' = "exit" /\ UNCHANGED <<uninstall_data, progress, buffer, k, writing>>
  <2>1. DeviceInv'
    BY <1>1, <1>4 DEF device_init_fails, DeviceInv
  <2>2. QED
    BY <1>3, <1>4, <2>1 DEF Log
<1>5. CASE device_init /\ pc' = "exit" /\ UNCHANGED <<uninstall_data, progress, buffer, k, writing>>
  <2>1. DeviceInv'
    BY <1>1, <1>5, InitStep
  <2>2. QED
    BY <1>3, <1>5, <2>1 DEF Log
<1>6. CASE /\ file.count = Len(file.entries) /\ \E n \in DOMAIN guesses : Probe(n)
           /\ BeginUninstall(file.entries) /\ pc' = "undo" /\ UNCHANGED <<disk, device_size, held>>
  <2>1. block_size' \in {512, 2048, 4096}
    BY <1>6 DEF Probe, guesses
  <2>2. /\ Log' = file.entries /\ disk' = disk /\ held' = held /\ k' = 1 /\ progress' = 0
        /\ cache' = Empty /\ cached_block' = Nowhere /\ cache_state' = "CLEAN"
    BY <1>6 DEF BeginUninstall, Log
  <2>3. DeviceInv' /\ Good' /\ Flushed' = Settled
    <3>1. Settled' = Settled
      BY <2>2 DEF Settled, Over
    <3>2. QED
      BY <1>1, <2>1, <2>2, <3>1, DropStep DEF DeviceInv
  <2>4. /\ IsLog(Original, Log')
        /\ \A c \in Cells : /\ Restores(Original, Log', c)
                            /\ Touched(Original, Log', c) \/ Settled[c] = Original[c]
    BY <1>1, <1>6, <2>2 DEF FileInv
  <2>5. ASSUME NEW c \in Cells
        PROVE  Awaits(Original, Log', 1, 0, block_size', c) \/ Flushed'[c] = Original[c]
    <3>1. DOMAIN Original \subseteq Nat
      BY <1>1, CellNumbers DEF Cells
    <3>2. Touched(Original, Log', c) => Awaits(Original, Log', 1, 0, block_size', c)
      BY <2>1, <2>4, <3>1, AllAwait
    <3>3. QED
      BY <2>3, <2>4, <3>2
  <2>6. UndoInv'
    BY <2>2, <2>4, <2>5 DEF UndoInv
  <2>7. QED
    BY <1>6, <2>3, <2>6, ToUndo DEF IInv, CacheInv
<1>7. QED
  BY <1>4, <1>5, <1>6 DEF load_uninstall_data

(* Writing a block of an entry back.  It is the last word on the cells in  *)
(* it that no later entry is about.                                        *)
LEMMA WriteKeeps ==
  ASSUME CountInv, DeviceInv, NEW o, IsOp(o), _device_write(o), scenario' = scenario
  PROVE  DeviceInv'
<1>1. BlockNow(o) \in Int
  BY ChunkIs
<1>2. /\ DOMAIN DiskWith(BlockNow(o)) = Cells /\ DOMAIN HeldWith(BlockNow(o)) \subseteq Cells
      /\ DOMAIN CacheWith(BlockNow(o)) \subseteq Cells
  BY FlushedIs, EmptyDomain DEF DiskWith, HeldWith, CacheWith, Block, CellsIn, DeviceInv
<1>3. QED
  BY <1>1, <1>2 DEF _device_write, DeviceInv, Cells, Original

LEMMA StepUndoBlock ==
  ASSUME IInv, CountInv', scenario' = scenario, Calls' = Calls, Original' = Original, Cells' = Cells,
         undo_block
  PROVE  IInv'
<1> DEFINE o == Log[k]
<1>1. CountInv /\ DeviceInv /\ CacheInv /\ UndoInv /\ pc = "undo" /\ k <= Len(Log)
  BY DEF undo_block, Undoing, IInv, Log
<1>2. IsLog(Original, Log) /\ IsOp(o) /\ DOMAIN o.data = Span(Original, o)
  BY <1>1, EntryIs DEF UndoInv
<1>3. /\ pc' = "undo" /\ torn' = torn /\ Log' = Log /\ _device_write(o)
      /\ write_failed' = write_failed /\ flush_failed' = flush_failed /\ lost' = lost
      /\ LastBlock(o) => k' = k + 1 /\ progress' = 0
      /\ ~ LastBlock(o) => k' = k /\ progress' = progress + 1
  BY <1>1 DEF undo_block, Log, _device_write
<1>4. k \in Nat \ {0} /\ progress \in Nat /\ Len(Log) \in Nat
  BY <1>1, <1>2, LogIn DEF CountInv, PlaceInv
<1>5. DeviceInv'
  BY <1>1, <1>2, <1>3, WriteKeeps
<1>6. ASSUME ~ write_failed
      PROVE  /\ Good' /\ block_size' = block_size
             /\ \A c \in Cells : Flushed'[c] = IF c \in Chunk(o) THEN o.data[c] ELSE Flushed[c]
  <2>1. Good
    BY <1>1, <1>6 DEF CacheInv
  <2>2. QED
    BY <1>1, <1>2, <1>3, <2>1, WriteStep
<1>7. CacheInv'
  BY <1>3, <1>6 DEF CacheInv
<1>8. ASSUME ~ write_failed, ~ flush_failed, NEW c \in Cells \ (torn \cup lost)
      PROVE  /\ Restores(Original, Log, c)
             /\ Awaits(Original, Log, k', progress', block_size, c) \/ Flushed'[c] = Original[c]
  <2>1. /\ Restores(Original, Log, c)
        /\ Awaits(Original, Log, k, progress, block_size, c) \/ Flushed[c] = Original[c]
    BY <1>1, <1>8 DEF UndoInv
  <2>2. ASSUME NEW j \in k + 1 .. Len(Log), c \in Span(Original, Log[j])
        PROVE  Awaits(Original, Log, k', progress', block_size, c)
    <3>1. j \in 1 .. Len(Log) /\ IsOp(Log[j]) /\ j # k
      BY <1>2, <1>4, LogIn
    <3>2. block_size \in {512, 2048, 4096} /\ DOMAIN Original \subseteq Nat
      BY <1>1, CellNumbers DEF DeviceInv, Cells
    <3>3. c \div block_size >= Log[j].at \div block_size + 0
      <4>1. /\ c \div block_size \in Int /\ Log[j].at \div block_size \in Int
            /\ Log[j].at \div block_size + 0 <= c \div block_size
        BY <2>2, <3>1, <3>2, Begin
      <4>2. QED
        BY <4>1
    <3>4. CASE LastBlock(o)
      <4>1. k' = k + 1 /\ progress' = 0
        BY <1>3, <3>4
      <4>2. j \in k' .. Len(Log) /\ (j = k' => c \div block_size >= Log[k'].at \div block_size + progress')
        BY <1>4, <3>3, <4>1
      <4>3. QED
        BY <2>2, <4>2 DEF Awaits
    <3>5. CASE ~ LastBlock(o)
      <4>1. k' = k
        BY <1>3, <3>5
      <4>2. j \in k' .. Len(Log) /\ j # k'
        BY <1>4, <3>1, <4>1
      <4>3. QED
        BY <2>2, <4>2 DEF Awaits
    <3>6. QED
      BY <3>4, <3>5
  <2>3. ASSUME \A j \in k + 1 .. Len(Log) : c \notin Span(Original, Log[j]), c \in Span(Original, o)
        PROVE  o.data[c] = Original[c]
    <3>1. k \in 1 .. Len(Log)
      BY <1>1, <1>4
    <3>2. QED
      BY <2>1, <2>3, <3>1 DEF Restores
  <2>4. CASE c \in Chunk(o)
    <3>1. c \in Span(Original, o) /\ Flushed'[c] = o.data[c]
      BY <1>1, <1>2, <1>6, <1>8, <2>4, ChunkIs
    <3>2. QED
      BY <2>1, <2>2, <2>3, <3>1
  <2>5. CASE c \notin Chunk(o)
    <3>1. Flushed'[c] = Flushed[c]
      BY <1>6, <1>8, <2>5
    <3>2. CASE Awaits(Original, Log, k, progress, block_size, c)
      <4>1. PICK j \in k .. Len(Log) :
              /\ c \in Span(Original, Log[j])
              /\ j = k => c \div block_size >= Log[k].at \div block_size + progress
        BY <3>2 DEF Awaits
      <4>2. CASE j = k
        <5>1. c \in Span(Original, o) /\ c \div block_size >= BlockNow(o)
          BY <4>1, <4>2 DEF BlockNow
        <5>2. /\ c \div block_size \in Int /\ BlockNow(o) \in Int
              /\ LastBlock(o) => c \div block_size <= BlockNow(o)
              /\ c \div block_size # BlockNow(o)
          BY <1>1, <1>2, <2>5, <5>1, ChunkIs
        <5>3. ~ LastBlock(o) /\ c \div block_size >= BlockNow(o) + 1
          BY <5>1, <5>2
        <5>4. k' = k /\ progress' = progress + 1
          BY <1>3, <5>3
        <5>5. o.at \div block_size \in Int
          BY <1>1, <1>2, InBlock DEF DeviceInv, IsOp
        <5>6. BlockNow(o) + 1 = o.at \div block_size + progress'
          BY <1>4, <5>4, <5>5 DEF BlockNow
        <5>7. Awaits(Original, Log, k', progress', block_size, c)
          BY <4>1, <4>2, <5>3, <5>4, <5>6 DEF Awaits
        <5>8. QED
          BY <2>1, <5>7
      <4>3. CASE j # k
        <5>1. j \in k + 1 .. Len(Log)
          BY <1>4, <4>1, <4>3
        <5>2. QED
          BY <2>1, <2>2, <4>1, <5>1
      <4>4. QED
        BY <4>2, <4>3
    <3>3. QED
      BY <2>1, <3>1, <3>2
  <2>6. QED
    BY <2>4, <2>5
<1>9. UndoInv'
  BY <1>2, <1>3, <1>6, <1>8 DEF UndoInv
<1>10. QED
  BY <1>3, <1>5, <1>7, <1>9, ToUndo DEF IInv

(* A failure makes an entry start again, or gives it up and says so.       *)
LEMMA StepUndoFails ==
  ASSUME IInv, CountInv', scenario' = scenario, Calls' = Calls, Original' = Original, Cells' = Cells,
         undo_fails
  PROVE  IInv'
<1>1. CountInv /\ DeviceInv /\ UndoInv /\ pc = "undo"
  BY DEF undo_fails, Undoing, IInv
<1>2. DeviceInv' /\ Steady /\ block_size' = block_size
  BY <1>1, FaultStep DEF undo_fails
<1>3. /\ torn' = torn /\ Log' = Log /\ progress' = 0 /\ flush_failed' = flush_failed
      /\ \/ pc' = "undo" /\ write_failed' = TRUE
         \/ pc' = "retry" /\ k' = k /\ write_failed' = write_failed
  BY <1>1 DEF undo_fails, Log
<1>4. IsLog(Original, Log)
  BY <1>1 DEF UndoInv
<1>5. ASSUME NEW c \in Cells, Awaits(Original, Log, k, progress, block_size, c), k \in Nat
      PROVE  Awaits(Original, Log, k, 0, block_size, c)
  <2>1. PICK j \in k .. Len(Log) :
          /\ c \in Span(Original, Log[j])
          /\ j = k => c \div block_size >= Log[k].at \div block_size + progress
    BY <1>5 DEF Awaits
  <2>2. CASE j = k
    <3>1. k <= Len(Log)
      BY <1>4, <1>5, <2>1, <2>2, LogIn
    <3>2. IsOp(Log[k]) /\ progress \in Nat
      BY <1>1, <1>4, <3>1, EntryIs DEF CountInv, PlaceInv
    <3>3. Log[k].at \div block_size \in Int /\ c \div block_size \in Int
      BY <1>1, <1>5, <3>2, InBlock, CellNumbers DEF DeviceInv, IsOp
    <3>4. c \div block_size >= Log[k].at \div block_size + 0
      BY <2>1, <2>2, <3>2, <3>3
    <3>5. QED
      BY <2>1, <2>2, <3>4 DEF Awaits
  <2>3. CASE j # k
    BY <2>1, <2>3 DEF Awaits
  <2>4. QED
    BY <2>2, <2>3
<1>6. UndoInv'
  <2>1. CASE write_failed' = TRUE
    BY <1>3, <1>4, <2>1 DEF UndoInv
  <2>2. CASE pc' = "retry" /\ k' = k /\ write_failed' = write_failed
    <3>1. k \in Nat
      BY <1>1 DEF CountInv, PlaceInv
    <3>2. QED
      BY <1>1, <1>2, <1>3, <1>4, <1>5, <2>2, <3>1 DEF UndoInv, Steady
  <2>3. QED
    BY <1>3, <2>1, <2>2
<1>7. CacheInv'
  BY <1>3 DEF CacheInv
<1>8. QED
  BY <1>2, <1>3, <1>6, <1>7, ToUndo DEF IInv

LEMMA StepTryAgain ==
  ASSUME IInv, CountInv', scenario' = scenario, Calls' = Calls, Original' = Original, Cells' = Cells,
         try_again
  PROVE  IInv'
<1>1. CountInv /\ DeviceInv /\ UndoInv /\ pc = "retry"
  BY DEF try_again, IInv
<1>2. /\ pc' = "undo" /\ torn' = torn /\ Log' = Log /\ progress' = progress /\ k' = k
      /\ write_failed' = write_failed /\ block_size' = block_size
      /\ cache' = Empty /\ cached_block' = Nowhere /\ cache_state' = "CLEAN"
      /\ \/ Flush /\ flush_failed' = flush_failed
         \/ Flush_fails /\ flush_failed' = TRUE
  BY DEF try_again, Log
<1>3. /\ DOMAIN disk' = Cells /\ DOMAIN held' \subseteq Cells
      /\ flush_failed' = TRUE
           \/ (flush_failed' = flush_failed /\ lost' = lost /\ \A c \in Cells : Settled'[c] = Flushed[c])
  BY <1>1, <1>2, FlushStep, FlushFails
<1>4. DeviceInv' /\ Good' /\ Flushed' = Settled'
  BY <1>1, <1>2, <1>3, DropStep DEF DeviceInv
<1>5. UndoInv'
  BY <1>1, <1>2, <1>3, <1>4 DEF UndoInv
<1>6. QED
  BY <1>2, <1>4, <1>5, ToUndo DEF IInv, CacheInv

LEMMA StepUndoDone ==
  ASSUME IInv, CountInv', scenario' = scenario, Calls' = Calls, Original' = Original, Cells' = Cells,
         undo_done
  PROVE  IInv'
<1>1. CountInv /\ DeviceInv /\ UndoInv /\ pc = "undo" /\ ~ (k <= Len(Log)) /\ IsLog(Original, Log)
  <2>1. CountInv /\ DeviceInv /\ UndoInv /\ pc = "undo" /\ k > Len(Log)
    BY DEF undo_done, IInv, Log
  <2>2. IsLog(Original, Log) /\ k \in Nat
    BY <2>1 DEF UndoInv, CountInv, PlaceInv
  <2>3. QED
    BY <2>1, <2>2, LogIn
<1>2. /\ pc' = "close" /\ torn' = torn /\ write_failed' = write_failed /\ ok' = ok /\ later' = later
      /\ \/ device_flush_cache /\ flush_failed' = flush_failed
         \/ device_flush_cache_fails /\ flush_failed' = TRUE
  BY DEF undo_done
<1>3. FileInv'
  BY <1>1, <1>2 DEF FileInv, CountInv, FlagInv
<1>4. CASE device_flush_cache /\ flush_failed' = flush_failed
  <2>1. Flush /\ cache_state' = "CLEAN" /\ UNCHANGED <<block_size, cache, cached_block>>
    BY <1>4 DEF device_flush_cache
  <2>2. DeviceInv' /\ lost' = lost /\ \A c \in Cells : Settled'[c] = Flushed[c]
    BY <1>1, <2>1, FlushStep DEF DeviceInv
  <2>3. ASSUME ~ write_failed, ~ flush_failed, NEW c \in Cells \ (torn \cup lost)
        PROVE  Flushed[c] = Original[c]
    <3>1. k \in Int
      BY <1>1 DEF CountInv, PlaceInv
    <3>2. QED
      BY <1>1, <2>3, <3>1, NoneAwaits DEF UndoInv
  <2>4. CloseInv'
    BY <1>2, <1>4, <2>2, <2>3 DEF CloseInv
  <2>5. QED
    BY <1>2, <1>3, <2>2, <2>4, ToClose DEF IInv
<1>5. CASE device_flush_cache_fails /\ flush_failed' = TRUE
  <2>1. DeviceInv'
    BY <1>1, <1>5, FlushFailsStep
  <2>2. CloseInv'
    BY <1>5 DEF CloseInv
  <2>3. QED
    BY <1>2, <1>3, <2>1, <2>2, ToClose DEF IInv
<1>6. QED
  BY <1>2, <1>4, <1>5

(* What fclose loses is noted; the rest is on the medium now.              *)
LEMMA StepClose ==
  ASSUME IInv, CountInv', scenario' = scenario, Calls' = Calls, Original' = Original, Cells' = Cells,
         close
  PROVE  IInv'
<1>1. CountInv /\ DeviceInv /\ FileInv /\ CloseInv /\ pc = "close"
  BY DEF close, IInv
<1>2. /\ pc' = "exit" /\ torn' = torn /\ write_failed' = write_failed /\ ok' = ok /\ later' = later
      /\ flush_failed' = flush_failed /\ Log' = Log /\ file' = file /\ held' = Empty
      /\ UNCHANGED <<block_size, cache, cached_block, cache_state>>
      /\ (disk' = Settled /\ lost' = lost) \/ Lose(disk, held)
  BY DEF close, fclose_device, Log, Lose
<1>3. /\ DOMAIN disk' = Cells /\ lost \subseteq lost'
      /\ \A c \in Cells : /\ Settled'[c] = disk'[c]
                          /\ disk'[c] = disk[c] \/ disk'[c] = Settled[c]
                          /\ c \in lost' \/ disk'[c] = Settled[c]
  <2>1. CASE disk' = Settled /\ lost' = lost
    BY <1>1, <1>2, <2>1, FlushedIs, SettledNext
  <2>2. CASE Lose(disk, held)
    BY <1>1, <2>2, LoseStep DEF DeviceInv, Settled
  <2>3. QED
    BY <1>2, <2>1, <2>2
<1>4. DeviceInv'
  BY <1>1, <1>2, <1>3, EmptyDomain DEF DeviceInv
<1>5. FileInv'
  BY <1>1, <1>2, <1>3 DEF FileInv
<1>6. Undone'
  <2>1. DOMAIN disk' = Cells /\ scenario'.disk = Original
    BY <1>3 DEF Original
  <2>2. ASSUME ~ write_failed, ~ flush_failed, IF later THEN Log # << >> ELSE ~ ok,
               NEW c \in Cells, c \notin torn, c \notin lost'
        PROVE  disk'[c] = Original[c]
    BY <1>1, <1>3, <2>2 DEF CloseInv
  <2>3. QED
    BY <1>2, <2>1, <2>2 DEF Undone, SaysUndone, Log
<1>7. QED
  BY <1>2, <1>4, <1>5, <1>6, ToExit DEF IInv

-----------------------------------------------------------------------------
LEMMA IInvInit ==
  ASSUME Init
  PROVE  IInv
<1>1. CountInv
  BY CountInit
<1>2. DeviceInv
  BY EmptyDomain DEF Init, DeviceInv, Cells, Original, Nowhere
<1>3. CacheInv /\ StartInv /\ InstallInv /\ SavedInv /\ CleanupInv /\ FileInv /\ UndoInv
      /\ CloseInv /\ Undone
  BY DEF Init, CacheInv, StartInv, InstallInv, SavedInv, CleanupInv, FileInv, UndoInv, CloseInv,
         Undone, SaysUndone, Log, Original
<1>4. QED
  BY <1>1, <1>2, <1>3 DEF IInv

LEMMA IInvStep ==
  ASSUME IInv, Next
  PROVE  IInv'
<1>1. CountInv' /\ scenario' = scenario /\ Calls' = Calls /\ Original' = Original /\ Cells' = Cells
  BY PlanStep, PlaceStep, FlagStep DEF IInv, CountInv
<1>2. QED
  BY <1>1, StepStart, StepRead, StepSave, StepWrite, StepFails, StepDone, StepUndoInstall, StepStore,
     StepRun, StepLoad, StepUndoBlock, StepUndoFails, StepTryAgain, StepUndoDone, StepClose
     DEF Next

LEMMA IInvStutter ==
  ASSUME IInv, UNCHANGED vars
  PROVE  IInv'
<1>1. /\ UNCHANGED <<disk, held, lost, block_size, cache, cached_block, cache_state>>
      /\ UNCHANGED <<uninstall_data, progress, buffer>>
      /\ UNCHANGED <<scenario, plan, pc, later, k, writing, ok>>
      /\ UNCHANGED <<retry, write_failed, flush_failed, file, torn>>
  BY DEF vars, device_vars
<1>2. Cells' = Cells /\ Original' = Original /\ Log' = Log /\ Calls' = Calls
  BY <1>1 DEF Cells, Original, Log, Calls
<1>3. Settled' = Settled /\ Flushed' = Flushed /\ Busy' = Busy /\ BlockNow(Calls[k])' = BlockNow(Calls[k])
  BY <1>1, <1>2 DEF Settled, Flushed, Over, Busy, BlockNow
<1>4. CountInv'
  BY <1>1, <1>2 DEF IInv, CountInv, PlanInv, PlaceInv, FlagInv
<1>5. DeviceInv'
  BY <1>1, <1>2 DEF IInv, DeviceInv
<1>6. CacheInv'
  <2>1. Good' <=> Good
    BY <1>1, <1>3 DEF Good, Block, CellsIn
  <2>2. QED
    BY <1>1, <2>1 DEF IInv, CacheInv
<1>7. StartInv'
  BY <1>1, <1>2 DEF IInv, StartInv
<1>8. InstallInv'
  BY <1>1, <1>2, <1>3 DEF IInv, InstallInv, Pristine
<1>9. SavedInv'
  BY <1>1, <1>2, <1>3 DEF IInv, SavedInv
<1>10. CleanupInv' /\ FileInv'
  BY <1>1, <1>2, <1>3 DEF IInv, CleanupInv, FileInv
<1>11. UndoInv' /\ CloseInv'
  BY <1>1, <1>2, <1>3 DEF IInv, UndoInv, CloseInv
<1>12. Undone'
  BY <1>1 DEF IInv, Undone, SaysUndone
<1>13. QED
  BY <1>4, <1>5, <1>6, <1>7, <1>8, <1>9, <1>10, <1>11, <1>12 DEF IInv

(* An install that fails and is undone with no failure reported, and one   *)
(* that a later process undoes, leaves the device as it was, but for the   *)
(* bytes of the write at which the install failed and those which the      *)
(* device's FILE took and then failed to write while undoing, which limine *)
(* cannot see: bios_install, _device_write, uninstall and main's fclose.   *)
THEOREM InstallUndone == Spec => []Undone
<1>1. Init => IInv
  BY IInvInit
<1>2. IInv /\ [Next]_vars => IInv'
  BY IInvStep, IInvStutter
<1>3. IInv => Undone
  BY DEF IInv
<1>4. QED
  BY <1>1, <1>2, <1>3, PTL DEF Spec

-----------------------------------------------------------------------------
(* `limine enroll-config`, as Enrolling has it.                            *)
Letters    == STRING \cup {"0"}
Executable == first.file
Asked      == first.argv # << >> /\ Head(first.argv) = "enroll-config"
Wanted     == IF reset THEN E!Reset ELSE Sum

ToolTypeInv ==
  /\ first \in Enrollments
  /\ step \in {"main", "bios-install", "options", "check", "search", "patch", "write", "done"}
  /\ executable \in Seq(Letters) /\ bootloader \in Seq(Letters) /\ argv \in Seq(STRING)
  /\ index \in Nat \ {0} /\ checked_count \in Nat /\ reset \in BOOLEAN

(* Until the end nothing is written; what is asked for is in the arguments *)
(* the program started with.                                               *)
ReadOnly  == step # "done" => executable = Executable
Following ==
  /\ step = "main" => argv = first.argv
  /\ step \in {"options", "check", "search", "patch", "write"} => Asked
  /\ step = "options" => E!Range(argv) \subseteq E!Range(first.argv)

InMemory ==
  /\ step \in {"main", "bios-install", "options", "check"} => bootloader = << >> /\ checked_count = 0
  /\ step \in {"search", "patch"} => bootloader = Executable

(* A place of the signature that the search may pass over.                 *)
Missed(p) ==
  \/ p + Len(Signature) - 1 > Len(Executable) - E!Room + 1
  \/ \E c \in 1 .. Len(Signature) - 1 :
       c < p /\ SubSeq(Executable, p - c, p - 1) = SubSeq(Signature, 1, c)

(* The characters just before index are the first ones of the signature;   *)
(* where these begin nothing has been passed over that should not be.      *)
Matching ==
  step = "search" =>
    /\ checked_count < Len(Signature) /\ checked_count < index
    /\ \A j \in 1 .. checked_count : Executable[index - checked_count + j - 1] = Signature[j]
    /\ \A p \in E!Stands(Executable) : p < index - checked_count => Missed(p)

FoundInv ==
  step \in {"patch", "write"} =>
    /\ index - Len(Signature) \in E!Stands(Executable)
    /\ index + SumLength - 1 <= Len(Executable)
    /\ checked_count = Len(Signature)

PatchedInv ==
  step = "write" =>
    /\ Len(bootloader) = Len(Executable)
    /\ \A n \in 1 .. Len(Executable) :
         bootloader[n] = IF n \in index .. index + SumLength - 1 THEN Wanted[n - index + 1]
                         ELSE Executable[n]

EnrollInv ==
  ToolTypeInv /\ ReadOnly /\ Following /\ InMemory /\ Matching /\ FoundInv /\ PatchedInv /\ E!Enrolled

-----------------------------------------------------------------------------
LEMMA EnrollLegal ==
  ASSUME E!EnrollmentsAreLegal, first \in Enrollments
  PROVE  /\ Signature \in Seq(Letters) /\ Sum \in Seq(Letters) /\ SumLength \in Nat \ {0}
         /\ Len(Signature) \in Nat \ {0} /\ Len(Sum) = SumLength
         /\ E!Room = Len(Signature) + SumLength
         /\ Executable \in Seq(Letters) /\ first.argv \in Seq(STRING) /\ Len(Executable) \in Nat
<1>1. /\ Signature \in Seq(STRING) /\ Sum \in Seq(STRING) /\ SumLength \in Nat \ {0}
      /\ Len(Signature) > 0 /\ Len(Sum) = SumLength
      /\ Executable \in Seq(STRING) /\ first.argv \in Seq(STRING)
  BY DEF E!EnrollmentsAreLegal, Executable
<1>2. Signature \in Seq(Letters) /\ Sum \in Seq(Letters) /\ Executable \in Seq(Letters)
  BY <1>1, SeqMonotonic DEF Letters
<1>3. Len(Signature) \in Nat \ {0} /\ Len(Executable) \in Nat
  BY <1>1, LenProperties
<1> QED BY <1>1, <1>2, <1>3 DEF E!Room

LEMMA WantedIs ==
  ASSUME E!EnrollmentsAreLegal, first \in Enrollments, reset \in BOOLEAN
  PROVE  Wanted \in Seq(Letters) /\ Len(Wanted) = SumLength
<1>1. E!Reset = [c \in 1 .. SumLength |-> "0"]
  BY DEF E!Reset
<1>2. SumLength \in Nat /\ E!Reset \in [1 .. SumLength -> Letters]
  BY <1>1, EnrollLegal DEF Letters
<1>3. E!Reset \in Seq(Letters)
  BY <1>2, SeqDef
<1>4. Len(E!Reset) \in Nat /\ 1 .. Len(E!Reset) = 1 .. SumLength
  BY <1>1, <1>3, LenProperties
<1>5. Len(E!Reset) = SumLength
  BY <1>2, <1>4
<1> QED BY <1>3, <1>5, EnrollLegal DEF Wanted

LEMMA RemoveArg ==
  ASSUME NEW a \in Seq(STRING), NEW n \in 1 .. Len(a)
  PROVE  E!remove_arg(a, n) \in Seq(STRING) /\ E!Range(E!remove_arg(a, n)) \subseteq E!Range(a)
<1> DEFINE f == SubSeq(a, 1, n - 1)   b == SubSeq(a, n + 1, Len(a))
<1>0. Len(a) \in Nat /\ DOMAIN a = 1 .. Len(a) /\ \A j \in 1 .. Len(a) : a[j] \in E!Range(a)
  BY LenProperties DEF E!Range
<1>1. f \in Seq(E!Range(a)) /\ b \in Seq(E!Range(a))
  <2>1. \A j \in 1 .. n - 1 : a[j] \in E!Range(a)
    BY <1>0
  <2>2. \A j \in n + 1 .. Len(a) : a[j] \in E!Range(a)
    BY <1>0
  <2> QED BY <1>0, <2>1, <2>2, SubSeqProperties
<1>2. f \o b \in Seq(E!Range(a))
  BY <1>1, ConcatProperties
<1>3. E!Range(a) \subseteq STRING
  BY <1>0, ElementOfSeq DEF E!Range
<1>4. E!Range(f \o b) \subseteq E!Range(a)
  <2>1. DOMAIN (f \o b) = 1 .. Len(f \o b)
    BY <1>2, LenProperties
  <2>2. \A j \in 1 .. Len(f \o b) : (f \o b)[j] \in E!Range(a)
    BY <1>2, ElementOfSeq
  <2> HIDE DEF f, b
  <2> QED BY <2>1, <2>2 DEF E!Range
<1>5. E!remove_arg(a, n) = f \o b
  BY DEF E!remove_arg, E!RemoveAt
<1>6. f \o b \in Seq(STRING)
  BY <1>2, <1>3, SeqMonotonic
<1> QED BY <1>4, <1>5, <1>6

(* The places of the signature, character by character.                    *)
LEMMA StandsIs ==
  ASSUME E!EnrollmentsAreLegal, first \in Enrollments, NEW p \in Int
  PROVE  p \in E!Stands(Executable) <=>
           /\ p >= 1 /\ p + Len(Signature) - 1 <= Len(Executable)
           /\ \A j \in 1 .. Len(Signature) : Executable[p + j - 1] = Signature[j]
<1> DEFINE SL == Len(Signature)
<1>0. Signature \in Seq(Letters) /\ Executable \in Seq(Letters) /\ SL \in Nat /\ Len(Executable) \in Nat
  BY EnrollLegal
<1>1. ASSUME p >= 1, p + SL - 1 <= Len(Executable)
      PROVE  SubSeq(Executable, p, p + SL - 1) = Signature
               <=> \A j \in 1 .. SL : Executable[p + j - 1] = Signature[j]
  <2> DEFINE t == SubSeq(Executable, p, p + SL - 1)
  <2>0. \A j \in p .. p + SL - 1 : Executable[j] \in Letters
    BY <1>0, <1>1, ElementOfSeq
  <2>1. p + SL - 1 \in Int /\ (p + SL - 1) - p + 1 = SL
    BY <1>0
  <2>2. t \in Seq(Letters)
    BY <2>0, <2>1, SubSeqProperties
  <2>3. Len(t) = IF p <= p + SL - 1 THEN (p + SL - 1) - p + 1 ELSE 0
    BY <2>0, <2>1, SubSeqProperties
  <2>4. \A j \in 1 .. (p + SL - 1) - p + 1 : t[j] = Executable[p + j - 1]
    BY <2>0, <2>1, SubSeqProperties
  <2>5. Len(t) = SL
    BY <2>3, <1>0
  <2>6. \A j \in 1 .. SL : t[j] = Executable[p + j - 1]
    BY <2>4, <2>1
  <2> HIDE DEF t
  <2>7. ASSUME \A j \in 1 .. SL : Executable[p + j - 1] = Signature[j] PROVE t = Signature
    <3>1. \A j \in 1 .. Len(t) : t[j] = Signature[j]
      BY <2>5, <2>6, <2>7
    <3> QED BY <3>1, <2>2, <2>5, <1>0, SeqEqual
  <2> QED BY <2>6, <2>7 DEF t
<1>2. p \in E!Stands(Executable) <=>
        p \in 1 .. Len(Executable) - SL + 1 /\ SubSeq(Executable, p, p + SL - 1) = Signature
  BY DEF E!Stands
<1>3. p \in 1 .. Len(Executable) - SL + 1 <=> p >= 1 /\ p + SL - 1 <= Len(Executable)
  BY <1>0
<1> QED BY <1>1, <1>2, <1>3

-----------------------------------------------------------------------------
LEMMA EnrollStart ==
  ASSUME E!EnrollmentsAreLegal, NEW e \in Enrollments, E!EnrollInit(e)
  PROVE  EnrollInv
<1>0. /\ step = "main" /\ index = 1 /\ executable = e.file /\ argv = e.argv /\ reset = FALSE
      /\ bootloader = << >> /\ checked_count = 0 /\ first = e
  BY DEF E!EnrollInit
<1>1. ToolTypeInv
  <2>1. first \in Enrollments /\ Executable = e.file
    BY <1>0 DEF Executable
  <2>2. executable \in Seq(Letters) /\ argv \in Seq(STRING)
    BY <1>0, <2>1, EnrollLegal
  <2>3. bootloader \in Seq(Letters)
    BY <1>0, EmptySeq
  <2>4. index \in Nat \ {0} /\ checked_count \in Nat
    BY <1>0
  <2>5. reset \in BOOLEAN
    BY <1>0
  <2> QED BY <1>0, <2>1, <2>2, <2>3, <2>4, <2>5 DEF ToolTypeInv
<1>2. ReadOnly /\ Following /\ InMemory
  BY <1>0 DEF ReadOnly, Following, InMemory, Executable
<1>3. Matching /\ FoundInv /\ PatchedInv /\ E!Enrolled
  BY <1>0 DEF Matching, FoundInv, PatchedInv, E!Enrolled
<1> QED BY <1>1, <1>2, <1>3 DEF EnrollInv

(* What the step of an exit leaves, which writes nothing.                  *)
LEMMA EnrollExit ==
  ASSUME E!EnrollmentsAreLegal, EnrollInv, step # "done",
         step' = "done", UNCHANGED <<executable, bootloader, first>>,
         argv' \in Seq(STRING), index' \in Nat \ {0}, reset' \in BOOLEAN, checked_count' \in Nat,
         ret' = "SUCCESS" => ~ Asked \/ E!Range(first.argv) \cap E!Help # {},
         bootloader = << >> \/ \A p \in E!Stands(Executable) : Missed(p)
  PROVE  EnrollInv'
<1>1. ToolTypeInv /\ executable = Executable
  BY DEF EnrollInv, ReadOnly
<1>2. ToolTypeInv'
  BY <1>1 DEF ToolTypeInv
<1>3. ReadOnly' /\ Following' /\ InMemory' /\ Matching' /\ FoundInv' /\ PatchedInv'
  BY DEF ReadOnly, Following, InMemory, Matching, FoundInv, PatchedInv
<1>4. E!Enrolled'
  <2>1. executable' = first'.file /\ first' = first /\ Executable = first.file
    BY <1>1 DEF Executable
  <2>2. {n \in 1 .. Len(first'.file) : executable'[n] # first'.file[n]} = {}
    BY <2>1
  <2>3. bootloader' # << >> => \A p \in E!Stands(first'.file) :
              \/ p + Len(Signature) - 1 > Len(first'.file) - E!Room + 1
              \/ \E c \in 1 .. Len(Signature) - 1 :
                   c < p /\ SubSeq(first'.file, p - c, p - 1) = SubSeq(Signature, 1, c)
    BY <2>1 DEF Missed
  <2>4. ~ (ret' = "SUCCESS" /\ first'.argv # << >> /\ Head(first'.argv) = "enroll-config"
             /\ E!Range(first'.argv) \cap E!Help = {})
    BY <2>1 DEF Asked
  <2> QED BY <2>1, <2>2, <2>3, <2>4 DEF E!Enrolled
<1> QED BY <1>2, <1>3, <1>4 DEF EnrollInv

LEMMA EnrollMain ==
  ASSUME E!EnrollmentsAreLegal, EnrollInv, E!main
  PROVE  EnrollInv'
<1> DEFINE name == IF argv = << >> THEN "" ELSE Head(argv)
<1>0. /\ ToolTypeInv /\ step = "main" /\ argv = first.argv /\ executable = Executable
      /\ bootloader = << >> /\ checked_count = 0 /\ UNCHANGED <<executable, bootloader, first>>
  BY DEF EnrollInv, E!main, E!Exit, E!version, ReadOnly, Following, InMemory
<1>1. name = "enroll-config" => Asked
  BY <1>0 DEF Asked
<1>2. CASE \E answer \in {"SUCCESS", "FAILURE"} : E!Exit(answer) /\ (answer = "SUCCESS" => name # "enroll-config")
  <2>1. PICK answer \in {"SUCCESS", "FAILURE"} : E!Exit(answer) /\ (answer = "SUCCESS" => name # "enroll-config")
    BY <1>2
  <2>2. step' = "done" /\ ret' = answer /\ UNCHANGED <<argv, index, reset, checked_count, first>>
    BY <2>1 DEF E!Exit
  <2>3. ret' = "SUCCESS" => ~ Asked
    BY <1>0, <2>1, <2>2 DEF Asked
  <2> QED BY <1>0, <2>2, <2>3, EnrollExit DEF ToolTypeInv
<1>3. CASE name = "bios-install" /\ step' = name /\ UNCHANGED <<argv, index, reset, checked_count, ret, first>>
  <2>0. step' = "bios-install"
    BY <1>3
  <2>1. ToolTypeInv'
    BY <1>0, <1>3, <2>0 DEF ToolTypeInv
  <2>2. ReadOnly' /\ Following' /\ InMemory'
    BY <1>0, <1>3, <2>0 DEF ReadOnly, Following, InMemory, Executable
  <2>3. Matching' /\ FoundInv' /\ PatchedInv' /\ E!Enrolled'
    BY <2>0 DEF Matching, FoundInv, PatchedInv, E!Enrolled
  <2> QED BY <2>1, <2>2, <2>3 DEF EnrollInv
<1>4. CASE /\ name = "enroll-config"
           /\ step' = "options" /\ argv' = Tail(argv)
           /\ UNCHANGED <<index, reset, checked_count, ret, first>>
  <2>0. argv \in Seq(STRING) /\ argv # << >>
    BY <1>0, <1>4 DEF ToolTypeInv
  <2>1. argv' \in Seq(STRING) /\ Len(argv') = Len(argv) - 1 /\ \A j \in 1 .. Len(argv') : argv'[j] = argv[j + 1]
    BY <2>0, <1>4, HeadTailProperties
  <2>2. E!Range(argv') \subseteq E!Range(argv)
    <3>1. /\ DOMAIN argv = 1 .. Len(argv) /\ DOMAIN argv' = 1 .. Len(argv')
          /\ Len(argv) \in Nat /\ Len(argv') \in Nat
      BY <2>0, <2>1, LenProperties
    <3>2. \A j \in DOMAIN argv' : j + 1 \in DOMAIN argv /\ argv'[j] = argv[j + 1]
      BY <2>1, <3>1
    <3> QED BY <3>2 DEF E!Range
  <2>3. ToolTypeInv'
    BY <1>0, <1>4, <2>1 DEF ToolTypeInv
  <2>4. ReadOnly' /\ InMemory'
    BY <1>0, <1>4 DEF ReadOnly, InMemory, Executable
  <2>5. Following'
    BY <1>0, <1>1, <1>4, <2>2 DEF Following, Asked
  <2>6. Matching' /\ FoundInv' /\ PatchedInv' /\ E!Enrolled'
    BY <1>4 DEF Matching, FoundInv, PatchedInv, E!Enrolled
  <2> QED BY <2>3, <2>4, <2>5, <2>6 DEF EnrollInv
<1> QED
  <2>1. \/ name \in {"help"} \cup E!Help /\ E!Exit("SUCCESS")
        \/ name = "bios-install" /\ step' = name /\ UNCHANGED <<argv, index, reset, checked_count, ret, first>>
        \/ /\ name = "enroll-config"
           /\ step' = "options" /\ argv' = Tail(argv)
           /\ UNCHANGED <<index, reset, checked_count, ret, first>>
        \/ name = "--print-datadir" /\ \E answer \in {"SUCCESS", "FAILURE"} : E!Exit(answer)
        \/ name \in {"version", "--version"} /\ E!Exit("SUCCESS")
        \/ /\ name \notin {"help", "--help", "-h", "bios-install", "enroll-config",
                         "--print-datadir", "version", "--version"}
           /\ E!Exit("FAILURE")
    BY DEF E!main, E!version
  <2> HIDE DEF name
  <2>2. CASE name \in {"help"} \cup E!Help /\ E!Exit("SUCCESS")
    BY <2>2, <1>2 DEF E!Help
  <2>3. CASE name = "--print-datadir" /\ \E answer \in {"SUCCESS", "FAILURE"} : E!Exit(answer)
    BY <2>3, <1>2
  <2>4. CASE name \in {"version", "--version"} /\ E!Exit("SUCCESS")
    BY <2>4, <1>2
  <2>5. CASE E!Exit("FAILURE")
    BY <2>5, <1>2
  <2> QED BY <1>3, <1>4, <2>1, <2>2, <2>3, <2>4, <2>5

LEMMA EnrollOptions ==
  ASSUME E!EnrollmentsAreLegal, EnrollInv, E!options
  PROVE  EnrollInv'
<1>0. /\ ToolTypeInv /\ step = "options" /\ executable = Executable /\ Asked
      /\ bootloader = << >> /\ checked_count = 0 /\ UNCHANGED <<executable, bootloader, checked_count, first>>
      /\ E!Range(argv) \subseteq E!Range(first.argv)
  BY DEF EnrollInv, E!options, ReadOnly, Following, InMemory
<1>1. CASE /\ index > Len(argv) /\ step' = "check" /\ UNCHANGED <<argv, index, reset, ret>>
  <2>1. ToolTypeInv'
    BY <1>0, <1>1 DEF ToolTypeInv
  <2>2. ReadOnly' /\ Following' /\ InMemory'
    BY <1>0, <1>1 DEF ReadOnly, Following, InMemory, Executable, Asked
  <2>3. Matching' /\ FoundInv' /\ PatchedInv' /\ E!Enrolled'
    BY <1>1 DEF Matching, FoundInv, PatchedInv, E!Enrolled
  <2> QED BY <2>1, <2>2, <2>3 DEF EnrollInv
<1>2. CASE /\ index <= Len(argv) /\ argv[index] \in E!Help
           /\ step' = "done" /\ ret' = "SUCCESS" /\ UNCHANGED <<argv, index, reset>>
  <2>1. index \in 1 .. Len(argv)
    BY <1>0, <1>2, LenProperties DEF ToolTypeInv
  <2>2. index \in DOMAIN argv
    BY <1>0, <2>1, LenProperties DEF ToolTypeInv
  <2>3. E!Range(first.argv) \cap E!Help # {}
    BY <1>0, <1>2, <2>2 DEF E!Range
  <2> QED BY <1>0, <1>2, <2>3, EnrollExit DEF ToolTypeInv
<1>3. CASE /\ index <= Len(argv) /\ argv[index] \notin E!Help
           /\ argv' = IF argv[index] \in {"--quiet", "--reset"} THEN E!remove_arg(argv, index) ELSE argv
           /\ reset' = (reset \/ argv[index] = "--reset")
           /\ index' = index + 1 /\ UNCHANGED <<step, ret>>
  <2>1. argv \in Seq(STRING) /\ index \in 1 .. Len(argv)
    BY <1>0, <1>3, LenProperties DEF ToolTypeInv
  <2>2. argv' \in Seq(STRING) /\ E!Range(argv') \subseteq E!Range(argv)
    BY <1>3, <2>1, RemoveArg
  <2>3. reset' \in BOOLEAN
    BY <1>0, <1>3 DEF ToolTypeInv
  <2>4. index' \in Nat \ {0}
    BY <1>3, <2>1
  <2>5. ToolTypeInv'
    BY <1>0, <1>3, <2>2, <2>3, <2>4 DEF ToolTypeInv
  <2>6. ReadOnly' /\ Following' /\ InMemory'
    BY <1>0, <1>3, <2>2 DEF ReadOnly, Following, InMemory, Executable, Asked
  <2>7. Matching' /\ FoundInv' /\ PatchedInv' /\ E!Enrolled'
    BY <1>0, <1>3 DEF Matching, FoundInv, PatchedInv, E!Enrolled
  <2> QED BY <2>5, <2>6, <2>7 DEF EnrollInv
<1> QED BY <1>1, <1>2, <1>3 DEF E!options

LEMMA EnrollRefuse ==
  ASSUME E!EnrollmentsAreLegal, EnrollInv, E!refuse
  PROVE  EnrollInv'
<1>1. /\ ToolTypeInv /\ step = "check" /\ bootloader = << >> /\ step' = "done" /\ ret' = "FAILURE"
      /\ UNCHANGED <<executable, bootloader, argv, index, reset, checked_count, first>>
  BY DEF EnrollInv, E!refuse, E!Exit, InMemory
<1> QED BY <1>1, EnrollExit DEF ToolTypeInv

LEMMA EnrollRead ==
  ASSUME E!EnrollmentsAreLegal, EnrollInv, E!read
  PROVE  EnrollInv'
<1>0. /\ ToolTypeInv /\ step = "check" /\ executable = Executable /\ Asked
      /\ bootloader = << >> /\ checked_count = 0
  BY DEF EnrollInv, E!read, ReadOnly, Following, InMemory
<1>1. CASE /\ Len(executable) > 0 /\ bootloader' = executable
           /\ step' = "search" /\ index' = 1
           /\ UNCHANGED <<executable, argv, reset, checked_count, ret, first>>
  <2>1. Len(Signature) \in Nat \ {0} /\ 1 \in Nat \ {0}
    BY <1>0, EnrollLegal DEF ToolTypeInv
  <2>2. ToolTypeInv'
    BY <1>0, <1>1, <2>1 DEF ToolTypeInv
  <2>3. ReadOnly' /\ Following' /\ InMemory'
    BY <1>0, <1>1 DEF ReadOnly, Following, InMemory, Executable, Asked
  <2>4. Matching'
    <3>1. checked_count' = 0 /\ index' = 1 /\ 0 < Len(Signature)
      BY <1>0, <1>1, <2>1
    <3>2. ~ \E p \in E!Stands(Executable)' : p < index' - checked_count'
      <4> SUFFICES ASSUME NEW p \in 1 .. Len(Executable') - Len(Signature) + 1, p < 1 PROVE FALSE
        BY <3>1 DEF E!Stands
      <4>1. Executable' \in Seq(Letters)
        BY <1>0, <1>1, EnrollLegal DEF ToolTypeInv, Executable
      <4> QED BY <4>1, <2>1, LenProperties
    <3> QED BY <3>1, <3>2 DEF Matching
  <2>5. FoundInv' /\ PatchedInv' /\ E!Enrolled'
    BY <1>1 DEF FoundInv, PatchedInv, E!Enrolled
  <2> QED BY <2>2, <2>3, <2>4, <2>5 DEF EnrollInv
<1>2. CASE E!Exit("FAILURE") /\ UNCHANGED <<executable, bootloader>>
  <2>1. /\ step' = "done" /\ ret' = "FAILURE"
        /\ UNCHANGED <<executable, bootloader, argv, index, reset, checked_count, first>>
    BY <1>2 DEF E!Exit
  <2> QED BY <1>0, <2>1, EnrollExit DEF ToolTypeInv
<1> QED BY <1>1, <1>2 DEF E!read

(* One character further, with or without a match.                         *)
LEMMA EnrollSearch ==
  ASSUME E!EnrollmentsAreLegal, EnrollInv, E!search
  PROVE  EnrollInv'
<1> DEFINE SL == Len(Signature)
           from == index - checked_count
<1>0. /\ ToolTypeInv /\ step = "search" /\ executable = Executable /\ Asked /\ bootloader = Executable
      /\ UNCHANGED <<executable, argv, reset, bootloader, ret, first>>
      /\ E!InRange /\ index' = index + 1
      /\ step' \in {"search", "patch"}
  BY DEF EnrollInv, E!search, ReadOnly, Following, InMemory
<1>1. /\ Len(Signature) \in Nat \ {0} /\ SumLength \in Nat /\ Len(Executable) \in Nat
      /\ E!Room = Len(Signature) + SumLength
  BY <1>0, EnrollLegal DEF ToolTypeInv
<1>2. /\ index \in Nat \ {0} /\ checked_count \in Nat /\ checked_count < SL /\ checked_count < index
      /\ \A j \in 1 .. checked_count : Executable[from + j - 1] = Signature[j]
      /\ \A p \in E!Stands(Executable) : p < from => Missed(p)
  BY <1>0 DEF EnrollInv, ToolTypeInv, Matching
<1>3. index <= Len(Executable) - E!Room + 1
  BY <1>0 DEF E!InRange
<1>4. checked_count' \in Nat /\ index' \in Nat \ {0}
  BY <1>2 DEF E!search, E!AfterMismatch
<1>5. ToolTypeInv' /\ E!Enrolled'
  <2>1. ToolTypeInv'
    BY <1>0, <1>4 DEF ToolTypeInv
  <2> QED BY <1>0, <2>1 DEF E!Enrolled
<1>6. ReadOnly' /\ Following' /\ InMemory' /\ PatchedInv'
  BY <1>0 DEF ReadOnly, Following, InMemory, PatchedInv, Executable, Asked
<1>7. CASE /\ bootloader[index] # Signature[checked_count + 1]
           /\ checked_count' = E!AfterMismatch /\ step' = step
  <2>1. checked_count' = 0 /\ step' = "search"
    BY <1>0, <1>7 DEF E!AfterMismatch
  <2>2. ASSUME NEW p \in E!Stands(Executable), p < index + 1 PROVE Missed(p)
    <3>1. /\ p \in Int /\ p >= 1 /\ p + SL - 1 <= Len(Executable)
          /\ \A j \in 1 .. SL : Executable[p + j - 1] = Signature[j]
      <4>1. p \in Int
        BY <1>1 DEF E!Stands
      <4> QED BY <4>1, <1>0, StandsIs DEF ToolTypeInv
    <3>2. CASE p < from
      BY <3>2, <1>2
    <3>3. CASE p = from
      <4>1. p + (checked_count + 1) - 1 = index /\ checked_count + 1 \in 1 .. SL
        BY <3>3, <1>1, <1>2
      <4>2. Executable[p + (checked_count + 1) - 1] = Signature[checked_count + 1]
        BY <3>1, <4>1
      <4> QED BY <4>1, <4>2, <1>0, <1>7
    <3>4. CASE p > from
      <4> DEFINE m == p - from
      <4>1. m \in 1 .. checked_count /\ m \in 1 .. SL - 1 /\ m < p /\ p - m = from
        BY <2>2, <3>1, <3>4, <1>1, <1>2
      <4>2. SubSeq(Executable, p - m, p - 1) = SubSeq(Signature, 1, m)
        <5>1. \A j \in 1 .. m : Executable[(p - m) + j - 1] = Signature[1 + j - 1]
          <6> SUFFICES ASSUME NEW j \in 1 .. m PROVE Executable[(p - m) + j - 1] = Signature[1 + j - 1]
            OBVIOUS
          <6>1. j \in 1 .. checked_count /\ 1 + j - 1 = j
            BY <4>1, <1>2
          <6>2. Executable[from + j - 1] = Signature[j]
            BY <6>1, <1>2
          <6> HIDE DEF m, from
          <6> QED BY <6>1, <6>2, <4>1
        <5>2. \A j \in p - m .. p - 1 : Executable[j] \in Letters
          <6>1. Executable \in Seq(Letters)
            BY <1>0, EnrollLegal DEF ToolTypeInv
          <6>2. p - m >= 1 /\ p - 1 <= Len(Executable)
            BY <4>1, <3>1, <1>1, <1>2
          <6> QED BY <6>1, <6>2, <4>1, <3>1, <1>1, ElementOfSeq
        <5>3. \A j \in 1 .. m : Signature[j] \in Letters
          <6>1. Signature \in Seq(Letters)
            BY <1>0, EnrollLegal DEF ToolTypeInv
          <6> QED BY <6>1, <4>1, <1>1, ElementOfSeq
        <5>4. p - m \in Int /\ p - 1 \in Int /\ m \in Int /\ (p - 1) - (p - m) + 1 = m /\ m - 1 + 1 = m
              /\ p - m <= p - 1 /\ 1 <= m
          BY <4>1, <3>1
        <5> DEFINE a == SubSeq(Executable, p - m, p - 1)   b == SubSeq(Signature, 1, m)
        <5>5. a \in Seq(Letters) /\ Len(a) = m /\ \A j \in 1 .. m : a[j] = Executable[(p - m) + j - 1]
          <6>1. /\ a \in Seq(Letters)
                /\ Len(a) = IF p - m <= p - 1 THEN (p - 1) - (p - m) + 1 ELSE 0
                /\ \A j \in 1 .. (p - 1) - (p - m) + 1 : a[j] = Executable[(p - m) + j - 1]
            BY <5>2, <5>4, SubSeqProperties
          <6> HIDE DEF a, m
          <6> QED BY <6>1, <5>4
        <5>6. b \in Seq(Letters) /\ Len(b) = m /\ \A j \in 1 .. m : b[j] = Signature[1 + j - 1]
          <6>1. /\ b \in Seq(Letters)
                /\ Len(b) = IF 1 <= m THEN m - 1 + 1 ELSE 0
                /\ \A j \in 1 .. m - 1 + 1 : b[j] = Signature[1 + j - 1]
            BY <5>3, <5>4, SubSeqProperties
          <6> HIDE DEF b, m
          <6> QED BY <6>1, <5>4
        <5> HIDE DEF a, b, m
        <5>7. \A j \in 1 .. Len(a) : a[j] = b[j]
          BY <5>1, <5>5, <5>6
        <5>8. a = b
          BY <5>5, <5>6, <5>7, SeqEqual
        <5> QED BY <5>8 DEF a, b
      <4> QED BY <4>1, <4>2 DEF Missed
    <3> QED BY <3>1, <3>2, <3>3, <3>4, <1>2
  <2>3. Matching'
    <3>1. /\ checked_count' < Len(Signature) /\ checked_count' < index'
          /\ \A j \in 1 .. checked_count' : FALSE
          /\ index' - checked_count' = index + 1
      BY <2>1, <1>0, <1>1, <1>2
    <3>2. Executable' = Executable /\ (\A p : Missed(p)' <=> Missed(p))
      BY <1>0 DEF Executable, Missed
    <3> QED BY <3>1, <3>2, <2>2 DEF Matching
  <2>4. FoundInv'
    BY <2>1 DEF FoundInv
  <2> QED BY <1>5, <1>6, <2>3, <2>4 DEF EnrollInv
<1>8. CASE /\ bootloader[index] = Signature[checked_count + 1]
           /\ checked_count' = checked_count + 1
           /\ step' = IF checked_count + 1 = Len(Signature) THEN "patch" ELSE step
  <2>0. from = index' - checked_count' /\ checked_count' \in 1 .. SL /\ checked_count' < index'
    BY <1>0, <1>1, <1>2, <1>8
  <2>1. \A j \in 1 .. checked_count' : Executable[from + j - 1] = Signature[j]
    <3> SUFFICES ASSUME NEW j \in 1 .. checked_count' PROVE Executable[from + j - 1] = Signature[j]
      OBVIOUS
    <3>1. CASE j \in 1 .. checked_count
      BY <3>1, <1>2
    <3>2. CASE j = checked_count + 1
      <4>1. from + j - 1 = index
        BY <3>2, <1>2
      <4> QED BY <4>1, <3>2, <1>0, <1>8
    <3> QED BY <3>1, <3>2, <1>2, <1>8
  <2>2. Executable' = Executable /\ (\A p : Missed(p)' <=> Missed(p))
    BY <1>0 DEF Executable, Missed
  <2>3. Matching'
    <3>1. step' = "search" => checked_count' < Len(Signature)
      BY <1>0, <1>1, <1>2, <1>8
    <3>2. \A p \in E!Stands(Executable) : p < index' - checked_count' => Missed(p)
      BY <1>2, <2>0
    <3>3. \A j \in 1 .. checked_count' : Executable[index' - checked_count' + j - 1] = Signature[j]
      BY <2>0, <2>1
    <3> QED BY <3>1, <3>2, <3>3, <2>0, <2>2 DEF Matching
  <2>4. FoundInv'
    <3>1. SUFFICES ASSUME step' = "patch" PROVE FoundInv'
      BY <1>0 DEF FoundInv
    <3>2. checked_count' = SL /\ from = index' - SL
      BY <3>1, <1>0, <1>8, <2>0
    <3>3. /\ from \in Int /\ from >= 1 /\ from + SL - 1 <= Len(Executable)
          /\ index' + SumLength - 1 <= Len(Executable)
      BY <3>2, <1>0, <1>1, <1>2, <1>3
    <3>4. from \in E!Stands(Executable)
      BY <3>2, <3>3, <2>1, <1>0, StandsIs DEF ToolTypeInv
    <3> QED BY <3>2, <3>3, <3>4, <2>2 DEF FoundInv
  <2> QED BY <1>5, <1>6, <2>3, <2>4 DEF EnrollInv
<1> QED BY <1>7, <1>8 DEF E!search

LEMMA EnrollNotFound ==
  ASSUME E!EnrollmentsAreLegal, EnrollInv, E!not_found
  PROVE  EnrollInv'
<1>1. /\ ToolTypeInv /\ step = "search" /\ executable = Executable /\ step' = "done" /\ ret' = "FAILURE"
      /\ UNCHANGED <<executable, bootloader, argv, index, reset, checked_count, first>> /\ Matching
      /\ ~ E!InRange
  BY DEF EnrollInv, E!not_found, E!Exit, ReadOnly
<1>2. /\ Len(Signature) \in Nat \ {0} /\ SumLength \in Nat /\ Len(Executable) \in Nat
      /\ E!Room = Len(Signature) + SumLength
  BY <1>1, EnrollLegal DEF ToolTypeInv
<1>3. ASSUME NEW p \in E!Stands(Executable) PROVE Missed(p)
  <2>1. p \in Int /\ index \in Nat /\ checked_count \in Nat
    BY <1>1, <1>2 DEF E!Stands, ToolTypeInv
  <2>2. index > Len(Executable) - E!Room + 1 /\ checked_count < Len(Signature)
    BY <1>1, <1>2, <2>1 DEF E!InRange, Matching
  <2>3. CASE p < index - checked_count
    BY <1>1, <2>3 DEF Matching
  <2>4. CASE p >= index - checked_count
    <3>1. p + Len(Signature) - 1 > Len(Executable) - E!Room + 1
      BY <1>2, <2>1, <2>2, <2>4
    <3> QED BY <3>1 DEF Missed
  <2> QED BY <2>1, <2>3, <2>4
<1> QED BY <1>1, <1>3, EnrollExit DEF ToolTypeInv

LEMMA EnrollPatch ==
  ASSUME E!EnrollmentsAreLegal, EnrollInv, E!patch
  PROVE  EnrollInv'
<1>0. /\ ToolTypeInv /\ step = "patch" /\ step' = "write" /\ executable = Executable /\ Asked
      /\ bootloader = Executable
      /\ UNCHANGED <<executable, argv, index, reset, checked_count, ret, first>>
      /\ bootloader' = [n \in 1 .. Len(Executable) |->
           IF n \in index .. index + SumLength - 1 THEN Wanted[n - index + 1] ELSE Executable[n]]
  BY DEF EnrollInv, E!patch, ReadOnly, Following, InMemory, Wanted
<1>1. /\ Len(Executable) \in Nat /\ SumLength \in Nat /\ Executable \in Seq(Letters)
      /\ Wanted \in Seq(Letters) /\ Len(Wanted) = SumLength /\ index \in Nat \ {0}
  BY <1>0, EnrollLegal, WantedIs DEF ToolTypeInv
<1>2. bootloader' \in Seq(Letters) /\ Len(bootloader') = Len(Executable)
  <2>1. ASSUME NEW n \in 1 .. Len(Executable)
        PROVE  (IF n \in index .. index + SumLength - 1 THEN Wanted[n - index + 1] ELSE Executable[n])
                 \in Letters
    <3>1. CASE n \in index .. index + SumLength - 1
      <4>1. n - index + 1 \in 1 .. Len(Wanted)
        BY <3>1, <1>1
      <4> QED BY <3>1, <4>1, <1>1, ElementOfSeq
    <3>2. CASE n \notin index .. index + SumLength - 1
      BY <3>2, <1>1, ElementOfSeq
    <3> QED BY <3>1, <3>2
  <2>2. bootloader' \in [1 .. Len(Executable) -> Letters]
    BY <1>0, <2>1
  <2>3. bootloader' \in Seq(Letters)
    BY <2>2, <1>1, SeqDef
  <2>4. Len(bootloader') \in Nat /\ 1 .. Len(bootloader') = 1 .. Len(Executable)
    BY <2>2, <2>3, LenProperties
  <2> QED BY <2>3, <2>4, <1>1
<1>3. ToolTypeInv'
  BY <1>0, <1>2 DEF ToolTypeInv
<1>4. ReadOnly' /\ Following' /\ InMemory' /\ Matching' /\ E!Enrolled'
  BY <1>0 DEF ReadOnly, Following, InMemory, Matching, E!Enrolled, Executable, Asked
<1>5. FoundInv'
  <2>1. FoundInv
    BY DEF EnrollInv
  <2> QED BY <2>1, <1>0 DEF FoundInv, Executable
<1>6. PatchedInv'
  <2>1. Executable' = Executable /\ Wanted' = Wanted
    BY <1>0 DEF Executable, Wanted
  <2> QED BY <2>1, <1>0, <1>2 DEF PatchedInv
<1> QED BY <1>3, <1>4, <1>5, <1>6 DEF EnrollInv

(* What a write leaves, whole or torn: in each place what was there or     *)
(* what was meant to be there.                                             *)
LEMMA EnrollWritten ==
  ASSUME EnrollInv, E!EnrollmentsAreLegal, E!write
  PROVE  /\ executable' \in Seq(Letters) /\ Len(executable') = Len(Executable)
         /\ \A n \in 1 .. Len(Executable) :
              executable'[n] = bootloader[n] \/ executable'[n] = Executable[n]
         /\ ret' = "SUCCESS" /\ ~ unwritten' => executable' = bootloader
<1>0. /\ step = "write" /\ executable = Executable /\ bootloader \in Seq(Letters)
      /\ Len(bootloader) = Len(Executable) /\ index \in Nat \ {0}
      /\ FoundInv /\ first \in Enrollments
  BY DEF EnrollInv, E!write, ReadOnly, ToolTypeInv, PatchedInv
<1>1. /\ Len(Executable) \in Nat /\ SumLength \in Nat \ {0} /\ Executable \in Seq(Letters)
      /\ Len(Signature) \in Nat \ {0}
  BY <1>0, EnrollLegal
<1>2. CASE executable' = bootloader
  BY <1>0, <1>2
<1>3. ASSUME NEW n \in {0, E!Half, index},
             executable' = SubSeq(bootloader, 1, n) \o SubSeq(executable, n + 1, Len(executable))
      PROVE  /\ executable' \in Seq(Letters) /\ Len(executable') = Len(Executable)
             /\ \A m \in 1 .. Len(Executable) :
                  executable'[m] = bootloader[m] \/ executable'[m] = Executable[m]
  <2> DEFINE L == Len(Executable)
             a == SubSeq(bootloader, 1, n)   b == SubSeq(executable, n + 1, L)
  <2>1. n \in 0 .. L
    <3>1. E!Half \in 0 .. L
      BY <1>0, <1>1 DEF E!Half
    <3>2. index <= L
      BY <1>0, <1>1 DEF FoundInv
    <3> QED BY <3>1, <3>2, <1>0, <1>1
  <2>2. a \in Seq(Letters) /\ Len(a) = n /\ \A j \in 1 .. n : a[j] = bootloader[j]
    <3>1. \A j \in 1 .. n : bootloader[j] \in Letters
      BY <1>0, <2>1, ElementOfSeq
    <3>2. /\ a \in Seq(Letters) /\ Len(a) = (IF 1 <= n THEN n - 1 + 1 ELSE 0)
          /\ \A j \in 1 .. n - 1 + 1 : a[j] = bootloader[1 + j - 1]
      BY <3>1, <2>1, SubSeqProperties
    <3> HIDE DEF a
    <3> QED BY <3>2, <2>1
  <2>3. b \in Seq(Letters) /\ Len(b) = L - n /\ \A j \in 1 .. L - n : b[j] = executable[n + j]
    <3>1. \A j \in n + 1 .. L : executable[j] \in Letters
      BY <1>0, <1>1, <2>1, ElementOfSeq
    <3>2. /\ b \in Seq(Letters) /\ Len(b) = (IF n + 1 <= L THEN L - (n + 1) + 1 ELSE 0)
          /\ \A j \in 1 .. L - (n + 1) + 1 : b[j] = executable[(n + 1) + j - 1]
      BY <3>1, <2>1, <1>1, SubSeqProperties
    <3> HIDE DEF b
    <3> QED BY <3>2, <2>1, <1>1
  <2>4. executable' = a \o b
    BY <1>0, <1>3
  <2> HIDE DEF a, b
  <2>5. /\ a \o b \in Seq(Letters) /\ Len(a \o b) = Len(a) + Len(b)
        /\ \A j \in 1 .. Len(a) + Len(b) : (a \o b)[j] = IF j <= Len(a) THEN a[j] ELSE b[j - Len(a)]
    BY <2>2, <2>3, ConcatProperties
  <2>6. Len(a) + Len(b) = L
    BY <2>1, <2>2, <2>3, <1>1
  <2>7. ASSUME NEW m \in 1 .. L PROVE executable'[m] = bootloader[m] \/ executable'[m] = Executable[m]
    <3>1. CASE m <= n
      BY <3>1, <2>1, <2>2, <2>4, <2>5, <2>6
    <3>2. CASE m > n
      <4>1. m - n \in 1 .. L - n /\ n + (m - n) = m /\ ~ m <= n
        BY <3>2, <2>1, <1>1
      <4>2. b[m - n] = executable[m]
        BY <4>1, <2>3
      <4>3. (a \o b)[m] = b[m - n]
        BY <4>1, <2>2, <2>5, <2>6
      <4> QED BY <4>2, <4>3, <2>4, <1>0
    <3> QED BY <3>1, <3>2, <2>1
  <2> QED BY <2>4, <2>5, <2>6, <2>7
<1>4. \/ executable' = bootloader
      \/ \E n \in {0, E!Half, index} :
           executable' = SubSeq(bootloader, 1, n) \o SubSeq(executable, n + 1, Len(executable))
  BY DEF E!write, E!Begun
<1>5. \/ executable' = bootloader
      \/ ret' = "FAILURE"
      \/ unwritten' = TRUE
  BY DEF E!write, E!Exit
<1>6. ret' = "SUCCESS" /\ ~ unwritten' => executable' = bootloader
  BY <1>5
<1> QED BY <1>2, <1>3, <1>4, <1>6

LEMMA EnrollWrite ==
  ASSUME E!EnrollmentsAreLegal, EnrollInv, E!write
  PROVE  EnrollInv'
<1> DEFINE p == index - Len(Signature)
<1>0. /\ step = "write" /\ step' = "done" /\ Asked /\ ToolTypeInv /\ FoundInv /\ PatchedInv
      /\ UNCHANGED <<bootloader, argv, index, reset, checked_count, first>>
  BY DEF EnrollInv, E!write, E!Exit, Following
<1>1. /\ Len(Executable) \in Nat /\ SumLength \in Nat /\ Executable \in Seq(Letters)
      /\ Len(Signature) \in Nat \ {0} /\ E!Room = Len(Signature) + SumLength
      /\ Wanted \in Seq(Letters) /\ Len(Wanted) = SumLength /\ index \in Nat \ {0}
  BY <1>0, EnrollLegal, WantedIs DEF ToolTypeInv
<1>2. /\ p \in E!Stands(Executable) /\ p + Len(Signature) = index /\ p + E!Room - 1 = index + SumLength - 1
      /\ index + SumLength - 1 <= Len(Executable) /\ checked_count = Len(Signature)
  BY <1>0, <1>1 DEF FoundInv
<1>3. /\ executable' \in Seq(Letters) /\ Len(executable') = Len(Executable)
      /\ \A n \in 1 .. Len(Executable) :
              executable'[n] = bootloader[n] \/ executable'[n] = Executable[n]
      /\ ret' = "SUCCESS" /\ ~ unwritten' => executable' = bootloader
  BY <1>0, EnrollWritten
<1>4. ToolTypeInv'
  BY <1>0, <1>3 DEF ToolTypeInv
<1>5. ReadOnly' /\ Following' /\ InMemory' /\ Matching' /\ FoundInv' /\ PatchedInv'
  BY <1>0 DEF ReadOnly, Following, InMemory, Matching, FoundInv, PatchedInv
<1>6. \A n \in 1 .. Len(Executable) :
        bootloader[n] = IF n \in index .. index + SumLength - 1 THEN Wanted[n - index + 1]
                        ELSE Executable[n]
  BY <1>0 DEF PatchedInv
<1>7. ASSUME NEW n \in 1 .. Len(Executable), executable'[n] # Executable[n]
      PROVE  n \in E!Behind(p) /\ executable'[n] = Wanted[n - p - Len(Signature) + 1]
  <2>1. n \in index .. index + SumLength - 1 /\ executable'[n] = Wanted[n - index + 1]
    BY <1>3, <1>6, <1>7
  <2>2. n - p - Len(Signature) + 1 = n - index + 1 /\ E!Behind(p) = index .. index + SumLength - 1
    BY <1>1, <1>2 DEF E!Behind
  <2> QED BY <2>1, <2>2
<1>8. ASSUME ret' = "SUCCESS", ~ unwritten'
      PROVE  SubSeq(executable', p + Len(Signature), p + E!Room - 1) = Wanted
  <2> DEFINE t == SubSeq(executable', index, index + SumLength - 1)
  <2>1. \A n \in index .. index + SumLength - 1 : executable'[n] \in Letters /\ executable'[n] = Wanted[n - index + 1]
    <3> SUFFICES ASSUME NEW n \in index .. index + SumLength - 1
                 PROVE  executable'[n] \in Letters /\ executable'[n] = Wanted[n - index + 1]
      OBVIOUS
    <3>1. n \in 1 .. Len(Executable) /\ n - index + 1 \in 1 .. Len(Wanted)
      BY <1>1, <1>2
    <3>2. executable'[n] = Wanted[n - index + 1]
      BY <3>1, <1>3, <1>6, <1>8
    <3> QED BY <3>1, <3>2, <1>1, ElementOfSeq
  <2>2. index + SumLength - 1 \in Int /\ (index + SumLength - 1) - index + 1 = SumLength
        /\ (IF index <= index + SumLength - 1 THEN SumLength ELSE 0) = SumLength
    BY <1>1
  <2>3. /\ t \in Seq(Letters)
        /\ Len(t) = IF index <= index + SumLength - 1 THEN (index + SumLength - 1) - index + 1 ELSE 0
        /\ \A j \in 1 .. (index + SumLength - 1) - index + 1 : t[j] = executable'[index + j - 1]
    BY <2>1, <2>2, <1>1, SubSeqProperties
  <2> HIDE DEF t
  <2>4. Len(t) = SumLength
    BY <2>2, <2>3
  <2>5. \A j \in 1 .. Len(t) : t[j] = Wanted[j]
    <3> SUFFICES ASSUME NEW j \in 1 .. Len(t) PROVE t[j] = Wanted[j]
      OBVIOUS
    <3>1. index + j - 1 \in index .. index + SumLength - 1 /\ (index + j - 1) - index + 1 = j
          /\ j \in 1 .. (index + SumLength - 1) - index + 1
      BY <2>4, <1>1
    <3> QED BY <3>1, <2>1, <2>3
  <2>6. t = Wanted
    BY <2>3, <2>4, <2>5, <1>1, SeqEqual
  <2> QED BY <2>6, <1>2 DEF t
<1>9. E!Enrolled'
  <2> DEFINE changed == {n \in 1 .. Len(first'.file) : executable'[n] # first'.file[n]}
             wanted  == IF reset' THEN E!Reset ELSE Sum
             asked   == first'.argv # << >> /\ Head(first'.argv) = "enroll-config"
  <2> HIDE DEF p
  <2>1. Executable = first'.file /\ wanted = Wanted /\ asked
    BY <1>0 DEF Executable, Wanted, Asked
  <2>2. changed # {} => \E q \in E!Stands(first'.file) :
           changed \subseteq E!Behind(q)
             /\ \A n \in changed : executable'[n] = wanted[n - q - Len(Signature) + 1]
    BY <1>2, <1>7, <2>1
  <2>3. ret' = "SUCCESS" /\ ~ unwritten' =>
           \E q \in E!Stands(first'.file) : SubSeq(executable', q + Len(Signature), q + E!Room - 1) = wanted
    BY <1>2, <1>8, <2>1
  <2>4. ~ checked_count' < Len(Signature)
    BY <1>0, <1>1, <1>2
  <2>5. Len(executable') = Len(first'.file)
    BY <1>3, <2>1
  <2> QED BY <2>1, <2>2, <2>3, <2>4, <2>5 DEF E!Enrolled
<1> QED BY <1>4, <1>5, <1>9 DEF EnrollInv

LEMMA EnrollStutter == EnrollInv /\ UNCHANGED E!enroll_vars => EnrollInv'
<1> SUFFICES ASSUME EnrollInv, UNCHANGED E!enroll_vars PROVE EnrollInv'
  OBVIOUS
<1>0. UNCHANGED <<step, executable, argv, index, reset, bootloader, checked_count, ret, unwritten, first>>
  BY DEF E!enroll_vars
<1>1. Executable' = Executable /\ Wanted' = Wanted /\ (Asked' <=> Asked) /\ (\A p : Missed(p)' <=> Missed(p))
  BY <1>0 DEF Executable, Wanted, Asked, Missed
<1>2. ToolTypeInv'
  BY <1>0 DEF EnrollInv, ToolTypeInv
<1>3. ReadOnly' /\ InMemory' /\ FoundInv'
  BY <1>0, <1>1 DEF EnrollInv, ReadOnly, InMemory, FoundInv
<1>4. Following'
  BY <1>0, <1>1 DEF EnrollInv, Following
<1>5. Matching'
  BY <1>0, <1>1 DEF EnrollInv, Matching
<1>6. PatchedInv'
  BY <1>0, <1>1 DEF EnrollInv, PatchedInv
<1>7. E!Enrolled'
  BY <1>0 DEF EnrollInv, E!Enrolled
<1> QED BY <1>2, <1>3, <1>4, <1>5, <1>6, <1>7 DEF EnrollInv

(* For every executable and every command line: `enroll-config` writes the *)
(* checksum, or zeros, behind a whole signature and nowhere else, all of   *)
(* it when it says so and fclose loses nothing, changes nothing when it    *)
(* fails but where it was writing, and overlooks a                         *)
(* signature only after a beginning of itself or at the end of the file;   *)
(* no other command touches the executable (limine.c:1279-1388).           *)
THEOREM ChecksumEnrolled == ASSUME E!EnrollmentsAreLegal PROVE E!EnrollSpec => []Enrolled
<1>1. (\E e \in Enrollments : E!EnrollInit(e)) => EnrollInv
  BY EnrollStart
<1>2. EnrollInv /\ [E!enroll_config]_E!enroll_vars => EnrollInv'
  BY EnrollMain, EnrollOptions, EnrollRefuse, EnrollRead, EnrollSearch, EnrollNotFound, EnrollPatch,
     EnrollWrite, EnrollStutter DEF E!enroll_config
<1>3. EnrollInv => Enrolled
  BY DEF EnrollInv, Enrolled
<1> QED BY <1>1, <1>2, <1>3, PTL DEF E!EnrollSpec
=============================================================================
