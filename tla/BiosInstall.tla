---------------------------- MODULE BiosInstall ----------------------------
(***************************************************************************)
(* `limine bios-install`, bios_install of limine.c: what it decides from   *)
(* what is on the device, the writes it makes in which order, undoing them *)
(* when it fails, and undoing a finished install in a later process, with  *)
(* a device that may fail any transfer (BlockCache).                       *)
(*                                                                         *)
(* What the install reads and writes is a function of the device as it was *)
(* and of the options: Plan computes it, reading from the device as the    *)
(* writes planned so far leave it.  Offsets and sizes are the real ones.   *)
(* A checksum is the content it is made of; a name, type or boot image is  *)
(* a value.  The random disk id is one value.                              *)
(***************************************************************************)
EXTENDS BlockCache, FiniteSets, TLC

CONSTANTS
  UINT32_MAX,
  Scenarios       \* [disk : cells, size : of the device in bytes, image : bytes of the
                  \*  image, force_mbr, convert : BOOLEAN, part_ndx : Nat (0 none), faults : Nat]

VARIABLES
  scenario,
  plan,           \* Plan(scenario), its calls and whether they end in success
  pc,             \* "init", "install", "cleanup", "undo", "retry", "close", "exit"
  later,          \* in the process started for --uninstall
  k,              \* the call of the plan, or the entry of the log, it is at
  writing,        \* _device_write has read the old data
  ok,             \* installed
  retry, write_failed, flush_failed,  \* uninstall
  file,           \* the uninstall data file: [count, entries]
  torn            \* history: the cells of the write that failed

vars == <<device_vars, uninstall_data, progress, buffer, scenario, plan, pc, later, k, writing, ok,
          retry, write_failed, flush_failed, file, torn>>

-----------------------------------------------------------------------------
(* Values.                                                                 *)
Num(n)   == << "number", n >>
Zero     == Num(0)
Word(t)  == << "text", t >>
Image(n) == << "image", n >>          \* the image from byte n on

(* A GPT entry; a GPT header with what its checksums cover.  Fields of an  *)
(* entry: type, first and last block.                                      *)
GptEntry(type, first, last) == << "entry", type, first, last >>
GptHeader(other, array, count, content) == << "EFI PART", other, array, count, content >>
IsGpt(v) == v[1] = "EFI PART"
alternate_lba(h)               == h[2]
partition_entry_lba(h)         == h[3]
number_of_partition_entries(h) == h[4]
size_of_partition_entry        == 128
IsEntry(v) == v[1] = "entry"

(* Offsets are those of bytes, the numbers in a GPT are numbers.           *)
ASSUME ScenariosAreLegal ==
  \A s \in Scenarios :
    /\ DOMAIN s.disk \subseteq Nat /\ s.size \in Nat /\ s.image \in Nat /\ s.part_ndx \in Nat
    /\ \A c \in DOMAIN s.disk :
         LET v == s.disk[c] IN
         /\ IsGpt(v) => alternate_lba(v) \in Nat /\ partition_entry_lba(v) \in Nat
                          /\ number_of_partition_entries(v) \in Nat
         /\ IsEntry(v) => v[3] \in Nat /\ v[4] \in Nat

gpt2mbr_type(type) ==
  CASE type = "EFI system"   -> 239
    [] type = "Microsoft"    -> 7
    [] type = "HFS"          -> 175
    [] OTHER                 -> -1

-----------------------------------------------------------------------------
(* A plan: the calls made so far, the device as they leave it, and what    *)
(* has been found: [calls, dev, going, lb_size, gpt, mbr, active].         *)
Ask(p, at, count) ==
  IF ~ p.going THEN p
  ELSE [p EXCEPT !.calls = Append(@, [op |-> "read", at |-> at, count |-> count])]

Bytes(p, at, count, v) == [c \in {d \in DOMAIN p.dev : at <= d /\ d < at + count} |-> v[c]]
Written(d, at, count, v) == [c \in DOMAIN d |-> IF at <= c /\ c < at + count THEN v[c] ELSE d[c]]

Tell(p, at, count, v) ==
  IF ~ p.going THEN p
  ELSE [p EXCEPT !.calls = Append(@, [op |-> "write", at |-> at, count |-> count,
                                      data |-> Bytes(p, at, count, v)]),
                 !.dev = Written(@, at, count, v)]

Abort(p) == [p EXCEPT !.going = FALSE]
At(p, c) == IF c \in DOMAIN p.dev THEN p.dev[c] ELSE Zero

(* Writes of zeros, count bytes each, from the places at on.               *)
Clear(p, at, count) ==
  LET zeros == [i \in DOMAIN at |-> Bytes(p, at[i], count, [c \in Nat |-> Zero])] IN
  [p EXCEPT
     !.calls = @ \o [i \in DOMAIN at |-> [op |-> "write", at |-> at[i], count |-> count,
                                         data |-> zeros[i]]],
     !.dev = Over([c \in UNION {DOMAIN zeros[i] : i \in DOMAIN at} |-> Zero], @)]

(* GPT on 512 or 4096 byte blocks, with a valid second header.             *)
FindGpt(s, p) ==
  LET small == Ask(p, 512, 96)
      big   == Ask(small, 4096, 96)
      found == IF IsGpt(At(p, 512)) THEN [small EXCEPT !.lb_size = 512, !.gpt = TRUE]
               ELSE IF IsGpt(At(p, 4096)) THEN [big EXCEPT !.lb_size = 4096, !.gpt = TRUE]
               ELSE big
      at    == alternate_lba(At(p, found.lb_size)) * found.lb_size
      both  == Ask(found, at, 96)
  IN IF ~ found.gpt THEN found
     ELSE IF s.force_mbr THEN Abort(found)
     ELSE IF IsGpt(At(p, at)) THEN both ELSE Abort(both)

Primary(p)   == At(p, p.lb_size)
Secondary(p) == At(p, p.lb_size * alternate_lba(Primary(p)))
EntryAt(p, header, i) == partition_entry_lba(header) * p.lb_size + i * size_of_partition_entry

(* The entries are read one by one; to the cache that is reading them all. *)
AskEntries(p) ==
  Ask(p, EntryAt(p, Primary(p), 0), number_of_partition_entries(Primary(p)) * size_of_partition_entry)
UsedEntries(p) ==
  {i \in 0 .. number_of_partition_entries(Primary(p)) - 1 : IsEntry(At(p, EntryAt(p, Primary(p), i)))}

(* A hybrid ISO image gets an MBR in place of its GPT, if an MBR can hold  *)
(* its partitions.                                                         *)
Convertible(p) ==
  /\ Cardinality(UsedEntries(p)) <= 4
  /\ \A i \in UsedEntries(p) :
       LET e == At(p, EntryAt(p, Primary(p), i)) IN
       e[3] <= UINT32_MAX /\ e[4] <= UINT32_MAX /\ gpt2mbr_type(e[2]) # -1

WriteLba(p, base, e) ==
  LET type == Tell(p, base + 4, 1, [c \in Nat |-> Num(gpt2mbr_type(e[2]))])
      lba  == Tell(type, base + 8, 4, [c \in Nat |-> Num(e[3])])
  IN Tell(lba, base + 12, 4, [c \in Nat |-> Num(e[4] - e[3] + 1)])

WriteChs(p, base, e) ==
  LET chs == Tell(p, base + 1, 3, [c \in Nat |-> << "chs", e[3] >>])
  IN Tell(chs, base + 5, 3, [c \in Nat |-> << "chs", e[4] >>])

WritePartition(p, slot, e) ==
  WriteChs(WriteLba(p, 446 + 16 * slot, e), 446 + 16 * slot, e)

(* Mutant: one block too early. *)
SecondArray_early(p) == alternate_lba(Primary(p)) - 33

SecondArray(p) == alternate_lba(Primary(p)) - 32

WriteId(p, at) == Tell(p, at, 1, [c \in Nat |-> Word("random")])

Convert(p) ==
  LET parts  == SetToSortSeq(UsedEntries(p), <)
      other  == SecondArray(p)
      zeroed == Clear(p, [i \in 1 .. 34 |-> (i - 1) * p.lb_size], p.lb_size)
      nuked  == Clear(zeroed, [i \in 1 .. 33 |-> (other + i - 1) * p.lb_size], p.lb_size)
      named  == WriteId(WriteId(WriteId(WriteId(nuked, 440), 441), 442), 443)
      Listed(q, i) ==
        IF i \notin DOMAIN parts THEN q
        ELSE WritePartition(q, i - 1, At(p, EntryAt(p, Primary(p), parts[i])))
  IN [Listed(Listed(Listed(Listed(named, 1), 2), 3), 4) EXCEPT !.gpt = FALSE]

ConvertHybrid(s, p) ==
  LET iso == Ask(p, 32769, 5) IN
  IF ~ (p.going /\ p.gpt /\ s.convert) THEN p
  ELSE IF At(p, 32769) # Word("CD001") THEN iso
  ELSE IF Convertible(p) THEN Convert(AskEntries(iso)) ELSE AskEntries(iso)

-----------------------------------------------------------------------------
(* The checks on an MBR.  A wrong active flag or a file system's signature *)
(* makes it no MBR, or is overwritten with --force-mbr; a partition that   *)
(* starts below sector 63 ends the install.                                *)
Repair(s, p, at, count, v) ==
  IF s.force_mbr THEN Tell(p, at, count, [c \in Nat |-> v]) ELSE [p EXCEPT !.mbr = FALSE]

CheckFlag(s, p, at) ==
  LET flag  == At(p, at)[2]
      high  == (flag \div 128) * 128
      seen  == Ask(p, at, 1)
      fixed == IF flag \in {0, 128} THEN seen ELSE Repair(s, seen, at, 1, Num(high))
  IN [fixed EXCEPT !.active = @ \/ high = 128]

CheckPartition(s, p, at) ==
  LET begun == Ask(CheckFlag(s, p, at), at + 4, 1)
      start == Ask(begun, at + 8, 4)
  IN IF At(p, at + 4) = Zero THEN begun
     ELSE IF At(p, at + 8)[2] < 63 THEN Abort(start) ELSE start

(* A signature of that many bytes, and how many of them are overwritten.   *)
CheckSignature(s, p, at, size, signature, count) ==
  LET seen == Ask(p, at, size) IN
  IF At(p, at) = Word(signature) THEN Repair(s, seen, at, count, Zero) ELSE seen

CheckMbr(s, p) ==
  LET Part(q, at) == CheckPartition(s, q, at)
      Sign(q, at, size, signature, count) == CheckSignature(s, q, at, size, signature, count)
      parts == Part(Part(Part(Part([p EXCEPT !.mbr = TRUE], 446), 462), 478), 494)
      ntfs  == Sign(Sign(parts, 4, 8, "_ECH_FS_", 8), 3, 4, "NTFS", 4)
      fat   == Sign(Sign(Sign(ntfs, 54, 3, "FAT", 5), 82, 3, "FAT", 5), 3, 5, "FAT32", 5)
      signs == Sign(fat, 1080, 2, "ext", 2)
  IN IF ~ p.going \/ p.gpt THEN p
     ELSE IF ~ signs.mbr THEN Abort(signs)
     ELSE IF signs.active THEN signs
     ELSE Tell(signs, 446, 1, [c \in Nat |-> Num(128)])

-----------------------------------------------------------------------------
(* Stage 2 is cut in two halves of whole sectors.                          *)
DIV_ROUNDUP(a, b) == (a + (b - 1)) \div b
Sectors(s)      == DIV_ROUNDUP(s.image - 512, 512)
stage2_size_a(s) == ((Sectors(s) \div 2) + (Sectors(s) % 2)) * 512
stage2_size_b(s) == (Sectors(s) \div 2) * 512
AlignDown(n, a) == (n \div a) * a

(* Embedding in a GPT: the halves take the far ends of the two partition   *)
(* arrays, whose entries are cut down to those that still fit.             *)
NewCount(p, loc_a) ==
  (loc_a \div p.lb_size - partition_entry_lba(Primary(p))) * (p.lb_size \div size_of_partition_entry)

ClearEntries(p, header, from, count) ==
  Clear(p, [i \in 1 .. count - from |-> EntryAt(p, header, from + i - 1)], size_of_partition_entry)

Array(p, count) == [i \in 1 .. count |-> At(p, EntryAt(p, Primary(p), i - 1))]
Shrunk(p, header, count, content) ==
  GptHeader(alternate_lba(header), partition_entry_lba(header), count, content)

Embed(s, p) ==
  LET End(header, size) ==
        AlignDown((partition_entry_lba(header) + 32) * p.lb_size - size, p.lb_size)
      loc_a == End(Primary(p), stage2_size_a(s))
      loc_b == End(Secondary(p), stage2_size_b(s))
      first == IF UsedEntries(p) = {} THEN 0 ELSE Max(UsedEntries(p)) + 1
      count == NewCount(p, loc_a)
      seen  == AskEntries(p)
      one   == ClearEntries(seen, Primary(p), first, count)
      two   == ClearEntries(one, Secondary(p), first, count)
      summed == Ask(two, EntryAt(p, Primary(p), 0), count * size_of_partition_entry)
      content == Array(two, count)
      head  == Tell(summed, p.lb_size, 96, [c \in Nat |-> Shrunk(Primary(p), Primary(p), count, content)])
      heads == Tell(head, p.lb_size * alternate_lba(Primary(p)), 96,
                    [c \in Nat |-> Shrunk(Primary(p), Secondary(p), count, content)])
  IN IF count < first THEN Abort(seen) ELSE [heads EXCEPT !.loc_a = loc_a, !.loc_b = loc_b]

(* In a GPT partition.  The number is compared with the count of entries   *)
(* after one has been taken off, so count + 1 passes.                      *)
InPartition(s, p) ==
  LET at    == EntryAt(p, Primary(p), s.part_ndx - 1)
      seen  == Ask(p, at, size_of_partition_entry)
      loc_a == At(p, at)[3] * p.lb_size
      end_a == loc_a + stage2_size_a(s)
  IN IF s.part_ndx - 1 > number_of_partition_entries(Primary(p)) THEN Abort(p)
     ELSE IF ~ IsEntry(At(p, at)) THEN Abort(seen)
     ELSE [seen EXCEPT !.loc_a = loc_a,
                       !.loc_b = IF end_a % p.lb_size = 0 THEN end_a
                                 ELSE AlignDown(end_a + p.lb_size, p.lb_size)]

Locate(s, p) ==
  IF ~ p.going THEN p
  ELSE IF ~ p.gpt THEN [p EXCEPT !.loc_a = 512, !.loc_b = 512 + stage2_size_a(s)]
  ELSE IF s.part_ndx # 0 THEN InPartition(s, p) ELSE Embed(s, p)

(* Mutant: the table the device had is not put back.                       *)
PutBack_stamp_only(p, old) == Tell(p, 218, 6, old)

(* The time stamp and partition table the boot sector has overwritten.     *)
PutBack(p, old) ==
  Tell(Tell(p, 218, 6, old), 440, 70, old)

(* Boot sector, both halves, their place in the boot sector.              *)
WriteHalves(s, p) ==
  LET a    == stage2_size_a(s)
      boot == Tell(p, 0, 512, [c \in Nat |-> Image(c)])
      one  == Tell(boot, p.loc_a, a, [c \in Nat |-> Image(512 + c - p.loc_a)])
  IN Tell(one, p.loc_b, s.image - 512 - a, [c \in Nat |-> Image(512 + a + c - p.loc_b)])

WriteNumber(p, at, count, n) == Tell(p, at, count, [c \in Nat |-> Num(n)])

WriteStages(s, p) ==
  LET kept  == Ask(Ask(p, 218, 6), 440, 70)
      sizes == WriteNumber(WriteNumber(WriteHalves(s, kept), 420, 2, stage2_size_a(s)),
                           422, 2, stage2_size_b(s))
      said  == WriteNumber(WriteNumber(sizes, 424, 8, p.loc_a), 432, 8, p.loc_b)
  IN PutBack(said, p.dev)

Plan(s) ==
  LET start == [calls |-> << >>, dev |-> s.disk, going |-> TRUE, lb_size |-> 512, gpt |-> FALSE,
                mbr |-> FALSE, active |-> FALSE, loc_a |-> 0, loc_b |-> 0]
  IN WriteStages(s, Locate(s, CheckMbr(s, ConvertHybrid(s, FindGpt(s, start)))))

-----------------------------------------------------------------------------
(* What is on a device, as whoever boots from it or mounts it reads it.    *)
Value(d, c) == IF c \in DOMAIN d THEN d[c] ELSE Zero
Slots == {446, 462, 478, 494}

GptPartitions(d, lb, h) ==
  IF /\ IsGpt(h)
     /\ \A i \in 1 .. Len(h[5]) : h[5][i] = Value(d, (h[3] * lb) + ((i - 1) * 128))
     /\ Len(h[5]) = h[4]
  THEN {<< h[5][i][3], h[5][i][4] >> : i \in {j \in 1 .. Len(h[5]) : IsEntry(h[5][j])}}
  ELSE {}

MbrPartitions(d) ==
  {<< d[a + 8][2], d[a + 8][2] + d[a + 12][2] - 1 >> : a \in {b \in Slots : d[b + 4] # Zero}}

Partitions(d) ==
  LET lb == IF IsGpt(Value(d, 512)) THEN 512 ELSE 4096  h == Value(d, lb) IN
  IF ~ IsGpt(h) THEN MbrPartitions(d)
  ELSE GptPartitions(d, lb, h) \cap GptPartitions(d, lb, Value(d, h[2] * lb))

(* The cells of all partitions but the one stage 2 is to be installed in.  *)
BlockSize(d) == IF IsGpt(Value(d, 512)) \/ ~ IsGpt(Value(d, 4096)) THEN 512 ELSE 4096

Target(s) ==
  IF s.part_ndx = 0 THEN Zero
  ELSE LET lb == BlockSize(s.disk)  h == Value(s.disk, lb)
       IN IF IsGpt(h) THEN Value(s.disk, h[3] * lb + 128 * (s.part_ndx - 1)) ELSE Zero

PartitionCells(s) ==
  LET lb == BlockSize(s.disk)
      others == {p \in Partitions(s.disk) : ~ IsEntry(Target(s)) \/ p # << Target(s)[3], Target(s)[4] >>}
  IN {c \in DOMAIN s.disk : \E p \in others : p[1] * lb <= c /\ c < (p[2] + 1) * lb}

(* What bios_install takes for its own to write to: 34 blocks from the     *)
(* start and the last 33 of a GPT, 32 blocks of either array, and in a     *)
(* partition as many bytes as stage 2 needs, whole blocks each half.       *)
TakenFor(s) ==
  LET lb == BlockSize(s.disk)
      h  == Value(s.disk, lb)
      other == Value(s.disk, h[2] * lb)
      Blocks(first, n) == {c \in DOMAIN s.disk : first * lb <= c /\ c < (first + n) * lb}
      stage2 == DIV_ROUNDUP(stage2_size_a(s), lb) + DIV_ROUNDUP(stage2_size_b(s), lb)
  IN IF ~ IsGpt(h) THEN {}
     ELSE Blocks(0, 34) \cup Blocks(h[2] - 32, 33) \cup Blocks(h[3], 32)
            \cup (IF IsGpt(other) THEN Blocks(other[3], 32) ELSE {})
            \cup (IF IsEntry(Target(s)) THEN Blocks(Target(s)[3], stage2) ELSE {})

Calls == plan.calls

Init ==
  /\ scenario \in Scenarios
  /\ plan = LET p == Plan(scenario) IN
               [calls |-> p.calls, going |-> p.going, loc_a |-> p.loc_a, loc_b |-> p.loc_b,
                partitions |-> PartitionCells(scenario), taken |-> TakenFor(scenario)]
  /\ disk = scenario.disk /\ device_size = scenario.size /\ faults = scenario.faults
  /\ held = Empty /\ lost = {}
  /\ block_size = 512 /\ cache = Empty /\ cached_block = Nowhere /\ cache_state = "CLEAN"
  /\ uninstall_data = << >> /\ progress = 0 /\ buffer = Empty
  /\ pc = "init" /\ later = FALSE /\ k = 1 /\ writing = FALSE /\ ok = FALSE
  /\ retry = FALSE /\ write_failed = FALSE /\ flush_failed = FALSE
  /\ file = [count |-> 0, entries |-> << >>]
  /\ torn = {}

start ==
  /\ pc = "init" /\ ~ later
  /\ \/ device_init /\ pc' = "install"
     \/ device_init_fails /\ pc' = "exit"
  /\ UNCHANGED <<uninstall_data, progress, buffer, scenario, plan, later, k, writing, ok,
                 retry, write_failed, flush_failed, file, torn>>

(* A call is at its next block; the last one ends it, or the reading of    *)
(* the old data that comes before a write.                                 *)
Installing == pc = "install" /\ k <= Len(Calls)
Advance(o, last) ==
  /\ progress' = IF LastBlock(o) THEN 0 ELSE progress + 1
  /\ IF LastBlock(o) THEN last ELSE UNCHANGED <<k, writing, uninstall_data>>

read_block ==
  /\ Installing /\ Calls[k].op = "read"
  /\ _device_read(Calls[k])
  /\ Advance(Calls[k], k' = k + 1 /\ UNCHANGED <<writing, uninstall_data>>)
  /\ UNCHANGED <<scenario, plan, pc, later, ok, retry, write_failed, flush_failed, file, torn>>

LogFull == Len(uninstall_data) >= UNINSTALL_DATA_MAX

save_block ==
  /\ Installing /\ Calls[k].op = "write" /\ ~ writing /\ ~ LogFull
  /\ _device_read(Calls[k])
  /\ Advance(Calls[k], writing' = TRUE /\ UNCHANGED <<k, uninstall_data>>)
  /\ UNCHANGED <<scenario, plan, pc, later, ok, retry, write_failed, flush_failed, file, torn>>

write_block ==
  /\ Installing /\ writing
  /\ _device_write(Calls[k])
  /\ Advance(Calls[k], /\ k' = k + 1 /\ writing' = FALSE
                       /\ uninstall_data' = Append(uninstall_data,
                            Logged(Calls[k], [c \in CellsOf(Calls[k]) |-> buffer[c]])))
  /\ UNCHANGED <<scenario, plan, pc, later, ok, retry, write_failed, flush_failed, file, torn>>

call_fails ==
  /\ Installing
  /\ \/ device_cache_block_fails(BlockNow(Calls[k]))
     \/ Calls[k].op = "write" /\ ~ writing /\ LogFull /\ UNCHANGED device_vars
  /\ torn' = IF writing THEN CellsOf(Calls[k]) ELSE {}
  /\ pc' = "cleanup"
  /\ UNCHANGED <<uninstall_data, progress, buffer, scenario, plan, later, k, writing, ok,
                 retry, write_failed, flush_failed, file>>

(* Every call has been made: the install gives up there, or is flushed.    *)
install_done ==
  /\ pc = "install" /\ k > Len(Calls)
  /\ pc' = "cleanup"
  /\ \/ ~ plan.going /\ ok' = FALSE /\ UNCHANGED device_vars
     \/ plan.going /\ device_flush_cache /\ ok' = TRUE
     \/ plan.going /\ device_flush_cache_fails /\ ok' = FALSE
  /\ UNCHANGED <<uninstall_data, progress, buffer, scenario, plan, later, k, writing,
                 retry, write_failed, flush_failed, file, torn>>

(* Mutant: the log is kept in the order it was made.                       *)
LogToUndo_forward == uninstall_data
LogToUndo == reverse_uninstall_data

(* uninstall begins by forgetting the cache, written back or not.          *)
BeginUninstall(log) ==
  /\ uninstall_data' = log
  /\ cache' = Empty /\ cached_block' = Nowhere /\ cache_state' = "CLEAN" /\ lost' = {}
  /\ k' = 1 /\ progress' = 0 /\ writing' = FALSE /\ buffer' = Empty

undo_install ==
  /\ pc = "cleanup" /\ ~ ok
  /\ BeginUninstall(LogToUndo)
  /\ pc' = "undo"
  /\ UNCHANGED <<disk, device_size, held, block_size, faults, scenario, plan, later, ok, retry,
                 write_failed, flush_failed, file, torn>>

(* The log is kept in the file as it would be undone; what is written of   *)
(* it may break off, which bios_install does not notice.                   *)
store_uninstall_data ==
  /\ pc = "cleanup" /\ ok
  /\ \/ file' = [count |-> Len(uninstall_data), entries |-> LogToUndo] /\ UNCHANGED faults
     \/ \E n \in {0, Len(uninstall_data) - 1} :
          Fault /\ file' = [count |-> Len(uninstall_data), entries |-> SubSeq(LogToUndo, 1, n)]
  /\ pc' = "close"
  /\ uninstall_data' = << >> /\ buffer' = Empty
  /\ UNCHANGED <<disk, device_size, held, lost, block_size, cache, cached_block, cache_state, progress,
                 scenario, plan, later, k, writing, ok, retry, write_failed, flush_failed, torn>>

(* Another process, with --uninstall.                                      *)
run_uninstall ==
  /\ pc = "exit" /\ ok /\ ~ later
  /\ later' = TRUE /\ pc' = "init"
  /\ UNCHANGED <<device_vars, uninstall_data, progress, buffer, scenario, plan, k, writing, ok,
                 retry, write_failed, flush_failed, file, torn>>

load_uninstall_data ==
  /\ pc = "init" /\ later
  /\ \/ device_init_fails /\ pc' = "exit"
        /\ UNCHANGED <<uninstall_data, progress, buffer, k, writing>>
     \/ /\ file.count # Len(file.entries) /\ device_init /\ pc' = "exit"
        /\ UNCHANGED <<uninstall_data, progress, buffer, k, writing>>
     \/ /\ file.count = Len(file.entries)
        /\ \E n \in DOMAIN guesses : Probe(n)
        /\ BeginUninstall(file.entries)
        /\ pc' = "undo" /\ UNCHANGED <<disk, device_size, held>>
  /\ UNCHANGED <<scenario, plan, later, ok, retry, write_failed, flush_failed, file, torn>>

-----------------------------------------------------------------------------
(* uninstall: each entry of the log is written, a second time if that      *)
(* fails; then it is given up.                                             *)
Undoing == pc = "undo" /\ k <= Len(uninstall_data)

undo_block ==
  /\ Undoing
  /\ _device_write(uninstall_data[k])
  /\ progress' = IF LastBlock(uninstall_data[k]) THEN 0 ELSE progress + 1
  /\ IF LastBlock(uninstall_data[k]) THEN k' = k + 1 /\ retry' = FALSE ELSE UNCHANGED <<k, retry>>
  /\ UNCHANGED <<uninstall_data, scenario, plan, pc, later, writing, ok, write_failed, flush_failed,
                 file, torn>>

undo_fails ==
  /\ Undoing
  /\ device_cache_block_fails(BlockNow(uninstall_data[k]))
  /\ progress' = 0
  /\ IF retry THEN /\ write_failed' = TRUE /\ k' = k + 1 /\ retry' = FALSE /\ pc' = pc
              ELSE pc' = "retry" /\ UNCHANGED <<write_failed, k, retry>>
  /\ UNCHANGED <<uninstall_data, buffer, scenario, plan, later, writing, ok, flush_failed, file, torn>>

try_again ==
  /\ pc = "retry"
  /\ \/ Flush /\ UNCHANGED flush_failed
     \/ Flush_fails /\ flush_failed' = TRUE
  /\ cache' = Empty /\ cached_block' = Nowhere /\ cache_state' = "CLEAN"
  /\ retry' = TRUE /\ pc' = "undo"
  /\ UNCHANGED <<device_size, block_size, uninstall_data, progress, buffer, scenario, plan, later, k,
                 writing, ok, write_failed, file, torn>>

undo_done ==
  /\ pc = "undo" /\ k > Len(uninstall_data)
  /\ \/ device_flush_cache /\ UNCHANGED flush_failed
     \/ device_flush_cache_fails /\ flush_failed' = TRUE
  /\ pc' = "close"
  /\ UNCHANGED <<uninstall_data, progress, buffer, scenario, plan, later, k, writing, ok, retry,
                 write_failed, file, torn>>

(* What the program answers is decided by now.                             *)
close ==
  /\ pc = "close"
  /\ fclose_device
  /\ pc' = "exit"
  /\ UNCHANGED <<uninstall_data, progress, buffer, scenario, plan, later, k, writing, ok, retry,
                 write_failed, flush_failed, file, torn>>

Next ==
  \/ start \/ read_block \/ save_block \/ write_block \/ call_fails \/ install_done
  \/ undo_install \/ store_uninstall_data \/ run_uninstall \/ load_uninstall_data
  \/ undo_block \/ undo_fails \/ try_again \/ undo_done \/ close

Spec == Init /\ [][Next]_vars

-----------------------------------------------------------------------------
(* An install that says it has succeeded leaves a device on which the boot *)
(* sector finds the whole of stage 2 where it says, in either half, and    *)
(* anybody else finds the partitions there were, in a table that is valid  *)
(* and of which, if it is an MBR, a partition is active.  The time stamp   *)
(* survives, but not on a GPT that becomes an MBR.  What fclose may lose   *)
(* is in the first block, with the numbers in the boot sector and the      *)
(* table; stage 2 is in place elsewhere.                                   *)
Success == pc = "exit" /\ ok /\ ~ later

Installed ==
  Success =>
    LET Half(at, size, from) ==
          \A c \in DOMAIN disk \ lost : at <= c /\ c < at + size => disk[c] = Image(from + c - at)
        size_a == disk[420][2]
    IN IF lost = {}
       THEN /\ disk[0] = Image(0)
            /\ Half(disk[424][2], size_a, 512)
            /\ Half(disk[432][2], scenario.image - 512 - size_a, 512 + size_a)
            /\ size_a + disk[422][2] >= scenario.image - 512
            /\ Partitions(disk) = Partitions(scenario.disk)
            /\ \/ disk[218] = scenario.disk[218]
               \/ IsGpt(Value(scenario.disk, 512)) /\ ~ IsGpt(Value(disk, 512))
               \/ IsGpt(Value(scenario.disk, 4096)) /\ ~ IsGpt(Value(disk, 4096))
            /\ \/ IsGpt(Value(disk, 512)) \/ IsGpt(Value(disk, 4096))
               \/ \E a \in Slots : disk[a][2] >= 128
       ELSE /\ lost \subseteq 0 .. block_size - 1
            /\ Half(plan.loc_a, stage2_size_a(scenario), 512)
            /\ Half(plan.loc_b, scenario.image - 512 - stage2_size_a(scenario),
                    512 + stage2_size_a(scenario))

(* What limine.c says when it is done: "Limine BIOS stages installed       *)
(* successfully!"  The boot sector is on the medium then, with the place   *)
(* of stage 2 in it and the device's own partition table.                  *)
SaidInstalled ==
  Success => /\ disk[0] = Image(0)
             /\ disk[424] = Num(plan.loc_a)
             /\ Partitions(disk) = Partitions(scenario.disk)

(* Whatever fails, and how often, no byte of a partition ever changes on   *)
(* the medium that is not among the blocks bios_install takes for its own, *)
(* which on 512-byte blocks no partition of a GPT may use.                 *)
PartitionsKept == \A c \in plan.partitions \ plan.taken : disk[c] = scenario.disk[c]

(* The program has undone an install that failed, or a finished one for    *)
(* --uninstall, and has reported no failure of that.                       *)
SaysUndone ==
  /\ pc = "exit" /\ ~ write_failed /\ ~ flush_failed
  /\ IF later THEN uninstall_data # << >> ELSE ~ ok

(* The device is then as it was before, but for the bytes of the write at  *)
(* which the install failed, _device_write logs a write only when it is    *)
(* complete, and for what the stream has lost when undoing.                *)
Undone == SaysUndone => \A c \in DOMAIN disk \ (torn \cup lost) : disk[c] = scenario.disk[c]
=============================================================================
