----------------------------- MODULE BlockCache -----------------------------
(***************************************************************************)
(* How limine.c reads and writes the device it installs to: through a      *)
(* cache of one block, keeping in memory what every write replaced, so     *)
(* that an install can be undone, at once or by a later process that finds *)
(* the log in a file.                                                      *)
(*                                                                         *)
(* A cell is the first byte of a field or a sector and stands for what is  *)
(* there; its number is its byte offset.  The device is a buffered FILE:   *)
(* what fwrite takes goes to the device at once or stays with the stream   *)
(* until the next seek, or fclose, writes it.  Any transfer may fail.  A   *)
(* block that fails to be written keeps its content on the device, and the *)
(* stream forgets what it held; one that fails to be read may leave        *)
(* anything in the cache.                                                  *)
(***************************************************************************)
EXTENDS Integers, FiniteSets, Sequences, SequencesExt

CONSTANTS
  UNINSTALL_DATA_MAX    \* entries of the log, 256 in the code

VARIABLES
  disk,           \* cell -> value, on the medium
  device_size,           \* of the device, in bytes
  held,           \* cell -> value: what the stream has taken and not yet written
  lost,           \* history: cells the stream has taken a value for and lost it
  block_size,
  cache,          \* cell -> value, for the cells of one block
  cached_block,   \* its number, -1 for none
  cache_state,    \* "CLEAN" or "DIRTY"
  uninstall_data, \* [at, count, data]: the write it undoes, with the old data
  progress,       \* blocks of the call in progress that are done
  buffer,         \* what it has read so far
  faults          \* transfers that may still fail

device_vars ==
  <<disk, device_size, held, lost, block_size, cache, cached_block, cache_state, faults>>

-----------------------------------------------------------------------------
(* A call of the device: [op, at, count, data], data only for a write.     *)
CellsIn(at, count) == {c \in DOMAIN disk : at <= c /\ c < at + count}
Block(b)    == CellsIn(b * block_size, block_size)
BlockNow(o) == o.at \div block_size + progress
LastBlock(o) == BlockNow(o) = (o.at + o.count - 1) \div block_size
CellsOf(o)  == CellsIn(o.at, o.count)
Chunk(o)    == CellsOf(o) \cap Block(BlockNow(o))
Over(f, g)  == [c \in DOMAIN g |-> IF c \in DOMAIN f THEN f[c] ELSE g[c]]
Nowhere     == -1
Empty       == [c \in {} |-> << >>]
Garbage     == << "garbage" >>

(* The disk once the stream is written, and once the cache is, too.        *)
Settled == Over(held, disk)
Flushed == IF cache_state = "DIRTY" THEN Over(cache, Settled) ELSE Settled

Fault == faults > 0 /\ faults' = faults - 1

(* A seek or fclose that fails to write what the stream holds.             *)
Lose(d, pending) ==
  /\ disk' = d /\ held' = Empty
  /\ lost' = lost \cup {c \in DOMAIN pending : pending[c] # d[c]}

(* device_init: the first block size in which the start can be read.       *)
guesses == << 512, 2048, 4096 >>
Fitting == {n \in DOMAIN guesses : guesses[n] <= device_size}

Probe(n) ==
  /\ n \in Fitting /\ n <= faults + 1
  /\ faults' = faults - (n - 1) /\ block_size' = guesses[n]

device_init ==
  \E n \in DOMAIN guesses :
    /\ Probe(n)
    /\ cache' = [c \in {d \in DOMAIN disk : d < guesses[n]} |-> disk[c]]
    /\ cached_block' = 0 /\ cache_state' = "CLEAN"
    /\ UNCHANGED <<disk, device_size, held, lost>>

device_init_fails ==
  /\ faults >= Cardinality(Fitting) /\ faults' = faults - Cardinality(Fitting)
  /\ UNCHANGED <<disk, device_size, held, lost, block_size, cache, cached_block, cache_state>>

(* device_flush_cache seeks and writes, at once or into the stream.        *)
Flush ==
  /\ \/ cache_state = "CLEAN" /\ UNCHANGED <<disk, held>>
     \/ cache_state = "DIRTY" /\ disk' = Flushed /\ held' = Empty
     \/ cache_state = "DIRTY" /\ disk' = Settled /\ held' = cache
  /\ UNCHANGED <<lost, faults>>

Flush_fails ==
  /\ cache_state = "DIRTY" /\ Fault
  /\ \/ Lose(disk, held)
     \/ disk' = Settled /\ held' = Empty /\ UNCHANGED lost

device_flush_cache ==
  /\ Flush /\ cache_state' = "CLEAN"
  /\ UNCHANGED <<device_size, block_size, cache, cached_block>>

device_flush_cache_fails ==
  /\ Flush_fails
  /\ UNCHANGED <<device_size, block_size, cache, cached_block, cache_state>>

(* device_cache_block(b) when it succeeds: disk, stream and cache.  The    *)
(* seek to b writes what the stream holds.                                 *)
Readable(b)  == cached_block = b \/ (b + 1) * block_size <= device_size
DiskWith(b)  == IF cached_block = b THEN disk ELSE Flushed
HeldWith(b)  == IF cached_block = b THEN held ELSE Empty
CacheWith(b) == IF cached_block = b THEN cache ELSE [c \in Block(b) |-> Flushed[c]]

(* It fails writing back the block it holds, seeking, when what the stream *)
(* has just taken is lost though the block counts as written, or reading   *)
(* b, after which the cache holds anything under its old number.           *)
device_cache_block_fails(b) ==
  /\ cached_block # b
  /\ \/ device_flush_cache_fails
     \/ /\ Fault
        /\ \/ cache_state = "CLEAN" /\ Lose(disk, held)
           \/ cache_state = "DIRTY" /\ Lose(Settled, cache)
        /\ cache_state' = "CLEAN"
        /\ UNCHANGED <<device_size, block_size, cache, cached_block>>
     \/ /\ Fault \/ (~ Readable(b) /\ UNCHANGED faults)
        /\ disk' = Flushed /\ held' = Empty /\ cache_state' = "CLEAN"
        /\ cache' \in {cache, [c \in DOMAIN cache |-> Garbage]}
        /\ UNCHANGED <<device_size, lost, block_size, cached_block>>

(* The device is closed; nobody looks whether that writes what is held.    *)
fclose_device ==
  /\ \/ disk' = Settled /\ held' = Empty /\ UNCHANGED <<lost, faults>>
     \/ held # Empty /\ Fault /\ Lose(disk, held)
  /\ UNCHANGED <<device_size, block_size, cache, cached_block, cache_state>>

(* _device_read and _device_write, block by block.                         *)
_device_read(o) ==
  LET b == BlockNow(o) IN
  /\ Readable(b)
  /\ disk' = DiskWith(b) /\ held' = HeldWith(b) /\ cache' = CacheWith(b) /\ cached_block' = b
  /\ cache_state' = IF cached_block = b THEN cache_state ELSE "CLEAN"
  /\ buffer' = [c \in DOMAIN buffer \cup Chunk(o) |->
                  IF c \in Chunk(o) THEN CacheWith(b)[c] ELSE buffer[c]]
  /\ UNCHANGED <<device_size, lost, block_size, faults>>

_device_write(o) ==
  LET b == BlockNow(o) IN
  /\ Readable(b)
  /\ disk' = DiskWith(b) /\ held' = HeldWith(b)
  /\ cache' = [c \in DOMAIN CacheWith(b) |->
                 IF c \in Chunk(o) THEN o.data[c] ELSE CacheWith(b)[c]]
  /\ cached_block' = b /\ cache_state' = "DIRTY"
  /\ UNCHANGED <<device_size, lost, block_size, faults, buffer>>

(* What is logged of a write; the order in which the log is undone.        *)
Logged(o, old) == [op |-> "write", at |-> o.at, count |-> o.count, data |-> old]
reverse_uninstall_data == Reverse(uninstall_data)
=============================================================================
