------------------------------ MODULE Bootstub ------------------------------
(***************************************************************************)
(* The boot stub, bootstub/src/limine_bootstub.c: from kstart to kmain it  *)
(* copies the boot loader's answers into KernelParams, with the arrays in  *)
(* a heap of its own that nothing is ever returned to.                     *)
(*                                                                         *)
(* The heap is its 8-byte words.  A store through a null pointer, or a     *)
(* read of an answer that is not there, faults before the kernel has an    *)
(* interrupt table: the machine resets ("crash").                          *)
(***************************************************************************)
EXTENDS Memmap, FiniteSets

CONSTANTS
  MAX_HEAP_SIZE,  \* bytes of heap, 16 KiB in the code
  INT_VALUES,     \* numbers an int can hold, 2^32
  Answers         \* what the boot loader may answer

(* The requests; an answer may be missing (NULL).                          *)
Requests == {"hhdm", "memmap", "kernel_address", "framebuffer"}

ASSUME HeapIsWhole == MAX_HEAP_SIZE \in Nat /\ MAX_HEAP_SIZE % 16 = 0

ASSUME IntIsSigned == INT_VALUES \in Nat /\ INT_VALUES % 2 = 0 /\ INT_VALUES >= 16

ASSUME AnswersAreTyped ==
  \A a \in Answers :
    /\ a.present \subseteq Requests
    /\ a.hhdm \in Nat /\ a.kernel_address \in Nat
    /\ a.memmap \in Seq([base : Nat, length : Nat, type : Nat])
    /\ a.framebuffers \in Seq(Nat)

VARIABLES
  answer,         \* [present : SUBSET Requests, hhdm, kernel_address,
                  \*  memmap : Seq([base, length, type]), framebuffers : Seq(Nat)]
  heap,           \* word number -> word
  heap_head,      \* bytes handed out
  params,         \* kernel_params; memmap and framebuffers are heap offsets
  stub_pc,        \* the next of load_kernel_params's steps, "kmain", "crash"
  n,              \* the copying loop's counter, from 0
  blocks          \* history: [at, size] of every block heap_alloc returned

stub_vars == <<answer, heap, heap_head, params, stub_pc, n, blocks>>

-----------------------------------------------------------------------------
(* heap_alloc: sizes are rounded up to 16.  A block is its offset in the    *)
(* heap, the null pointer -1.                                              *)
(* Mutants: a limit one byte short; the block behind the one allotted; the *)
(* two numberings of types taken for one.                                  *)
Granted_below(size)          == size # 0 /\ ((size + 15) \div 16) * 16 < MAX_HEAP_SIZE - heap_head
heap_alloc_behind(size)      == heap_head + size
from_limine_type_as_is(type) == IF type \in 0 .. 7 THEN type ELSE 8

Rounded(size) == ((size + 15) \div 16) * 16
Null == -1

Granted(size) == Rounded(size) # 0 /\ Rounded(size) <= MAX_HEAP_SIZE - heap_head
heap_alloc(size) == IF Granted(size) THEN heap_head ELSE Null

Allocate(size) ==
  /\ heap_head' = IF Granted(size) THEN heap_head + Rounded(size) ELSE heap_head
  /\ blocks' = IF Granted(size) THEN Append(blocks, [at |-> heap_alloc(size), size |-> size])
               ELSE blocks

(* The types of limine.h and of bootstub.h, each in the order of its       *)
(* numbers from 0; a number limine.h does not list is MEMMAP_UNKNOWN.      *)
LimineTypes ==
  << "USABLE", "RESERVED", "ACPI_RECLAIMABLE", "ACPI_NVS", "BAD_MEMORY",
     "BOOTLOADER_RECLAIMABLE", "EXECUTABLE_AND_MODULES", "FRAMEBUFFER" >>
KernelTypes ==
  << "RESERVED", "ACPI_RECLAIMABLE", "EXECUTABLE_AND_MODULES", "ACPI_NVS", "BAD_MEMORY",
     "BOOTLOADER_RECLAIMABLE", "FRAMEBUFFER", "USABLE", "UNKNOWN" >>

MEMMAP(name) == (CHOOSE k \in 1 .. Len(KernelTypes) : KernelTypes[k] = name) - 1

(* The type arrives as 64 bits and is passed as an int: its low half, with *)
(* a sign.                                                                 *)
AsInt(word) ==
  LET low == word % INT_VALUES
  IN  IF 2 * low < INT_VALUES THEN low ELSE low - INT_VALUES

from_limine_type(type) ==
  CASE type = 0 -> MEMMAP("USABLE")
    [] type = 1 -> MEMMAP("RESERVED")
    [] type = 2 -> MEMMAP("ACPI_RECLAIMABLE")
    [] type = 6 -> MEMMAP("EXECUTABLE_AND_MODULES")
    [] type = 3 -> MEMMAP("ACPI_NVS")
    [] type = 4 -> MEMMAP("BAD_MEMORY")
    [] type = 5 -> MEMMAP("BOOTLOADER_RECLAIMABLE")
    [] type = 7 -> MEMMAP("FRAMEBUFFER")
    [] OTHER    -> MEMMAP("UNKNOWN")

SizeofMemmapEntry == 24
SizeofFramebuffer == 40

Missing(request) ==
  /\ request \notin answer.present
  /\ stub_pc' = "crash"
  /\ UNCHANGED <<answer, heap, heap_head, params, n, blocks>>

-----------------------------------------------------------------------------
StubInit ==
  /\ answer \in Answers
  /\ heap = [w \in 0 .. MAX_HEAP_SIZE \div 8 - 1 |-> 0]
  /\ heap_head = 0
  /\ params = [hhdm |-> 0, kernel_addr |-> 0, memmap |-> Null, entry_count |-> 0,
               framebuffers |-> Null]
  /\ stub_pc = "hhdm"
  /\ n = 0
  /\ blocks = << >>

load_hhdm ==
  /\ stub_pc = "hhdm"
  /\ \/ Missing("hhdm")
     \/ /\ "hhdm" \in answer.present
        /\ params' = [params EXCEPT !.hhdm = answer.hhdm]
        /\ stub_pc' = "kernel_address"
        /\ UNCHANGED <<answer, heap, heap_head, n, blocks>>

get_kernel_address ==
  /\ stub_pc = "kernel_address"
  /\ \/ Missing("kernel_address")
     \/ /\ "kernel_address" \in answer.present
        /\ params' = [params EXCEPT !.kernel_addr = answer.kernel_address]
        /\ stub_pc' = "memmap"
        /\ UNCHANGED <<answer, heap, heap_head, n, blocks>>

(* get_memmap: allocate, then copy entry by entry.                         *)
get_memmap ==
  /\ stub_pc = "memmap"
  /\ \/ Missing("memmap")
     \/ LET size == Len(answer.memmap) * SizeofMemmapEntry IN
        /\ "memmap" \in answer.present
        /\ Allocate(size)
        /\ params' = [params EXCEPT !.entry_count = Len(answer.memmap),
                                    !.memmap = heap_alloc(size)]
        /\ n' = 0
        /\ stub_pc' = "entries"
        /\ UNCHANGED <<answer, heap>>

(* The words at offset at of the heap, from its start, become words.       *)
Store(at, words) ==
  heap' = [w \in DOMAIN heap |->
             IF w - at \div 8 \in 0 .. Len(words) - 1 THEN words[w - at \div 8 + 1] ELSE heap[w]]

copy_entry ==
  /\ stub_pc = "entries"
  /\ n < params.entry_count
  /\ IF params.memmap = Null
     THEN stub_pc' = "crash" /\ UNCHANGED <<heap, n>>
     ELSE LET e == answer.memmap[n + 1] IN
          /\ Store(params.memmap + n * SizeofMemmapEntry,
                   << e.base, e.length, from_limine_type(AsInt(e.type)) >>)
          /\ n' = n + 1
          /\ stub_pc' = stub_pc
  /\ UNCHANGED <<answer, heap_head, params, blocks>>

entries_done ==
  /\ stub_pc = "entries"
  /\ ~ (n < params.entry_count)
  /\ stub_pc' = "framebuffer"
  /\ UNCHANGED <<answer, heap, heap_head, params, n, blocks>>

(* get_framebuffers, the same way; their number is not kept.               *)
get_framebuffers ==
  /\ stub_pc = "framebuffer"
  /\ \/ Missing("framebuffer")
     \/ LET size == Len(answer.framebuffers) * SizeofFramebuffer IN
        /\ "framebuffer" \in answer.present
        /\ Allocate(size)
        /\ params' = [params EXCEPT !.framebuffers = heap_alloc(size)]
        /\ n' = 0
        /\ stub_pc' = "framebuffers"
        /\ UNCHANGED <<answer, heap>>

(* address, width, height, pitch, memory_model: five words, alike here.    *)
copy_framebuffer ==
  /\ stub_pc = "framebuffers"
  /\ n < Len(answer.framebuffers)
  /\ IF params.framebuffers = Null
     THEN stub_pc' = "crash" /\ UNCHANGED <<heap, n>>
     ELSE /\ Store(params.framebuffers + n * SizeofFramebuffer,
                   [w \in 1 .. 5 |-> answer.framebuffers[n + 1]])
          /\ n' = n + 1
          /\ stub_pc' = stub_pc
  /\ UNCHANGED <<answer, heap_head, params, blocks>>

kstart_done ==
  /\ stub_pc = "framebuffers"
  /\ ~ (n < Len(answer.framebuffers))
  /\ stub_pc' = "kmain"
  /\ UNCHANGED <<answer, heap, heap_head, params, n, blocks>>

StubNext ==
  \/ load_hhdm
  \/ get_kernel_address
  \/ get_memmap
  \/ copy_entry
  \/ entries_done
  \/ get_framebuffers
  \/ copy_framebuffer
  \/ kstart_done

StubSpec == StubInit /\ [][StubNext]_stub_vars /\ WF_stub_vars(StubNext)

-----------------------------------------------------------------------------
(* However much is asked for, the blocks handed out lie inside the heap,   *)
(* below heap_head, on 16-byte boundaries, and no two share a byte.        *)
HeapSafe ==
  /\ heap_head <= MAX_HEAP_SIZE
  /\ \A k \in 1 .. Len(blocks) :
       /\ blocks[k].at % 16 = 0
       /\ blocks[k].at + blocks[k].size <= heap_head
       /\ \A l \in 1 .. k - 1 : blocks[l].at + blocks[l].size <= blocks[k].at

(* kmain finds in KernelParams what the boot loader answered: each entry   *)
(* whole and not overwritten by the framebuffers copied after it, its type *)
(* meaning the same in the kernel's numbering, or unknown there if         *)
(* limine.h does not list it.  This holds of every number of 32 bits; of a *)
(* longer one the stub sees the low half, which may be one of the listed.  *)
Word(at) == heap[at \div 8]

HandoverIntact ==
  stub_pc = "kmain" =>
    /\ params.hhdm = answer.hhdm /\ params.kernel_addr = answer.kernel_address
    /\ params.entry_count = Len(answer.memmap)
    /\ \A k \in 0 .. Len(answer.memmap) - 1 :
         LET at == params.memmap + k * SizeofMemmapEntry
             e  == answer.memmap[k + 1]
         IN /\ Word(at) = e.base /\ Word(at + 8) = e.length
            /\ e.type < INT_VALUES =>
                 KernelTypes[Word(at + 16) + 1] =
                 IF e.type < Len(LimineTypes) THEN LimineTypes[e.type + 1] ELSE "UNKNOWN"
    /\ \A k \in 0 .. Len(answer.framebuffers) - 1, w \in 0 .. 4 :
         Word(params.framebuffers + k * SizeofFramebuffer + 8 * w) = answer.framebuffers[k + 1]

(* kmain is entered exactly if every answer is there and both arrays fit:  *)
(* the stub checks neither, and resets the machine otherwise.              *)
Possible ==
  /\ Requests \subseteq answer.present
  /\ Rounded(Len(answer.memmap) * SizeofMemmapEntry)
       + Rounded(Len(answer.framebuffers) * SizeofFramebuffer) <= MAX_HEAP_SIZE

KmainIffPossible == <>[](stub_pc = IF Possible THEN "kmain" ELSE "crash")
=============================================================================
