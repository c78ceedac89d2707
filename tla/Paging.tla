------------------------------- MODULE Paging -------------------------------
(***************************************************************************)
(* The four-level page tables, kernel/src/arch/x86_64/paging/paging.c,     *)
(* over the physical memory they live in.                                  *)
(*                                                                         *)
(* A word of memory is a number and is read the way the code reads it: as  *)
(* a table entry (page address plus flag bits) or, in a free page, as the  *)
(* base and next fields of a PhysicalMemoryRegion.  The processor keeps    *)
(* translating through the very tables being edited, so every store of the *)
(* code that changes what a walk finds is a step of its own.               *)
(*                                                                         *)
(* Scaled: ENTRIES entries per table instead of 512, the words of a page   *)
(* beyond the first ENTRIES left out.  Physical addresses stay below 2^48, *)
(* so PAGE_PHYSICAL_ADDRESS_MASK is rounding down to a page.               *)
(***************************************************************************)
EXTENDS Memmap, FiniteSets

CONSTANTS
  ENTRIES,    \* entries of a page table
  hhdm,       \* kernel_params->hhdm, where physical address 0 is mapped
  Frames      \* addresses of the pages of physical memory

Index == 0 .. ENTRIES - 1

ASSUME PagingConstants ==
  /\ ENTRIES \in Nat /\ ENTRIES > 1
  /\ Frames \subseteq Nat /\ IsFiniteSet(Frames)
  /\ \A f \in Frames : f % PAGE_SIZE = 0
  /\ hhdm \in Nat /\ hhdm > 0 /\ hhdm % PAGE_SIZE = 0

VARIABLES
  mem,            \* physical memory, by page and word
  cr3,            \* the table the processor translates through
  pml4,           \* physical address behind the kernel's pml4 pointer
  free_mem_head,  \* the page allocator's list head, a pointer
  pc,             \* where map_page_table is, "idle" outside it
  op,             \* its arguments
  level,          \* the level it is at, 4 for pml4 down to 1 for pml
  table           \* physical address of the table of that level

pvars == <<mem, cr3, pml4, free_mem_head, pc, op, level, table>>

-----------------------------------------------------------------------------
(* Flag bits of an entry (paging.h).                                       *)
PAGE_PRESENT         == 1
PAGE_READ_WRITE      == 2
PAGE_USER_SUPERVISOR == 4
PAGE_WRITE_THROUGH   == 8
PAGE_PAGE_SIZE       == 128
PAGE_ATTRIBUTE_TABLE == 4096

HasFlag(word, flag) == (word \div flag) % 2 = 1
Present(word)       == HasFlag(word, PAGE_PRESENT)
Large(word)         == HasFlag(word, PAGE_PAGE_SIZE)
Writable(word)      == HasFlag(word, PAGE_READ_WRITE)

(* Bytes of virtual address space under one entry of each level.           *)
Span(l) == PAGE_SIZE * << 1, ENTRIES, ENTRIES * ENTRIES, ENTRIES * ENTRIES * ENTRIES >>[l]

(* (virtual_addr >> 12, 21, 30, 39) & 0x1FF                                *)
TableIndex(l, virtual_addr) == (virtual_addr \div Span(l)) % ENTRIES

(* The processor's walk: the entry that maps a virtual address, or 0.  A   *)
(* large entry of level 3 or 2 maps the whole of its span.  The flags are  *)
(* the leaf's: every upper entry here is writable.  Memory that is not     *)
(* there reads as no entry.                                                *)
EntryAt(m, t, l, v) == IF t \in Frames THEN m[t][TableIndex(l, v)] ELSE 0

TranslateIn(m, root, v) ==
  LET e4 == EntryAt(m, ALIGN_DOWN(root), 4, v)
      e3 == EntryAt(m, ALIGN_DOWN(e4), 3, v)
      e2 == EntryAt(m, ALIGN_DOWN(e3), 2, v)
      e1 == EntryAt(m, ALIGN_DOWN(e2), 1, v)
      Part(e, l) == e + ALIGN_DOWN(v % Span(l))
  IN IF ~ Present(e4) \/ ~ Present(e3) THEN 0
     ELSE IF Large(e3) THEN Part(e3, 3)
     ELSE IF ~ Present(e2) THEN 0
     ELSE IF Large(e2) THEN Part(e2, 2)
     ELSE IF Present(e1) THEN e1 ELSE 0

Translate(v) == TranslateIn(mem, cr3, v)

(* The kernel's pointer to a physical page works only while the direct map *)
(* maps it; otherwise the access faults, and no fault handler returns.     *)
Reachable(f) ==
  /\ f \in Frames
  /\ Translate(f + hhdm) # 0
  /\ ALIGN_DOWN(Translate(f + hhdm)) = f

Fault ==
  /\ pc' = "fault"
  /\ UNCHANGED <<mem, cr3, pml4, free_mem_head, op, level, table>>

-----------------------------------------------------------------------------
(* Mutant: the last level indexed with the shift of the level above. *)
index_of_level_above == TableIndex(IF level = 1 THEN 2 ELSE level, op.virtual_addr)

index == TableIndex(level, op.virtual_addr)
entry == mem[table][index]

(* Mutants: a new table whether or not there is one already; the list head *)
(* standing still; the new table not cleared; the page behind it cleared   *)
(* as well.                                                                *)
Missing_always       == TRUE
NextFree_same        == free_mem_head
Cleared_skipped(f)   == mem
Cleared_two_pages(f) == [g \in Frames |-> IF g \in {f, f + PAGE_SIZE} THEN [n \in Index |-> 0] ELSE mem[g]]

(* The parts of the walk: the entry looked at is one of pml4, pdp or pd;   *)
(* it has no table yet; the table it leads to; the list behind the page    *)
(* palloc takes; memory with page f set to zero.                           *)
Upper      == pc = "walk" /\ level > 1 /\ Reachable(table)
Missing    == ~ Present(entry)
NextTable  == ALIGN_DOWN(entry)
NextFree   == mem[free_mem_head - hhdm][1]
Cleared(f) == [mem EXCEPT ![f] = [n \in Index |-> 0]]

Store(t, n, word) == mem' = [mem EXCEPT ![t][n] = word]

(* Entry into map_page_table.                                              *)
map_page_table(physical_addr, virtual_addr, flags) ==
  /\ pc = "idle"
  /\ op' = [physical_addr |-> physical_addr, virtual_addr |-> virtual_addr, flags |-> flags]
  /\ pc' = "walk"
  /\ level' = 4
  /\ table' = pml4
  /\ UNCHANGED <<mem, cr3, pml4, free_mem_head>>

(* An upper entry that is present is followed; only its present bit is     *)
(* looked at.                                                              *)
FollowEntry ==
  /\ Upper
  /\ ~ Missing
  /\ table' = NextTable
  /\ level' = level - 1
  /\ UNCHANGED <<mem, cr3, pml4, free_mem_head, pc, op>>

(* set_page_entry: a missing upper entry is first made present, writable   *)
(* and user-accessible, with no address in it yet ...                      *)
ClaimEntry ==
  /\ Upper
  /\ Missing
  /\ Store(table, index, PAGE_PRESENT + PAGE_READ_WRITE + PAGE_USER_SUPERVISOR)
  /\ pc' = "fill"
  /\ UNCHANGED <<cr3, pml4, free_mem_head, op, level, table>>

(* ... then palloc's answer is put into it, 0 included ...                 *)
FillEntryFromEmpty ==
  /\ pc = "fill"
  /\ free_mem_head = 0
  /\ Store(table, index, entry + ALIGN_DOWN(0))
  /\ pc' = "clear"
  /\ UNCHANGED <<cr3, pml4, free_mem_head, op, level, table>>

FillEntry ==
  /\ pc = "fill"
  /\ free_mem_head # 0
  /\ Reachable(free_mem_head - hhdm)
  /\ Store(table, index, entry + ALIGN_DOWN(mem[free_mem_head - hhdm][0]))
  /\ free_mem_head' = NextFree
  /\ pc' = "clear"
  /\ UNCHANGED <<cr3, pml4, op, level, table>>

(* ... and only then the page it points to is cleared.  The walk goes on   *)
(* from the entry as it reads now: page 0 may be a table that points to    *)
(* itself, and clearing it clears the entry.                               *)
ClearTable ==
  /\ pc = "clear"
  /\ Reachable(NextTable)
  /\ mem' = Cleared(NextTable)
  /\ table' = ALIGN_DOWN(mem'[table][index])
  /\ level' = level - 1
  /\ pc' = "walk"
  /\ UNCHANGED <<cr3, pml4, free_mem_head, op>>

(* The last level takes the address and the low twelve flag bits.          *)
NewLeaf == ALIGN_DOWN(op.physical_addr) + (op.flags % 4096)

WriteLeaf ==
  /\ pc = "walk"
  /\ level = 1
  /\ Reachable(table)
  /\ Store(table, index, NewLeaf)
  /\ pc' = "idle"
  /\ UNCHANGED <<cr3, pml4, free_mem_head, op, level, table>>

AccessFaults ==
  /\ \/ pc = "walk"  /\ ~ Reachable(table)
     \/ pc = "fill"  /\ free_mem_head # 0 /\ ~ Reachable(free_mem_head - hhdm)
     \/ pc = "clear" /\ ~ Reachable(NextTable)
  /\ Fault

map_page_table_step ==
  \/ FollowEntry
  \/ ClaimEntry
  \/ FillEntryFromEmpty
  \/ FillEntry
  \/ ClearTable
  \/ WriteLeaf
  \/ AccessFaults

-----------------------------------------------------------------------------
(* What the walk finds, level by level: the tables in use.  The entry that *)
(* set_page_entry is still filling does not count yet.                     *)
BeingFilled(t, n) == pc \in {"fill", "clear"} /\ t = table /\ n = index

UpperEntries(tables) ==
  {tn \in tables \X Index :
     /\ Present(mem[tn[1]][tn[2]])
     /\ ~ Large(mem[tn[1]][tn[2]])
     /\ ~ BeingFilled(tn[1], tn[2])}

PointedTo(tables) == {ALIGN_DOWN(mem[tn[1]][tn[2]]) : tn \in UpperEntries(tables)} \cap Frames

Tables4 == {ALIGN_DOWN(cr3)} \cap Frames
Tables3 == PointedTo(Tables4)
Tables2 == PointedTo(Tables3)
Tables1 == PointedTo(Tables2)
Tables  == Tables4 \cup Tables3 \cup Tables2 \cup Tables1

(* The free pages, followed from the list head through their next fields: *)
(* the pointers met in n steps.                                            *)
Followed[n \in 0 .. Cardinality(Frames)] ==
  IF n = 0 THEN {free_mem_head}
  ELSE LET before == Followed[n - 1]
       IN  before \cup {mem[p - hhdm][1] : p \in {q \in before : q - hhdm \in Frames}}

FreePages == {p - hhdm : p \in Followed[Cardinality(Frames)] \ {0}}
=============================================================================
