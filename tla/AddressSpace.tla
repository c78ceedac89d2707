---------------------------- MODULE AddressSpace ----------------------------
(***************************************************************************)
(* The page tables used on their own: any sequence of map_page_table calls *)
(* on a machine whose boot loader mapped all memory at hhdm with one large *)
(* page, and what the calls promise: an address space, one entry for every *)
(* virtual page.                                                           *)
(***************************************************************************)
EXTENDS Paging

CONSTANTS
  Requests,       \* the calls: [physical_addr, virtual_addr, flags]
  FreeFrames,     \* sequence of the free pages, in the order palloc gives them
  Root, DirectMap,\* the boot loader's two tables
  Garbage         \* what memory may hold before anything is stored in it

ASSUME AddressSpaceConstants ==
  /\ {Root, DirectMap} \subseteq Frames /\ Root # DirectMap
  /\ 0 \in Frames \ {Root, DirectMap}
  /\ FreeFrames \in Seq(Frames \ {0, Root, DirectMap})
  /\ \A k, l \in 1 .. Len(FreeFrames) : FreeFrames[k] = FreeFrames[l] => k = l
  /\ \A r \in Requests :
       /\ r.physical_addr \in Nat /\ r.flags \in Nat
       /\ r.virtual_addr \in 0 .. ENTRIES * Span(4) - 1
       /\ TableIndex(4, r.virtual_addr) # TableIndex(4, hhdm)
  /\ \A f \in Frames : f < Span(3)
  /\ hhdm % Span(4) = 0
  /\ Garbage \subseteq Nat

VARIABLE oom      \* history: palloc has answered 0

vars == <<pvars, oom>>

VirtualPages == {PAGE_SIZE * n : n \in 0 .. (ENTRIES * Span(4)) \div PAGE_SIZE - 1}

(* The list pmm_init leaves behind, in the memory it found.                *)
PointerTo(k) == IF k > Len(FreeFrames) THEN 0 ELSE FreeFrames[k] + hhdm

BootMemory(garbage) ==
  [f \in Frames |->
    [n \in Index |->
       IF f = Root THEN
         IF n = TableIndex(4, hhdm)
         THEN DirectMap + PAGE_PRESENT + PAGE_READ_WRITE + PAGE_USER_SUPERVISOR ELSE 0
       ELSE IF f = DirectMap THEN
         IF n = 0 THEN PAGE_PRESENT + PAGE_READ_WRITE + PAGE_PAGE_SIZE ELSE 0
       ELSE IF n < 2 /\ \E k \in 1 .. Len(FreeFrames) : FreeFrames[k] = f THEN
         LET k == CHOOSE k \in 1 .. Len(FreeFrames) : FreeFrames[k] = f
         IN IF n = 0 THEN f ELSE PointerTo(k + 1)
       ELSE garbage]]

Init ==
  /\ \E garbage \in Garbage : mem = BootMemory(garbage)
  /\ cr3 = Root
  /\ pml4 = Root
  /\ free_mem_head = PointerTo(1)
  /\ pc = "idle"
  /\ op = [physical_addr |-> 0, virtual_addr |-> 0, flags |-> 0]
  /\ level = 4
  /\ table = Root
  /\ oom = FALSE

Call ==
  /\ \E r \in Requests : map_page_table(r.physical_addr, r.virtual_addr, r.flags)
  /\ UNCHANGED oom

Step ==
  /\ map_page_table_step
  /\ oom' = (oom \/ FillEntryFromEmpty)

Next == Call \/ Step

(* A call in progress runs on; nobody is obliged to make another.          *)
Spec == Init /\ [][Next]_vars /\ WF_vars(Step)

-----------------------------------------------------------------------------
(* As long as memory lasts the tables form a tree: no two entries share a  *)
(* table, no level shares one with another, none is page 0, and none is    *)
(* still on the free list, where the next palloc would give it away.       *)
TablesFormTree ==
  ~ oom =>
    LET parents == UpperEntries(Tables4) \cup UpperEntries(Tables3) \cup UpperEntries(Tables2)
        child(tn) == ALIGN_DOWN(mem[tn[1]][tn[2]])
    IN /\ \A e, f \in parents : child(e) = child(f) => e = f
       /\ \A e \in parents : child(e) \in Frames \ (FreePages \cup {0, cr3})

(* The tables implement an address space in which a call changes one page, *)
(* at one moment: whatever the memory held that new tables are made from,  *)
(* in no state does a processor's walk find another page remapped, lost or *)
(* mapped by accident, the direct map's included, and no call faults.  An  *)
(* entry that is present while its table is not yet cleared leads astray;  *)
(* but it lies on the way to pages that were not mapped before.            *)
BeingMade(v) == pc \in {"fill", "clear"} /\ v \div Span(level) = op.virtual_addr \div Span(level)

Space == INSTANCE PageMap WITH
           map     <- [v \in VirtualPages |-> IF BeingMade(v) THEN 0 ELSE Translate(v)],
           request <- IF pc \in {"idle", "fault"} THEN << >>
                      ELSE <<ALIGN_DOWN(op.virtual_addr), IF Present(NewLeaf) THEN NewLeaf ELSE 0>>,
           lapsed  <- oom

ImplementsPageMap == Space!Spec

(* As long as memory lasts map_page_table writes to no page but the boot   *)
(* loader's top table and pages palloc has given out: not to a free page,  *)
(* not to what anybody has mapped, not to the direct map's table.  Nothing *)
(* is promised once palloc has answered 0.  Page 0 is then the table, and  *)
(* an entry it holds may lead the next call into a page of data.           *)
PagesTaken == {FreeFrames[k] : k \in 1 .. Len(FreeFrames)} \ FreePages

OwnPagesWritten ==
  ~ oom => \A f \in Frames : mem'[f] # mem[f] => f \in {Root} \cup PagesTaken

OnlyTablesWritten == [][OwnPagesWritten]_vars

(* No page leaks: each page ever taken from the free list has become a     *)
(* table of the tree, or is about to in the entry being filled.            *)
EveryPageAccounted ==
  ~ oom =>
    \A k \in 1 .. Len(FreeFrames) :
      \/ FreeFrames[k] \in FreePages \cup Tables
      \/ pc = "clear" /\ FreeFrames[k] = ALIGN_DOWN(entry)
=============================================================================
