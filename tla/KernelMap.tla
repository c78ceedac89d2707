----------------------------- MODULE KernelMap ------------------------------
(***************************************************************************)
(* From pmm_init to set_cr3: what kmain does to the address space the boot *)
(* loader left (main.c, paging.c, linker.ld), in a memory where the free   *)
(* list, the page tables and the kernel image lie side by side, while the  *)
(* processor caches translations whenever it likes.                        *)
(*                                                                         *)
(* A layout is one machine: the memory map, sorted by base as the boot     *)
(* protocol promises, the place of the linked image, its sections, and the *)
(* page tables the boot loader built.  pmm_init is one step here; module   *)
(* Pmm has its loop.                                                       *)
(***************************************************************************)
EXTENDS Paging, FiniteSetsExt

CONSTANTS
  Layouts,        \* [memmap, physical_base, virtual_base, sections, head_page,
                  \*  watched, tables, cr3]
  Garbage         \* what a word of memory holds that nobody has stored into

VARIABLES
  layout,
  stage,          \* where kmain is
  section,        \* map_kernel: the section being mapped
  i,              \* map_section: page, from 0; map_memmap: entry, from 1
  current,        \* map_memmap: the address being mapped
  tlb,            \* the processor's cached translation of a watched page, or 0
  oom             \* history: palloc has answered 0

kvars == <<layout, stage, section, i, current>>
vars == <<pvars, kvars, tlb, oom>>

BootMemory(l, garbage) ==
  [f \in Frames |-> [n \in Index |->
     IF f \in DOMAIN l.tables THEN l.tables[f][n] ELSE garbage]]

(* What the processor finds when kmain begins.                             *)
BootWalk(l, v) == TranslateIn(BootMemory(l, 0), l.cr3, v)

VirtualPages == {PAGE_SIZE * n : n \in 0 .. (ENTRIES * Span(4)) \div PAGE_SIZE - 1}

UsableIn(map) ==
  {f \in Frames : \E k \in 1 .. Len(map) : map[k].type = "USABLE" /\ WholePageOf(map[k], f)}

(* Which entries map_memmap maps.  Mutant: framebuffers left out.          *)
Mapped_memory_only(e) == e.type \in {"BOOTLOADER_RECLAIMABLE", "USABLE"}

Mapped(e) == e.type \in {"BOOTLOADER_RECLAIMABLE", "USABLE", "FRAMEBUFFER"}

(* What kmain relies on, machine by machine.  The boot protocol: usable    *)
(* and reclaimable entries are made of pages that no other entry touches.  *)
MapLegal(map) ==
  /\ map \in Seq(MemmapEntry)
  /\ \A k \in 1 .. Len(map) : map[k].type \in {"USABLE", "BOOTLOADER_RECLAIMABLE"} =>
       /\ map[k].base % PAGE_SIZE = 0 /\ map[k].length % PAGE_SIZE = 0
       /\ \A j \in 1 .. Len(map) : j # k => ~ Overlap(map[j], map[k])

(* linker.ld: the sections lie in the image one behind the other, and the  *)
(* image above the direct map.                                             *)
ImageLegal(l) ==
  /\ l.physical_base \in Nat /\ l.physical_base % PAGE_SIZE = 0
  /\ l.virtual_base \in Nat /\ l.virtual_base % PAGE_SIZE = 0
  /\ \A k \in 1 .. 3 :
       /\ l.sections[k].begin \in Nat /\ l.sections[k].end \in Nat
       /\ l.virtual_base <= l.sections[k].begin /\ l.sections[k].begin <= l.sections[k].end
       /\ l.sections[k].end <= l.sections[3].end
  /\ 2 * l.sections[3].end - l.virtual_base + PAGE_SIZE <= ENTRIES * Span(4)
  /\ \A f \in Frames : f + hhdm < l.virtual_base
  /\ \A k \in 1 .. Len(l.memmap) : Mapped(l.memmap[k]) => Limit(l.memmap[k]) + hhdm <= l.virtual_base

(* The boot loader's tables, level by level, are a tree beside the usable  *)
(* memory.                                                                 *)
NoLarge(l) == \A f \in DOMAIN l.tables, n \in Index : ~ Large(l.tables[f][n])

BootEntries(l, ts) == {tn \in ts \X Index : Present(l.tables[tn[1]][tn[2]])}
BootChild(l, tn)   == ALIGN_DOWN(l.tables[tn[1]][tn[2]])
BootBelow(l, ts)   == {BootChild(l, tn) : tn \in BootEntries(l, ts)}

Boot4(l) == {ALIGN_DOWN(l.cr3)}
Boot3(l) == BootBelow(l, Boot4(l))
Boot2(l) == BootBelow(l, Boot3(l))
Boot1(l) == BootBelow(l, Boot2(l))

TablesLegal(l) ==
  /\ DOMAIN l.tables \subseteq Frames \ UsableIn(l.memmap)
  /\ \A f \in DOMAIN l.tables : l.tables[f] \in [Index -> Nat]
  /\ l.cr3 \in Nat
  /\ NoLarge(l) =>
       LET Uppers == Boot4(l) \cup Boot3(l) \cup Boot2(l) IN
       /\ Uppers \cup Boot1(l) \subseteq DOMAIN l.tables
       /\ Boot4(l) \cap Boot3(l) = {} /\ (Boot4(l) \cup Boot3(l)) \cap Boot2(l) = {}
       /\ Uppers \cap Boot1(l) = {}
       /\ \A x, y \in BootEntries(l, Uppers) : BootChild(l, x) = BootChild(l, y) => x = y

(* They map every frame for writing from hhdm on, and the image at its     *)
(* base.  Whatever else they map from hhdm on is at its place in the       *)
(* direct map, or behind the image.                                        *)
ImagePagesOf(l) ==
  {l.virtual_base + n * PAGE_SIZE :
     n \in 0 .. (ALIGN_UP(l.sections[3].end) - l.virtual_base) \div PAGE_SIZE - 1}

MappingLegal(l) ==
  /\ \A f \in Frames : LET e == BootWalk(l, f + hhdm) IN Present(e) /\ Writable(e)
  /\ \A v \in ImagePagesOf(l) : Present(BootWalk(l, v))
  /\ \A v \in VirtualPages : v >= hhdm /\ BootWalk(l, v) # 0 =>
       ALIGN_DOWN(BootWalk(l, v)) = IF v < l.virtual_base THEN v - hhdm
                                    ELSE v - l.virtual_base + l.physical_base

ASSUME LayoutsLegal ==
  /\ Garbage \subseteq Nat
  /\ \A l \in Layouts :
       /\ MapLegal(l.memmap) /\ ImageLegal(l) /\ TablesLegal(l) /\ MappingLegal(l)
       /\ l.watched \subseteq VirtualPages

Init ==
  /\ layout \in Layouts
  /\ \E garbage \in Garbage : mem = BootMemory(layout, garbage)
  /\ cr3 = layout.cr3
  /\ pml4 = 0
  /\ free_mem_head = 0
  /\ pc = "idle"
  /\ op = [physical_addr |-> 0, virtual_addr |-> 0, flags |-> 0]
  /\ level = 4
  /\ table = 0
  /\ stage = "pmm_init"
  /\ section = 1
  /\ i = 0
  /\ current = 0
  /\ tlb = [v \in layout.watched |-> 0]
  /\ oom = FALSE

-----------------------------------------------------------------------------
memmap == layout.memmap

UsablePages == UsableIn(memmap)

(* pmm_init on a sorted map: each page leads to the next lower one.        *)
PointerBelow(a) ==
  LET below == {p \in UsablePages : p < a} IN IF below = {} THEN 0 ELSE Max(below) + hhdm

pmm_init ==
  /\ stage = "pmm_init"
  /\ mem' = [f \in Frames |->
               IF f \in UsablePages
               THEN [mem[f] EXCEPT ![0] = f, ![1] = PointerBelow(f)] ELSE mem[f]]
  /\ free_mem_head' = PointerBelow(Max(Frames) + PAGE_SIZE)
  /\ stage' = "init_pml4"
  /\ UNCHANGED <<cr3, pml4, pc, op, level, table, layout, section, i, current, tlb, oom>>

init_pml4 ==
  /\ stage = "init_pml4"
  /\ pml4' = ALIGN_DOWN(cr3)
  /\ stage' = "map_kernel"
  /\ UNCHANGED <<mem, cr3, free_mem_head, pc, op, level, table,
                 layout, section, i, current, tlb, oom>>

(* map_section as it computes: the offset is the length of the section.    *)
section_begin(k) == layout.sections[k].begin
section_end(k)   == layout.sections[k].end
SectionFlags(k)  == IF k = 3 THEN PAGE_PRESENT + PAGE_READ_WRITE ELSE PAGE_PRESENT

offset(k) == ALIGN_DOWN(section_end(k) - section_begin(k))
pages(k)  == ALIGN_UP(section_end(k) - ALIGN_DOWN(section_begin(k))) \div PAGE_SIZE

(* Mutant: the offset left out of the physical address only. *)
SectionFrame_from_base(k, n) == layout.physical_base + n * PAGE_SIZE

SectionFrame(k, n) == layout.physical_base + offset(k) + n * PAGE_SIZE

MapSectionPage ==
  /\ stage = "map_kernel"
  /\ i < pages(section)
  /\ map_page_table(SectionFrame(section, i),
                    layout.virtual_base + offset(section) + i * PAGE_SIZE,
                    SectionFlags(section))
  /\ i' = i + 1
  /\ UNCHANGED <<layout, stage, section, current, tlb, oom>>

LeaveSection ==
  /\ stage = "map_kernel"
  /\ pc = "idle"
  /\ ~ (i < pages(section))
  /\ IF section < 3
     THEN section' = section + 1 /\ i' = 0 /\ stage' = stage
     ELSE section' = section /\ i' = 1 /\ stage' = "map_memmap"
  /\ UNCHANGED <<pvars, layout, current, tlb, oom>>

(* Mutant: a loop that stays. *)
NextEntry_same        == i

EntryFlags(e) ==
  IF e.type = "FRAMEBUFFER"
  THEN PAGE_PRESENT + PAGE_READ_WRITE + PAGE_ATTRIBUTE_TABLE + PAGE_WRITE_THROUGH
  ELSE PAGE_PRESENT + PAGE_READ_WRITE

NextEntry == i + 1

EnterEntry ==
  /\ stage = "map_memmap"
  /\ i <= Len(memmap)
  /\ Mapped(memmap[i])
  /\ current' = memmap[i].base
  /\ stage' = "map_entry"
  /\ UNCHANGED <<pvars, layout, section, i, tlb, oom>>

SkipEntry ==
  /\ stage = "map_memmap"
  /\ i <= Len(memmap)
  /\ ~ Mapped(memmap[i])
  /\ i' = i + 1
  /\ UNCHANGED <<pvars, layout, stage, section, current, tlb, oom>>

MapEntryPage ==
  /\ stage = "map_entry"
  /\ current < Limit(memmap[i])
  /\ map_page_table(current, current + hhdm, EntryFlags(memmap[i]))
  /\ current' = current + PAGE_SIZE
  /\ UNCHANGED <<layout, stage, section, i, tlb, oom>>

LeaveEntry ==
  /\ stage = "map_entry"
  /\ pc = "idle"
  /\ ~ (current < Limit(memmap[i]))
  /\ i' = NextEntry
  /\ stage' = "map_memmap"
  /\ UNCHANGED <<pvars, layout, section, current, tlb, oom>>

MemmapDone ==
  /\ stage = "map_memmap"
  /\ i > Len(memmap)
  /\ stage' = "set_cr3"
  /\ UNCHANGED <<pvars, layout, section, i, current, tlb, oom>>

(* Writing cr3, even with the value it has, forgets cached translations;   *)
(* nothing here is marked PAGE_GLOBAL.  kmain then halts.                  *)
set_cr3 ==
  /\ stage = "set_cr3"
  /\ cr3' = pml4
  /\ tlb' = [v \in layout.watched |-> 0]
  /\ stage' = "halted"
  /\ UNCHANGED <<mem, pml4, free_mem_head, pc, op, level, table,
                 layout, section, i, current, oom>>

-----------------------------------------------------------------------------
(* palloc stores to free_mem_head, a variable of the image's mut_data.     *)
(* The store goes through if the cached or the current translation allows  *)
(* it, and may fault if the one the processor uses does not.               *)
HeadWritable == Writable(tlb[layout.head_page]) \/ Writable(Translate(layout.head_page))

HeadStoreFaults ==
  /\ pc = "fill"
  /\ free_mem_head # 0
  /\ ~ Writable(IF tlb[layout.head_page] # 0 THEN tlb[layout.head_page]
                ELSE Translate(layout.head_page))
  /\ Fault

PagingStep ==
  /\ \/ map_page_table_step /\ (pc = "fill" /\ free_mem_head # 0 => HeadWritable)
     \/ HeadStoreFaults
  /\ oom' = (oom \/ FillEntryFromEmpty)
  /\ UNCHANGED <<kvars, tlb>>

Kernel ==
  \/ pmm_init
  \/ init_pml4
  \/ MapSectionPage
  \/ LeaveSection
  \/ EnterEntry
  \/ SkipEntry
  \/ MapEntryPage
  \/ LeaveEntry
  \/ MemmapDone
  \/ set_cr3
  \/ PagingStep

(* The processor loads and drops translations on its own account.          *)
CacheTranslation(v) ==
  /\ tlb[v] = 0
  /\ Present(Translate(v))
  /\ tlb' = [tlb EXCEPT ![v] = Translate(v)]
  /\ UNCHANGED <<pvars, kvars, oom>>

DropTranslation(v) ==
  /\ tlb[v] # 0
  /\ tlb' = [tlb EXCEPT ![v] = 0]
  /\ UNCHANGED <<pvars, kvars, oom>>

Next ==
  \/ Kernel
  \/ \E v \in layout.watched : CacheTranslation(v) \/ DropTranslation(v)

(* The boot processor runs kmain on; interrupts are left to module         *)
(* Interrupts.  Nothing is assumed of the translation cache.               *)
Spec == Init /\ [][Next]_vars /\ WF_vars(Kernel)

-----------------------------------------------------------------------------
(* Two conditions on the machine that most promises need.  Small: the boot *)
(* loader built its tables of 4 KiB pages, the only size set_page_entry    *)
(* can follow.  DataLeftAlone: the pages map_section takes for read-only   *)
(* sections, misplaced as they are, miss the page of free_mem_head.        *)
Small == NoLarge(layout)

DataLeftAlone ==
  \A k \in 1 .. 2 : \A n \in 0 .. pages(k) - 1 :
    layout.virtual_base + offset(k) + n * PAGE_SIZE # layout.head_page

ImagePages == ImagePagesOf(layout)

PagesOfSection(k) ==
  {v \in ImagePages : Overlap([base |-> v, length |-> PAGE_SIZE],
                              [base |-> section_begin(k),
                               length |-> section_end(k) - section_begin(k)])}

ImageFrame(v)    == v - layout.virtual_base + layout.physical_base
BootTranslate(v) == BootWalk(layout, v)

(* The processor executes kmain out of the pages it is remapping, and      *)
(* reaches the free list, the tables and its stack through the direct map  *)
(* while map_memmap rewrites it entry by entry.  In every state a walk of  *)
(* the tables takes each page of the image to its place, although          *)
(* map_section maps pages other than the section's, and no address of the  *)
(* direct map is ever missing, moved or read-only.                         *)
KernelStaysMapped ==
  Small /\ ~ oom =>
    /\ \A v \in ImagePages : Present(Translate(v)) /\ ALIGN_DOWN(Translate(v)) = ImageFrame(v)
    /\ \A f \in Frames : LET e == Translate(f + hhdm)
                         IN Present(e) /\ Writable(e) /\ ALIGN_DOWN(e) = f

(* When kmain halts every page of usable and reclaimable memory can be     *)
(* read and written through the direct map, and every page of a            *)
(* framebuffer too, write-through: the attribute-table bit map_memmap asks *)
(* for lies beyond the twelve flag bits and is lost.  Of an entry that     *)
(* does not begin on a page boundary only the whole pages are promised:    *)
(* the loop steps from base and can stop short of the last partial page.   *)
DirectMapComplete ==
  stage = "halted" /\ Small /\ ~ oom =>
    \A k \in 1 .. Len(memmap) :
      \A f \in {PAGE_SIZE * n : n \in memmap[k].base \div PAGE_SIZE .. Limit(memmap[k]) \div PAGE_SIZE} :
        \/ WholePageOf(memmap[k], f)
        \/ /\ memmap[k].base % PAGE_SIZE = 0
           /\ Overlap(memmap[k], [base |-> f, length |-> PAGE_SIZE])
        => /\ memmap[k].type \in {"USABLE", "BOOTLOADER_RECLAIMABLE"} =>
                Translate(f + hhdm) = f + 3
           /\ memmap[k].type = "FRAMEBUFFER" => Translate(f + hhdm) = f + 11

(* Building tables from recycled pages maps nothing by accident: away from *)
(* the direct map, the image and the pages right behind it, kmain halts    *)
(* with the very translations the boot loader left.                        *)
NothingElseChanged ==
  stage = "halted" /\ Small /\ ~ oom =>
    \A v \in VirtualPages :
      \/ Translate(v) = BootTranslate(v)
      \/ \E k \in 1 .. Len(memmap) :
           Mapped(memmap[k]) /\ Overlap(memmap[k], [base |-> v - hhdm, length |-> PAGE_SIZE])
      \/ layout.virtual_base <= v /\ v < 2 * section_end(3) - layout.virtual_base

(* set_page_entry takes a large page of the boot loader for a table: of a  *)
(* 2 MiB page map_page_table stores leaves into the first 4 KiB, whatever  *)
(* they hold; of a 1 GiB page it stores entries there and follows what it  *)
(* reads there as entries, to pages it stores leaves into.  That is all it *)
(* damages while memory lasts: any other store is to a table of the boot   *)
(* loader's or to a page palloc has given out.                             *)
LargeEntries(ts) ==
  {tn \in ts \X Index : Present(layout.tables[tn[1]][tn[2]]) /\ Large(layout.tables[tn[1]][tn[2]])}

FirstFrames == {BootChild(layout, tn) : tn \in LargeEntries(DOMAIN layout.tables)}

LedTo ==
  LET giants == {BootChild(layout, tn) : tn \in LargeEntries(Boot3(layout) \cap DOMAIN layout.tables)}
  IN {ALIGN_DOWN(mem[fn[1]][fn[2]]) :
        fn \in {gn \in giants \X Index : Present(mem[gn[1]][gn[2]]) /\ ~ BeingFilled(gn[1], gn[2])}}

DamageConfined ==
  [][~ oom => \A f \in Frames : mem'[f] # mem[f] =>
       f \in (DOMAIN layout.tables) \cup (UsablePages \ FreePages) \cup FirstFrames \cup LedTo]_vars

(* Nothing invalidates single translations, so the cache falls behind the  *)
(* tables until cr3 is written; but a cached translation of an address the *)
(* kernel was given at boot always leads to the right page.                *)
StaleEntriesHarmless ==
  Small /\ ~ oom =>
    \A v \in layout.watched : tlb[v] # 0 /\ BootTranslate(v) # 0 =>
      ALIGN_DOWN(tlb[v]) = ALIGN_DOWN(BootTranslate(v))

(* kmain reaches its end, on every machine: only running out of memory, a  *)
(* head page left read-only by map_section, or tables with large pages     *)
(* can make it fault on the way.                                           *)
BootCompletes ==
  <>(stage = "halted" \/ (pc = "fault" /\ ~ (Small /\ ~ oom /\ DataLeftAlone)))

(* The linker script lays each section out in a program header of its own  *)
(* "so the bootloader gives us the right MMU permissions" (linker.ld:7-8): *)
(* when the kernel has mapped its sections anew, code and constants are    *)
(* read-only and the mutable data can be written.                          *)
SectionsKeepPermissions ==
  stage \in {"map_memmap", "map_entry", "set_cr3", "halted"} /\ Small /\ ~ oom =>
    \A k \in 1 .. 3 : \A v \in PagesOfSection(k) : Writable(Translate(v)) <=> k = 3
=============================================================================
