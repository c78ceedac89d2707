---------------------------- MODULE MCKernelMap -----------------------------
EXTENDS KernelMap, TLC
PageAt(n) == n * PAGE_SIZE
MCFrames == {PageAt(n) : n \in 0 .. 23}
MCHhdm == Span(4)
Kbase == 3 * Span(4)

E(b, n, t) == [base |-> PageAt(b), length |-> PageAt(n), type |-> t]
Section(a, b) == [begin |-> Kbase + a, end |-> Kbase + b]

(* A table whose entries are the given pairs of index and word.            *)
Table(words) ==
  [n \in Index |-> IF \E w \in words : w[1] = n THEN (CHOOSE w \in words : w[1] = n)[2] ELSE 0]
Link(n, t) == <<n, PageAt(t) + PAGE_PRESENT + PAGE_READ_WRITE + PAGE_USER_SUPERVISOR>>
Leaf(n, f, flags) == <<n, PageAt(f) + flags>>
RW == PAGE_PRESENT + PAGE_READ_WRITE

SmallDirect ==
  5 :> Table({Link(0, 6)}) @@
  6 :> Table({Link(0, 7), Link(1, 8), Link(2, 9)}) @@
  7 :> Table({Leaf(n, n, RW) : n \in Index}) @@
  8 :> Table({Leaf(n, n + 8, RW) : n \in Index}) @@
  9 :> Table({Leaf(n, n + 16, RW) : n \in Index})
LargeDirect ==
  5 :> Table({Link(0, 6)}) @@
  6 :> Table({Leaf(n, 8 * n, RW + PAGE_PAGE_SIZE) : n \in 0 .. 2})

(* The image at page slot of its L1 table, the given number of pages of    *)
(* read-only and of writable sections, from frame f on.                    *)
ImageTables(slot, f, ro, rw) ==
  1 :> Table({Link(1, 5), Link(3, 2)}) @@
  2 :> Table({Link(0, 3)}) @@
  3 :> Table({Link(0, 4)}) @@
  4 :> Table({Leaf(slot + n, f + n, IF n < ro THEN PAGE_PRESENT ELSE RW) : n \in 0 .. ro + rw - 1})

AtPages(tables) == [f \in {PageAt(n) : n \in DOMAIN tables} |-> tables[f \div PAGE_SIZE]]

(* Two pages of text, one of constants, three of data; a framebuffer the   *)
(* boot loader has not mapped needs a table of its own.                    *)
Plain ==
  [memmap |-> << E(0, 1, "RESERVED"), E(1, 9, "BOOTLOADER_RECLAIMABLE"), E(10, 3, "USABLE"),
                 E(13, 1, "ACPI_NVS"), E(14, 6, "EXECUTABLE_AND_MODULES"),
                 E(20, 2, "USABLE"), E(26, 2, "FRAMEBUFFER") >>,
   physical_base |-> PageAt(14), virtual_base |-> Kbase,
   sections |-> << Section(0, 5000), Section(PageAt(2), PageAt(2) + 100),
                   Section(PageAt(3), PageAt(5) + 200) >>,
   head_page |-> Kbase + PageAt(5),
   watched |-> {Kbase + PageAt(2), Kbase + PageAt(5), PageAt(26) + MCHhdm},
   tables |-> AtPages(ImageTables(0, 14, 3, 3) @@ SmallDirect),
   cr3 |-> PageAt(1) + PAGE_WRITE_THROUGH]

(* Sections that fill their pages, an image that ends with its L1 table so *)
(* that map_section runs into the next, a framebuffer off page boundaries. *)
Ragged ==
  [Plain EXCEPT
     !.memmap = << E(0, 1, "RESERVED"), E(1, 9, "BOOTLOADER_RECLAIMABLE"), E(10, 3, "USABLE"),
                   E(15, 5, "EXECUTABLE_AND_MODULES"), E(20, 1, "USABLE"),
                   [base |-> PageAt(26) + 100, length |-> 8000, type |-> "FRAMEBUFFER"] >>,
     !.physical_base = PageAt(15), !.virtual_base = Kbase + PageAt(3),
     !.sections = << Section(PageAt(3), PageAt(3) + 3000), Section(PageAt(4), PageAt(5)),
                     Section(PageAt(5), PageAt(8)) >>,
     !.head_page = Kbase + PageAt(5),
     !.watched = {Kbase + PageAt(5), PageAt(11) + MCHhdm},
     !.tables = AtPages(ImageTables(3, 15, 2, 3) @@ SmallDirect),
     !.cr3 = PageAt(1)]

(* Four pages of text: map_section's read-only pages hit the data.         *)
BigText ==
  [Plain EXCEPT
     !.memmap = << E(0, 1, "RESERVED"), E(1, 9, "BOOTLOADER_RECLAIMABLE"), E(10, 2, "USABLE"),
                   E(13, 7, "EXECUTABLE_AND_MODULES"), E(26, 1, "FRAMEBUFFER") >>,
     !.physical_base = PageAt(13),
     !.sections = << Section(0, PageAt(3) + 100), Section(PageAt(4), PageAt(4) + 100),
                     Section(PageAt(5), PageAt(6) + 100) >>,
     !.head_page = Kbase + PageAt(6),
     !.watched = {Kbase + PageAt(6)},
     !.tables = AtPages(ImageTables(0, 13, 5, 2) @@ SmallDirect)]

(* No usable memory at all.                                                *)
NoMemory ==
  [Plain EXCEPT !.memmap = << E(1, 9, "BOOTLOADER_RECLAIMABLE"), E(26, 2, "FRAMEBUFFER") >>,
                !.watched = {Kbase + PageAt(5)}]

(* A direct map of large pages; page 8, a free one, begins the second.     *)
LargePages ==
  [Plain EXCEPT
     !.memmap = << E(0, 1, "RESERVED"), E(1, 6, "BOOTLOADER_RECLAIMABLE"), E(8, 5, "USABLE"),
                   E(14, 6, "EXECUTABLE_AND_MODULES"), E(20, 2, "USABLE"),
                   E(26, 1, "FRAMEBUFFER") >>,
     !.tables = AtPages(ImageTables(0, 14, 3, 3) @@ LargeDirect),
     !.watched = {Kbase + PageAt(5)}]

(* The whole direct map one page of the next size up.  What page 0 holds   *)
(* reads as entries that lead to page 20, which is nobody's to write.      *)
GiantPage ==
  [LargePages EXCEPT
     !.memmap = << E(0, 1, "RESERVED"), E(1, 5, "BOOTLOADER_RECLAIMABLE"), E(8, 5, "USABLE"),
                   E(14, 6, "EXECUTABLE_AND_MODULES"), E(20, 2, "ACPI_NVS"),
                   E(26, 1, "FRAMEBUFFER") >>,
     !.tables = AtPages(ImageTables(0, 14, 3, 3)
                        @@ 5 :> Table({Leaf(0, 0, RW + PAGE_PAGE_SIZE)})),
     !.watched = {Kbase + PageAt(5)}]

MCLayouts == {Plain, Ragged, BigText, NoMemory, LargePages, GiantPage}
MCGarbage == {PageAt(20) + RW, PAGE_READ_WRITE}
=============================================================================
