# A verification development of Open95

Open95 is a small x86-64 kernel booted by Limine. A boot stub copies the boot
loader's answers into a structure of its own and calls `kmain`. The kernel then
brings up the serial console, the segment and interrupt tables, the physical
page allocator and its own page tables, loads `cr3` and halts. Next to it stand
the programs that get it onto a disk: build programs in C (`nob.c`, on a library
`nob.h`) that compile, link and pack it, and Limine's tool, which writes the boot
loader into the image. This directory models both halves in TLA+, model-checks
the models with TLC, and proves theorems with TLAPS about the page allocator, the
page tables, the exception path, the serial console, the boot stub, the memory
functions, the build programs and their library (processes, copying, rebuilding
itself, the image that is built), and Limine's tool (installing, undoing,
enrolling a checksum).

The kernel has one processor and no threads, the programs have one thread each.
Four things make the code hard all the same:

* **The processor takes part.** It walks the page tables while they are being
  edited and caches what it finds. It can take an exception between any two
  instructions, also inside the code that handles one. The serial chip shifts
  and receives bytes on its own.
* **Data lies inside other data.** The free list lives in the first two words of
  the pages it manages, page tables are made from those pages, and the kernel
  remaps the pages it is executing from.
* **Nothing is checked.** Running out of memory, a missing answer of the boot
  loader, a large page or a chip that fails its test is never tested for, or
  the test's result is thrown away.
* **The tools are stopped halfway.** A transfer fails, a command ends badly, the
  program is killed, a source is edited meanwhile; the next start, or the undo
  log, has to work on what is left.

## 1. Inventory

Paths are relative to `src/kernel/src/` unless they begin with another
directory of `src/`.

| component | code | state | operations | modelled in |
|---|---|---|---|---|
| page allocator | `mem/pmm.c`, `mem/pmm.h` | `free_mem_head`, two words in every free page | `pmm_init`, `palloc`, `pfree` | `Memmap`, `Pmm`, `PageAllocator`, `PmmProof` |
| page tables | `arch/x86_64/paging/` | `pml4`, the tables in memory, `cr3` | `set_page_entry`, `map_page_table` | `Paging`, `AddressSpace`, `PageMap`, `AddressSpaceProof` |
| boot remapping | `main.c`, `paging.c`, `linker.ld` | the same, and the loops over sections and map entries | `init_pml4`, `map_section`, `map_kernel`, `map_memmap`, `set_cr3` | `KernelMap`, `KernelMapProof` |
| segments, interrupts | `arch/x86_64/gdt/`, `arch/x86_64/idt/` | GDT, IDT, the stack, the selector in use | `init_gdt`, `init_idt`, 21 stubs, `isr_exception`, the handler | `Interrupts`, `InterruptsProof` |
| serial console | `devices/serial.c` | the 16550's registers | `init_serial`, `is_transmit_empty`, `srput`, `srputs` | `Serial`, `RoutinesProof` |
| console formatting | `devices/serial.c` | position in format, arguments, digit buffer | `srprintf` | `Srprintf` |
| boot stub | `bootstub/src/limine_bootstub.c` | `kernel_params`, `heap`, `heap_head` | `heap_alloc`, `get_*`, `load_kernel_params`, `kstart` | `Bootstub`, `BootstubProof` |
| memory functions | `libc/string.c` | memory | `memcpy`, `memmove`, `memset`, `memcmp`, `strcpy` | `LibcString`, `RoutinesProof` |
| build drivers | `kernel/nob.c`, `bootstub/nob.c`, `target/x86_64-limine/nob.c` | lists of paths, temporary storage, `build/` | `walk_directory`, `main` | `Build`, `NobProof` |
| build library: processes | `nob.h` (three identical copies) | `Nob_Procs`, `Nob_Cmd`, open files | `nob_cmd_run_opt`, the calls it replaces, `nob_procs_wait`, `nob_procs_flush` | `NobProcs`, `NobProof` |
| build library: files | `nob.h` | temporary storage, file system | `nob_copy_directory_recursively`, `nob_copy_file`, `nob_mkdir_if_not_exists`, `nob_read_entire_dir` | `NobFiles`, `NobProof` |
| build library: rebuilding itself | `nob.h` | `nob`, `nob.old`, times of the sources | `nob__go_rebuild_urself`, `nob_needs_rebuild`, `nob_rename` | `Rebuild`, `NobProof` |
| build library: texts | `nob.h` | a view, a growing array | `nob_sv_*`, `nob_sb_*`, `nob_da_*`, `nob_cmd_render`, `nob__win32_cmd_quote`, `nob_write_entire_file` | `NobText` |
| Limine's tool: device | `limine/limine.c` | block cache, undo log | `device_init`, `device_flush_cache`, `_device_read`, `_device_write` | `BlockCache`, `LimineProof` |
| Limine's tool: install | `limine/limine.c` | the device's partition tables and boot sectors | `bios_install`, `uninstall`, `store_uninstall_data`, `load_uninstall_data` | `BiosInstall`, `LimineProof` |
| Limine's tool: the rest | `limine/limine.c` | the executable, the arguments | `main`, `enroll_config`, `lba2chs`, `set_pos`, `crc32`, `bswap*` | `LimineTool`, `GptChecksum`, `LimineProof` |
| heap, VMM | `mem/kheap.*`, `mem/vmm.*` | | none: empty stubs | nothing to model |

How they interact:

* The stub calls `kmain` with a `KernelParams`. `pmm_init` and `map_memmap` walk
  its memory map, and every access to physical memory goes through its `hhdm`.
* `set_page_entry` calls `palloc` for each missing table. The page comes off the
  list through the direct map, becomes part of the tree that maps it, and is
  cleared through the mapping that is being edited.
* `palloc` writes `free_mem_head`, which lies in the very image `map_kernel`
  remaps.
* The exception handler prints through the same serial chip as the code it
  interrupted, on the same stack, and never returns.
* `kmain` ignores what `init_serial` returns and prints on.
* `main` of a build program first rebuilds itself (`Rebuild`), then walks the
  sources and runs one command after another (`Build`), each through
  `nob_cmd_run_opt` (`NobProcs`). The last commands copy the kernel, pack the image
  and run `limine bios-install` on it (`BiosInstall` over `BlockCache`).

What makes each component correct:

* *Page allocator:* the list is a list of free pages, whatever owners write in
  theirs; no page is given out twice; rounding neither loses nor steals a page.
* *Page tables:* the tables are a tree; making one mapping leaves all others
  alone at every moment; nothing is mapped that nobody asked for; only pages
  that `palloc` has given out for tables are written.
* *Boot remapping:* the image and the direct map stay mapped throughout; memory
  is fully mapped at the end; sections have their permissions (they have not:
  finding 1).
* *Interrupts:* processor, stub and C structure agree on the frame (not for one
  vector: finding 2); no window after `lidt` in which an exception resets, nor a
  device after `sti`.
* *Console:* the line carries exactly what was printed after a successful test;
  a working chip passes the test (not always: finding 3).
* *Formatting:* each specifier takes its own argument and prints its value.
* *Boot stub:* heap blocks are disjoint and inside the heap; the kernel finds
  what the boot loader said.
* *Memory functions:* the C library's contracts, overlap included.
* *Processes:* no child is lost sight of, no failure swallowed, no call waits for
  ever.
* *Files:* a copy that reports success is one; the caller's temporary storage is
  as it was.
* *Rebuilding:* the program that builds is as new as its sources; one survives.
* *Build:* what is started is made from this build's sources and all of them.
* *Texts:* quoting, cutting and appending lose nothing.
* *Installing:* the boot sector finds stage 2; partitions stay what they were;
  undoing restores the device (not always, nor is what the tool says true:
  finding 4 and section 3).

## 2. Modules

Every module names the code it models in its header. Operators and actions carry
the names of the C functions and variables where there is one; a C function of
several steps is several actions whose disjunction has the function's name.
Definitions headed "Mutant" are altered versions of a neighbouring definition
that show that a property can fail; no specification uses them.

`Memmap` has the memory map and the rounding macros, shared by `Pmm`, `Paging`
and `Bootstub`. Addresses are natural numbers: physical addresses have at most
52 bits, so the 64-bit sums of the code never wrap.

`Pmm` is `pmm.c`. `region[p]` is the `PhysicalMemoryRegion` in the first words of
page `p`; `free_mem_head` is the list head. `EnterEntry`, `SkipEntry`,
`LinkPage`, `LeaveEntry` and `InitDone` are the two loops of `pmm_init`, with
`i`, `current` and `end` as in the code. `palloc_empty` and `palloc_page` are the
two exits of `palloc`. `UsePage` is an owner that writes into a page it holds:
it may leave anything in the words where the list used to be. `held` and
`chain` are history.

`PageAllocator` is the abstract specification: a pool of pages that are free or
held. `Pmm!ImplementsPool` maps the list onto it.

`Paging` is `set_page_entry` and `map_page_table`. Memory is an array of words
read as table entries or as list words, as in the code. Every store that changes
what the processor's walk finds is a step: `ClaimEntry` makes the entry present
with no address in it, `FillEntry` (or `FillEntryFromEmpty`, with the 0 that
`palloc` returns when nothing is left) gives it one, `ClearTable` clears the new
table, `WriteLeaf` writes the mapping. `Translate` is the processor's walk, large
pages included; an access through a pointer that `Translate` does not take to
the right page faults. The module is used by two compositions:

* `AddressSpace` makes any sequence of `map_page_table` calls and goes on after
  memory has run out. `PageMap` is its abstract specification: one entry for each
  virtual page, of which a call changes one, at one moment. `ImplementsPageMap`
  takes the abstract entry of a page to what the processor's walk finds, and a
  call in progress to a request; a page behind an entry that is still being
  filled counts as unmapped, and a step shows that it was.
* `KernelMap` is `kmain` from `pmm_init` to the end: the loops of `map_kernel`,
  `map_section` and `map_memmap`, a translation cache that fills and empties when
  it likes, and `palloc`'s store to a variable in the image, which faults when
  that page has become read-only. `pmm_init` is one step here, since `Pmm` has
  its loop.

`Interrupts` has `kmain` filling the IDT gate by gate, the processor's delivery
of an exception or of a device's interrupt (alignment, frame, error code,
missing gates turned into #GP), `lidt` and `sti`, the stubs, `pushaq` and the three lines the handler prints. The stack is a
sequence of words; `eframe` is the pointer the handler gets, and `Field` reads it
the way `struct ExceptionFrame` lays it out. Exceptions nest. `KernelGdt` has the
access and flag bytes `gdt.c` writes, and `Code64` is what the processor demands of
the segment a gate names. `InterruptConstants` says of the processor that a
vector without an error code brings none.

`Serial` has one step for each `outb` and `inb` of `init_serial` and `srput`, and
the chip next to it: divisor latch, loopback, transmitter, receiver, line. There
are five kinds of chip: one that loops back at once (`good`), one that takes
time (`slow`), one that garbles (`broken`), one whose transmitter is never ready
(`dead`), and none (`absent`).

`Srprintf` is one call of `srprintf`. A call is given as pieces; the program sees
the characters and the argument list.

`Bootstub` is `kstart` down to `kmain`, with the heap as 8-byte words. A read of
a missing answer or a store through a null pointer resets the machine
(`"crash"`), for there is no interrupt table yet. The 64-bit type of an entry
passes through an `int` on its way to the kernel's numbering (`AsInt`), so that a
type an `int` does not hold may come out as any other.

`Bringup` composes the two: `kmain`'s first call is `init_serial`, so the console runs
once the stub has entered `kmain`, and never if it crashes.

`LibcString` runs one call of one function on a small memory, byte by byte.

`NobProcs` is one program and its children. A command goes through `Slots`, `Poll`,
`Open`, `nob__cmd_start_process`, `Append_`, `Close`, `Wait` and `Defer`, which are the
parts of `nob_cmd_run_opt` (and of the older calls, which open nothing and close
before they wait). Children end when they like, well or not; a pid is free again
once it has been waited for.

`NobFiles` is `nob_copy_directory_recursively` with its recursion as a `stack`. The
temporary storage is a sequence of names, and a list of children has places in it
as the code has pointers into it: what a rewind frees is really overwritten.
`write` takes what it likes, and every call of the system may fail. The target may
have links in it, which the system follows when a file is opened or a path goes
through them: a call knows the `path` in the source and the `goal` where its copy
really is, which may lie outside the target (its name begins with `..`). A link
of the target is given with the place it leads to in the end. When the type of a
file cannot be had, the test for a negative number is never true of an unsigned
enumeration and `NOB_UNREACHABLE` aborts the program.

`Rebuild` has the clock, the sources with their times in whole seconds, `nob` and
`nob.old`. Edits, kills and failures come anywhere, also while the compiler is at
work; `WorksFresh` names the edits that go unnoticed.

`Build` is `walk_directory` and `main`. Paths lie in the temporary storage
(`arena`), and the lists hold their places, again so that a rewind can do damage.
A command that fails leaves its output as it was, absent or torn; a killed build
leaves everything where it is for the next start. The constant parts of the
commands are left out; which files each reads and writes is in. `program` says
whose `main` runs: the kernel's, or the boot stub's, which stops behind its first
compiler.

`NobText` has pure functions: each is an operator, an index loop a fold. A string
builder is modelled with its memory (`items`, `count`, `capacity`), so that a write
beyond it can be told.

`BlockCache` is the device as `limine.c` sees it: a cache of one block that may be
dirty, and the log. A cell is the first byte of a field or a sector. The device is
a buffered `FILE`: `fwrite` either transfers a block or leaves it with the stream
(`held`), which writes it at the next seek or in `fclose`; when that fails, the
stream forgets it, though the cache has long been marked clean. `lost` is history:
the cells for which that happened. A failed read leaves the cache undefined.

`BiosInstall` runs on it. `Plan` is `bios_install` up to its last write as a sequence
of calls of the device, computed from the device's contents; the calls are then
executed block by block (`read_block`, `save_block`, `write_block`, `call_fails`), so
that a failure can come in the middle of any of them. `undo_*` is `uninstall`, at
once or, from the file, by a later process; `close` is the `fclose` at the end, whose
result nobody looks at. `PartitionCells` are the partitions of the device,
`TakenFor` what `bios_install` takes for its own.

`LimineTool` has `main`'s choice of command, `enroll_config` step by step, its help
options and its `fclose` included, and the two conversions of addresses.
`GptChecksum` has `crc32` with the words of its table as they stand in the source,
compared with the division of polynomials they are to do, and the exchange of
bytes for hosts of the other byte order, on sets of bits. `ENDSWAP` goes by the size
of the value it is given, `Stored` cuts the result to the field it goes to.

`PmmProof`, `AddressSpaceProof`, `KernelMapProof`, `InterruptsProof`, `BootstubProof`,
`RoutinesProof` (on `LibcString` and `Serial`), `NobProof` (on `NobProcs`, `Rebuild`,
`NobFiles` and `Build`) and `LimineProof` (on `BiosInstall` and `LimineTool`) have the theorems.

The `MC*` modules give the constants their values. `MCRoutines` and `MCBuild` hold
several components that share no state: an initial state chooses one, the others
stand still. Where components have names in common, one of them is taken as an
instance with variables of its own: `Copying` has `NobFiles` as `F`, `Enrolling`
`LimineTool` as `E`, `Building` `Build` as `B`, for the runs and the proofs alike.

**The three copies.** The three `nob.h` are the same file, and
`target/x86_64-limine/nob.c` is `kernel/nob.c` with two more lines of comment; the
three programs share one model. In `PROJECT.json`, the definition of a single step
names its lines in the kernel's copy; the disjunction that stands for a whole
function (`Program`, `FilesNext`, `nob_copy_file`, `RebuildNext`, `BuildNext`,
`walk_directory`) names the function in one of the other copies.

## 3. Runs

All passing runs are exhaustive. The runs of the last two rows are expected to
end in a violation; each checks one property, which states what the program or
its comments say.

| run | configuration | states | question |
|---|---|---|---|
| `pmm` | `Pmm.cfg` | 23,592 | Is the list intact, exclusive and complete under every order of calls and writes? |
| `address_space` | `AddressSpace.cfg` | 36,897 | Do sequences of mappings leave each other alone, up to the point where memory runs out? |
| `kernel_map` | `KernelMap.cfg` | 4,550 | Does the kernel survive its own remapping? |
| `interrupts` | `Interrupts.cfg` | 656,827 | Is the report true for every vector, at every point, nested? |
| `bringup` | `Bringup.cfg` | 25,536 | Does the kernel find what the boot loader answered, or no kernel at all? What then reaches the line, for each kind of chip, with exceptions? |
| `routines` | `Routines.cfg` | 215,174 | Do the memory functions, `srprintf`, `limine`'s commands, checksums, texts and conversions do what they promise? |
| `installer` | `BiosInstall.cfg` | 238,023 | Is an installed device bootable with its partitions unharmed, and is an undone one as it was? |
| `build` | `Build.cfg` | 312,954 | Are children, failures and files accounted for, and is the image of this build? |
| `sections`, `double_fault`, `healthy_chip` | `Sections.cfg`, `DoubleFault.cfg`, `HealthyChip.cfg` | | findings 1 to 3 |
| `said_installed` | `SaidInstalled.cfg` | | finding 4 |

Bounds, and why they are enough:

* **pmm**: six pages and five maps. Between them the maps have an entry that is
  aligned, ragged at the front, ragged at the back, shorter than a page, empty,
  next to another, and of a kind to be skipped. The list logic does not look at
  addresses, and the theorems cover every map.
* **address_space**: three entries per table, nine pages, four of them free. A
  mapping with all its tables takes three, so the requests (same table,
  neighbouring table, far table, remapping, unaligned address, device page)
  exhaust memory at every level. Page tables are built from pages full of
  garbage that reads as a present entry.
* **kernel_map**: eight entries per table, 24 pages, six machines: an ordinary
  one; ragged ends and a framebuffer off page boundaries, with an image that
  ends where its table does; text so long that `map_section`'s misplaced pages
  hit the data; no usable memory; a direct map of large pages; and a page of the
  third level (1 GiB in the code), whose words, read as entries, lead on.
* **interrupts**: all 32 exceptions on `kmain`, zero and non-zero error codes, and
  two devices once interrupts are on; four exceptions on a stub or handler,
  where the gates keep devices out; three deep. `Vectors` ends behind the
  devices, for no gate above 0x15 is ever written. A fourth level meets no code that
  the third has not met: the handler never returns.
* **bringup**: 160 bytes of heap instead of 16 KiB, up to seven entries of
  every type and three framebuffers, so that arrays fit with room, to the byte,
  and not; each answer missing in turn. `INT_VALUES` is 16 instead of 2^32, with a
  type beyond it that an `int` turns into the number of another. Messages of two
  or three distinct bytes; an exception before or after any of them; one byte
  typed at a time, since nothing but the test reads.
* **routines**: seven bytes of memory, every pair of areas and every length;
  formats of up to three pieces, two-byte `%x` instead of eight-byte, arguments at
  the edges of their types; for `enroll-config` every executable of up to eight
  letters with a signature of three that begins like itself, and every list of up
  to four arguments, `-h` among them; texts, arguments and fills of builders up to three or five
  letters, over the letters the code treats specially; every edge of cylinder,
  head and sector.
* **installer**: 26 devices: MBR with and without an active partition, with bad
  flags, a partition that begins too low, file systems in the whole device; GPT
  with few entries, as many as leave room for stage 2, one more, damaged, hybrid
  (ISO) convertible or not; the same with blocks of 4096 bytes, where the arrays
  take four blocks and a partition may begin at the sixth. Up to five transfers
  fail at any point, and each `fwrite` may stay with the stream. `UINT32_MAX` is 1000,
  so that numbers of sectors at and above the limit occur on a small disk. The
  log has its 256 entries.
* **build**: three pids for at most two processes at a time; copies two levels
  deep onto nothing, onto files and directories of the same names, onto links to
  files and directories inside and outside the target and to nothing, onto a
  device, buffers of two bytes, one failure; two sources, four seconds, three starts; trees with
  nested directories, hidden and foreign files, or no `src`; two builds in a row
  with one failure and one edit between or during them. A third build meets no
  kind of leftover that the second has not met.

Deadlock is checked for `pmm`. The other programs end (in `hcf`, in `for (;;)`,
by returning) or wait for a device forever, so their configurations turn the
check off; liveness properties say where they must get to.

**Fairness.** Each specification assumes weak fairness of the kernel's own steps:
one processor executes straight-line code that nothing preempts for good.
`Interrupts` has it separately for `kmain` and for exception handling; nothing
makes the processor raise an exception. `Serial` adds weak fairness of the chip's
shift register, which runs on a clock. `NobProcs` assumes that the program is run
and that each child ends some time (`CallReturns` is about waiting, and nothing
else can make a program go on that waits for a child). Nothing is assumed of the
translation cache, of callers of `palloc`, of somebody typing.

**What the runs show beyond "it holds".** Some invariants hold only under a
condition on the machine, and the condition is the result:

* After memory has run out (`oom`) `map_page_table` uses page 0 as a page table, and
  what an entry there leads to as the next. The first call after that may write
  into anybody's page, so every property of the tables ends there: none is
  broken before, none is promised after.
* `set_page_entry` takes a large page for a table. `Small` marks the machines
  without large pages; `DamageConfined` holds on the others too, while memory
  lasts. It shows which pages may be written: tables of the boot loader, pages
  `palloc` has given out, the first 4 KiB of a large page (`FirstFrames`), and
  behind a page of 1 GiB whatever the words in it lead to (`LedTo`), which no bound
  on the code keeps away from anybody's data.
* `map_section`'s offset is wrong (finding 1). `KernelStaysMapped` nevertheless
  holds, since the wrong pages still get frames at the same distance.
  `DataLeftAlone` says when the mistake leaves `free_mem_head` writable;
  without it `kmain` can fault on its next `palloc` (`BootCompletes`).
* Nothing invalidates a translation before `cr3` is loaded.
  `StaleEntriesHarmless` shows that no stale translation leads to a wrong page.
* `KmainDelivers`: only a chip that never reports an empty transmitter holds the
  kernel up.
* `KmainIffPossible`: a missing answer or a full heap resets the machine; in all
  other cases `kmain` is reached.
* `Printed`: `%d` prints zero bytes for zero and negative numbers.
  A `%` at the end of a format takes it past the terminator.
* `CallCorrect`: `strcpy` does not write a terminator.
* `WorksFresh`: an edit between the compiler's reading and the end of the second
  in which it wrote goes unnoticed for good. `SettlesDown`: it never rebuilds
  itself more often than its sources are edited.
* `ImageCurrent`: a directory that cannot be read to its end, or whose type cannot
  be had, leaves sources out without a word; with that exception the image has
  each source once, as it was during this build, whatever earlier builds left.
* `Undone`: the write at which an install failed is not in the log, so what it has
  already replaced stays, and what the stream loses while it is undone (`lost`) is
  not noticed; everything else is put back.
* `Installed`: all that a success leaves unwritten is in the first block, where the
  last writes go; stage 2 is in place.
* `PartitionsKept`: no byte of a partition changes outside of what `bios_install`
  takes for its own (34 blocks from the start, the last 33, 32 of either array, as
  many as stage 2 needs in a partition). On 512-byte blocks no partition of a
  legal GPT can be there, unless it is too small for the stage 2 that is to go
  into it; on blocks of 4096 bytes one can (see below).
* `Enrolled`: a signature is missed when it follows directly on a beginning of
  itself, or ends too near to the end of the file; otherwise it is found. With a
  help option, also among others, success means that nothing was done.
* `OrderKept`: a value that goes to a field of its own width is stored right on a
  host of either byte order. The 64-bit counts and block numbers that go to 32-bit
  fields (`limine.c:876`, `878`, `1174`, `1184`) come out as 0 on a big-endian host.
* `CopyFaithful`: a copy that fails leaves what it has made. What has no
  counterpart in the source is touched only where a link in the way leads to it:
  a file is written through a link, a directory copied into the one it leads to.

Every property has a mutant in `PROJECT.json`: a plausible slip in one mapped
definition under which TLC finds that property violated.

Other places where code and text differ, met while modelling, which no run is
about: `nob.h:397` says that zero `max_procs` "implies nob_nprocs()", line 1033
takes one more; `enroll-config` takes an option out of its arguments and steps over
the one behind it, so of `--quiet --reset` only the first counts; "Partition number
is too large" (`limine.c:1074`) is not said of the first number that is;
`bootstub/nob.c` compiles without `-c`, so that `cc` goes on to link a program
without `main` and fails, and the boot stub is built by `kernel/nob.c` alone.

Five more of the same kind concern Limine's tool. The properties of `installer`
and `routines` hold because they make the exceptions that follow; each of the
first four was seen as a violation of the property without its exception.

* `limine.c:332`: a block is marked clean when the stream has taken it. The seek or
  `fclose` that then fails loses it; the retry finds nothing to flush, and
  "Uninstall data restored successfully." is said (`lost` in `Undone`).
* `limine.c:852`, `858`: the conversion of a hybrid image clears 34 and 33 blocks of
  whatever size. With 4096 bytes "nuke secondary GPT" clears the end of a
  partition that ends where it may, and the first loop the beginning of one
  that begins at block 6 (`taken` in `PartitionsKept`; `HybridOnLarge` is the device).
* `limine.c:1213`: "Installing there instead of embedding.", without a look at the
  partition's size: stage 2 runs on into the next (`taken`; `SmallTarget`).
* `limine.c:1384`: as finding 4, for `enroll-config` and "Config file BLAKE2B
  successfully enrolled!" (`unwritten` in `Enrolled`).
* `limine.c:503`: with blocks of 4096 bytes the entries cleared one by one overflow
  the log of 256, and every embedding ends in "Too many uninstall data entries!
  Please report this bug upstream."; it is undone.

### Findings

1. `paging.c:52` computes `offset` as the rounded *length* of a section where the
   section's distance from the image base is meant. The permissions land on other
   pages than the section's, against `linker.ld:7-8` (run `sections`).
2. `isr.asm:87`: the double-fault stub pushes a zero in place of an error code
   although the processor pushes one, so what `isr_handlers.c:7` prints as RIP is
   the error code (run `double_fault`).
3. `serial.c:16`: a byte that arrives between the FIFO reset and loopback is read
   instead of the test byte; a chip that works is rejected and left in loopback,
   against the comment at `serial.c:21` (run `healthy_chip`).
4. `limine.c:1260`: the last `fwrite` may stay with the stream until `fclose`, whose
   result is ignored. The first block, with the place of stage 2 and the
   partition table, may be missing after "Limine BIOS stages installed
   successfully!" (run `said_installed`).

## 4. Proofs

### The page allocator

`PmmProof` holds for every set of RAM pages, every well-formed memory map and
everything owners may write. Its assumptions are those `Pmm` states and TLC
evaluates: frames are page addresses and `NULL` is not one of them
(`FramesArePages`); usable entries do not overlap one another, stay off page 0
and are backed by RAM (`MapsAreWellFormed`, the boot protocol's promise); what
owners write are two words (`JunkIsARegion`).

None of the properties is inductive alone. `palloc` returns what it reads in the
head page, so that it gives out a page of the list needs the list to be intact;
that the list stays intact when an owner writes needs that held pages are not on
it; that `pmm_init` links a page once needs that it has linked exactly the pages
visited so far, and where its loops are. The inductive invariant is the
conjunction

    IInv == TypeOK /\ LoopInv /\ FreeListIntact /\ NoPageTwice /\ NothingLostNothingStolen

with `LoopInv` for the loops: inside an entry, `current` is a page boundary at
or above the entry's base and `end` is the rounded-down limit; nothing is held
before `pmm_init` returns. The lemmas `RoundUp`, `RoundDown` and `NextPage` say what
the two macros do at page boundaries, `UsablePage` that a whole page of a usable
entry belongs to no other, `LinkingIn`, `HeadOfList` and `TakingOff` what happens to
the list when its head changes, and `EnterVisits`, `SkipVisits`, `LinkVisits` and
`LeaveVisits` what each loop step adds to the visited pages. Then one lemma per
operation shows that it keeps `IInv`.

| theorem | says |
|---|---|
| `TypeCorrect` | `Spec => []TypeOK` |
| `FreeListCorrect` | `Spec => []FreeListIntact`: never cut, looped or forked |
| `ExclusivePages` | `Spec => []NoPageTwice` |
| `PagesConserved` | `Spec => []NothingLostNothingStolen` |
| `ReservedStaysReserved` | `Spec => []ReservedUntouched` |
| `ListImplementsPool` | `Spec => ImplementsPool`: refinement of `PageAllocator`, step by step |

### The page tables

`AddressSpaceProof` holds for every number of entries per table, every set of
frames, every free list, every sequence of calls, and whatever the pages hold
before they become tables. It assumes what `PagingConstants` and
`AddressSpaceConstants` state and TLC evaluates: frames and `hhdm` are page
addresses; the boot loader's root maps the direct map, and nothing else, through
one table with one large page that covers all frames; the free list has no page
twice, and none of the boot loader's; no call asks for an address in the direct
map's part of the address space. It speaks of the time until memory runs out:
from then on page 0 is a table like any other, and the theorems would be false.

The free list lies in pages that become tables, so nothing can be said of it
apart from the tree. The inductive invariant is

    IInv == ~ oom => Typed /\ BootTables /\ OneParent /\ Place
                     /\ \E k : FreeList(k) /\ Entries(k) /\ Accounted(k) /\ Pending(k)

The first `k` pages of the list have been given out. `FreeList` says that the others
are still linked, in order, in their own words; `Entries` that every present entry
of a table leads to a page among those `k`, and `OneParent` that no other entry
leads to the same one; `Accounted` that each of the `k` is a table; `Pending` is the
one page that is not yet: `set_page_entry` has stored its address, and the page
still holds the list's words. `BootTables` keeps the direct map, through which the
lists and the tables are reached. The proof rests on

* arithmetic of indices and spans (`Spans`, `Indices`, `SpanSplit`), from the axioms of
  division alone;
* `FreePagesAre`: the walk of the list that `FreePages` makes by a recursive function
  finds the pages behind the first `k`. The library's induction cannot be used
  here; `FollowedIs` takes the least counterexample instead;
* `Families` and `Levels`: a tree whose children have one parent each has levels
  that do not meet;
* one lemma per step (`CallTree`, `FollowTree`, `ClaimTree`, `FillTree`, `ClearTree`, `LeafTree`)
  that it keeps the tree.

That the tables implement `PageMap` needs one thing more: the tables hold pages
that the call has nothing to do with, so the place where a call is must be known
to be its own. `OnItsWay` says that the table at hand is the one the walk for the
call's address comes to; it is inductive together with `IInv`. Then `OneSpan` shows
that a walk for another page either leaves that way above or at the entry, so
that a store to the entry changes the translation of no other page
(`SameTranslation`), and `ClaimShows`, `FillShows`, `ClearShows` and `LeafShows` say what each
store does to the page itself. For three of the four it is nothing, which is what
makes the call atomic.

| theorem | says |
|---|---|
| `Lasts` | `Spec => []IInv` |
| `TreeFormed` | `Spec => []TablesFormTree`: no two entries share a table, no level shares one with another |
| `PagesAccounted` | `Spec => []EveryPageAccounted`: what `palloc` gave out is a table, or about to be one |
| `WritesOwnPages` | `Spec => OnlyTablesWritten`: a step writes to the root table or a page `palloc` has given out, no other |
| `TablesImplementSpace` | `Spec => ImplementsPageMap`: refinement of `PageMap`, step by step |

### The boot remapping

`KernelMapProof` holds for every number of entries per table, every set of frames
and every set of machines, that is of memory maps, images, boot tables and
values of `hhdm` that satisfy `LayoutsLegal`, and for whatever free pages hold.
TLC evaluates that assumption on the six machines of the runs. It has four
parts:

* `MapLegal`, the boot protocol: usable and reclaimable entries are whole pages
  that no other entry touches. Framebuffers may lie anywhere and overlap.
* `ImageLegal`, from `linker.ld`: the three sections follow one another above the
  image's base, which lies above the direct map, and twice the image's length
  fits below the end of the address space: `map_section` takes a section's
  rounded length for its distance from the base, so it writes that far.
* `TablesLegal`: the boot tables are a tree outside usable memory.
* `MappingLegal`: they map all of memory for writing from `hhdm` on and the image
  at its base; whatever else they map from `hhdm` on is at its place in the direct
  map or behind the image.

Nothing is assumed about addresses below `hhdm`. Of two parts of the runs the
theorems do not speak, and the properties say so themselves: machines with large
pages (`Small`), and what happens once memory has run out (`oom`).

The tables are the ones the kernel runs on, so nothing can be said of one
program variable at a time. The invariant

    IInv == Small /\ ~ oom => Machine /\ Promises

has two halves. `Machine` is about memory: there are a level for each table, the
table and index that lead to it, a list of the free pages and a number `b` given
out so far, such that the tables in use form one tree, the free pages behind `b`
are still linked in their own words, and the table a call is at is the one the
walk for its address comes to (`Memory`). `Promises` is about what has been
achieved:

* `Control` and `InCall`: which call of which loop is under way, with what arguments;
* `AsAtBoot`: what the direct map and the image translate to is what the boot loader
  set up, up to permissions; this is why the lists and tables stay reachable;
* `Confined`: a page outside the regions kmain maps is translated as at boot;
* `InPlace`: what the loops have mapped so far is mapped, with the flags asked for;
* `Cached`: what the processor has cached was true at boot or is true now.

`Promises` was checked by TLC on the runs' machines as an invariant before it was
proved. The proof goes in these steps:

* `SameWalks`, `OnePath` and `SamePage`: in a tree, a store to one entry changes the
  translation of the pages below it and of no other, and below an entry of the
  last level lies one page;
* `ClaimKeeps`, `FillKeeps`, `ClearKeeps`: the stores of `map_page_table` keep `Memory` and
  change nothing that is translated, but for the last (`LeafKeeps`), which changes
  one page to what was asked;
* every call is `Lawful`: if the boot loader mapped the page, the call asks for the
  frame it was mapped to (`SectionLawful`, `EntryLawful`), and so keeps `AsAtBoot`. This
  is where the wrong offset of finding 1 turns out to be harmless to the
  addresses: page and frame are computed with the same offset;
* calls for the same page ask for the same flags (`Agreement`), since entries that
  share a page can only be framebuffers: none is undone by a later one.

| theorem | says |
|---|---|
| `Invariance` | `Spec => []IInv` |
| `StaysMapped` | `Spec => []KernelStaysMapped`: image and direct map are never taken away |
| `MapsEverything` | `Spec => []DirectMapComplete`: in the end all memory is mapped, with the right flags |
| `ChangesNothingElse` | `Spec => []NothingElseChanged`: in the end every other page is as at boot |
| `StaleIsHarmless` | `Spec => []StaleEntriesHarmless`: without `invlpg`, stale translations still lead to the right page |

### The exception path

`InterruptsProof` holds for every set of exceptions and of devices, any error codes
and any depth of nesting.

| theorem | says |
|---|---|
| `NeverResets` | `Spec => []NoResetOnceLoaded`: no exception resets the machine once the table is loaded |
| `FramesAreTrue` | `Spec => []FrameTrue`: processor, stub and C structure agree on every word, but for vector 8 |

The invariant is `TypeInv /\ BringUp /\ OnTheWay /\ InFrame`. `BringUp` says which gates
are written at each moment of `init_idt`, so that they all are when `lidt` comes.
A
device's interrupt finds no gate and comes as #GP, which has one. `OnTheWay` describes
the top of the stack from the processor's push to the call of
the handler, and that it is aligned; `InFrame` the frame as the handler sees it,
and how many lines it has printed. Everything else comes down to where a word of
the frame lies below the top (`Joined` and its neighbours). An exception that
arrives while another is handled pushes on top; that the handler never returns
is why nothing has to be said of the frames below.

### The serial console

The second part of `RoutinesProof` holds for every set of chips, every text, and whatever is typed.

| theorem | says |
|---|---|
| `LineCorrect` | `Spec => []LineCarriesText` |

The invariant follows the chip as well as the program: in `BringUp`, when loopback
and the divisor latch are on and what the receiver can hold; in `Printing`, that the
transmitter holds one byte at most, since `srput` waits until it is empty; in
`OnTheLine` and `Unfinished`, that what is on the line and in the transmitter is what
was sent, and that what was sent and what is left make the text. The proof made
the property more exact: if the very byte of the test (`0xAE`) is typed before the
test, it is read in the test byte's stead, and the chip's own test byte may go out
on the line in front of the text (`Strays`).

### The boot stub

`BootstubProof` holds for every heap that is a multiple of 16 bytes
(`HeapIsWhole`, the alignment `heap_alloc` rounds to) and every set of answers of
the right types (`AnswersAreTyped`), present or missing, however long.

| theorem | says |
|---|---|
| `HeapStaysSafe` | `StubSpec => []HeapSafe`: blocks are aligned, disjoint and inside the heap |
| `HandoverCorrect` | `StubSpec => []HandoverIntact`: the kernel finds what was answered; of the types, those that fit an `int` |

`HeapSafe` needs only the type invariant besides itself: every block ends at or
below `heap_head`, which never passes the end of the heap. `HandoverIntact` speaks
of `kmain` alone; the inductive invariant is

    CopyInv == HeapInv /\ Loaded /\ MemmapInv /\ FramebufferInv

`Loaded` says that the two scalars are in `params` once their steps are done.
`MemmapInv` and `FramebufferInv` say that the first `n` entries have been copied,
where their array lies, and that the framebuffers begin behind the last map
entry: without this the framebuffer copies might undo the entries. The lemmas
`WordOf`, `PlaceOf` and their neighbours relate byte offsets to the heap's words.

### The memory functions

The first part of `RoutinesProof` holds for every size of memory, all contents and
every legal call (`CallsAreLegal`: areas inside memory; for `memcpy` and `strcpy` apart from
one another, as `restrict` says).

| theorem | says |
|---|---|
| `CallsCorrect` | `LibcSpec => []CallCorrect`: all of the following |
| `AreaCorrect` | `LibcSpec => []AreaWritten`: `memcpy`, `memmove`, `memset` |
| `StringCorrect` | `LibcSpec => []StringCopied`: `strcpy`, without its terminator |
| `CompareAnswer` | `LibcSpec => []CompareCorrect`: `memcmp` |

The inductive invariant says which part of the destination is `Written`, from the
front or, where `memmove` goes down, from the back; that this part holds what is
wanted and the rest what it held. The step of each copying loop comes down to
one fact: the byte about to be read is not in `Written`. For overlapping areas it
follows from the direction `memmove` has chosen. `StringInv` adds that `strcpy` has
not passed the first terminator, `CompareInv` that all `memcmp` has passed is equal.

### Processes

The first part of `NobProof` holds for every set of pids, every set of files and every limit
on the number of processes (`LimitIsLegal`), whatever fails.

| theorem | says |
|---|---|
| `NoChildForgotten` | `ProcsSpec => []NothingForgotten`: a live child is in the list or in the call's hands, the list keeps to the limit, and a call that resets has closed its files |
| `NoFailureSwallowed` | `ProcsSpec => []FailureTold` |

In `IInv == TypeInv /\ Course /\ Held /\ Closed /\ Told`, `Course` says which call can be
at which place, `Held` who holds the children, and `Told` what the call has learned
of those it waited for. `Removed` is the lemma on `nob_da_remove_unordered`, which puts
the last process in the place of the one it takes out: nothing else leaves the
list. A flush is the delicate case: it empties the list at its end, so `Held` says
that no process before its index is alive.

### Rebuilding

The second part of `NobProof` holds for every set of sources, any number of edits
and starts, and a kill or failure at any point.

| theorem | says |
|---|---|
| `SomeProgramLeft` | `RebuildSpec => []ProgramSurvives` |
| `FreshWhenBuilding` | `RebuildSpec => WorksFresh` |

`Keeps` says where the whole program is at each place of the rebuild. `Dated` says of
all four binaries (`nob`, `nob.old`, the one running, the one being compiled) that
they differ from a source only if it was written in or after the second in which
the compiler read it, and that no time is in the future; this turns the
comparison of times in `nob_needs_rebuild` into one of versions.

### Copying

The third part of `NobProof` holds for every tree and target (`TreesAreTrees`: every
path lies in a directory; the tree copied is finite; the place given for a link
of the target is behind all links, and not in what is copied), every order in which
directories are read, every size of the buffer from one byte on, and any call of
the system failing.

| theorem | says |
|---|---|
| `CopyIsFaithful` | `F!FilesSpec => []CopyFaithful`: an answer of true means a copy, if no link or device is in the way; at any moment nothing without a counterpart has changed but where a link leads; the temporary storage is as it was |

The invariant `FilesInv` follows a recursion that has its lists in a storage which
its callees fill and rewind. `PathsInv`: the calls in progress go down the tree one
name at a time. `MarksInv`: the places of a list lie at or below the mark of every
later call, so that no callee's rewind takes them, and each still holds a name of
its directory. `ClaimsInv`: a name of a directory is in its list, or what the next
call is about, or everything below it has been copied; when a list is empty,
this makes the directory copied. `CopyingInv` is the file in work: it holds what has
been read, but for what is in the buffer. `TargetInv` keeps the target a tree, `OthersKept`
says what can have changed in it, and `GoalsInv` where each call's goal is: at its
path, or where a link of the target has led it. If nothing but files and
directories is in the way, goal and path are the same; then a
step changes the target only at the path of the last call, which lies below no
other name of any list (`CopiedBeside`). That a path below another goes through one of its names
(`Beginnings`, `NextDown`) is shown by a least counterexample, since induction is not
to be had; that a directory read in any order gives all its names (`AllNames`), by
counting.

### Building

The fourth part of `NobProof` holds for every tree of sources that satisfies
`SourcesAreLegal`, any number of edits and starts, and any command failing or
being killed. `SourcesAreLegal` says that the tree is finite, that everything in it lies
in a directory below `src`, and that the kernel's `src` has no `limine_bootstub.c` of
its own, which would be compiled to the very object of the boot stub.

| theorem | says |
|---|---|
| `NamesStay` | `B!BuildSpec => []NamesKept`: behind the walk the lists name the sources, each once, whatever has been put into the storage since |
| `ImageIsCurrent` | `B!BuildSpec => []ImageCurrent`: what is started was made in this build, of these sources and no others, on an image with the boot loader |

`NamesInv` divides the paths of the tree into what the walk has seen, which the cells
in use name (`Seen`), and what it has still to look at (`Ahead`), one name at a time for
each level it is in. The two are apart and no name is ahead twice (`Once`); whatever
is in them comes from `src` by way of directories seen (`Sound`); and what has been seen
has all its names seen or ahead (`Complete`), unless the system kept something
back. At the end nothing is ahead, and a least counterexample shows that
everything has been seen. Each list has places in use only, and gives each source
of its kind once (`Lists`); since a new name goes into the cell behind those in use,
none is overwritten (`CellsAre`). This is what fails in the mutant that goes back to
the mark for every file.

`ImageInv` goes with the build. While the compilers run, the objects listed so far
are those of the sources compiled so far, and each is of a version this build
has seen (`ObjectsAre`); that one compiler does not undo another is `ObjectsApart`: two
sources have two objects. What is linked of them is `Fresh`: it has each source once.
From there `ChainInv` hands it on from the kernel to the copy to the image. It says
nothing of a build that has stopped, so that a later one can rely on nothing that
is left but `Shape`, which is why leftovers cannot get in.

### Installing and undoing

The first part of `LimineProof` holds for every device, image, options and plan of
faults that satisfy `ScenariosAreLegal` (offsets and the numbers in a GPT are natural
numbers), which TLC evaluates on the run's scenarios.

| theorem | says |
|---|---|
| `InstallUndone` | `Spec => []Undone`: a failed install that has been undone, and one that a later process undoes, leave the device as it was, but for the bytes of the write that failed and what the stream has lost |

The invariant is the conjunction of `CountInv`, `DeviceInv`, `CacheInv`, `StartInv`,
`InstallInv`, `SavedInv`, `CleanupInv`, `FileInv`, `UndoInv`, `CloseInv` and `Undone`. What counts is not
what is on the device but what it will have when the stream has been written and
the cache flushed (`Settled`, `Flushed`), since a block may be with the stream and
another dirty in the cache. Everything is said up to the cells in `lost`. `InstallInv` says that the log `Remembers` the device: for each
cell that has been changed its first entry has what was there at the start.
Read from its end, such a log `Restores` the device, because the first entry of a
cell comes last; `UndoInv` says for each cell whether the log still `Awaits` it or it is
as it was. A failed transfer leaves the cache undefined, which `CacheInv` keeps track
of. `PlanCalls` shows of `bios_install` as a whole that all it plans are calls with
integer offsets and whole values.

### Enrolling a checksum

The second part of `LimineProof` holds for every executable, command line, signature
and checksum (`EnrollmentsAreLegal`: the signature and the checksum have at least one
character; the executable is empty, or not so short that the bound of the search
wraps).

| theorem | says |
|---|---|
| `ChecksumEnrolled` | `E!EnrollSpec => []Enrolled`: a success without a help option has put the whole checksum, or zeros, behind a whole signature, unless `fclose` lost its end; nothing else is touched; a signature is missed only where the search cannot see it |

`Matching` is the invariant of the search: the characters just read are a beginning
of the signature, and every earlier place where a signature stands was rightly
`Missed`. The proof needs a checksum of at least one character; the
code's has 128.

### What is only model-checked

* Liveness (`BootCompletes`, `KmainDelivers`, `Reported`, `KmainIffPossible`, `CallReturns`):
  ENABLED and fairness are out of the prover's reach. For the same reason no
  theorem says that a call of `map_page_table` ends.
* `SettlesDown`, which adds up over a set, by induction on it.
* Boot tables with large pages in `KernelMap`: `set_page_entry` takes a large page
  for a table and writes into what it maps, which `DamageConfined` is about; where a page
  taken for a table holds garbage, TLC checks it for the kinds of garbage that the
  configuration names. Nor does a theorem say that the remapping ends (`BootCompletes`).
* `Installed` and `PartitionsKept` of `BiosInstall`, which speak of whole layouts of
  partition tables: the devices of the run are concrete disks.
* `Printed` of `Srprintf`, and the functions of `NobText` and `GptChecksum`: they say what a
  fold or a recursion makes of its whole input. Induction over data is out of
  reach, so what `FreePages` of `Pmm` computes is not proved either.

## 5. Not modelled

* The bit layout of IDT descriptors, and of the bases and limits in the GDT, which
  64-bit code ignores: a gate is the selector it names.
* `serial_received` and `read_serial`, which nothing calls; the text of messages.
* What happens once `palloc` has answered 0: the models go on, the properties stop.
* Clearing a new table word by word: `ClearTable` is one step. The table is reached
  through one entry only, the one being filled, and the properties look at what
  lies behind it (`BeingMade`) before and after; there is one processor, and the
  kernel uses no address of that part meanwhile.
* Execute permissions: the code never sets or clears the no-execute bit.
* Freeing what is not held: nothing in the kernel frees yet, and nothing says
  what a double free should do.
* Accessed and dirty bits, which the processor sets and no code reads.
* Of `nob.h`: what is compiled on Windows only, but for the quoting, which is a
  function of its own; `nob_log`; `nob_delete_file`, the
  current directory and the clock, which the programs do not use. Of copying a
  directory into itself, which has no end, nothing is said either.
* Of `limine.c`: usage and version texts, and how `bios-install` reads its options; a
  fifth GPT partition on a hybrid image, whose bounds are stored behind the
  array's end before the count is looked at (`limine.c:811`): the model has the
  refusal that follows, not what the store damages. The boot loader itself is not in the repository but for the binary
  that is written to the device.
* In `BiosInstall`, the arithmetic of checksums: one is the value of what it covers;
  and hosts that are big-endian, of which `GptChecksum` speaks.
* The flags of compilers, assembler, linker, `xorriso` and `qemu`.
* `kheap` and `vmm`: empty.

## 6. Plan

Done: the page allocator with its refinement and proofs, page tables, boot
remapping, exception path, console, formatting, boot stub, memory functions; the
build programs with their library; Limine's tool. The order was that of what the
rest stands on: memory, then the address space, then what runs on it, then what
makes and installs it.

Proved since: processes, self-rebuilding, the serial console, the exception path,
the page tables with their refinement, the boot remapping, copying, building,
installing with its undoing, and enrolling.

Revised: the device and the executable behind buffered streams, links in the
target of a copy, devices after `sti`, types cut to an `int`, large pages of 1 GiB.

Still to be modelled: `Boot`, the composition of stub, allocator and remapping,
with `Bootstub`'s `params` as the input of the others.
