-------------------------------- MODULE Pmm ---------------------------------
(***************************************************************************)
(* The physical page allocator, kernel/src/mem/pmm.c.                      *)
(*                                                                         *)
(* Free pages are linked through themselves: the first two words of a free *)
(* page are a PhysicalMemoryRegion, its own address and a pointer to the   *)
(* next free page.  The same two words belong to the page's owner as soon  *)
(* as palloc has handed it out, and the owner may put anything there.      *)
(*                                                                         *)
(* A region is reached through the higher-half direct map, at physical     *)
(* address + hhdm; region[p] stands for the two words at p + hhdm and a    *)
(* pointer is named by the page it leads to.                               *)
(***************************************************************************)
EXTENDS Memmap, FiniteSets

CONSTANTS
  Frames,     \* addresses of the physical pages that are backed by RAM
  Memmaps,    \* the memory maps the boot loader may report
  NULL,       \* the null pointer
  Junk        \* what an owner may leave in the first words of its page

Region == [base : Frames \cup {0}, next : Frames \cup {NULL}]

ASSUME FramesArePages ==
  /\ Frames \subseteq Nat
  /\ \A p \in Frames : p % PAGE_SIZE = 0
  /\ NULL \notin Frames

ASSUME MapsAreWellFormed ==
  \A m \in Memmaps :
    /\ WellFormedMap(m)
    /\ \A k \in 1 .. Len(m) : m[k].type = "USABLE" =>
         \A p \in m[k].base .. Limit(m[k]) : WholePageOf(m[k], p) => p \in Frames

ASSUME JunkIsARegion == Junk \subseteq Region

VARIABLES
  memmap,         \* kernel_params->memmap, fixed at boot
  region,         \* the PhysicalMemoryRegion words of every page
  free_mem_head,  \* the list head
  pc,             \* where pmm_init is, "ready" once it has returned
  i,              \* pmm_init: entry index, counted from 1
  current,        \* pmm_init: page being linked
  end,            \* pmm_init: where the entry's last whole page ends
  result,         \* what the latest palloc returned
  held,           \* pages palloc has returned and nobody has freed since
  chain           \* history: the linked pages, the head last

vars == <<memmap, region, free_mem_head, pc, i, current, end, result, held, chain>>
loop == <<pc, i, current, end>>

-----------------------------------------------------------------------------
Init ==
  /\ memmap \in Memmaps
  /\ region \in [Frames -> Junk]
  /\ free_mem_head = NULL
  /\ pc = "entries"
  /\ i = 1
  /\ current = 0
  /\ end = 0
  /\ result = 0
  /\ held = {}
  /\ chain = << >>

(* Both pmm_init and pfree link a page in by making it the new head. *)
LinkIn(p) ==
  /\ region' = [region EXCEPT ![p] = [base |-> p, next |-> free_mem_head]]
  /\ free_mem_head' = p
  /\ chain' = Append(chain, p)

(* pmm_init, outer loop: a usable entry is rounded to whole pages, any     *)
(* other entry is passed over.                                             *)
EnterEntry ==
  /\ pc = "entries"
  /\ i <= Len(memmap)
  /\ memmap[i].type = "USABLE"
  /\ current' = ALIGN_UP(memmap[i].base)
  /\ end' = ALIGN_DOWN(memmap[i].base + memmap[i].length)
  /\ pc' = "pages"
  /\ UNCHANGED <<memmap, region, free_mem_head, i, result, held, chain>>

SkipEntry ==
  /\ pc = "entries"
  /\ i <= Len(memmap)
  /\ memmap[i].type # "USABLE"
  /\ i' = i + 1
  /\ UNCHANGED <<memmap, region, free_mem_head, pc, current, end, result, held, chain>>

(* pmm_init, inner loop: one page. *)
LinkPage ==
  /\ pc = "pages"
  /\ current < end
  /\ LinkIn(current)
  /\ current' = current + PAGE_SIZE
  /\ UNCHANGED <<memmap, pc, i, end, result, held>>

(* Mutant: the next entry is never entered. *)
LeaveEntry_staying ==
  /\ pc = "pages" /\ ~ (current < end) /\ i' = i + 1
  /\ UNCHANGED <<memmap, region, free_mem_head, pc, current, end, result, held, chain>>

LeaveEntry ==
  /\ pc = "pages"
  /\ ~ (current < end)
  /\ i' = i + 1
  /\ pc' = "entries"
  /\ UNCHANGED <<memmap, region, free_mem_head, current, end, result, held, chain>>

InitDone ==
  /\ pc = "entries"
  /\ i > Len(memmap)
  /\ pc' = "ready"
  /\ UNCHANGED <<memmap, region, free_mem_head, i, current, end, result, held, chain>>

pmm_init == EnterEntry \/ SkipEntry \/ LinkPage \/ LeaveEntry \/ InitDone

-----------------------------------------------------------------------------
(* Mutant: the last free page is kept back. *)
palloc_empty_early ==
  /\ pc = "ready" /\ Len(chain) <= 1
  /\ result' = 0 /\ UNCHANGED <<memmap, region, free_mem_head, loop, held, chain>>

palloc_empty ==
  /\ pc = "ready"
  /\ free_mem_head = NULL
  /\ result' = 0
  /\ UNCHANGED <<memmap, region, free_mem_head, loop, held, chain>>

(* Mutants: the head does not move; it moves before the answer is read. *)
Answer(head, page) ==
  /\ pc = "ready" /\ free_mem_head # NULL
  /\ free_mem_head' = head /\ result' = page /\ held' = held \cup {page}
  /\ chain' = SubSeq(chain, 1, Len(chain) - 1) /\ UNCHANGED <<memmap, region, loop>>
palloc_page_keeping_head == Answer(free_mem_head, region[free_mem_head].base)
palloc_page_reading_late ==
  LET head == region[free_mem_head].next
  IN Answer(head, IF head = NULL THEN 0 ELSE region[head].base)

palloc_page ==
  /\ pc = "ready"
  /\ free_mem_head # NULL
  /\ free_mem_head' = region[free_mem_head].next
  /\ result' = region[free_mem_head].base
  /\ held' = held \cup {result'}
  /\ chain' = SubSeq(chain, 1, Len(chain) - 1)
  /\ UNCHANGED <<memmap, region, loop>>

palloc == palloc_empty \/ palloc_page

(* Callers give back only what they hold; pfree itself checks nothing. *)
pfree(physc_addr) ==
  /\ pc = "ready"
  /\ physc_addr \in held
  /\ LinkIn(physc_addr)
  /\ held' = held \ {physc_addr}
  /\ UNCHANGED <<memmap, loop, result>>

(* The owner of a page writes over its first words. *)
UsePage(p) ==
  /\ pc = "ready"
  /\ p \in held
  /\ \E junk \in Junk : region' = [region EXCEPT ![p] = junk]
  /\ UNCHANGED <<memmap, free_mem_head, loop, result, held, chain>>

Next ==
  \/ pmm_init
  \/ palloc
  \/ \E p \in held : pfree(p)
  \/ \E p \in held : UsePage(p)

(* pmm_init is straight-line kernel code that nothing preempts: it runs    *)
(* on.  No caller is obliged to allocate or to free.                       *)
Spec == Init /\ [][Next]_vars /\ WF_vars(pmm_init)

-----------------------------------------------------------------------------
(* The pages of the memory map the allocator should manage ...             *)
UsablePages ==
  {p \in Frames : \E k \in 1 .. Len(memmap) :
                     memmap[k].type = "USABLE" /\ WholePageOf(memmap[k], p)}

(* ... and those of them pmm_init has been through.                        *)
Visited ==
  {p \in Frames :
     \/ \E k \in 1 .. Len(memmap) :
          k < i /\ memmap[k].type = "USABLE" /\ WholePageOf(memmap[k], p)
     \/ pc = "pages" /\ WholePageOf(memmap[i], p) /\ p < current}

Linked == {chain[k] : k \in 1 .. Len(chain)}

TypeOK ==
  /\ memmap \in Memmaps
  /\ region \in [Frames -> Region]
  /\ free_mem_head \in Frames \cup {NULL}
  /\ pc \in {"entries", "pages", "ready"}
  /\ i \in 1 .. Len(memmap) + 1
  /\ current \in Nat
  /\ end \in Nat
  /\ result \in Frames \cup {0}
  /\ held \subseteq Frames
  /\ chain \in Seq(Frames)

(* Following the next pointers from free_mem_head visits each free page    *)
(* exactly once and ends in NULL, and every page on the way carries its    *)
(* own address: no owner's write, and no order of palloc and pfree, cuts,  *)
(* loops or forks the list that lives inside the pages it manages.         *)
FreeListIntact ==
  /\ free_mem_head = IF chain = << >> THEN NULL ELSE chain[Len(chain)]
  /\ \A k \in 1 .. Len(chain) :
       /\ region[chain[k]].base = chain[k]
       /\ region[chain[k]].next = IF k = 1 THEN NULL ELSE chain[k - 1]
  /\ \A k, l \in 1 .. Len(chain) : chain[k] = chain[l] => k = l

(* A page in somebody's hands is not on the list: palloc never hands the   *)
(* same page to two owners.                                                *)
NoPageTwice == Linked \cap held = {}

(* Rounding an entry inwards to whole pages neither loses a page nor takes *)
(* one that reaches outside the usable entry: at every point of pmm_init   *)
(* and ever after, free and held pages together are exactly the whole      *)
(* usable pages walked so far.                                             *)
NothingLostNothingStolen == Linked \cup held = Visited

(* No page the allocator manages shares a byte with a map entry that is    *)
(* not usable, provided the map keeps usable entries apart from the rest.  *)
ReservedUntouched ==
  \A k \in 1 .. Len(memmap) :
    /\ memmap[k].type # "USABLE"
    /\ \A l \in 1 .. Len(memmap) :
         memmap[l].type = "USABLE" => ~ Overlap(memmap[k], memmap[l])
    => \A p \in Linked \cup held :
         ~ Overlap(memmap[k], [base |-> p, length |-> PAGE_SIZE])

(* The list implements the pool: a request is refused only if every page   *)
(* is held, and is answered with a free page otherwise.                    *)
Pool == INSTANCE PageAllocator WITH
          NoPage  <- 0,
          pool    <- UsablePages,
          free    <- Linked,
          answer  <- result,
          filling <- (pc # "ready")

ImplementsPool == Pool!Spec
=============================================================================
