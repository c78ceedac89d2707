------------------------------ MODULE PmmProof ------------------------------
(***************************************************************************)
(* Proofs about the physical page allocator, for every set of frames,      *)
(* every well-formed memory map and every use the owners make of a page.   *)
(***************************************************************************)
EXTENDS Pmm, SequenceTheorems, TLAPS

(* While pmm_init is inside an entry, the entry is usable and the loop     *)
(* walks it in whole pages; nobody holds a page before pmm_init returns.   *)
LoopInv ==
  /\ pc = "pages" => /\ i \in 1 .. Len(memmap)
                     /\ memmap[i].type = "USABLE"
                     /\ memmap[i].base <= current
                     /\ current % PAGE_SIZE = 0
                     /\ end = ALIGN_DOWN(Limit(memmap[i]))
  /\ pc = "ready" => i = Len(memmap) + 1
  /\ pc # "ready" => held = {}

IInv ==
  /\ TypeOK
  /\ LoopInv
  /\ FreeListIntact
  /\ NoPageTwice
  /\ NothingLostNothingStolen

-----------------------------------------------------------------------------
(* Rounding inwards, the two macros of pmm.h: at page boundaries, being at *)
(* or above the rounded-up base is being at or above the base, and being   *)
(* below the rounded-down end is having a whole page left.                 *)
LEMMA RoundUp ==
  ASSUME NEW a \in Nat
  PROVE  /\ ALIGN_UP(a) \in Nat
         /\ ALIGN_UP(a) % PAGE_SIZE = 0
         /\ a <= ALIGN_UP(a)
         /\ \A p \in Nat : p % PAGE_SIZE = 0 => (ALIGN_UP(a) <= p <=> a <= p)
BY DEF ALIGN_UP, PAGE_SIZE

LEMMA RoundDown ==
  ASSUME NEW a \in Nat
  PROVE  /\ ALIGN_DOWN(a) \in Nat
         /\ \A p \in Nat : p % PAGE_SIZE = 0 =>
              (p < ALIGN_DOWN(a) <=> p + PAGE_SIZE <= a)
BY DEF ALIGN_DOWN, PAGE_SIZE

(* The next page boundary after a page boundary is PAGE_SIZE further.      *)
LEMMA NextPage ==
  ASSUME NEW a \in Nat, a % PAGE_SIZE = 0
  PROVE  /\ (a + PAGE_SIZE) % PAGE_SIZE = 0
         /\ \A p \in Nat : p % PAGE_SIZE = 0 =>
              (p < a + PAGE_SIZE <=> p < a \/ p = a)
BY DEF PAGE_SIZE

(* The entries of a reported map are map entries.                          *)
LEMMA EntryType ==
  ASSUME TypeOK, NEW k \in 1 .. Len(memmap)
  PROVE  /\ memmap \in Seq(MemmapEntry)
         /\ memmap[k] \in MemmapEntry
         /\ memmap[k].base \in Nat
         /\ memmap[k].length \in Nat
         /\ Limit(memmap[k]) \in Nat
<1>1. memmap \in Seq(MemmapEntry)
  BY MapsAreWellFormed DEF TypeOK, WellFormedMap
<1>2. memmap[k] \in MemmapEntry
  BY <1>1
<1>3. QED
  BY <1>1, <1>2 DEF MemmapEntry, Limit

(* A whole page of a usable entry is RAM, and belongs to no other usable   *)
(* entry.                                                                  *)
LEMMA UsablePage ==
  ASSUME TypeOK,
         NEW k \in 1 .. Len(memmap), memmap[k].type = "USABLE",
         NEW p \in Nat, WholePageOf(memmap[k], p)
  PROVE  /\ p \in Frames
         /\ p # 0
         /\ \A l \in 1 .. Len(memmap) :
              memmap[l].type = "USABLE" /\ WholePageOf(memmap[l], p) => l = k
<1>1. memmap \in Memmaps
  BY DEF TypeOK
<1>2. /\ memmap[k].base \in Nat
      /\ Limit(memmap[k]) \in Nat
      /\ memmap[k].base >= PAGE_SIZE
  BY <1>1, EntryType, MapsAreWellFormed DEF WellFormedMap
<1>3. p \in memmap[k].base .. Limit(memmap[k]) /\ p # 0
  BY <1>2 DEF WholePageOf, PAGE_SIZE
<1>4. p \in Frames
  BY <1>1, <1>3, MapsAreWellFormed
<1>5. ASSUME NEW l \in 1 .. Len(memmap), memmap[l].type = "USABLE",
             WholePageOf(memmap[l], p), l # k
      PROVE  FALSE
  <2>1. ~ Overlap(memmap[l], memmap[k])
    BY <1>1, <1>5, MapsAreWellFormed DEF WellFormedMap
  <2>2. /\ memmap[l].base \in Nat
        /\ Limit(memmap[l]) \in Nat
    BY EntryType
  <2>3. QED
    BY <1>2, <1>5, <2>1, <2>2 DEF Overlap, WholePageOf, PAGE_SIZE
<1>6. QED
  BY <1>3, <1>4, <1>5

-----------------------------------------------------------------------------
(* Linking a page that is not yet on the list keeps the list intact and    *)
(* adds just that page.                                                    *)
LEMMA LinkingIn ==
  ASSUME TypeOK, FreeListIntact,
         NEW p \in Frames, p \notin Linked, LinkIn(p)
  PROVE  /\ region' \in [Frames -> Region]
         /\ free_mem_head' \in Frames
         /\ chain' \in Seq(Frames)
         /\ Linked' = Linked \cup {p}
         /\ FreeListIntact'
<1>1. /\ chain' = Append(chain, p)
      /\ free_mem_head' = p
      /\ region' = [region EXCEPT ![p] = [base |-> p, next |-> free_mem_head]]
  BY DEF LinkIn
<1>2. /\ chain' \in Seq(Frames)
      /\ Len(chain') = Len(chain) + 1
      /\ chain'[Len(chain) + 1] = p
      /\ \A k \in 1 .. Len(chain) : chain'[k] = chain[k] /\ chain[k] \in Frames
  BY <1>1 DEF TypeOK
<1>3. region' \in [Frames -> Region] /\ free_mem_head' \in Frames
  BY <1>1 DEF TypeOK, Region
<1>4. Linked' = Linked \cup {p}
  BY <1>2 DEF Linked, TypeOK
<1>5. \A k \in 1 .. Len(chain) : chain[k] # p /\ region'[chain[k]] = region[chain[k]]
  BY <1>1, <1>2 DEF Linked, TypeOK
<1>6. region'[p] = [base |-> p, next |-> free_mem_head]
  BY <1>1 DEF TypeOK
<1>7. FreeListIntact'
  <2>1. free_mem_head' = IF chain' = << >> THEN NULL ELSE chain'[Len(chain')]
    <3>1. Len(chain) \in Nat
      BY DEF TypeOK
    <3>2. chain' # << >>
      BY <1>2, <3>1
    <3>3. QED
      BY <1>1, <1>2, <3>2
  <2>2. ASSUME NEW k \in 1 .. Len(chain')
        PROVE  /\ region'[chain'[k]].base = chain'[k]
               /\ region'[chain'[k]].next = IF k = 1 THEN NULL ELSE chain'[k - 1]
    <3>1. CASE k \in 1 .. Len(chain)
      BY SMTT(30), <1>2, <1>5, <3>1 DEF FreeListIntact, TypeOK
    <3>2. CASE k = Len(chain) + 1
      BY <1>2, <1>6, <3>2 DEF FreeListIntact, TypeOK
    <3>3. QED
      BY <1>2, <3>1, <3>2 DEF TypeOK
  <2>3. \A k, l \in 1 .. Len(chain') : chain'[k] = chain'[l] => k = l
    <3>1. Len(chain) \in Nat
      BY DEF TypeOK
    <3>2. \A k, l \in 1 .. Len(chain) : chain[k] = chain[l] => k = l
      BY DEF FreeListIntact
    <3>3. QED
      BY <1>2, <1>5, <3>1, <3>2
  <2>4. QED
    BY <2>1, <2>2, <2>3 DEF FreeListIntact
<1>8. QED
  BY <1>2, <1>3, <1>4, <1>7

(* What palloc finds at the head: the last page of the chain, whose base   *)
(* is its own address, so that is what palloc returns.                     *)
LEMMA HeadOfList ==
  ASSUME TypeOK, FreeListIntact, free_mem_head # NULL
  PROVE  /\ Len(chain) \in Nat \ {0}
         /\ free_mem_head = chain[Len(chain)]
         /\ free_mem_head \in Linked
         /\ region[free_mem_head].base = free_mem_head
         /\ region[free_mem_head].next =
              IF Len(chain) = 1 THEN NULL ELSE chain[Len(chain) - 1]
<1>1. Len(chain) \in Nat \ {0} /\ free_mem_head = chain[Len(chain)]
  BY EmptySeq DEF TypeOK, FreeListIntact
<1>2. Len(chain) \in 1 .. Len(chain)
  BY <1>1
<1>3. chain[Len(chain)] \in Linked
  BY <1>2 DEF Linked
<1>4. /\ region[chain[Len(chain)]].base = chain[Len(chain)]
      /\ region[chain[Len(chain)]].next = IF Len(chain) = 1 THEN NULL ELSE chain[Len(chain) - 1]
  BY <1>2 DEF FreeListIntact
<1>5. QED
  BY <1>1, <1>3, <1>4

(* Taking the head off keeps the list intact and removes just that page.   *)
LEMMA TakingOff ==
  ASSUME TypeOK, FreeListIntact, palloc_page
  PROVE  /\ free_mem_head' \in Frames \cup {NULL}
         /\ chain' \in Seq(Frames)
         /\ result' = free_mem_head
         /\ Linked' = Linked \ {free_mem_head}
         /\ FreeListIntact'
<1>1. /\ free_mem_head # NULL
      /\ free_mem_head' = region[free_mem_head].next
      /\ result' = region[free_mem_head].base
      /\ chain' = SubSeq(chain, 1, Len(chain) - 1)
      /\ region' = region
  BY DEF palloc_page
<1>2. /\ chain' \in Seq(Frames)
      /\ Len(chain') = Len(chain) - 1
      /\ \A k \in 1 .. Len(chain') : chain'[k] = chain[k]
  <2>1. /\ Len(chain) \in Nat \ {0}
        /\ chain \in Seq(Frames)
    BY <1>1, HeadOfList DEF TypeOK
  <2> DEFINE n == Len(chain) - 1
  <2>2. n \in Nat /\ \A k \in 1 .. n : chain[k] \in Frames
    BY <2>1
  <2> HIDE DEF n
  <2>3. /\ SubSeq(chain, 1, n) \in Seq(Frames)
        /\ Len(SubSeq(chain, 1, n)) = IF 1 <= n THEN n - 1 + 1 ELSE 0
        /\ \A k \in 1 .. n - 1 + 1 : SubSeq(chain, 1, n)[k] = chain[1 + k - 1]
    BY <2>2, SubSeqProperties
  <2>4. /\ SubSeq(chain, 1, n) \in Seq(Frames)
        /\ Len(SubSeq(chain, 1, n)) = n
        /\ \A k \in 1 .. n : SubSeq(chain, 1, n)[k] = chain[k]
    BY <2>1, <2>2, <2>3
  <2>5. QED
    BY <1>1, <2>4 DEF n
<1>3. /\ free_mem_head \in Frames
      /\ free_mem_head' \in Frames \cup {NULL}
      /\ result' = free_mem_head
  BY <1>1, HeadOfList DEF TypeOK, Region
<1>4. Linked' = Linked \ {free_mem_head}
  BY <1>2, <1>1, HeadOfList DEF Linked, TypeOK, FreeListIntact
<1>5. FreeListIntact'
  <2>1. free_mem_head' = IF chain' = << >> THEN NULL ELSE chain'[Len(chain')]
    BY SMTT(30), <1>1, <1>2, HeadOfList DEF TypeOK
  <2>2. \A k \in 1 .. Len(chain') :
          /\ region'[chain'[k]].base = chain'[k]
          /\ region'[chain'[k]].next = IF k = 1 THEN NULL ELSE chain'[k - 1]
    BY <1>1, <1>2, HeadOfList DEF FreeListIntact, TypeOK
  <2>3. \A k, l \in 1 .. Len(chain') : chain'[k] = chain'[l] => k = l
    BY <1>2, HeadOfList DEF FreeListIntact, TypeOK
  <2>4. QED
    BY <2>1, <2>2, <2>3 DEF FreeListIntact
<1>6. QED
  BY <1>2, <1>3, <1>4, <1>5

-----------------------------------------------------------------------------
(* How far pmm_init has come: each step of its two loops changes the set   *)
(* of visited pages by exactly the pages it links.                         *)
LEMMA EnterVisits ==
  ASSUME TypeOK, EnterEntry
  PROVE  Visited' = Visited
<1>1. /\ pc = "entries" /\ pc' = "pages"
      /\ i \in 1 .. Len(memmap)
      /\ current' = ALIGN_UP(memmap[i].base)
      /\ i' = i /\ memmap' = memmap
  BY DEF EnterEntry, TypeOK
<1>2. memmap[i].base \in Nat
  BY <1>1, EntryType
<1>3. ASSUME NEW p \in Frames, WholePageOf(memmap[i], p), p < current'
      PROVE  FALSE
  BY <1>1, <1>2, <1>3, RoundUp, FramesArePages DEF WholePageOf
<1>4. QED
  BY <1>1, <1>3 DEF Visited

LEMMA SkipVisits ==
  ASSUME TypeOK, SkipEntry
  PROVE  Visited' = Visited
<1>1. /\ pc = "entries" /\ pc' = "entries"
      /\ i \in 1 .. Len(memmap)
      /\ memmap[i].type # "USABLE"
      /\ i' = i + 1 /\ memmap' = memmap
  BY DEF SkipEntry, TypeOK
<1>2. \A k \in 1 .. Len(memmap) : k < i + 1 <=> k < i \/ k = i
  BY <1>1
<1>3. QED
  BY <1>1, <1>2 DEF Visited

LEMMA LinkVisits ==
  ASSUME TypeOK, LoopInv, LinkPage
  PROVE  /\ WholePageOf(memmap[i], current)
         /\ current \in Frames
         /\ current \notin Visited
         /\ Visited' = Visited \cup {current}
         /\ current' \in Nat
         /\ current' % PAGE_SIZE = 0
         /\ memmap[i].base <= current'
<1>1. /\ pc = "pages" /\ pc' = "pages"
      /\ current < end
      /\ current' = current + PAGE_SIZE
      /\ i' = i /\ memmap' = memmap
  BY DEF LinkPage
<1>2. /\ i \in 1 .. Len(memmap)
      /\ memmap[i].type = "USABLE"
      /\ memmap[i].base <= current
      /\ current % PAGE_SIZE = 0
      /\ current \in Nat
      /\ end = ALIGN_DOWN(Limit(memmap[i]))
  BY <1>1 DEF LoopInv, TypeOK
<1>3. memmap[i].base \in Nat /\ Limit(memmap[i]) \in Nat
  BY <1>2, EntryType
<1>4. WholePageOf(memmap[i], current)
  BY <1>1, <1>2, <1>3, RoundDown DEF WholePageOf
<1>5. /\ current \in Frames
      /\ \A l \in 1 .. Len(memmap) :
           memmap[l].type = "USABLE" /\ WholePageOf(memmap[l], current) => l = i
  BY <1>2, <1>4, UsablePage
<1>6. current \notin Visited
  BY <1>2, <1>5 DEF Visited
<1>7. \A p \in Frames : p < current' <=> p < current \/ p = current
  BY <1>1, <1>2, NextPage, FramesArePages
<1>8. Visited' = Visited \cup {current}
  BY <1>1, <1>4, <1>5, <1>7 DEF Visited
<1>9. /\ current' \in Nat
      /\ current' % PAGE_SIZE = 0
      /\ memmap[i].base <= current'
  BY <1>1, <1>2, <1>3, NextPage DEF PAGE_SIZE
<1>10. QED
  BY <1>4, <1>5, <1>6, <1>8, <1>9

LEMMA LeaveVisits ==
  ASSUME TypeOK, LoopInv, LeaveEntry
  PROVE  Visited' = Visited
<1>1. /\ pc = "pages" /\ pc' = "entries"
      /\ ~ (current < end)
      /\ i' = i + 1 /\ memmap' = memmap
  BY DEF LeaveEntry
<1>2. /\ i \in 1 .. Len(memmap)
      /\ memmap[i].type = "USABLE"
      /\ current \in Nat
      /\ end = ALIGN_DOWN(Limit(memmap[i]))
  BY <1>1 DEF LoopInv, TypeOK
<1>3. Limit(memmap[i]) \in Nat /\ end \in Nat
  BY <1>2, EntryType DEF TypeOK
<1>4. ASSUME NEW p \in Frames, WholePageOf(memmap[i], p)
      PROVE  p < current
  <2>1. p \in Nat /\ p % PAGE_SIZE = 0 /\ p + PAGE_SIZE <= Limit(memmap[i])
    BY <1>4, FramesArePages DEF WholePageOf
  <2>2. p < end
    BY <1>2, <1>3, <2>1, RoundDown
  <2>3. QED
    BY <1>1, <1>2, <1>3, <2>1, <2>2
<1>5. \A k \in 1 .. Len(memmap) : k < i + 1 <=> k < i \/ k = i
  BY <1>2
<1>6. QED
  BY <1>1, <1>2, <1>4, <1>5 DEF Visited

-----------------------------------------------------------------------------
LEMMA InitIInv == Init => IInv
<1> SUFFICES ASSUME Init PROVE IInv
  OBVIOUS
<1> USE DEF Init
<1>1. TypeOK
  <2>1. Len(memmap) \in Nat
    BY MapsAreWellFormed DEF WellFormedMap
  <2>2. region \in [Frames -> Region]
    BY JunkIsARegion
  <2>3. QED
    BY <2>1, <2>2 DEF TypeOK
<1>2. LoopInv
  BY DEF LoopInv
<1>3. FreeListIntact
  BY DEF FreeListIntact
<1>4. NoPageTwice
  BY DEF NoPageTwice
<1>5. NothingLostNothingStolen
  BY <1>1 DEF NothingLostNothingStolen, Linked, Visited, TypeOK
<1>6. QED
  BY <1>1, <1>2, <1>3, <1>4, <1>5 DEF IInv

LEMMA PmmInitKeepsIInv == IInv /\ pmm_init => IInv'
<1> SUFFICES ASSUME IInv, pmm_init PROVE IInv'
  OBVIOUS
<1> USE DEF IInv
<1>1. CASE EnterEntry
  <2>1. /\ pc = "entries"
        /\ i \in 1 .. Len(memmap)
        /\ memmap[i].base \in Nat
        /\ Limit(memmap[i]) \in Nat
    BY <1>1, EntryType DEF EnterEntry, TypeOK
  <2>2. TypeOK'
    BY <1>1, <2>1, RoundUp, RoundDown DEF EnterEntry, TypeOK, Limit
  <2>3. LoopInv'
    BY <1>1, <2>1, RoundUp DEF EnterEntry, LoopInv, Limit
  <2>4. FreeListIntact' /\ Linked' = Linked /\ held' = held
    BY <1>1 DEF EnterEntry, FreeListIntact, Linked
  <2>5. QED
    BY <1>1, <2>2, <2>3, <2>4, EnterVisits DEF NoPageTwice, NothingLostNothingStolen
<1>2. CASE SkipEntry
  <2>1. TypeOK'
    BY <1>2 DEF SkipEntry, TypeOK
  <2>2. LoopInv'
    BY <1>2 DEF SkipEntry, LoopInv
  <2>3. FreeListIntact' /\ Linked' = Linked /\ held' = held
    BY <1>2 DEF SkipEntry, FreeListIntact, Linked
  <2>4. QED
    BY <1>2, <2>1, <2>2, <2>3, SkipVisits DEF NoPageTwice, NothingLostNothingStolen
<1>3. CASE LinkPage
  <2>1. /\ current \in Frames
        /\ current \notin Linked
        /\ Visited' = Visited \cup {current}
        /\ current' \in Nat
    BY <1>3, LinkVisits DEF NothingLostNothingStolen
  <2>2. LinkIn(current) /\ UNCHANGED <<memmap, pc, i, end, result, held>>
    BY <1>3 DEF LinkPage
  <2>3. /\ region' \in [Frames -> Region]
        /\ free_mem_head' \in Frames
        /\ chain' \in Seq(Frames)
        /\ Linked' = Linked \cup {current}
        /\ FreeListIntact'
    BY <2>1, <2>2, LinkingIn
  <2>4. TypeOK'
    BY <2>1, <2>2, <2>3 DEF TypeOK
  <2>5. LoopInv'
    BY <1>3, <2>2, LinkVisits DEF LinkPage, LoopInv
  <2>6. held = {}
    BY <1>3 DEF LinkPage, LoopInv
  <2>7. QED
    BY <2>1, <2>2, <2>3, <2>4, <2>5, <2>6 DEF NoPageTwice, NothingLostNothingStolen
<1>4. CASE LeaveEntry
  <2>1. TypeOK'
    BY <1>4 DEF LeaveEntry, TypeOK, LoopInv
  <2>2. LoopInv'
    BY <1>4 DEF LeaveEntry, LoopInv
  <2>3. FreeListIntact' /\ Linked' = Linked /\ held' = held
    BY <1>4 DEF LeaveEntry, FreeListIntact, Linked
  <2>4. QED
    BY <1>4, <2>1, <2>2, <2>3, LeaveVisits DEF NoPageTwice, NothingLostNothingStolen
<1>5. CASE InitDone
  <2>1. TypeOK'
    BY <1>5 DEF InitDone, TypeOK
  <2>2. LoopInv'
    BY <1>5 DEF InitDone, LoopInv, TypeOK
  <2>3. FreeListIntact' /\ Linked' = Linked /\ held' = held
    BY <1>5 DEF InitDone, FreeListIntact, Linked
  <2>4. Visited' = Visited
    BY <1>5 DEF InitDone, Visited
  <2>5. QED
    BY <2>1, <2>2, <2>3, <2>4 DEF NoPageTwice, NothingLostNothingStolen
<1>6. QED
  BY <1>1, <1>2, <1>3, <1>4, <1>5 DEF pmm_init

(* Once pmm_init has returned, what it visited is fixed and is everything. *)
LEMMA VisitedAll ==
  ASSUME TypeOK, LoopInv, pc = "ready"
  PROVE  /\ Visited = UsablePages
         /\ UNCHANGED <<memmap, pc, i>> => Visited' = Visited
<1>1. \A k \in 1 .. Len(memmap) : k < i
  BY DEF LoopInv
<1>2. QED
  BY <1>1 DEF Visited, UsablePages

LEMMA PallocKeepsIInv == IInv /\ palloc => IInv'
<1> SUFFICES ASSUME IInv, palloc PROVE IInv'
  OBVIOUS
<1> USE DEF IInv
<1>1. pc = "ready" /\ UNCHANGED <<memmap, region, pc, i, current, end>>
  BY DEF palloc, palloc_empty, palloc_page, loop
<1>2. Visited' = Visited /\ LoopInv'
  BY <1>1, VisitedAll DEF LoopInv
<1>3. CASE palloc_empty
  <2>1. TypeOK' /\ FreeListIntact' /\ Linked' = Linked /\ held' = held
    BY <1>1, <1>3 DEF palloc_empty, TypeOK, FreeListIntact, Linked
  <2>2. QED
    BY <1>2, <2>1 DEF NoPageTwice, NothingLostNothingStolen
<1>4. CASE palloc_page
  <2>1. /\ free_mem_head' \in Frames \cup {NULL}
        /\ chain' \in Seq(Frames)
        /\ result' = free_mem_head
        /\ Linked' = Linked \ {free_mem_head}
        /\ FreeListIntact'
        /\ free_mem_head \in Linked
    BY <1>4, TakingOff, HeadOfList DEF palloc_page
  <2>2. held' = held \cup {free_mem_head}
    BY <1>4, <2>1 DEF palloc_page
  <2>3. free_mem_head \in Frames
    BY <1>4 DEF palloc_page, TypeOK
  <2>4. TypeOK'
    BY <1>1, <2>1, <2>2, <2>3 DEF TypeOK
  <2>5. QED
    BY <1>2, <2>1, <2>2, <2>4 DEF NoPageTwice, NothingLostNothingStolen
<1>5. QED
  BY <1>3, <1>4 DEF palloc

LEMMA PfreeKeepsIInv ==
  ASSUME IInv, NEW p \in held, pfree(p)
  PROVE  IInv'
<1> USE DEF IInv
<1>1. /\ pc = "ready"
      /\ LinkIn(p)
      /\ held' = held \ {p}
      /\ UNCHANGED <<memmap, pc, i, current, end, result>>
  BY DEF pfree, loop
<1>2. Visited' = Visited /\ LoopInv'
  BY <1>1, VisitedAll DEF LoopInv
<1>3. p \in Frames /\ p \notin Linked
  BY DEF TypeOK, NoPageTwice
<1>4. /\ region' \in [Frames -> Region]
      /\ free_mem_head' \in Frames
      /\ chain' \in Seq(Frames)
      /\ Linked' = Linked \cup {p}
      /\ FreeListIntact'
  BY <1>1, <1>3, LinkingIn
<1>5. TypeOK'
  BY <1>1, <1>4 DEF TypeOK
<1>6. QED
  BY <1>1, <1>2, <1>4, <1>5 DEF NoPageTwice, NothingLostNothingStolen

(* An owner's write lands on a page that is not on the list.               *)
LEMMA UsePageKeepsIInv ==
  ASSUME IInv, NEW p \in held, UsePage(p)
  PROVE  IInv'
<1> USE DEF IInv
<1>1. /\ pc = "ready"
      /\ UNCHANGED <<memmap, free_mem_head, pc, i, current, end, result, held, chain>>
  BY DEF UsePage, loop
<1>2. PICK junk \in Junk : region' = [region EXCEPT ![p] = junk]
  BY DEF UsePage
<1>3. Visited' = Visited /\ LoopInv'
  BY <1>1, VisitedAll DEF LoopInv
<1>4. TypeOK'
  BY <1>1, <1>2, JunkIsARegion DEF TypeOK
<1>5. Linked' = Linked
  BY <1>1 DEF Linked
<1>6. \A k \in 1 .. Len(chain) : region'[chain[k]] = region[chain[k]]
  BY <1>2 DEF NoPageTwice, Linked, TypeOK
<1>7. FreeListIntact'
  BY <1>1, <1>6 DEF FreeListIntact
<1>8. QED
  BY <1>1, <1>3, <1>4, <1>5, <1>7 DEF NoPageTwice, NothingLostNothingStolen

LEMMA NextKeepsIInv == IInv /\ [Next]_vars => IInv'
<1> SUFFICES ASSUME IInv, [Next]_vars PROVE IInv'
  OBVIOUS
<1>1. CASE pmm_init
  BY <1>1, PmmInitKeepsIInv
<1>2. CASE palloc
  BY <1>2, PallocKeepsIInv
<1>3. CASE \E p \in held : pfree(p)
  BY <1>3, PfreeKeepsIInv
<1>4. CASE \E p \in held : UsePage(p)
  BY <1>4, UsePageKeepsIInv
<1>5. CASE UNCHANGED vars
  BY <1>5 DEF vars, IInv, TypeOK, LoopInv, FreeListIntact, NoPageTwice,
              NothingLostNothingStolen, Linked, Visited
<1>6. QED
  BY <1>1, <1>2, <1>3, <1>4, <1>5 DEF Next

LEMMA Invariance == Spec => []IInv
BY InitIInv, NextKeepsIInv, PTL DEF Spec

-----------------------------------------------------------------------------
(* Every variable of the allocator keeps its type: in particular palloc    *)
(* answers with a RAM page or with 0, whatever is in the free pages.       *)
THEOREM TypeCorrect == Spec => []TypeOK
<1>1. IInv => TypeOK
  BY DEF IInv
<1>2. QED
  BY <1>1, Invariance, PTL

(* The free list is never cut, looped or forked.                           *)
THEOREM FreeListCorrect == Spec => []FreeListIntact
<1>1. IInv => FreeListIntact
  BY DEF IInv
<1>2. QED
  BY <1>1, Invariance, PTL

(* No page is both free and held: palloc never gives one page away twice.  *)
THEOREM ExclusivePages == Spec => []NoPageTwice
<1>1. IInv => NoPageTwice
  BY DEF IInv
<1>2. QED
  BY <1>1, Invariance, PTL

(* Free and held pages are always exactly the whole usable pages that      *)
(* pmm_init has walked.                                                    *)
THEOREM PagesConserved == Spec => []NothingLostNothingStolen
<1>1. IInv => NothingLostNothingStolen
  BY DEF IInv
<1>2. QED
  BY <1>1, Invariance, PTL

(* No managed page shares a byte with an entry the map keeps apart from    *)
(* the usable ones.                                                        *)
THEOREM ReservedStaysReserved == Spec => []ReservedUntouched
<1>1. IInv => ReservedUntouched
  <2> SUFFICES ASSUME IInv,
                      NEW k \in 1 .. Len(memmap),
                      \A l \in 1 .. Len(memmap) :
                        memmap[l].type = "USABLE" => ~ Overlap(memmap[k], memmap[l]),
                      NEW p \in Linked \cup held
               PROVE  ~ Overlap(memmap[k], [base |-> p, length |-> PAGE_SIZE])
    BY DEF ReservedUntouched
  <2>1. p \in Visited /\ TypeOK
    BY DEF IInv, NothingLostNothingStolen
  <2>2. PICK l \in 1 .. Len(memmap) :
          memmap[l].type = "USABLE" /\ WholePageOf(memmap[l], p)
    BY <2>1 DEF Visited, IInv, LoopInv
  <2>3. ~ Overlap(memmap[k], memmap[l])
    BY <2>2
  <2>4. /\ memmap[k].base \in Nat /\ Limit(memmap[k]) \in Nat
        /\ memmap[l].base \in Nat /\ Limit(memmap[l]) \in Nat
        /\ p \in Nat
    BY <2>1, EntryType, FramesArePages DEF Visited
  <2>5. /\ memmap[l].base <= p
        /\ p + PAGE_SIZE <= Limit(memmap[l])
    BY <2>2 DEF WholePageOf
  <2>6. ~ (memmap[k].base < p + PAGE_SIZE /\ p < Limit(memmap[k]))
    BY <2>3, <2>4, <2>5 DEF Overlap, PAGE_SIZE
  <2>7. QED
    BY <2>6 DEF Overlap, Limit
<1>2. QED
  BY <1>1, Invariance, PTL

-----------------------------------------------------------------------------
(* Each step of the list-based allocator is a step of the pool of pages,   *)
(* or does not concern it.                                                 *)
LEMMA InitIsPoolInit == Init => Pool!Init
BY DEF Init, Pool!Init, Linked

LEMMA StepIsPoolStep == IInv /\ [Next]_vars => [Pool!Next]_Pool!vars
<1> SUFFICES ASSUME IInv, [Next]_vars PROVE [Pool!Next]_Pool!vars
  OBVIOUS
<1> USE DEF IInv
<1>1. memmap' = memmap
  BY DEF Next, vars, loop, pmm_init, EnterEntry, SkipEntry, LinkPage, LeaveEntry,
         InitDone, palloc, palloc_empty, palloc_page, pfree, UsePage
<1>2. UsablePages' = UsablePages
  BY <1>1 DEF UsablePages
<1>3. CASE EnterEntry \/ SkipEntry \/ LeaveEntry
  <2>1. Linked' = Linked /\ UNCHANGED <<held, result>> /\ pc # "ready" /\ pc' # "ready"
    BY <1>3 DEF EnterEntry, SkipEntry, LeaveEntry, Linked
  <2>2. QED
    BY <1>2, <2>1 DEF Pool!vars
<1>4. CASE LinkPage
  <2>1. /\ current \in Frames
        /\ current \notin Linked
        /\ WholePageOf(memmap[i], current)
        /\ pc = "pages" /\ pc' = "pages"
        /\ LinkIn(current)
        /\ UNCHANGED <<held, result>>
    BY <1>4, LinkVisits DEF LinkPage, NothingLostNothingStolen
  <2>2. Linked' = Linked \cup {current}
    BY <2>1, LinkingIn
  <2>3. current \in UsablePages
    BY <2>1 DEF UsablePages, LoopInv
  <2>4. Pool!Add
    BY <1>2, <2>1, <2>2, <2>3 DEF Pool!Add
  <2>5. QED
    BY <2>4 DEF Pool!Next
<1>5. CASE InitDone
  <2>1. /\ Linked' = Linked
        /\ UNCHANGED <<held, result>>
        /\ pc # "ready" /\ pc' = "ready"
        /\ i = Len(memmap) + 1
        /\ held = {}
    BY <1>5 DEF InitDone, Linked, TypeOK, LoopInv
  <2>2. \A k \in 1 .. Len(memmap) : k < i
    BY <2>1
  <2>3. Visited = UsablePages
    BY <1>5, <2>2 DEF Visited, UsablePages, InitDone
  <2>4. Linked = UsablePages
    BY <2>1, <2>3 DEF NothingLostNothingStolen
  <2>5. Pool!Open
    BY <1>2, <2>1, <2>4 DEF Pool!Open
  <2>6. QED
    BY <2>5 DEF Pool!Next
<1>6. CASE palloc_empty
  <2>1. chain = << >>
    BY <1>6, FramesArePages DEF palloc_empty, FreeListIntact, TypeOK
  <2>2. Linked = {} /\ Linked' = Linked
    BY <1>6, <2>1 DEF palloc_empty, Linked
  <2>3. Pool!Refuse
    BY <1>2, <1>6, <2>2 DEF palloc_empty, loop, Pool!Refuse
  <2>4. QED
    BY <2>3 DEF Pool!Next
<1>7. CASE palloc_page
  <2>1. /\ result' = free_mem_head
        /\ Linked' = Linked \ {free_mem_head}
        /\ free_mem_head \in Linked
        /\ held' = held \cup {free_mem_head}
        /\ pc = "ready" /\ pc' = "ready"
    BY <1>7, TakingOff, HeadOfList DEF palloc_page, loop
  <2>2. free_mem_head \in UsablePages
    BY <2>1, VisitedAll DEF NothingLostNothingStolen
  <2>3. free_mem_head # 0
    BY <2>2, UsablePage, FramesArePages DEF UsablePages
  <2>4. Pool!Allocate
    BY <1>2, <2>1, <2>3 DEF Pool!Allocate
  <2>5. QED
    BY <2>4 DEF Pool!Next
<1>8. ASSUME NEW p \in held, pfree(p)
      PROVE  [Pool!Next]_Pool!vars
  <2>1. p \in Frames /\ p \notin Linked
    BY DEF TypeOK, NoPageTwice
  <2>2. Linked' = Linked \cup {p}
    BY <1>8, <2>1, LinkingIn DEF pfree
  <2>3. Pool!Release
    BY <1>2, <1>8, <2>2 DEF pfree, loop, Pool!Release
  <2>4. QED
    BY <2>3 DEF Pool!Next
<1>9. ASSUME NEW p \in held, UsePage(p)
      PROVE  [Pool!Next]_Pool!vars
  <2>1. Linked' = Linked /\ UNCHANGED <<held, result, pc>>
    BY <1>9 DEF UsePage, loop, Linked
  <2>2. QED
    BY <1>2, <2>1 DEF Pool!vars
<1>10. CASE UNCHANGED vars
  BY <1>2, <1>10 DEF vars, Pool!vars, Linked
<1>11. QED
  BY <1>3, <1>4, <1>5, <1>6, <1>7, <1>8, <1>9, <1>10 DEF Next, pmm_init, palloc

(* The free list threaded through the pages implements the abstract pool:  *)
(* palloc answers 0 only when every managed page is held, and otherwise    *)
(* with a page that was free.                                              *)
THEOREM ListImplementsPool == Spec => ImplementsPool
<1>1. Spec => Pool!Init /\ [][Pool!Next]_Pool!vars
  BY InitIsPoolInit, StepIsPoolStep, Invariance, PTL DEF Spec
<1>2. QED
  BY <1>1 DEF ImplementsPool, Pool!Spec
=============================================================================
