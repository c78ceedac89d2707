-------------------------- MODULE AddressSpaceProof --------------------------
(***************************************************************************)
(* The page tables for every machine and every sequence of calls, as long  *)
(* as memory lasts.                                                        *)
(***************************************************************************)
EXTENDS AddressSpace, FiniteSetTheorems, SequenceTheorems, WellFoundedInduction, TLAPS

Given == 1 .. Len(FreeFrames)
Hi    == TableIndex(4, hhdm)

-----------------------------------------------------------------------------
(* Arithmetic of spans and entries.                                        *)
LEMMA Divided ==
  ASSUME NEW a \in Nat, NEW b \in Nat, b > 0, NEW q \in Nat, NEW r \in Nat, r < b, a = b * q + r
  PROVE  a \div b = q /\ a % b = r
<1> DEFINE d == a \div b
           m == a % b
<1>1. d \in Int /\ m \in Nat /\ m < b /\ a = b * d + m
  OBVIOUS
<1> HIDE DEF d, m
<1>2. CASE d < q
  <2>1. q - d \in Nat /\ q - d >= 1
    BY <1>1, <1>2
  <2>2. b * (q - d) = m - r
    BY <1>1
  <2>3. b * (q - d) >= b
    BY <2>1
  <2>4. QED
    BY <1>1, <2>2, <2>3
<1>3. CASE d > q
  <2>1. d - q \in Nat /\ d - q >= 1
    BY <1>1, <1>3
  <2>2. b * (d - q) = r - m
    BY <1>1
  <2>3. b * (d - q) >= b
    BY <2>1
  <2>4. QED
    BY <1>1, <2>2, <2>3
<1>4. CASE d = q
  BY <1>1, <1>4 DEF d, m
<1>5. QED
  BY <1>1, <1>2, <1>3, <1>4

LEMMA Spans ==
  /\ \A l \in 1 .. 4 : Span(l) \in Nat /\ Span(l) > 0
  /\ Span(1) = PAGE_SIZE /\ Span(2) = ENTRIES * Span(1)
  /\ Span(3) = ENTRIES * Span(2) /\ Span(4) = ENTRIES * Span(3)
<1> DEFINE E == ENTRIES
<1>1. E \in Nat /\ E > 1
  BY PagingConstants
<1>2. /\ Span(1) = PAGE_SIZE * 1 /\ Span(2) = PAGE_SIZE * E
      /\ Span(3) = PAGE_SIZE * (E * E) /\ Span(4) = PAGE_SIZE * (E * E * E)
  BY DEF Span
<1>3. E * E \in Nat /\ E * E > 0 /\ E * E * E \in Nat /\ E * E * E > 0
  BY <1>1
<1> HIDE DEF E
<1>4. \A l \in 1 .. 4 : Span(l) \in Nat /\ Span(l) > 0
  <2>1. Span(1) > 0 /\ Span(2) > 0 /\ Span(3) > 0 /\ Span(4) > 0
    BY <1>1, <1>2, <1>3 DEF PAGE_SIZE
  <2>2. Span(1) \in Nat /\ Span(2) \in Nat /\ Span(3) \in Nat /\ Span(4) \in Nat
    BY <1>1, <1>2, <1>3 DEF PAGE_SIZE
  <2>3. \A l \in 1 .. 4 : l = 1 \/ l = 2 \/ l = 3 \/ l = 4
    OBVIOUS
  <2>4. QED
    BY <2>1, <2>2, <2>3
<1>5. QED
  BY <1>1, <1>2, <1>4 DEF E, PAGE_SIZE

LEMMA Indices ==
  ASSUME NEW l \in 1 .. 4, NEW v \in Nat
  PROVE  v \div Span(l) \in Nat /\ TableIndex(l, v) \in Index
<1>1. Span(l) \in Nat /\ Span(l) > 0 /\ ENTRIES \in Nat /\ ENTRIES > 1
  BY Spans, PagingConstants
<1> DEFINE d == v \div Span(l)
<1>2. d \in Nat
  BY <1>1
<1> HIDE DEF d
<1>3. d % ENTRIES \in 0 .. ENTRIES - 1
  BY <1>1, <1>2
<1>4. QED
  BY <1>2, <1>3 DEF d, TableIndex, Index

(* An entry for the page at p: present and not large, whatever the page.   *)
LEMMA Words ==
  ASSUME NEW p \in Nat, p % PAGE_SIZE = 0
  PROVE  /\ Present(7 + p) /\ ~ Large(7 + p) /\ ALIGN_DOWN(7 + p) = p
         /\ ALIGN_DOWN(131 + p) = p /\ ALIGN_DOWN(p) = p /\ ~ Large(p)
<1>1. PICK q \in Nat : p = 4096 * q
  BY DEF PAGE_SIZE
<1>2. (7 + p) \div 1 = 7 + p /\ (7 + p) % 2 = 1
  BY <1>1
<1>3. (7 + p) \div 128 = 32 * q /\ p \div 128 = 32 * q /\ (32 * q) % 2 = 0
  BY <1>1
<1>4. (7 + p) \div 4096 = q /\ (131 + p) \div 4096 = q /\ p \div 4096 = q
  BY <1>1
<1>5. QED
  BY <1>1, <1>2, <1>3, <1>4 DEF Present, Large, HasFlag, PAGE_PRESENT, PAGE_PAGE_SIZE, ALIGN_DOWN, PAGE_SIZE

LEMMA FixedWords == Present(7) /\ Present(131) /\ Large(131) /\ ~ Present(0)
  BY DEF Present, Large, HasFlag, PAGE_PRESENT, PAGE_PAGE_SIZE

LEMMA FramesAre ==
  ASSUME NEW f \in Frames
  PROVE  f \in Nat /\ f % PAGE_SIZE = 0 /\ f < Span(3)
  BY PagingConstants, AddressSpaceConstants

(* Page f in the direct map: the first entry below the entry of hhdm.      *)
LEMMA DirectMapped ==
  ASSUME NEW f \in Frames
  PROVE  /\ f + hhdm \in Nat /\ TableIndex(4, f + hhdm) = Hi /\ TableIndex(3, f + hhdm) = 0
         /\ (f + hhdm) % Span(3) = f
<1> DEFINE E == ENTRIES
           S == Span(3)
           q == hhdm \div Span(4)
<1>1. /\ E \in Nat /\ E > 1 /\ S \in Nat /\ S > 0 /\ Span(4) = E * S /\ Span(4) \in Nat /\ Span(4) > 0
      /\ hhdm \in Nat /\ hhdm % Span(4) = 0 /\ f \in Nat /\ f < S
  BY Spans, PagingConstants, AddressSpaceConstants, FramesAre
<1>2. q \in Nat /\ hhdm = Span(4) * q
  BY <1>1
<1> HIDE DEF E, S, q
<1>3. (f + hhdm) \div Span(4) = q
  <2> DEFINE a == f + hhdm
             b == Span(4)
  <2>1. f < Span(4)
    BY <1>1
  <2>2. a = b * q + f /\ a \in Nat
    BY <1>1, <1>2
  <2> HIDE DEF a, b
  <2>3. b \in Nat /\ b > 0 /\ f < b
    BY <1>1, <2>1 DEF b
  <2>4. a \div b = q
    BY <1>1, <1>2, <2>2, <2>3, Divided
  <2>5. QED
    BY <2>4 DEF a, b
<1>4. (f + hhdm) \div S = E * q /\ (f + hhdm) % S = f
  <2> DEFINE w == E * q
  <2>1. f + hhdm = S * w + f /\ f + hhdm \in Nat /\ w \in Nat
    BY <1>1, <1>2
  <2> HIDE DEF w
  <2>2. (f + hhdm) \div S = w /\ (f + hhdm) % S = f
    BY <1>1, <2>1, Divided
  <2>3. QED
    BY <2>2 DEF w
<1>5. (E * q) % E = 0
  <2> DEFINE w == E * q
  <2>1. w \in Nat /\ w = E * q + 0
    BY <1>1, <1>2
  <2> HIDE DEF w
  <2>2. w % E = 0
    BY <1>1, <1>2, <2>1, Divided
  <2>3. QED
    BY <2>2 DEF w
<1>6. QED
  BY <1>1, <1>3, <1>4, <1>5 DEF Hi, TableIndex, E, S, q

-----------------------------------------------------------------------------
(* The free list: what is left of the boot loader's sequence, and that     *)
(* FreePages finds just that.                                              *)
FreeList(k) ==
  /\ free_mem_head = PointerTo(k + 1)
  /\ \A j \in k + 1 .. Len(FreeFrames) :
       mem[FreeFrames[j]][0] = FreeFrames[j] /\ mem[FreeFrames[j]][1] = PointerTo(j + 1)

LEMMA Sequence ==
  /\ Len(FreeFrames) \in Nat
  /\ \A j \in Given : FreeFrames[j] \in Frames /\ FreeFrames[j] \notin {0, Root, DirectMap}
<1>1. FreeFrames \in Seq(Frames \ {0, Root, DirectMap})
  BY AddressSpaceConstants
<1>2. \A j \in Given : FreeFrames[j] \in Frames \ {0, Root, DirectMap}
  BY <1>1, ElementOfSeq DEF Given
<1>3. QED
  BY <1>1, <1>2, LenProperties

LEMMA Least ==
  ASSUME NEW T \in SUBSET Nat, T # {}
  PROVE  \E n \in T : \A m \in T : ~ (m < n)
<1> DEFINE R == OpToRel(<, Nat)
<1>1. IsWellFoundedOn(R, Nat)
  BY NatLessThanWellFounded
<1>2. \A a, b \in Nat : a < b => <<a, b>> \in R
  BY DEF OpToRel
<1> HIDE DEF R
<1>3. PICK n \in T : \A m \in T : ~ (<<m, n>> \in R)
  BY <1>1, WFMin
<1>4. QED
  BY <1>2, <1>3

LEMMA EnoughSteps == Cardinality(Frames) \in Nat /\ Len(FreeFrames) <= Cardinality(Frames)
<1>1. IsFiniteSet(Frames)
  BY PagingConstants
<1>2. Cardinality(Frames) \in Nat
  BY <1>1, FS_CardinalityType
<1> DEFINE f == [j \in Given |-> FreeFrames[j]]
<1>3. f \in [Given -> Frames]
  BY Sequence
<1>4. \A a, b \in Given : f[a] = f[b] => a = b
  BY AddressSpaceConstants DEF Given
<1>5. f \in Injection(Given, Frames)
  BY <1>3, <1>4 DEF Injection, IsInjective
<1>6. Cardinality(Given) <= Cardinality(Frames)
  BY <1>1, <1>5, FS_Injection
<1>7. Cardinality(Given) = Len(FreeFrames)
  <2>1. Len(FreeFrames) \in Nat /\ 1 \in Int /\ Len(FreeFrames) \in Int
    BY Sequence
  <2>2. Cardinality(1 .. Len(FreeFrames)) = IF 1 > Len(FreeFrames) THEN 0 ELSE Len(FreeFrames) - 1 + 1
    BY <2>1, FS_Interval
  <2>3. QED
    BY <2>1, <2>2 DEF Given
<1>8. QED
  BY <1>2, <1>6, <1>7

(* The pointers met in n steps from element k + 1 of the sequence on.      *)
Met(k, n) == {PointerTo(k + 1 + m) : m \in 0 .. n}

LEMMA OneMore ==
  ASSUME NEW k \in 0 .. Len(FreeFrames), FreeList(k), NEW n \in Nat
  PROVE  Met(k, n + 1) =
           Met(k, n) \cup {mem[p - hhdm][1] : p \in {q \in Met(k, n) : q - hhdm \in Frames}}
<1> DEFINE L == Len(FreeFrames)
           next == {mem[p - hhdm][1] : p \in {q \in Met(k, n) : q - hhdm \in Frames}}
<1>1. L \in Nat /\ hhdm \in Nat /\ hhdm > 0
  BY Sequence, PagingConstants
<1>2. ASSUME NEW j \in Nat, j > L PROVE PointerTo(j) = 0 /\ PointerTo(j) - hhdm \notin Frames
  <2>1. PointerTo(j) = 0
    BY <1>2 DEF PointerTo
  <2>2. 0 - hhdm \notin Nat
    BY <1>1
  <2>3. QED
    BY <2>1, <2>2, PagingConstants
<1>3. ASSUME NEW j \in k + 1 .. L
      PROVE  PointerTo(j) - hhdm \in Frames /\ mem[PointerTo(j) - hhdm][1] = PointerTo(j + 1)
  <2>1. j \in Given
    BY <1>1 DEF Given
  <2>2. FreeFrames[j] \in Frames /\ FreeFrames[j] \in Nat
    BY <2>1, Sequence, FramesAre
  <2>3. PointerTo(j) = FreeFrames[j] + hhdm
    BY <1>1, <1>3 DEF PointerTo
  <2>4. PointerTo(j) - hhdm = FreeFrames[j]
    BY <1>1, <2>2, <2>3
  <2>5. QED
    BY <1>3, <2>2, <2>4 DEF FreeList
<1> HIDE DEF L
<1>4. ASSUME NEW x \in Met(k, n + 1) PROVE x \in Met(k, n) \cup next
  <2>1. PICK m \in 0 .. n + 1 : x = PointerTo(k + 1 + m)
    BY DEF Met
  <2>2. CASE m \in 0 .. n
    BY <2>1, <2>2 DEF Met
  <2>3. CASE m = n + 1 /\ k + 1 + n \in k + 1 .. L
    <3> DEFINE p == PointerTo(k + 1 + n)
    <3>1. p \in Met(k, n)
      BY DEF Met
    <3>2. p - hhdm \in Frames /\ mem[p - hhdm][1] = PointerTo(k + 1 + n + 1)
      BY <1>3, <2>3
    <3>3. k + 1 + n + 1 = k + 1 + m
      BY <1>1, <2>3
    <3> HIDE DEF p
    <3>4. mem[p - hhdm][1] = x
      BY <2>1, <3>2, <3>3
    <3>5. QED
      BY <3>1, <3>2, <3>4
  <2>4. CASE m = n + 1 /\ k + 1 + n \notin k + 1 .. L
    <3>1. k + 1 + n > L /\ k + 1 + m > L /\ k + 1 + n \in Nat /\ k + 1 + m \in Nat
      BY <1>1, <2>4
    <3>2. x = 0 /\ PointerTo(k + 1 + n) = 0
      BY <1>2, <2>1, <3>1
    <3>3. PointerTo(k + 1 + n) \in Met(k, n)
      BY DEF Met
    <3>4. QED
      BY <3>2, <3>3
  <2>5. QED
    BY <2>1, <2>2, <2>3, <2>4
<1>5. ASSUME NEW x \in Met(k, n) PROVE x \in Met(k, n + 1)
  <2>1. PICK m \in 0 .. n : x = PointerTo(k + 1 + m)
    BY DEF Met
  <2>2. m \in 0 .. n + 1
    OBVIOUS
  <2>3. QED
    BY <2>1, <2>2 DEF Met
<1>6. ASSUME NEW x \in next PROVE x \in Met(k, n + 1)
  <2>1. PICK p \in Met(k, n) : p - hhdm \in Frames /\ x = mem[p - hhdm][1]
    OBVIOUS
  <2>2. PICK m \in 0 .. n : p = PointerTo(k + 1 + m)
    BY DEF Met
  <2>3. k + 1 + m \in Nat
    BY <1>1
  <2>4. ~ (k + 1 + m > L)
    BY <1>2, <2>1, <2>2, <2>3
  <2>5. k + 1 + m \in k + 1 .. L
    BY <1>1, <2>3, <2>4
  <2>6. x = PointerTo(k + 1 + m + 1)
    BY <1>3, <2>1, <2>2, <2>5
  <2>7. k + 1 + m + 1 = k + 1 + (m + 1) /\ m + 1 \in 0 .. n + 1
    BY <1>1
  <2>8. QED
    BY <2>6, <2>7 DEF Met
<1>7. QED
  BY <1>4, <1>5, <1>6

LEMMA FollowedIs ==
  ASSUME NEW k \in 0 .. Len(FreeFrames), FreeList(k)
  PROVE  \A n \in 0 .. Cardinality(Frames) : Followed[n] = Met(k, n)
<1> DEFINE N == Cardinality(Frames)
           Unfold(g) == [n \in 0 .. N |->
             IF n = 0 THEN {free_mem_head}
             ELSE LET before == g[n - 1]
                  IN  before \cup {mem[p - hhdm][1] : p \in {q \in before : q - hhdm \in Frames}}]
           G == [n \in 0 .. N |-> Met(k, n)]
<1>1. N \in Nat
  BY EnoughSteps
<1>2. Met(k, 0) = {free_mem_head}
  <2>1. k + 1 + 0 = k + 1 /\ 0 .. 0 = {0}
    BY Sequence
  <2>2. Met(k, 0) = {PointerTo(k + 1)}
    BY <2>1 DEF Met
  <2>3. QED
    BY <2>2 DEF FreeList
<1>3. ASSUME NEW n \in 0 .. N, n # 0
      PROVE  n - 1 \in 0 .. N /\ n - 1 \in Nat /\ n - 1 + 1 = n
  BY <1>1, <1>3
<1>4. G = Unfold(G)
  <2>1. ASSUME NEW n \in 0 .. N PROVE G[n] = Unfold(G)[n]
    <3>1. CASE n = 0
      BY <1>2, <3>1
    <3>2. CASE n # 0
      <4>1. G[n - 1] = Met(k, n - 1)
        BY <1>3, <3>2
      <4>2. Met(k, n) = Met(k, n - 1) \cup {mem[p - hhdm][1] : p \in {q \in Met(k, n - 1) : q - hhdm \in Frames}}
        <5>1. Met(k, n - 1 + 1) = Met(k, n - 1) \cup {mem[p - hhdm][1] : p \in {q \in Met(k, n - 1) : q - hhdm \in Frames}}
          BY <1>3, <3>2, OneMore
        <5>2. QED
          BY <1>3, <3>2, <5>1
      <4>3. QED
        BY <3>2, <4>1, <4>2
    <3>3. QED
      BY <3>1, <3>2
  <2>2. QED
    BY <2>1
<1>5. Followed = Unfold(Followed)
  BY <1>4 DEF Followed
<1>6. \A n \in 0 .. N : Followed[n] = Unfold(Followed)[n]
  BY <1>5
<1> HIDE DEF G
<1> DEFINE T == {n \in 0 .. N : Followed[n] # Met(k, n)}
<1>7. CASE T # {}
  <2>1. T \in SUBSET Nat
    BY <1>1
  <2>2. PICK n \in T : \A m \in T : ~ (m < n)
    BY <1>7, <2>1, Least
  <2>3. n # 0
    BY <1>1, <1>2, <1>6, <2>2
  <2>4. n - 1 \in 0 .. N /\ n - 1 < n /\ n - 1 \notin T
    BY <1>1, <2>2, <2>3
  <2>5. Followed[n - 1] = Met(k, n - 1)
    BY <2>4
  <2>6. Followed[n] = Met(k, n - 1) \cup {mem[p - hhdm][1] : p \in {q \in Met(k, n - 1) : q - hhdm \in Frames}}
    BY <1>6, <2>2, <2>3, <2>5
  <2>7. Met(k, n - 1 + 1) = Met(k, n - 1) \cup {mem[p - hhdm][1] : p \in {q \in Met(k, n - 1) : q - hhdm \in Frames}}
    BY <1>3, <2>2, <2>3, OneMore
  <2>8. n - 1 + 1 = n
    BY <1>3, <2>2, <2>3
  <2>9. QED
    BY <2>2, <2>6, <2>7, <2>8
<1>8. QED
  BY <1>7

LEMMA FreePagesAre ==
  ASSUME NEW k \in 0 .. Len(FreeFrames), FreeList(k)
  PROVE  FreePages = {FreeFrames[j] : j \in k + 1 .. Len(FreeFrames)}
<1> DEFINE N == Cardinality(Frames)
           L == Len(FreeFrames)
<1>1. N \in Nat /\ L \in Nat /\ L <= N /\ hhdm \in Nat /\ hhdm > 0
  BY EnoughSteps, Sequence, PagingConstants
<1>2. FreePages = {p - hhdm : p \in Met(k, N) \ {0}}
  BY <1>1, FollowedIs DEF FreePages
<1>3. ASSUME NEW j \in k + 1 .. L
      PROVE  PointerTo(j) = FreeFrames[j] + hhdm /\ PointerTo(j) # 0 /\ PointerTo(j) - hhdm = FreeFrames[j]
  <2>1. FreeFrames[j] \in Nat
    BY <1>1, Sequence, FramesAre DEF Given
  <2>2. PointerTo(j) = FreeFrames[j] + hhdm
    BY <1>1, <1>3 DEF PointerTo
  <2>3. QED
    BY <1>1, <2>1, <2>2
<1> HIDE DEF N, L
<1>4. ASSUME NEW j \in k + 1 .. L PROVE FreeFrames[j] \in FreePages
  <2>1. j - (k + 1) \in 0 .. N /\ k + 1 + (j - (k + 1)) = j
    BY <1>1
  <2>2. PointerTo(j) \in Met(k, N)
    BY <2>1 DEF Met
  <2>3. QED
    BY <1>2, <1>3, <2>2
<1>5. ASSUME NEW f \in FreePages PROVE \E j \in k + 1 .. L : f = FreeFrames[j]
  <2>1. PICK p \in Met(k, N) \ {0} : f = p - hhdm
    BY <1>2
  <2>2. PICK m \in 0 .. N : p = PointerTo(k + 1 + m)
    BY DEF Met
  <2>3. ~ (k + 1 + m > L)
    BY <2>1, <2>2 DEF PointerTo, L
  <2>4. k + 1 + m \in k + 1 .. L
    BY <1>1, <2>3
  <2>5. QED
    BY <1>3, <2>1, <2>2, <2>4
<1>6. QED
  BY <1>4, <1>5 DEF L

-----------------------------------------------------------------------------
(* An entry that leads to a table of the tree, and the table.              *)
Leads(t, n) == Present(mem[t][n]) /\ ~ Large(mem[t][n]) /\ ~ BeingFilled(t, n)
Child(t, n) == ALIGN_DOWN(mem[t][n])

Upper3      == Tables4 \cup Tables3 \cup Tables2
Lower3      == Tables3 \cup Tables2 \cup Tables1
TablesAt(l) == IF l = 4 THEN Tables4 ELSE IF l = 3 THEN Tables3 ELSE IF l = 2 THEN Tables2 ELSE Tables1

(* The inductive invariant, while memory lasts.  The first k pages of the  *)
(* sequence have been given out; all of them are tables, but for the last  *)
(* one while it waits to be cleared.                                       *)
Typed ==
  /\ mem \in [Frames -> [Index -> Nat]] /\ cr3 = Root /\ pml4 = Root
  /\ pc \in {"idle", "walk", "fill", "clear"} /\ level \in 1 .. 4
  /\ op.physical_addr \in Nat /\ op.flags \in Nat /\ op.virtual_addr \in 0 .. ENTRIES * Span(4) - 1
  /\ pc # "idle" => TableIndex(4, op.virtual_addr) # Hi

BootTables ==
  /\ mem[Root][Hi] = 7 + DirectMap
  /\ \A n \in Index : mem[DirectMap][n] = IF n = 0 THEN 131 ELSE 0

Done(k) == IF pc = "clear" THEN k - 1 ELSE k

Entries(k) ==
  \A t \in Upper3, n \in Index : t # DirectMap /\ ~ (t = Root /\ n = Hi) =>
    \/ BeingFilled(t, n)
    \/ ~ Present(mem[t][n])
    \/ \E j \in 1 .. Done(k) : mem[t][n] = 7 + FreeFrames[j]

OneParent ==
  \A t, u \in Upper3, n, m \in Index :
    Leads(t, n) /\ Leads(u, m) /\ Child(t, n) = Child(u, m) => t = u /\ n = m

Accounted(k) == \A j \in 1 .. Done(k) : FreeFrames[j] \in Lower3

Place ==
  /\ pc # "idle" => table \in TablesAt(level) /\ table # DirectMap
  /\ pc \in {"fill", "clear"} => level > 1
  /\ pc = "fill" => mem[table][index] = 7

Pending(k) == pc = "clear" => k >= 1 /\ mem[table][index] = 7 + FreeFrames[k]

GivenOut(k) == FreeList(k) /\ Entries(k) /\ Accounted(k) /\ Pending(k)

Lasting == Typed /\ BootTables /\ OneParent /\ Place /\ \E k \in 0 .. Len(FreeFrames) : GivenOut(k)

IInv == ~ oom => Lasting

Tree(k) == Typed /\ BootTables /\ OneParent /\ Place /\ GivenOut(k)

LEMMA TablesAre ==
  /\ cr3 = Root => Tables4 = {Root}
  /\ \A x : x \in Tables3 <=> x \in Frames /\ \E t \in Tables4, n \in Index : Leads(t, n) /\ x = Child(t, n)
  /\ \A x : x \in Tables2 <=> x \in Frames /\ \E t \in Tables3, n \in Index : Leads(t, n) /\ x = Child(t, n)
  /\ \A x : x \in Tables1 <=> x \in Frames /\ \E t \in Tables2, n \in Index : Leads(t, n) /\ x = Child(t, n)
<1>1. ALIGN_DOWN(Root) = Root /\ Root \in Frames
  <2>1. Root \in Frames /\ Root \in Nat /\ Root % PAGE_SIZE = 0
    BY AddressSpaceConstants, FramesAre
  <2>2. QED
    BY <2>1, Words
<1>2. ASSUME NEW tables, NEW x
      PROVE  x \in PointedTo(tables) <=>
               x \in Frames /\ \E t \in tables, n \in Index : Leads(t, n) /\ x = Child(t, n)
  <2>1. ASSUME NEW tn \in UpperEntries(tables)
        PROVE  tn[1] \in tables /\ tn[2] \in Index /\ Leads(tn[1], tn[2]) /\ ALIGN_DOWN(mem[tn[1]][tn[2]]) = Child(tn[1], tn[2])
    BY DEF UpperEntries, Leads, Child
  <2>2. ASSUME NEW t \in tables, NEW n \in Index, Leads(t, n)
        PROVE  /\ <<t, n>> \in UpperEntries(tables)
               /\ Child(t, n) = ALIGN_DOWN(mem[<<t, n>>[1]][<<t, n>>[2]])
    BY <2>2 DEF UpperEntries, Leads, Child
  <2>3. ASSUME x \in PointedTo(tables)
        PROVE  x \in Frames /\ \E t \in tables, n \in Index : Leads(t, n) /\ x = Child(t, n)
    <3>1. PICK tn \in UpperEntries(tables) : x = ALIGN_DOWN(mem[tn[1]][tn[2]])
      BY <2>3 DEF PointedTo
    <3>2. x \in Frames
      BY <2>3 DEF PointedTo
    <3>3. QED
      BY <2>1, <3>1, <3>2
  <2>4. ASSUME x \in Frames, NEW t \in tables, NEW n \in Index, Leads(t, n), x = Child(t, n)
        PROVE  x \in PointedTo(tables)
    BY <2>2, <2>4 DEF PointedTo
  <2>5. QED
    BY <2>3, <2>4
<1>3. cr3 = Root => Tables4 = {Root}
  BY <1>1 DEF Tables4
<1>4. QED
  BY <1>2, <1>3 DEF Tables3, Tables2, Tables1

(* The direct map keeps every page of memory within reach.                 *)
LEMMA AllReachable ==
  ASSUME cr3 = Root, BootTables, NEW f \in Frames
  PROVE  Reachable(f)
<1> DEFINE v == f + hhdm
<1>1. /\ v \in Nat /\ TableIndex(4, v) = Hi /\ TableIndex(3, v) = 0 /\ v % Span(3) = f
      /\ 0 \in Index /\ Hi \in Index
  BY DirectMapped, PagingConstants, Indices DEF Hi, Index
<1>2. /\ DirectMap \in Frames /\ Root \in Frames
      /\ ALIGN_DOWN(Root) = Root /\ ALIGN_DOWN(7 + DirectMap) = DirectMap /\ Present(7 + DirectMap)
      /\ ALIGN_DOWN(131 + f) = f /\ ALIGN_DOWN(f) = f /\ f \in Nat
  <2>1. DirectMap \in Frames /\ Root \in Frames
    BY AddressSpaceConstants
  <2>2. QED
    BY <2>1, FramesAre, Words
<1>3. EntryAt(mem, Root, 4, v) = 7 + DirectMap /\ EntryAt(mem, DirectMap, 3, v) = 131
  BY <1>1, <1>2 DEF EntryAt, BootTables
<1> HIDE DEF v
<1>4. Translate(v) = 131 + ALIGN_DOWN(v % Span(3))
  BY <1>2, <1>3, FixedWords DEF Translate, TranslateIn
<1>5. Translate(v) = 131 + f
  BY <1>1, <1>2, <1>4
<1>6. QED
  BY <1>2, <1>5 DEF Reachable, v

(* Every table has its place: the root at the top, below it the boot       *)
(* loader's direct map and pages palloc has given out, each at one level.  *)
LEMMA Families ==
  ASSUME NEW k \in 0 .. Len(FreeFrames), Tree(k)
  PROVE  /\ Upper3 \subseteq Frames /\ Tables \subseteq Frames /\ Tables4 = {Root}
         /\ \A t \in Upper3, n \in Index : Leads(t, n) =>
              /\ t # DirectMap
              /\ \/ t = Root /\ n = Hi /\ Child(t, n) = DirectMap
                 \/ ~ (t = Root /\ n = Hi) /\ \E j \in 1 .. Done(k) : Child(t, n) = FreeFrames[j]
         /\ \A x \in Lower3 : x = DirectMap \/ \E j \in 1 .. Done(k) : x = FreeFrames[j]
         /\ Root \notin Lower3 /\ 0 \notin Tables
<1>1. Done(k) <= k /\ Done(k) \in Int /\ k \in Nat /\ Len(FreeFrames) \in Nat
  BY Sequence DEF Done
<1>2. \A j \in 1 .. Done(k) : j \in Given
  BY <1>1 DEF Given
<1>3. Tables4 = {Root} /\ Root \in Upper3 /\ Root \in Frames /\ DirectMap \in Frames /\ Root # DirectMap
  BY TablesAre, AddressSpaceConstants DEF Tree, Typed, Upper3
<1>4. Upper3 \subseteq Frames /\ Tables \subseteq Frames
  BY <1>3, TablesAre DEF Upper3, Tables
<1>5. ASSUME NEW t \in Upper3, NEW n \in Index, Leads(t, n)
      PROVE  /\ t # DirectMap
             /\ \/ t = Root /\ n = Hi /\ Child(t, n) = DirectMap
                \/ ~ (t = Root /\ n = Hi) /\ \E j \in 1 .. Done(k) : Child(t, n) = FreeFrames[j]
  <2>1. t # DirectMap
    <3>1. \A m \in Index : mem[DirectMap][m] = 131 \/ mem[DirectMap][m] = 0
      BY DEF Tree, BootTables
    <3>2. QED
      BY <1>5, <3>1, FixedWords DEF Leads
  <2>2. CASE t = Root /\ n = Hi
    <3>1. Child(t, n) = DirectMap
      BY <1>3, <2>2, Words, FramesAre DEF Tree, BootTables, Child
    <3>2. QED
      BY <2>1, <2>2, <3>1
  <2>3. CASE ~ (t = Root /\ n = Hi)
    <3>1. PICK j \in 1 .. Done(k) : mem[t][n] = 7 + FreeFrames[j]
      BY <1>5, <2>1, <2>3 DEF Tree, GivenOut, Entries, Leads
    <3>2. FreeFrames[j] \in Nat /\ FreeFrames[j] % PAGE_SIZE = 0
      BY <1>2, Sequence, FramesAre
    <3>3. Child(t, n) = FreeFrames[j]
      BY <3>1, <3>2, Words DEF Child
    <3>4. QED
      BY <2>1, <2>3, <3>3
  <2>4. QED
    BY <2>2, <2>3
<1>6. ASSUME NEW x \in Lower3
      PROVE  x = DirectMap \/ \E j \in 1 .. Done(k) : x = FreeFrames[j]
  <2>1. PICK t \in Upper3, n \in Index : Leads(t, n) /\ x = Child(t, n)
    BY TablesAre DEF Lower3, Upper3
  <2>2. QED
    BY <1>5, <2>1
<1>7. 0 # Root /\ 0 # DirectMap
  BY AddressSpaceConstants
<1>8. Root \notin Lower3 /\ 0 \notin Tables
  BY <1>2, <1>3, <1>6, <1>7, Sequence DEF Tables, Lower3
<1>9. QED
  BY <1>3, <1>4, <1>5, <1>6, <1>8

LEMMA NotGiven ==
  ASSUME NEW k \in 0 .. Len(FreeFrames), Tree(k), NEW j \in Given, j > Done(k)
  PROVE  FreeFrames[j] \in Frames /\ FreeFrames[j] \notin Tables \cup {0, Root, DirectMap}
<1>1. FreeFrames[j] \in Frames /\ FreeFrames[j] \notin {0, Root, DirectMap}
  BY Sequence
<1>2. ASSUME NEW i \in 1 .. Done(k) PROVE FreeFrames[i] # FreeFrames[j]
  <2>1. Done(k) <= k /\ Done(k) \in Int /\ Len(FreeFrames) \in Nat
    BY Sequence DEF Done
  <2>2. i \in Given /\ i # j
    BY <2>1 DEF Given
  <2>3. QED
    BY <2>2, AddressSpaceConstants DEF Given
<1>3. Tables = {Root} \cup Lower3
  BY Families DEF Tables, Lower3
<1>4. FreeFrames[j] \notin Lower3
  BY <1>1, <1>2, Families
<1>5. QED
  BY <1>1, <1>3, <1>4

(* The levels share no table.                                              *)
LEMMA Levels ==
  ASSUME NEW k \in 0 .. Len(FreeFrames), Tree(k)
  PROVE  /\ \A x \in Tables2 : x \notin Tables3
         /\ \A x \in Tables1 : x \notin Upper3
<1>1. Tables4 = {Root} /\ Root \notin Lower3
  BY Families
<1>2. ASSUME NEW x \in Tables2 PROVE x \notin Tables3
  <2>1. PICK t \in Tables3, n \in Index : Leads(t, n) /\ x = Child(t, n)
    BY TablesAre
  <2>2. SUFFICES ASSUME x \in Tables3 PROVE FALSE
    OBVIOUS
  <2>3. PICK m \in Index : Leads(Root, m) /\ x = Child(Root, m)
    BY <1>1, <2>2, TablesAre
  <2>4. t = Root
    BY <1>1, <2>1, <2>3 DEF Tree, OneParent, Upper3
  <2>5. QED
    BY <1>1, <2>4 DEF Lower3
<1>3. ASSUME NEW x \in Tables1 PROVE x \notin Upper3
  <2>1. PICK t \in Tables2, n \in Index : Leads(t, n) /\ x = Child(t, n)
    BY TablesAre
  <2>2. x # Root
    BY <1>1 DEF Lower3
  <2>3. ASSUME x \in Tables3 PROVE FALSE
    <3>1. PICK m \in Index : Leads(Root, m) /\ x = Child(Root, m)
      BY <1>1, <2>3, TablesAre
    <3>2. t = Root
      BY <1>1, <2>1, <3>1 DEF Tree, OneParent, Upper3
    <3>3. QED
      BY <1>1, <3>2 DEF Lower3
  <2>4. ASSUME x \in Tables2 PROVE FALSE
    <3>1. PICK u \in Tables3, m \in Index : Leads(u, m) /\ x = Child(u, m)
      BY <2>4, TablesAre
    <3>2. t = u
      BY <2>1, <3>1 DEF Tree, OneParent, Upper3
    <3>3. QED
      BY <1>2, <3>2
  <2>5. QED
    BY <1>1, <2>2, <2>3, <2>4 DEF Upper3
<1>4. QED
  BY <1>2, <1>3

(* Where a call in progress stands.                                        *)
LEMMA Here ==
  ASSUME NEW k \in 0 .. Len(FreeFrames), Tree(k), pc # "idle"
  PROVE  /\ table \in Tables /\ table \in Frames /\ table # DirectMap /\ index \in Index
         /\ ~ (table = Root /\ index = Hi)
         /\ level > 1 => table \in Upper3
         /\ level = 1 => table \in Tables1
         /\ \A j \in Given : j > Done(k) => FreeFrames[j] # table
<1>1. table \in TablesAt(level) /\ table # DirectMap /\ level \in 1 .. 4
  BY DEF Tree, Place, Typed
<1>2. (level > 1 => table \in Upper3) /\ (level = 1 => table \in Tables1)
  BY <1>1 DEF TablesAt, Upper3
<1>3. table \in Tables /\ table \in Frames
  BY <1>1, <1>2, Families DEF Upper3, Tables
<1>4. op.virtual_addr \in Nat
  <2> DEFINE w == ENTRIES * Span(4)
  <2>1. op.virtual_addr \in 0 .. w - 1
    BY DEF Tree, Typed
  <2>2. QED
    BY <2>1
<1>5. index \in Index
  BY <1>1, <1>4, Indices DEF index
<1>6. ~ (table = Root /\ index = Hi)
  <2>1. CASE level = 4
    BY <2>1 DEF Tree, Typed, index
  <2>2. CASE level # 4
    BY <1>1, <2>2, Families DEF TablesAt, Lower3
  <2>3. QED
    BY <2>1, <2>2
<1>7. QED
  BY <1>1, <1>2, <1>3, <1>5, <1>6, NotGiven

(* What no step of a call does: bend an entry that leads to a table.       *)
Keeps ==
  \A t \in Upper3, n \in Index : Leads(t, n) => Leads(t, n)' /\ Child(t, n)' = Child(t, n)

(* A store that leaves every leading entry as it was leaves the tree.      *)
LEMMA SameTables ==
  ASSUME cr3 = Root, cr3' = Root,
         \A t \in Upper3, n \in Index :
           /\ Leads(t, n)' <=> Leads(t, n)
           /\ Leads(t, n) => Child(t, n)' = Child(t, n)
  PROVE  /\ Tables4' = Tables4 /\ Tables3' = Tables3 /\ Tables2' = Tables2 /\ Tables1' = Tables1
         /\ Upper3' = Upper3 /\ Lower3' = Lower3
         /\ OneParent => OneParent'
<1> DEFINE
      Below(x, S) == x \in Frames /\ \E t \in S, n \in Index : Leads(t, n) /\ x = Child(t, n)
      Below1(x, S) == x \in Frames /\ \E t \in S, n \in Index : Leads(t, n)' /\ x = Child(t, n)'
<1>1. /\ Tables4 = {Root} /\ \A x : x \in Tables3 <=> Below(x, Tables4)
      /\ \A x : x \in Tables2 <=> Below(x, Tables3)
      /\ \A x : x \in Tables1 <=> Below(x, Tables2)
  BY TablesAre
<1>2. /\ Tables4' = {Root} /\ \A x : x \in Tables3' <=> Below1(x, Tables4')
      /\ \A x : x \in Tables2' <=> Below1(x, Tables3')
      /\ \A x : x \in Tables1' <=> Below1(x, Tables2')
  <2>1. TablesAre!:'
    BY TablesAre, PTL
  <2>2. QED
    BY <2>1
<1>3. \A S \in SUBSET Upper3 : \A x : Below(x, S) <=> Below1(x, S)
  OBVIOUS
<1> HIDE DEF Below, Below1
<1>4. Tables4' = Tables4
  BY <1>1, <1>2
<1>5. Tables3' = Tables3
  BY <1>1, <1>2, <1>3, <1>4 DEF Upper3
<1>6. Tables2' = Tables2
  BY <1>1, <1>2, <1>3, <1>5 DEF Upper3
<1>7. Tables1' = Tables1
  BY <1>1, <1>2, <1>3, <1>6 DEF Upper3
<1>8. Upper3' = Upper3 /\ Lower3' = Lower3
  BY <1>4, <1>5, <1>6, <1>7 DEF Upper3, Lower3
<1>9. OneParent => OneParent'
  BY <1>8 DEF OneParent
<1>10. QED
  BY <1>4, <1>5, <1>6, <1>7, <1>8, <1>9

(* A store into the table the call has reached.                            *)
LEMMA TableWritten ==
  ASSUME NEW k \in 0 .. Len(FreeFrames), Tree(k), pc # "idle",
         NEW w \in Nat, Store(table, index, w), cr3' = cr3, pml4' = pml4
  PROVE  /\ mem' \in [Frames -> [Index -> Nat]] /\ cr3' = Root /\ pml4' = Root
         /\ mem'[table][index] = w
         /\ \A f \in Frames, n \in Index : ~ (f = table /\ n = index) => mem'[f][n] = mem[f][n]
         /\ \A f \in Frames : f # table => mem'[f] = mem[f]
         /\ BootTables'
<1>1. /\ table \in Frames /\ index \in Index /\ table # DirectMap /\ ~ (table = Root /\ index = Hi)
      /\ mem \in [Frames -> [Index -> Nat]] /\ cr3 = Root /\ pml4 = Root
  BY Here DEF Tree, Typed
<1>2. mem' = [mem EXCEPT ![table][index] = w]
  BY DEF Store
<1>3. /\ mem' \in [Frames -> [Index -> Nat]]
      /\ mem'[table][index] = w
      /\ \A f \in Frames, n \in Index : ~ (f = table /\ n = index) => mem'[f][n] = mem[f][n]
      /\ \A f \in Frames : f # table => mem'[f] = mem[f]
  BY <1>1, <1>2
<1>4. Root \in Frames /\ DirectMap \in Frames /\ Hi \in Index
  <2>1. hhdm \in Nat /\ 4 \in 1 .. 4
    BY PagingConstants
  <2>2. QED
    BY <2>1, AddressSpaceConstants, Indices DEF Hi
<1>5. BootTables'
  BY <1>1, <1>3, <1>4 DEF BootTables, Tree
<1>6. QED
  BY <1>1, <1>3, <1>5

LEMMA FreeListKept ==
  ASSUME NEW k \in 0 .. Len(FreeFrames), Tree(k), NEW i \in k .. Len(FreeFrames),
         free_mem_head' = PointerTo(i + 1),
         \A j \in Given : j > i => mem'[FreeFrames[j]] = mem[FreeFrames[j]]
  PROVE  FreeList(i)'
<1>1. k \in Nat /\ Len(FreeFrames) \in Nat
  BY Sequence
<1>2. ASSUME NEW j \in i + 1 .. Len(FreeFrames)
      PROVE  mem'[FreeFrames[j]][0] = FreeFrames[j] /\ mem'[FreeFrames[j]][1] = PointerTo(j + 1)
  <2>1. j \in Given /\ j > i /\ j \in k + 1 .. Len(FreeFrames)
    BY <1>1 DEF Given
  <2>2. QED
    BY <2>1 DEF Tree, GivenOut, FreeList
<1>3. QED
  BY <1>2 DEF FreeList

-----------------------------------------------------------------------------
(* The steps of a call.                                                    *)
LEMMA FollowTree ==
  ASSUME NEW k \in 0 .. Len(FreeFrames), Tree(k), FollowEntry
  PROVE  Tree(k)' /\ Keeps /\ Leads(table, index) /\ Child(table, index) = table'
<1>1. /\ pc = "walk" /\ level > 1 /\ level \in 1 .. 4 /\ Present(mem[table][index])
      /\ table' = ALIGN_DOWN(mem[table][index]) /\ level' = level - 1
      /\ UNCHANGED <<mem, cr3, pml4, free_mem_head, pc, op>>
  BY DEF FollowEntry, Upper, Missing, NextTable, entry, Tree, Typed
<1>2. /\ table \in Upper3 /\ index \in Index /\ table # DirectMap /\ ~ (table = Root /\ index = Hi)
  BY <1>1, Here
<1>3. \A t, n : ~ BeingFilled(t, n) /\ ~ BeingFilled(t, n)'
  BY <1>1 DEF BeingFilled
<1>4. PICK j \in 1 .. Done(k) : mem[table][index] = 7 + FreeFrames[j]
  BY <1>1, <1>2, <1>3 DEF Tree, GivenOut, Entries
<1>5. FreeFrames[j] \in Frames /\ FreeFrames[j] # DirectMap
  <2>1. j \in Given
    BY <1>1, Sequence DEF Done, Given
  <2>2. QED
    BY <2>1, Sequence
<1>6. Leads(table, index) /\ Child(table, index) = FreeFrames[j] /\ table' = FreeFrames[j]
  BY <1>1, <1>3, <1>4, <1>5, Words, FramesAre DEF Leads, Child
<1>7. table' \in TablesAt(level - 1)
  <2>1. table \in TablesAt(level)
    BY <1>1 DEF Tree, Place
  <2>2. CASE level = 4
    BY <1>2, <1>5, <1>6, <2>1, <2>2, TablesAre DEF TablesAt
  <2>3. CASE level = 3
    BY <1>2, <1>5, <1>6, <2>1, <2>3, TablesAre DEF TablesAt
  <2>4. CASE level = 2
    BY <1>2, <1>5, <1>6, <2>1, <2>4, TablesAre DEF TablesAt
  <2>5. QED
    BY <1>1, <2>2, <2>3, <2>4
<1>8. \A t \in Upper3, n \in Index :
        /\ Leads(t, n)' <=> Leads(t, n)
        /\ Leads(t, n) => Child(t, n)' = Child(t, n)
  BY <1>1, <1>3 DEF Leads, Child
<1>9. /\ Tables4' = Tables4 /\ Tables3' = Tables3 /\ Tables2' = Tables2 /\ Tables1' = Tables1
      /\ Upper3' = Upper3 /\ Lower3' = Lower3 /\ OneParent'
  <2>1. cr3 = Root /\ cr3' = Root
    BY <1>1 DEF Tree, Typed
  <2>2. QED
    BY <1>8, <2>1, SameTables DEF Tree
<1>10. Typed' /\ BootTables'
  <2>1. level - 1 \in 1 .. 4
    BY <1>1
  <2>2. QED
    BY <1>1, <2>1 DEF Tree, Typed, BootTables
<1>11. Place'
  BY <1>1, <1>5, <1>6, <1>7, <1>9 DEF Place, TablesAt
<1>12. GivenOut(k)'
  <2>1. Done(k)' = Done(k)
    BY <1>1 DEF Done
  <2>2. FreeList(k)'
    BY <1>1 DEF Tree, GivenOut, FreeList
  <2>3. Entries(k)'
    <3>1. ASSUME NEW t \in Upper3, NEW n \in Index, t # DirectMap, ~ (t = Root /\ n = Hi)
          PROVE  ~ Present(mem'[t][n]) \/ \E i \in 1 .. Done(k) : mem'[t][n] = 7 + FreeFrames[i]
      BY <1>1, <1>3, <3>1 DEF Tree, GivenOut, Entries
    <3>2. QED
      BY <1>9, <2>1, <3>1 DEF Entries
  <2>4. Accounted(k)'
    BY <1>9, <2>1 DEF Tree, GivenOut, Accounted
  <2>5. Pending(k)'
    BY <1>1 DEF Pending
  <2>6. QED
    BY <2>2, <2>3, <2>4, <2>5 DEF GivenOut
<1>13. QED
  BY <1>6, <1>8, <1>9, <1>10, <1>11, <1>12 DEF Tree, Keeps

LEMMA ClaimTree ==
  ASSUME NEW k \in 0 .. Len(FreeFrames), Tree(k), ClaimEntry
  PROVE  Tree(k)' /\ Keeps
<1>1. /\ pc = "walk" /\ pc' = "fill" /\ level > 1 /\ level \in 1 .. 4 /\ ~ Present(mem[table][index])
      /\ Store(table, index, 7) /\ index' = index
      /\ UNCHANGED <<cr3, pml4, free_mem_head, op, level, table>>
  <2>1. PAGE_PRESENT + PAGE_READ_WRITE + PAGE_USER_SUPERVISOR = 7
    BY DEF PAGE_PRESENT, PAGE_READ_WRITE, PAGE_USER_SUPERVISOR
  <2>2. QED
    BY <2>1 DEF ClaimEntry, Upper, Missing, entry, Tree, Typed, index
<1>2. /\ table \in Upper3 /\ table \in Frames /\ index \in Index /\ table # DirectMap /\ ~ (table = Root /\ index = Hi)
      /\ \A j \in Given : j > Done(k) => FreeFrames[j] # table
  BY <1>1, Here
<1>3. /\ mem' \in [Frames -> [Index -> Nat]] /\ cr3' = Root /\ pml4' = Root
      /\ mem'[table][index] = 7 /\ BootTables'
      /\ \A f \in Frames, n \in Index : ~ (f = table /\ n = index) => mem'[f][n] = mem[f][n]
      /\ \A f \in Frames : f # table => mem'[f] = mem[f]
  BY <1>1, TableWritten
<1>4. \A t, n : ~ BeingFilled(t, n) /\ (BeingFilled(t, n)' <=> t = table /\ n = index)
  BY <1>1 DEF BeingFilled
<1>5. Upper3 \subseteq Frames
  BY Families
<1>6. ASSUME NEW t \in Upper3, NEW n \in Index
      PROVE  (Leads(t, n)' <=> Leads(t, n)) /\ (Leads(t, n) => Child(t, n)' = Child(t, n))
  <2>1. CASE t = table /\ n = index
    BY <1>1, <1>4, <2>1 DEF Leads
  <2>2. CASE ~ (t = table /\ n = index)
    BY <1>3, <1>4, <1>5, <2>2 DEF Leads, Child
  <2>3. QED
    BY <2>1, <2>2
<1>7. /\ Tables4' = Tables4 /\ Tables3' = Tables3 /\ Tables2' = Tables2 /\ Tables1' = Tables1
      /\ Upper3' = Upper3 /\ Lower3' = Lower3 /\ OneParent'
  <2>1. cr3 = Root /\ cr3' = Root
    BY <1>3 DEF Tree, Typed
  <2>2. QED
    BY <1>6, <2>1, SameTables DEF Tree
<1>8. Typed'
  BY <1>1, <1>3 DEF Tree, Typed
<1>9. Place'
  <2>1. TablesAt(level)' = TablesAt(level)
    BY <1>1, <1>7 DEF TablesAt
  <2>2. QED
    BY <1>1, <1>3, <2>1 DEF Tree, Place
<1>10. GivenOut(k)'
  <2>1. Done(k)' = Done(k) /\ Done(k) = k
    BY <1>1 DEF Done
  <2>2. FreeList(k)'
    <3>1. \A j \in Given : j > k => mem'[FreeFrames[j]] = mem[FreeFrames[j]]
      BY <1>2, <1>3, <2>1, Sequence
    <3>2. free_mem_head' = PointerTo(k + 1) /\ k \in k .. Len(FreeFrames)
      BY <1>1, Sequence DEF Tree, GivenOut, FreeList
    <3>3. QED
      BY <3>1, <3>2, FreeListKept
  <2>3. Entries(k)'
    <3>1. ASSUME NEW t \in Upper3, NEW n \in Index, t # DirectMap, ~ (t = Root /\ n = Hi)
          PROVE  \/ BeingFilled(t, n)'
                 \/ ~ Present(mem'[t][n])
                 \/ \E i \in 1 .. Done(k) : mem'[t][n] = 7 + FreeFrames[i]
      <4>1. CASE t = table /\ n = index
        BY <1>4, <4>1
      <4>2. CASE ~ (t = table /\ n = index)
        BY <1>3, <1>4, <1>5, <3>1, <4>2 DEF Tree, GivenOut, Entries
      <4>3. QED
        BY <4>1, <4>2
    <3>2. QED
      BY <1>7, <2>1, <3>1 DEF Entries
  <2>4. Accounted(k)'
    BY <1>7, <2>1 DEF Tree, GivenOut, Accounted
  <2>5. Pending(k)'
    BY <1>1 DEF Pending
  <2>6. QED
    BY <2>2, <2>3, <2>4, <2>5 DEF GivenOut
<1>11. QED
  BY <1>3, <1>6, <1>7, <1>8, <1>9, <1>10 DEF Tree, Keeps

LEMMA LeafTree ==
  ASSUME NEW k \in 0 .. Len(FreeFrames), Tree(k), WriteLeaf
  PROVE  Tree(k)' /\ Keeps
<1>1. /\ pc = "walk" /\ pc' = "idle" /\ level = 1 /\ Store(table, index, NewLeaf)
      /\ UNCHANGED <<cr3, pml4, free_mem_head, op, level, table>>
  BY DEF WriteLeaf
<1>2. /\ table \in Tables1 /\ table \in Frames /\ index \in Index
      /\ \A j \in Given : j > Done(k) => FreeFrames[j] # table
  BY <1>1, Here
<1>3. NewLeaf \in Nat
  <2>1. op.physical_addr \in Nat /\ op.flags \in Nat
    BY DEF Tree, Typed
  <2>2. op.flags % 4096 \in Nat /\ ALIGN_DOWN(op.physical_addr) \in Nat
    BY <2>1 DEF ALIGN_DOWN, PAGE_SIZE
  <2>3. QED
    BY <2>2 DEF NewLeaf
<1>4. /\ mem' \in [Frames -> [Index -> Nat]] /\ cr3' = Root /\ pml4' = Root /\ BootTables'
      /\ \A f \in Frames : f # table => mem'[f] = mem[f]
  BY <1>1, <1>3, TableWritten
<1>5. \A t, n : ~ BeingFilled(t, n) /\ ~ BeingFilled(t, n)'
  BY <1>1 DEF BeingFilled
<1>6. Upper3 \subseteq Frames /\ table \notin Upper3
  BY <1>2, Families, Levels
<1>7. \A t \in Upper3 : mem'[t] = mem[t]
  BY <1>4, <1>6
<1>8. /\ Tables4' = Tables4 /\ Tables3' = Tables3 /\ Tables2' = Tables2 /\ Tables1' = Tables1
      /\ Upper3' = Upper3 /\ Lower3' = Lower3 /\ OneParent'
  <2>1. cr3 = Root /\ cr3' = Root
    BY <1>4 DEF Tree, Typed
  <2>2. \A t \in Upper3, n \in Index :
          /\ Leads(t, n)' <=> Leads(t, n)
          /\ Leads(t, n) => Child(t, n)' = Child(t, n)
    BY <1>5, <1>7 DEF Leads, Child
  <2>3. QED
    BY <2>1, <2>2, SameTables DEF Tree
<1>9. Typed' /\ Place'
  BY <1>1, <1>4 DEF Tree, Typed, Place
<1>10. GivenOut(k)'
  <2>1. Done(k)' = Done(k) /\ Done(k) = k
    BY <1>1 DEF Done
  <2>2. FreeList(k)'
    <3>1. \A j \in Given : j > k => mem'[FreeFrames[j]] = mem[FreeFrames[j]]
      BY <1>2, <1>4, <2>1, Sequence
    <3>2. free_mem_head' = PointerTo(k + 1) /\ k \in k .. Len(FreeFrames)
      BY <1>1, Sequence DEF Tree, GivenOut, FreeList
    <3>3. QED
      BY <3>1, <3>2, FreeListKept
  <2>3. Entries(k)'
    <3>1. ASSUME NEW t \in Upper3, NEW n \in Index, t # DirectMap, ~ (t = Root /\ n = Hi)
          PROVE  ~ Present(mem'[t][n]) \/ \E i \in 1 .. Done(k) : mem'[t][n] = 7 + FreeFrames[i]
      BY <1>5, <1>7, <3>1 DEF Tree, GivenOut, Entries
    <3>2. QED
      BY <1>8, <2>1, <3>1 DEF Entries
  <2>4. Accounted(k)'
    BY <1>8, <2>1 DEF Tree, GivenOut, Accounted
  <2>5. Pending(k)'
    BY <1>1 DEF Pending
  <2>6. QED
    BY <2>2, <2>3, <2>4, <2>5 DEF GivenOut
<1>11. Keeps
  BY <1>5, <1>7 DEF Keeps, Leads, Child
<1>12. QED
  BY <1>4, <1>8, <1>9, <1>10, <1>11 DEF Tree

LEMMA FillTree ==
  ASSUME NEW k \in 0 .. Len(FreeFrames), Tree(k), FillEntry
  PROVE  k + 1 \in 0 .. Len(FreeFrames) /\ Tree(k + 1)' /\ Keeps
<1>1. k \in Nat /\ Len(FreeFrames) \in Nat /\ hhdm \in Nat
  BY Sequence, PagingConstants
<1>2. k + 1 \in Given /\ free_mem_head = FreeFrames[k + 1] + hhdm
  <2>1. free_mem_head = PointerTo(k + 1) /\ free_mem_head # 0
    BY DEF Tree, GivenOut, FreeList, FillEntry
  <2>2. QED
    BY <1>1, <2>1 DEF PointerTo, Given
<1> DEFINE f == FreeFrames[k + 1]
<1>3. f \in Frames /\ f \in Nat /\ ALIGN_DOWN(f) = f /\ f \notin Tables /\ free_mem_head - hhdm = f
  <2>1. f \in Frames
    BY <1>2, Sequence
  <2>2. f \in Nat /\ f % PAGE_SIZE = 0
    BY <2>1, FramesAre
  <2>3. k + 1 > Done(k)
    BY <1>1 DEF Done
  <2>4. QED
    BY <1>1, <1>2, <2>1, <2>2, <2>3, Words, NotGiven
<1>4. mem[f][0] = f /\ mem[f][1] = PointerTo(k + 2)
  <2>1. k + 1 \in k + 1 .. Len(FreeFrames) /\ k + 1 + 1 = k + 2
    BY <1>1, <1>2 DEF Given
  <2>2. QED
    BY <2>1 DEF Tree, GivenOut, FreeList
<1>5. /\ pc = "fill" /\ pc' = "clear" /\ level > 1 /\ level \in 1 .. 4 /\ mem[table][index] = 7
      /\ Store(table, index, 7 + f) /\ free_mem_head' = PointerTo(k + 2) /\ index' = index
      /\ UNCHANGED <<cr3, pml4, op, level, table>>
  BY <1>3, <1>4 DEF FillEntry, entry, index, NextFree, Tree, Typed, Place
<1> HIDE DEF f
<1>6. /\ table \in Upper3 /\ table \in Frames /\ index \in Index /\ table # DirectMap /\ ~ (table = Root /\ index = Hi)
      /\ \A j \in Given : j > Done(k) => FreeFrames[j] # table
  BY <1>5, Here
<1>7. /\ mem' \in [Frames -> [Index -> Nat]] /\ cr3' = Root /\ pml4' = Root
      /\ mem'[table][index] = 7 + f /\ BootTables'
      /\ \A g \in Frames, n \in Index : ~ (g = table /\ n = index) => mem'[g][n] = mem[g][n]
      /\ \A g \in Frames : g # table => mem'[g] = mem[g]
  <2>1. 7 + f \in Nat
    BY <1>3
  <2>2. QED
    BY <1>5, <2>1, TableWritten
<1>8. \A t, n : (BeingFilled(t, n) <=> t = table /\ n = index) /\ (BeingFilled(t, n)' <=> t = table /\ n = index)
  BY <1>5 DEF BeingFilled
<1>9. Upper3 \subseteq Frames
  BY Families
<1>10. /\ Tables4' = Tables4 /\ Tables3' = Tables3 /\ Tables2' = Tables2 /\ Tables1' = Tables1
       /\ Upper3' = Upper3 /\ Lower3' = Lower3 /\ OneParent'
  <2>1. cr3 = Root /\ cr3' = Root
    BY <1>7 DEF Tree, Typed
  <2>2. \A t \in Upper3, n \in Index :
          /\ Leads(t, n)' <=> Leads(t, n)
          /\ Leads(t, n) => Child(t, n)' = Child(t, n)
    BY <1>7, <1>8, <1>9 DEF Leads, Child
  <2>3. QED
    BY <2>1, <2>2, SameTables DEF Tree
<1>11. Typed' /\ Place'
  <2>1. TablesAt(level)' = TablesAt(level)
    BY <1>5, <1>10 DEF TablesAt
  <2>2. QED
    BY <1>5, <1>7, <2>1 DEF Tree, Typed, Place
<1>12. Done(k + 1)' = k /\ Done(k) = k
  BY <1>1, <1>5 DEF Done
<1>13. GivenOut(k + 1)'
  <2>1. FreeList(k + 1)'
    <3>1. \A j \in Given : j > k + 1 => mem'[FreeFrames[j]] = mem[FreeFrames[j]]
      BY <1>1, <1>6, <1>7, <1>12, Sequence DEF Given
    <3>2. free_mem_head' = PointerTo(k + 1 + 1) /\ k + 1 \in k .. Len(FreeFrames)
      BY <1>1, <1>2, <1>5 DEF Given
    <3>3. QED
      BY <3>1, <3>2, FreeListKept
  <2>2. Entries(k + 1)'
    <3>1. ASSUME NEW t \in Upper3, NEW n \in Index, t # DirectMap, ~ (t = Root /\ n = Hi)
          PROVE  \/ BeingFilled(t, n)'
                 \/ ~ Present(mem'[t][n])
                 \/ \E i \in 1 .. k : mem'[t][n] = 7 + FreeFrames[i]
      <4>1. CASE t = table /\ n = index
        BY <1>8, <4>1
      <4>2. CASE ~ (t = table /\ n = index)
        BY <1>7, <1>8, <1>9, <1>12, <3>1, <4>2 DEF Tree, GivenOut, Entries
      <4>3. QED
        BY <4>1, <4>2
    <3>2. QED
      BY <1>10, <1>12, <3>1 DEF Entries
  <2>3. Accounted(k + 1)'
    BY <1>10, <1>12 DEF Tree, GivenOut, Accounted
  <2>4. Pending(k + 1)'
    BY <1>1, <1>5, <1>7 DEF Pending, f
  <2>5. QED
    BY <2>1, <2>2, <2>3, <2>4 DEF GivenOut
<1>14. Keeps
  BY <1>7, <1>8, <1>9 DEF Keeps, Leads, Child
<1>15. QED
  BY <1>1, <1>2, <1>7, <1>10, <1>11, <1>13, <1>14 DEF Tree, Given

(* The page just filled in becomes a table, empty, of the level below.     *)
LEMMA ClearTree ==
  ASSUME NEW k \in 0 .. Len(FreeFrames), Tree(k), ClearTable
  PROVE  /\ Tree(k)' /\ Keeps /\ k \in Given /\ NextTable = FreeFrames[k] /\ table' = FreeFrames[k]
         /\ FreeFrames[k] \notin Tables
         /\ \A t, n : t = table /\ n = index => Leads(t, n)' /\ Child(t, n)' = FreeFrames[k]
         /\ mem' = [mem EXCEPT ![FreeFrames[k]] = [n \in Index |-> 0]]
<1>1. k \in Nat /\ Len(FreeFrames) \in Nat /\ k >= 1 /\ k \in Given /\ Done(k) = k - 1 /\ mem[table][index] = 7 + FreeFrames[k]
  BY Sequence DEF ClearTable, Tree, GivenOut, Pending, Given, Done
<1> DEFINE f == FreeFrames[k]
<1>2. f \in Frames /\ f \in Nat /\ ALIGN_DOWN(7 + f) = f /\ f \notin Tables \cup {0, Root, DirectMap}
      /\ Present(7 + f) /\ ~ Large(7 + f)
  <2>1. k > Done(k)
    BY <1>1
  <2>2. f \in Frames /\ f \notin Tables \cup {0, Root, DirectMap}
    BY <1>1, <2>1, NotGiven
  <2>3. QED
    BY <2>2, Words, FramesAre
<1>3. /\ table \in Upper3 /\ table \in Frames /\ index \in Index /\ table # DirectMap /\ ~ (table = Root /\ index = Hi)
      /\ table \in Tables
  BY Here DEF ClearTable, Place, Tree
<1>4. NextTable = f
  BY <1>1, <1>2 DEF NextTable, entry
<1> HIDE DEF f
<1>5. /\ pc = "clear" /\ pc' = "walk" /\ level > 1 /\ level \in 1 .. 4 /\ level' = level - 1
      /\ mem' = [mem EXCEPT ![f] = [n \in Index |-> 0]]
      /\ table' = ALIGN_DOWN(mem'[table][index])
      /\ UNCHANGED <<cr3, pml4, free_mem_head, op>>
  BY <1>4 DEF ClearTable, Cleared, Tree, Typed, Place
<1>6. /\ mem' \in [Frames -> [Index -> Nat]]
      /\ \A g \in Frames : g # f => mem'[g] = mem[g]
      /\ \A n \in Index : mem'[f][n] = 0
      /\ mem'[table] = mem[table] /\ mem'[Root] = mem[Root] /\ mem'[DirectMap] = mem[DirectMap]
      /\ table' = f
  <2>1. mem \in [Frames -> [Index -> Nat]] /\ Root \in Frames /\ DirectMap \in Frames
    BY AddressSpaceConstants DEF Tree, Typed
  <2>2. /\ mem' \in [Frames -> [Index -> Nat]]
        /\ \A g \in Frames : g # f => mem'[g] = mem[g]
        /\ \A n \in Index : mem'[f][n] = 0
    BY <1>2, <1>5, <2>1
  <2>3. table # f
    BY <1>2, <1>3
  <2>4. QED
    BY <1>1, <1>2, <1>3, <1>5, <2>1, <2>2, <2>3 DEF f
<1>7. \A t, n : (BeingFilled(t, n) <=> t = table /\ n = index) /\ ~ BeingFilled(t, n)'
  BY <1>5 DEF BeingFilled
<1>8. Upper3 \subseteq Frames /\ f \notin Upper3 /\ Tables4 = {Root} /\ Root \notin Lower3
  BY <1>2, Families DEF Upper3, Tables
<1>9. ASSUME NEW t \in Upper3, NEW n \in Index
      PROVE  /\ Leads(t, n)' <=> Leads(t, n) \/ (t = table /\ n = index)
             /\ Leads(t, n) => Child(t, n)' = Child(t, n)
  <2>1. mem'[t] = mem[t]
    BY <1>6, <1>8
  <2>2. CASE t = table /\ n = index
    BY <1>1, <1>2, <1>7, <2>1, <2>2 DEF Leads, f
  <2>3. CASE ~ (t = table /\ n = index)
    BY <1>7, <2>1, <2>3 DEF Leads, Child
  <2>4. QED
    BY <2>2, <2>3
<1>10. ASSUME NEW t, NEW n, t = table, n = index
       PROVE  Leads(t, n)' /\ ~ Leads(t, n) /\ Child(t, n)' = f
  <2>1. Leads(t, n)'
    BY <1>3, <1>9, <1>10
  <2>2. ~ Leads(t, n)
    BY <1>7, <1>10 DEF Leads
  <2>3. mem'[t][n] = 7 + f
    BY <1>1, <1>6, <1>10 DEF f
  <2>4. QED
    BY <1>2, <2>1, <2>2, <2>3 DEF Child
<1>11. \A n \in Index : ~ Leads(f, n)'
  BY <1>6, FixedWords DEF Leads
<1>12. /\ Tables4' = Tables4
       /\ Tables3' = IF level = 4 THEN Tables3 \cup {f} ELSE Tables3
       /\ Tables2' = IF level = 3 THEN Tables2 \cup {f} ELSE Tables2
       /\ Tables1' = IF level = 2 THEN Tables1 \cup {f} ELSE Tables1
  <2> DEFINE
       Below(x, S) == x \in Frames /\ \E t \in S, n \in Index : Leads(t, n) /\ x = Child(t, n)
       Below1(x, S) == x \in Frames /\ \E t \in S, n \in Index : Leads(t, n)' /\ x = Child(t, n)'
  <2>1. /\ \A x : x \in Tables3 <=> Below(x, Tables4)
        /\ \A x : x \in Tables2 <=> Below(x, Tables3)
        /\ \A x : x \in Tables1 <=> Below(x, Tables2)
    BY TablesAre
  <2>2. /\ cr3' = Root => Tables4' = {Root}
        /\ \A x : x \in Tables3' <=> Below1(x, Tables4')
        /\ \A x : x \in Tables2' <=> Below1(x, Tables3')
        /\ \A x : x \in Tables1' <=> Below1(x, Tables2')
    <3>1. TablesAre!:'
      BY TablesAre, PTL
    <3>2. QED
      BY <3>1
  <2>3. \A S \in SUBSET Upper3 : table \notin S => \A x : Below1(x, S) <=> Below(x, S)
    BY <1>9
  <2>4. \A S \in SUBSET Upper3 : table \notin S => \A x : Below1(x, S \cup {f}) <=> Below(x, S)
    BY <1>9, <1>11
  <2>5. \A S \in SUBSET Upper3 : table \in S => \A x : Below1(x, S) <=> Below(x, S) \/ x = f
    <3>1. ASSUME NEW S \in SUBSET Upper3, table \in S, NEW x PROVE Below1(x, S) <=> Below(x, S) \/ x = f
      <4>1. ASSUME Below1(x, S) PROVE Below(x, S) \/ x = f
        BY <1>2, <1>9, <1>10, <4>1
      <4>2. ASSUME Below(x, S) PROVE Below1(x, S)
        BY <1>9, <4>2
      <4>3. Below1(f, S)
        BY <1>2, <1>3, <1>10, <3>1
      <4>4. QED
        BY <4>1, <4>2, <4>3
    <3>2. QED
      BY <3>1
  <2> HIDE DEF Below, Below1
  <2>6. Tables4' = Tables4
    BY <1>5, <1>8, <2>2 DEF Tree, Typed
  <2>7. table \in TablesAt(level)
    BY <1>5 DEF Tree, Place
  <2>8. Tables4 \in SUBSET Upper3 /\ Tables3 \in SUBSET Upper3 /\ Tables2 \in SUBSET Upper3
    BY DEF Upper3
  <2>9. CASE level = 4
    <3>1. table = Root /\ table \notin Tables3 /\ table \notin Tables2 /\ table \in Tables4
      BY <1>8, <2>7, <2>9 DEF TablesAt, Lower3
    <3>2. Tables3' = Tables3 \cup {f}
      BY <2>1, <2>2, <2>5, <2>6, <2>8, <3>1
    <3>3. Tables2' = Tables2
      BY <2>1, <2>2, <2>4, <2>8, <3>1, <3>2
    <3>4. Tables1' = Tables1
      BY <2>1, <2>2, <2>3, <2>8, <3>1, <3>3
    <3>5. QED
      BY <2>6, <2>9, <3>2, <3>3, <3>4
  <2>10. CASE level = 3
    <3>1. table \in Tables3 /\ table \notin Tables2 /\ table \notin Tables4
      BY <1>8, <2>7, <2>10, Levels DEF TablesAt, Lower3
    <3>2. Tables3' = Tables3
      BY <2>1, <2>2, <2>3, <2>6, <2>8, <3>1
    <3>3. Tables2' = Tables2 \cup {f}
      BY <2>1, <2>2, <2>5, <2>8, <3>1, <3>2
    <3>4. Tables1' = Tables1
      BY <2>1, <2>2, <2>4, <2>8, <3>1, <3>3
    <3>5. QED
      BY <2>6, <2>10, <3>2, <3>3, <3>4
  <2>11. CASE level = 2
    <3>1. table \in Tables2 /\ table \notin Tables3 /\ table \notin Tables4
      BY <1>8, <2>7, <2>11, Levels DEF TablesAt, Lower3
    <3>2. Tables3' = Tables3
      BY <2>1, <2>2, <2>3, <2>6, <2>8, <3>1
    <3>3. Tables2' = Tables2
      BY <2>1, <2>2, <2>3, <2>8, <3>1, <3>2
    <3>4. Tables1' = Tables1 \cup {f}
      BY <2>1, <2>2, <2>5, <2>8, <3>1, <3>3
    <3>5. QED
      BY <2>6, <2>11, <3>2, <3>3, <3>4
  <2>12. level \in {2, 3, 4}
    BY <1>5
  <2>13. QED
    BY <2>9, <2>10, <2>11, <2>12
<1>13. /\ Lower3' = Lower3 \cup {f} /\ Upper3 \subseteq Upper3' /\ Upper3' \subseteq Upper3 \cup {f}
       /\ f \in TablesAt(level)'
  <2>1. level \in {2, 3, 4}
    BY <1>5
  <2>2. CASE level = 2
    BY <1>5, <1>12, <2>2 DEF Lower3, Upper3, TablesAt
  <2>3. CASE level = 3
    <3>1. /\ Tables4' = Tables4 /\ Tables3' = Tables3 /\ Tables2' = Tables2 \cup {f} /\ Tables1' = Tables1
          /\ level' = 2
      BY <1>5, <1>12, <2>3
    <3>2. QED
      BY <3>1 DEF Lower3, Upper3, TablesAt
  <2>4. CASE level = 4
    <3>1. /\ Tables4' = Tables4 /\ Tables3' = Tables3 \cup {f} /\ Tables2' = Tables2 /\ Tables1' = Tables1
          /\ level' = 3
      BY <1>5, <1>12, <2>4
    <3>2. QED
      BY <3>1 DEF Lower3, Upper3, TablesAt
  <2>5. QED
    BY <2>1, <2>2, <2>3, <2>4
<1>14. OneParent'
  <2>1. ASSUME NEW t \in Upper3', NEW n \in Index, Leads(t, n)' PROVE t \in Upper3
    BY <1>11, <1>13, <2>1
  <2>2. ASSUME NEW t \in Upper3, NEW n \in Index, Leads(t, n) PROVE Child(t, n)' # f
    <3>1. Child(t, n)' = Child(t, n)
      BY <1>9, <2>2
    <3>2. Child(t, n) = DirectMap \/ \E j \in 1 .. Done(k) : Child(t, n) = FreeFrames[j]
      BY <2>2, Families
    <3>3. ASSUME NEW j \in 1 .. Done(k) PROVE FreeFrames[j] # f
      <4>1. j \in Given /\ j # k
        BY <1>1 DEF Given
      <4>2. QED
        BY <1>1, <4>1, AddressSpaceConstants DEF Given, f
    <3>4. QED
      BY <1>2, <3>1, <3>2, <3>3
  <2>3. ASSUME NEW t \in Upper3', NEW u \in Upper3', NEW n \in Index, NEW m \in Index,
               Leads(t, n)', Leads(u, m)', Child(t, n)' = Child(u, m)'
        PROVE  t = u /\ n = m
    <3>1. t \in Upper3 /\ u \in Upper3
      BY <2>1, <2>3
    <3>2. CASE Leads(t, n) /\ Leads(u, m)
      <4>1. Child(t, n) = Child(u, m)
        BY <1>9, <2>3, <3>1, <3>2
      <4>2. QED
        BY <3>1, <3>2, <4>1 DEF Tree, OneParent
    <3>3. CASE ~ Leads(t, n)
      <4>1. t = table /\ n = index
        BY <1>9, <2>3, <3>1, <3>3
      <4>2. ~ Leads(u, m)
        BY <1>10, <2>2, <2>3, <3>1, <4>1
      <4>3. QED
        BY <1>9, <2>3, <3>1, <4>1, <4>2
    <3>4. CASE ~ Leads(u, m)
      <4>1. u = table /\ m = index
        BY <1>9, <2>3, <3>1, <3>4
      <4>2. ~ Leads(t, n)
        BY <1>10, <2>2, <2>3, <3>1, <4>1
      <4>3. QED
        BY <1>9, <2>3, <3>1, <4>1, <4>2
    <3>5. QED
      BY <3>2, <3>3, <3>4
  <2>4. QED
    BY <2>3 DEF OneParent
<1>15. Typed' /\ BootTables' /\ Place'
  <2>1. level - 1 \in 1 .. 4
    BY <1>5
  <2>2. QED
    BY <1>2, <1>5, <1>6, <1>13, <2>1 DEF Tree, Typed, BootTables, Place
<1>16. GivenOut(k)'
  <2>1. Done(k)' = k
    BY <1>5 DEF Done
  <2>2. FreeList(k)'
    <3>1. ASSUME NEW j \in Given, j > k PROVE mem'[FreeFrames[j]] = mem[FreeFrames[j]]
      <4>1. j # k /\ FreeFrames[j] \in Frames
        BY <1>1, <3>1, Sequence DEF Given
      <4>2. FreeFrames[j] # f
        BY <1>1, <4>1, AddressSpaceConstants DEF Given, f
      <4>3. QED
        BY <1>6, <4>1, <4>2
    <3>2. free_mem_head' = PointerTo(k + 1) /\ k \in k .. Len(FreeFrames)
      BY <1>5, Sequence DEF Tree, GivenOut, FreeList
    <3>3. QED
      BY <3>1, <3>2, FreeListKept
  <2>3. Entries(k)'
    <3>1. ASSUME NEW t \in Upper3', NEW n \in Index, t # DirectMap, ~ (t = Root /\ n = Hi)
          PROVE  ~ Present(mem'[t][n]) \/ \E i \in 1 .. k : mem'[t][n] = 7 + FreeFrames[i]
      <4>1. CASE t = f
        BY <1>6, <4>1, FixedWords
      <4>2. CASE t \in Upper3 /\ t = table /\ n = index
        BY <1>1, <1>6, <4>2
      <4>3. CASE t \in Upper3 /\ ~ (t = table /\ n = index)
        <5>1. mem'[t] = mem[t]
          BY <1>6, <1>8, <4>3
        <5>2. ~ Present(mem[t][n]) \/ \E i \in 1 .. Done(k) : mem[t][n] = 7 + FreeFrames[i]
          BY <1>7, <3>1, <4>3 DEF Tree, GivenOut, Entries
        <5>3. \A i \in 1 .. Done(k) : i \in 1 .. k
          BY <1>1
        <5>4. QED
          BY <5>1, <5>2, <5>3
      <4>4. QED
        BY <1>13, <4>1, <4>2, <4>3
    <3>2. QED
      BY <2>1, <3>1 DEF Entries
  <2>4. Accounted(k)'
    <3>1. \A j \in 1 .. k : j \in 1 .. Done(k) \/ j = k
      BY <1>1
    <3>2. QED
      BY <1>13, <2>1, <3>1 DEF Tree, GivenOut, Accounted, f
  <2>5. Pending(k)'
    BY <1>5 DEF Pending
  <2>6. QED
    BY <2>2, <2>3, <2>4, <2>5 DEF GivenOut
<1>17. Keeps
  BY <1>9 DEF Keeps
<1>18. QED
  BY <1>1, <1>2, <1>4, <1>5, <1>6, <1>10, <1>14, <1>15, <1>16, <1>17 DEF Tree, f

LEMMA CallTree ==
  ASSUME NEW k \in 0 .. Len(FreeFrames), Tree(k),
         NEW r \in Requests, map_page_table(r.physical_addr, r.virtual_addr, r.flags)
  PROVE  Tree(k)'
<1>1. /\ pc = "idle" /\ pc' = "walk" /\ level' = 4 /\ table' = Root
      /\ op'.physical_addr = r.physical_addr /\ op'.flags = r.flags /\ op'.virtual_addr = r.virtual_addr
      /\ UNCHANGED <<mem, cr3, pml4, free_mem_head>>
  BY DEF map_page_table, Tree, Typed
<1>2. /\ r.physical_addr \in Nat /\ r.flags \in Nat /\ r.virtual_addr \in 0 .. ENTRIES * Span(4) - 1
      /\ TableIndex(4, r.virtual_addr) # Hi
  BY AddressSpaceConstants DEF Hi
<1>3. \A t, n : ~ BeingFilled(t, n) /\ ~ BeingFilled(t, n)'
  BY <1>1 DEF BeingFilled
<1>4. /\ Tables4' = Tables4 /\ Upper3' = Upper3 /\ Lower3' = Lower3 /\ OneParent'
  <2>1. cr3 = Root /\ cr3' = Root
    BY <1>1 DEF Tree, Typed
  <2>2. \A t \in Upper3, n \in Index :
          /\ Leads(t, n)' <=> Leads(t, n)
          /\ Leads(t, n) => Child(t, n)' = Child(t, n)
    BY <1>1, <1>3 DEF Leads, Child
  <2>3. QED
    BY <2>1, <2>2, SameTables DEF Tree
<1>5. Typed' /\ BootTables'
  BY <1>1, <1>2 DEF Tree, Typed, BootTables
<1>6. Place'
  <2>1. Tables4 = {Root} /\ Root # DirectMap
    BY Families, AddressSpaceConstants
  <2>2. QED
    BY <1>1, <1>4, <2>1 DEF Place, TablesAt
<1>7. GivenOut(k)'
  <2>1. Done(k)' = Done(k)
    BY <1>1 DEF Done
  <2>2. FreeList(k)'
    BY <1>1 DEF Tree, GivenOut, FreeList
  <2>3. Entries(k)'
    BY <1>1, <1>3, <1>4, <2>1 DEF Tree, GivenOut, Entries
  <2>4. Accounted(k)'
    BY <1>4, <2>1 DEF Tree, GivenOut, Accounted
  <2>5. Pending(k)'
    BY <1>1 DEF Pending
  <2>6. QED
    BY <2>2, <2>3, <2>4, <2>5 DEF GivenOut
<1>8. QED
  BY <1>4, <1>5, <1>6, <1>7 DEF Tree

(* No access of a call faults while memory lasts.                          *)
LEMMA NoFault ==
  ASSUME NEW k \in 0 .. Len(FreeFrames), Tree(k)
  PROVE  ~ AccessFaults
<1>1. cr3 = Root /\ BootTables
  BY DEF Tree, Typed
<1>2. CASE pc = "walk"
  BY <1>1, <1>2, Here, AllReachable DEF AccessFaults
<1>3. CASE pc = "fill" /\ free_mem_head # 0
  <2>1. k + 1 \in Given /\ free_mem_head = FreeFrames[k + 1] + hhdm
    BY <1>3, Sequence DEF Tree, GivenOut, FreeList, PointerTo, Given
  <2>2. FreeFrames[k + 1] \in Frames /\ FreeFrames[k + 1] \in Nat /\ hhdm \in Nat
    BY <2>1, Sequence, FramesAre, PagingConstants
  <2>3. free_mem_head - hhdm \in Frames
    BY <2>1, <2>2
  <2>4. QED
    BY <1>1, <1>3, <2>3, AllReachable DEF AccessFaults
<1>4. CASE pc = "clear"
  <2>1. k \in Given /\ mem[table][index] = 7 + FreeFrames[k]
    BY <1>4, Sequence DEF Tree, GivenOut, Pending, Given
  <2>2. NextTable = FreeFrames[k] /\ FreeFrames[k] \in Frames
    BY <2>1, Sequence, FramesAre, Words DEF NextTable, entry
  <2>3. QED
    BY <1>1, <1>4, <2>2, AllReachable DEF AccessFaults
<1>5. QED
  BY <1>2, <1>3, <1>4 DEF AccessFaults

LEMMA BootTree == Init => Tree(0)
<1> SUFFICES ASSUME Init PROVE Tree(0)
  OBVIOUS
<1>1. PICK garbage \in Garbage : mem = BootMemory(garbage)
  BY DEF Init
<1>2. /\ cr3 = Root /\ pml4 = Root /\ free_mem_head = PointerTo(1) /\ pc = "idle" /\ level = 4 /\ table = Root
      /\ op = [physical_addr |-> 0, virtual_addr |-> 0, flags |-> 0]
  BY DEF Init
<1>3. /\ Root \in Frames /\ DirectMap \in Frames /\ Root # DirectMap /\ garbage \in Nat
      /\ Len(FreeFrames) \in Nat /\ hhdm \in Nat /\ ENTRIES \in Nat /\ ENTRIES > 1
  BY AddressSpaceConstants, PagingConstants, Sequence
<1>4. Hi \in Index /\ 0 \in Index /\ 1 \in Index
  <2>1. 4 \in 1 .. 4
    OBVIOUS
  <2>2. QED
    <3>1. Hi \in Index
      BY <1>3, <2>1, Indices DEF Hi
    <3>2. QED
      BY <1>3, <3>1 DEF Index
<1>5. DirectMap + PAGE_PRESENT + PAGE_READ_WRITE + PAGE_USER_SUPERVISOR = 7 + DirectMap
      /\ PAGE_PRESENT + PAGE_READ_WRITE + PAGE_PAGE_SIZE = 131
  BY <1>3, FramesAre DEF PAGE_PRESENT, PAGE_READ_WRITE, PAGE_USER_SUPERVISOR, PAGE_PAGE_SIZE
<1>6. ASSUME NEW j \in Given
      PROVE  \A f : f = FreeFrames[j] =>
               (CHOOSE i \in 1 .. Len(FreeFrames) : FreeFrames[i] = f) = j
  BY AddressSpaceConstants DEF Given
<1>7. \A n \in Index : mem[Root][n] = IF n = Hi THEN 7 + DirectMap ELSE 0
  BY <1>1, <1>3, <1>5 DEF BootMemory, Hi
<1>8. \A n \in Index : mem[DirectMap][n] = IF n = 0 THEN 131 ELSE 0
  BY <1>1, <1>3, <1>5 DEF BootMemory
<1>9. ASSUME NEW j \in Given
      PROVE  mem[FreeFrames[j]][0] = FreeFrames[j] /\ mem[FreeFrames[j]][1] = PointerTo(j + 1)
  <2>1. FreeFrames[j] \in Frames /\ FreeFrames[j] # Root /\ FreeFrames[j] # DirectMap
    BY Sequence
  <2>2. (CHOOSE i \in 1 .. Len(FreeFrames) : FreeFrames[i] = FreeFrames[j]) = j
    BY <1>6
  <2>3. \E i \in 1 .. Len(FreeFrames) : FreeFrames[i] = FreeFrames[j]
    BY DEF Given
  <2>4. QED
    <3> DEFINE f == FreeFrames[j]
    <3>1. ASSUME NEW n \in Index, n < 2
          PROVE  mem[f][n] = IF n = 0 THEN f
                             ELSE PointerTo((CHOOSE i \in 1 .. Len(FreeFrames) : FreeFrames[i] = f) + 1)
      BY <1>1, <2>1, <2>3, <3>1 DEF BootMemory
    <3>2. QED
      BY <1>4, <2>2, <3>1
<1>10. mem \in [Frames -> [Index -> Nat]]
  <2>1. ASSUME NEW f \in Frames, NEW n \in Index PROVE BootMemory(garbage)[f][n] \in Nat
    <3>1. CASE f = Root
      BY <1>1, <1>3, <1>7, <3>1, FramesAre
    <3>2. CASE f = DirectMap
      BY <1>1, <1>8, <3>2
    <3>3. CASE f # Root /\ f # DirectMap /\ n < 2 /\ \E i \in 1 .. Len(FreeFrames) : FreeFrames[i] = f
      <4>1. PICK j \in Given : FreeFrames[j] = f
        BY <3>3 DEF Given
      <4>2. n = 0 \/ n = 1
        BY <1>3, <3>3 DEF Index
      <4>3. PointerTo(j + 1) \in Nat
        <5>1. j + 1 > Len(FreeFrames) \/ j + 1 \in Given
          BY <1>3 DEF Given
        <5>2. QED
          BY <1>3, <5>1, Sequence, FramesAre DEF PointerTo
      <4>4. QED
        BY <1>1, <1>9, <4>1, <4>2, <4>3, FramesAre
    <3>4. CASE f # Root /\ f # DirectMap /\ ~ (n < 2 /\ \E i \in 1 .. Len(FreeFrames) : FreeFrames[i] = f)
      BY <1>3, <3>4 DEF BootMemory
    <3>5. QED
      BY <3>1, <3>2, <3>3, <3>4
  <2>2. BootMemory(garbage) \in [Frames -> [Index -> Nat]]
    BY <2>1 DEF BootMemory
  <2>3. QED
    BY <1>1, <2>2
<1>11. Typed
  <2> DEFINE w == ENTRIES * Span(4)
  <2>1. Span(4) \in Nat /\ Span(4) > 0
    BY Spans
  <2>2. w \in Nat /\ w > 0
    BY <1>3, <2>1
  <2> HIDE DEF w
  <2>3. 0 \in 0 .. w - 1
    BY <2>2
  <2>4. op.physical_addr = 0 /\ op.flags = 0 /\ op.virtual_addr = 0
    BY <1>2
  <2>5. op.virtual_addr \in 0 .. ENTRIES * Span(4) - 1
    BY <2>3, <2>4 DEF w
  <2>6. QED
    BY <1>2, <1>10, <2>4, <2>5 DEF Typed
<1>12. BootTables
  BY <1>4, <1>7, <1>8 DEF BootTables
<1>13. \A t, n : ~ BeingFilled(t, n)
  BY <1>2 DEF BeingFilled
<1>14. ASSUME NEW n \in Index
       PROVE  /\ ~ Leads(DirectMap, n)
              /\ Leads(Root, n) => n = Hi /\ Child(Root, n) = DirectMap
              /\ n # Hi => ~ Present(mem[Root][n])
  BY <1>3, <1>7, <1>8, FixedWords, Words, FramesAre DEF Leads, Child
<1>15. Upper3 \subseteq {Root, DirectMap}
  <2>1. Tables4 = {Root}
    BY <1>2, TablesAre
  <2>2. Tables3 \subseteq {DirectMap}
    BY <1>14, <2>1, TablesAre
  <2>3. Tables2 = {}
    BY <1>14, <2>2, TablesAre
  <2>4. QED
    BY <2>1, <2>2, <2>3 DEF Upper3
<1>16. OneParent
  BY <1>14, <1>15 DEF OneParent
<1>17. Place
  BY <1>2 DEF Place
<1>18. GivenOut(0)
  <2>1. FreeList(0)
    BY <1>2, <1>9 DEF FreeList, Given
  <2>2. Entries(0)
    BY <1>14, <1>15 DEF Entries
  <2>3. Accounted(0) /\ Pending(0)
    BY <1>2 DEF Accounted, Done, Pending
  <2>4. QED
    BY <2>1, <2>2, <2>3 DEF GivenOut
<1>19. QED
  BY <1>11, <1>12, <1>16, <1>17, <1>18 DEF Tree

-----------------------------------------------------------------------------
LEMMA IInvIs == IInv <=> (~ oom => \E k \in 0 .. Len(FreeFrames) : Tree(k))
  BY DEF IInv, Lasting, Tree

LEMMA Steps ==
  ASSUME NEW k \in 0 .. Len(FreeFrames), Tree(k), [Next]_vars, ~ oom'
  PROVE  \/ UNCHANGED pvars
         \/ \E r \in Requests : map_page_table(r.physical_addr, r.virtual_addr, r.flags)
         \/ FollowEntry
         \/ ClaimEntry
         \/ FillEntry
         \/ ClearTable
         \/ WriteLeaf
<1>1. ~ AccessFaults
  BY NoFault
<1>2. CASE UNCHANGED vars
  BY <1>2 DEF vars
<1>3. CASE Call
  BY <1>3 DEF Call
<1>4. CASE Step
  BY <1>1, <1>4 DEF Step, map_page_table_step
<1>5. QED
  BY <1>2, <1>3, <1>4 DEF Next

LEMMA StillTree ==
  ASSUME NEW k \in 0 .. Len(FreeFrames), Tree(k), UNCHANGED pvars
  PROVE  Tree(k)'
<1>1. UNCHANGED <<mem, cr3, pml4, free_mem_head, pc, op, level, table>>
  BY DEF pvars
<1>2. index' = index
  BY <1>1 DEF index
<1>3. \A t, n : BeingFilled(t, n)' <=> BeingFilled(t, n)
  BY <1>1, <1>2 DEF BeingFilled
<1>4. /\ Tables4' = Tables4 /\ Tables3' = Tables3 /\ Tables2' = Tables2 /\ Tables1' = Tables1
      /\ Upper3' = Upper3 /\ Lower3' = Lower3 /\ OneParent'
  <2>1. cr3 = Root /\ cr3' = Root
    BY <1>1 DEF Tree, Typed
  <2>2. \A t \in Upper3, n \in Index :
          /\ Leads(t, n)' <=> Leads(t, n)
          /\ Leads(t, n) => Child(t, n)' = Child(t, n)
    BY <1>1, <1>3 DEF Leads, Child
  <2>3. QED
    BY <2>1, <2>2, SameTables DEF Tree
<1>5. Typed' /\ BootTables'
  BY <1>1 DEF Tree, Typed, BootTables
<1>6. Place'
  <2>1. TablesAt(level)' = TablesAt(level)
    BY <1>1, <1>4 DEF TablesAt
  <2>2. QED
    BY <1>1, <1>2, <2>1 DEF Tree, Place
<1>7. GivenOut(k)'
  BY <1>1, <1>2, <1>3, <1>4 DEF Tree, GivenOut, FreeList, Entries, Accounted, Pending, Done
<1>8. QED
  BY <1>4, <1>5, <1>6, <1>7 DEF Tree

LEMMA Init0 == Init => IInv
  BY BootTree, IInvIs, Sequence

LEMMA Kept == IInv /\ [Next]_vars => IInv'
<1> SUFFICES ASSUME IInv, [Next]_vars, ~ oom' PROVE \E k \in 0 .. Len(FreeFrames) : Tree(k)'
  BY IInvIs DEF IInv, Lasting, Tree
<1>1. ~ oom
  BY DEF Next, Call, Step, vars
<1>2. PICK k \in 0 .. Len(FreeFrames) : Tree(k)
  BY <1>1, IInvIs
<1>3. CASE FillEntry
  BY <1>2, <1>3, FillTree
<1>4. CASE ~ FillEntry
  BY <1>2, <1>4, Steps, StillTree, CallTree, FollowTree, ClaimTree, ClearTree, LeafTree
<1>5. QED
  BY <1>3, <1>4

(* As long as memory lasts, the free list, the tree of tables and the step  *)
(* map_page_table is at belong together: each page palloc gave out is one   *)
(* table with one parent, and the rest are still linked in order.           *)
THEOREM Lasts == Spec => []IInv
<1>1. Init => IInv
  BY Init0
<1>2. IInv /\ [Next]_vars => IInv'
  BY Kept
<1>3. QED
  BY <1>1, <1>2, PTL DEF Spec

-----------------------------------------------------------------------------
(* As long as memory lasts, no two entries share a table, no level shares  *)
(* one with another, and no table is page 0, the root or still free        *)
(* (map_page_table and set_page_entry, on any machine).                    *)
THEOREM TreeFormed == Spec => []TablesFormTree
<1>1. IInv => TablesFormTree
  <2> SUFFICES ASSUME IInv, ~ oom PROVE TablesFormTree
    BY DEF TablesFormTree
  <2>1. PICK k \in 0 .. Len(FreeFrames) : Tree(k)
    BY IInvIs
  <2> DEFINE parents == UpperEntries(Tables4) \cup UpperEntries(Tables3) \cup UpperEntries(Tables2)
             child(tn) == ALIGN_DOWN(mem[tn[1]][tn[2]])
  <2>2. ASSUME NEW e \in parents
        PROVE  /\ e = <<e[1], e[2]>> /\ e[1] \in Upper3 /\ e[2] \in Index /\ Leads(e[1], e[2])
               /\ child(e) = Child(e[1], e[2])
    BY DEF UpperEntries, Upper3, Leads, Child
  <2> HIDE DEF parents, child
  <2>3. ASSUME NEW e \in parents, NEW f \in parents, child(e) = child(f) PROVE e = f
    <3>1. e[1] = f[1] /\ e[2] = f[2]
      BY <2>1, <2>2, <2>3 DEF Tree, OneParent
    <3>2. QED
      BY <2>2, <3>1
  <2>4. ASSUME NEW e \in parents PROVE child(e) \in Frames \ (FreePages \cup {0, cr3})
    <3>1. \/ child(e) = DirectMap
          \/ \E j \in 1 .. Done(k) : child(e) = FreeFrames[j]
      BY <2>1, <2>2, Families
    <3>2. DirectMap \in Frames /\ DirectMap \notin {0, Root} /\ cr3 = Root
      BY <2>1, AddressSpaceConstants DEF Tree, Typed
    <3>3. FreePages = {FreeFrames[j] : j \in k + 1 .. Len(FreeFrames)}
      BY <2>1, FreePagesAre DEF Tree, GivenOut
    <3>4. Len(FreeFrames) \in Nat /\ Done(k) <= k /\ Done(k) \in Int /\ k \in Nat
      BY Sequence DEF Done
    <3>5. \A j \in k + 1 .. Len(FreeFrames) : j \in Given
      BY <3>4 DEF Given
    <3>6. CASE child(e) = DirectMap
      BY <3>2, <3>3, <3>5, <3>6, Sequence
    <3>7. ASSUME NEW j \in 1 .. Done(k), child(e) = FreeFrames[j]
          PROVE  child(e) \in Frames \ (FreePages \cup {0, cr3})
      <4>1. j \in Given /\ \A i \in k + 1 .. Len(FreeFrames) : i # j
        BY <3>4 DEF Given
      <4>2. \A i \in k + 1 .. Len(FreeFrames) : FreeFrames[i] # FreeFrames[j]
        BY <3>5, <4>1, AddressSpaceConstants DEF Given
      <4>3. QED
        BY <3>2, <3>3, <3>7, <4>1, <4>2, Sequence
    <3>8. QED
      BY <3>1, <3>6, <3>7
  <2>5. QED
    BY <2>3, <2>4 DEF TablesFormTree, parents, child
<1>2. QED
  BY <1>1, Lasts, PTL

(* As long as memory lasts no page leaks: what palloc gave out is a table, *)
(* or about to be one (set_page_entry's call of palloc).                   *)
THEOREM PagesAccounted == Spec => []EveryPageAccounted
<1>1. IInv => EveryPageAccounted
  <2> SUFFICES ASSUME IInv, ~ oom, NEW j \in 1 .. Len(FreeFrames)
               PROVE  \/ FreeFrames[j] \in FreePages \cup Tables
                      \/ pc = "clear" /\ FreeFrames[j] = ALIGN_DOWN(entry)
    BY DEF EveryPageAccounted
  <2>1. PICK k \in 0 .. Len(FreeFrames) : Tree(k)
    BY IInvIs
  <2>2. Len(FreeFrames) \in Nat /\ k \in Nat
    BY Sequence
  <2>3. CASE j \in k + 1 .. Len(FreeFrames)
    BY <2>1, <2>3, FreePagesAre DEF Tree, GivenOut
  <2>4. CASE j \in 1 .. Done(k)
    BY <2>1, <2>4 DEF Tree, GivenOut, Accounted, Lower3, Tables
  <2>5. CASE j \notin k + 1 .. Len(FreeFrames) /\ j \notin 1 .. Done(k)
    <3>1. pc = "clear" /\ j = k
      BY <2>2, <2>5 DEF Done
    <3>2. mem[table][index] = 7 + FreeFrames[k] /\ k \in Given
      BY <2>1, <2>2, <3>1 DEF Tree, GivenOut, Pending, Given
    <3>3. ALIGN_DOWN(entry) = FreeFrames[k]
      BY <3>2, Sequence, FramesAre, Words DEF entry
    <3>4. QED
      BY <3>1, <3>3
  <2>6. QED
    BY <2>3, <2>4, <2>5
<1>2. QED
  BY <1>1, Lasts, PTL

(* As long as memory lasts map_page_table writes to no page but the boot   *)
(* loader's top table and pages palloc has given out: never to a free page *)
(* or to one that is somebody else's.                                      *)
THEOREM WritesOwnPages == Spec => OnlyTablesWritten
<1>1. IInv /\ [Next]_vars => [OwnPagesWritten]_vars
  <2> SUFFICES ASSUME IInv, Next, ~ oom, NEW f \in Frames, mem'[f] # mem[f]
               PROVE  f = Root \/ f \in PagesTaken
    BY DEF OwnPagesWritten, vars
  <2>1. PICK k \in 0 .. Len(FreeFrames) : Tree(k)
    BY IInvIs
  <2>2. mem \in [Frames -> [Index -> Nat]]
    BY <2>1 DEF Tree, Typed
  <2>3. ASSUME NEW j \in 1 .. k PROVE FreeFrames[j] \in PagesTaken
    <3>1. k \in Nat /\ Len(FreeFrames) \in Nat /\ j \in Given
      BY Sequence DEF Given
    <3>2. FreePages = {FreeFrames[i] : i \in k + 1 .. Len(FreeFrames)}
      BY <2>1, FreePagesAre DEF Tree, GivenOut
    <3>3. \A i \in k + 1 .. Len(FreeFrames) : i \in Given /\ i # j
      BY <3>1 DEF Given
    <3>4. \A i \in k + 1 .. Len(FreeFrames) : FreeFrames[i] # FreeFrames[j]
      BY <3>1, <3>3, AddressSpaceConstants DEF Given
    <3>5. QED
      BY <3>1, <3>2, <3>4 DEF PagesTaken, Given
  <2>4. ASSUME pc # "idle" PROVE table = Root \/ table \in PagesTaken
    <3>1. table \in Tables /\ table # DirectMap
      BY <2>1, <2>4, Here
    <3>2. Tables = {Root} \cup Lower3
      BY <2>1, Families DEF Tables, Lower3
    <3>3. table = Root \/ \E j \in 1 .. Done(k) : table = FreeFrames[j]
      BY <2>1, <3>1, <3>2, Families
    <3>4. \A j \in 1 .. Done(k) : j \in 1 .. k
      BY DEF Done
    <3>5. QED
      BY <2>3, <3>3, <3>4
  <2>5. ASSUME NEW w, pc # "idle", Store(table, index, w) PROVE f = table
    BY <2>2, <2>5 DEF Store
  <2>6. CASE ClaimEntry
    BY <2>4, <2>5, <2>6 DEF ClaimEntry, Upper
  <2>7. CASE FillEntryFromEmpty
    BY <2>4, <2>5, <2>7 DEF FillEntryFromEmpty
  <2>8. CASE FillEntry
    BY <2>4, <2>5, <2>8 DEF FillEntry
  <2>9. CASE WriteLeaf
    BY <2>4, <2>5, <2>9 DEF WriteLeaf
  <2>10. CASE ClearTable
    <3>1. k \in Given /\ mem' = [mem EXCEPT ![FreeFrames[k]] = [n \in Index |-> 0]]
      BY <2>1, <2>10, ClearTree
    <3>2. f = FreeFrames[k]
      BY <2>2, <3>1
    <3>3. k \in 1 .. k
      BY <3>1 DEF Given
    <3>4. QED
      BY <2>3, <3>2, <3>3
  <2>11. CASE Call \/ FollowEntry \/ AccessFaults
    BY <2>11 DEF Call, map_page_table, FollowEntry, AccessFaults, Fault
  <2>12. QED
    BY <2>6, <2>7, <2>8, <2>9, <2>10, <2>11 DEF Next, Step, map_page_table_step
<1>2. QED
  BY <1>1, Lasts, PTL DEF Spec, OnlyTablesWritten

-----------------------------------------------------------------------------
(* The way of a walk through the tree: which table of level l a walk for   *)
(* address v comes to.  It is settled by the address above that level's    *)
(* span, and two addresses that come to one entry lie in one span.         *)
Way3(v, t) == Leads(Root, TableIndex(4, v)) /\ t = Child(Root, TableIndex(4, v))
Way2(v, t) == \E u \in Frames : Way3(v, u) /\ Leads(u, TableIndex(3, v)) /\ t = Child(u, TableIndex(3, v))
Way1(v, t) == \E u \in Frames : Way2(v, u) /\ Leads(u, TableIndex(2, v)) /\ t = Child(u, TableIndex(2, v))

Way(l, v, t) ==
  /\ t \in Frames
  /\ IF l = 4 THEN t = Root ELSE IF l = 3 THEN Way3(v, t) ELSE IF l = 2 THEN Way2(v, t) ELSE Way1(v, t)

LEMMA Ways ==
  /\ \A v, t : Way(4, v, t) <=> t = Root
  /\ \A l \in 2 .. 4 : \A v, t :
       Way(l - 1, v, t) <=>
         /\ t \in Frames
         /\ \E u \in Frames : Way(l, v, u) /\ Leads(u, TableIndex(l, v)) /\ t = Child(u, TableIndex(l, v))
<1>1. Root \in Frames
  BY AddressSpaceConstants
<1>2. \A v, t : Way(4, v, t) <=> t = Root
  BY <1>1 DEF Way
<1>3. \A v, t : /\ Way(3, v, t) <=> t \in Frames /\ Way3(v, t)
                /\ Way(2, v, t) <=> t \in Frames /\ Way2(v, t)
                /\ Way(1, v, t) <=> t \in Frames /\ Way1(v, t)
  BY DEF Way
<1>4. ASSUME NEW l \in 2 .. 4, NEW v, NEW t
      PROVE  Way(l - 1, v, t) <=>
               /\ t \in Frames
               /\ \E u \in Frames : Way(l, v, u) /\ Leads(u, TableIndex(l, v)) /\ t = Child(u, TableIndex(l, v))
  <2>1. CASE l = 4
    <3>1. l - 1 = 3
      BY <2>1
    <3>2. QED
      BY <1>1, <1>2, <1>3, <2>1, <3>1 DEF Way3
  <2>2. CASE l = 3
    <3>1. l - 1 = 2
      BY <2>2
    <3>2. QED
      BY <1>3, <2>2, <3>1 DEF Way2
  <2>3. CASE l = 2
    <3>1. l - 1 = 1
      BY <2>3
    <3>2. QED
      BY <1>3, <2>3, <3>1 DEF Way1
  <2>4. QED
    BY <2>1, <2>2, <2>3
<1>5. QED
  BY <1>2, <1>4

LEMMA WayTables ==
  ASSUME cr3 = Root, NEW v \in Nat, NEW l \in 1 .. 4, NEW t, Way(l, v, t)
  PROVE  t \in TablesAt(l)
<1>1. \A i \in 1 .. 4 : TableIndex(i, v) \in Index
  BY Indices
<1>2. \A u : Way(4, v, u) => u \in Tables4
  BY Ways, TablesAre
<1>3. \A u : Way(3, v, u) => u \in Tables3
  <2>1. 4 \in 2 .. 4 /\ 4 - 1 = 3 /\ 4 \in 1 .. 4
    OBVIOUS
  <2>2. \A u : Way(3, v, u) => u \in Frames /\ \E w \in Frames :
          Way(4, v, w) /\ Leads(w, TableIndex(4, v)) /\ u = Child(w, TableIndex(4, v))
    BY <2>1, Ways
  <2>3. QED
    BY <1>1, <1>2, <2>1, <2>2, TablesAre
<1>4. \A u : Way(2, v, u) => u \in Tables2
  <2>1. 3 \in 2 .. 4 /\ 3 - 1 = 2 /\ 3 \in 1 .. 4
    OBVIOUS
  <2>2. \A u : Way(2, v, u) => u \in Frames /\ \E w \in Frames :
          Way(3, v, w) /\ Leads(w, TableIndex(3, v)) /\ u = Child(w, TableIndex(3, v))
    BY <2>1, Ways
  <2>3. QED
    BY <1>1, <1>3, <2>1, <2>2, TablesAre
<1>5. \A u : Way(1, v, u) => u \in Tables1
  <2>1. 2 \in 2 .. 4 /\ 2 - 1 = 1 /\ 2 \in 1 .. 4
    OBVIOUS
  <2>2. \A u : Way(1, v, u) => u \in Frames /\ \E w \in Frames :
          Way(2, v, w) /\ Leads(w, TableIndex(2, v)) /\ u = Child(w, TableIndex(2, v))
    BY <2>1, Ways
  <2>3. QED
    BY <1>1, <1>4, <2>1, <2>2, TablesAre
<1>6. l = 1 \/ l = 2 \/ l = 3 \/ l = 4
  OBVIOUS
<1>7. QED
  BY <1>2, <1>3, <1>4, <1>5, <1>6 DEF TablesAt

LEMMA SpanSplit ==
  ASSUME NEW l \in 1 .. 3, NEW v \in Nat
  PROVE  /\ v \div Span(l) = ENTRIES * (v \div Span(l + 1)) + TableIndex(l, v)
         /\ (v \div Span(l)) \div ENTRIES = v \div Span(l + 1)
<1> DEFINE E == ENTRIES
           S == Span(l)
           d == v \div S
           r == v % S
           q == d \div E
           m == d % E
<1>1. E \in Nat /\ E > 1 /\ S \in Nat /\ S > 0 /\ Span(l + 1) = E * S
  <2>1. l = 1 \/ l = 2 \/ l = 3
    OBVIOUS
  <2>2. QED
    BY <2>1, Spans, PagingConstants
<1> HIDE DEF E, S
<1>2. d \in Nat /\ r \in Nat /\ r < S /\ v = S * d + r
  BY <1>1
<1> HIDE DEF d, r
<1>3. q \in Nat /\ m \in Nat /\ m < E /\ d = E * q + m
  BY <1>1, <1>2
<1> HIDE DEF q, m
<1> DEFINE b == E * S
           a == S * m + r
<1>4. b \in Nat /\ b > 0 /\ a \in Nat
  BY <1>1, <1>2, <1>3
<1>5. a < b
  <2>1. m + 1 \in Nat /\ E - (m + 1) \in Nat
    BY <1>1, <1>3
  <2>2. S * (m + 1) = S * m + S
    BY <1>1, <1>3
  <2>3. S * E = S * (m + 1) + S * (E - (m + 1)) /\ S * (E - (m + 1)) \in Nat
    BY <1>1, <1>3, <2>1
  <2>4. S * E = E * S
    BY <1>1
  <2>5. QED
    BY <1>1, <1>2, <1>3, <2>2, <2>3, <2>4
<1>6. v = b * q + a
  <2>1. S * (E * q + m) = E * S * q + S * m
    BY <1>1, <1>3
  <2>2. QED
    BY <1>1, <1>2, <1>3, <2>1
<1> HIDE DEF a, b
<1>7. v \div b = q
  BY <1>3, <1>4, <1>5, <1>6, Divided
<1>8. v \div Span(l + 1) = q
  BY <1>1, <1>7 DEF b
<1>9. QED
  BY <1>3, <1>8 DEF E, S, d, q, m, TableIndex

LEMMA SameAbove ==
  ASSUME NEW l \in 1 .. 4, NEW v \in Nat, NEW w \in Nat, v \div Span(l) = w \div Span(l)
  PROVE  \A j \in l .. 4 : v \div Span(j) = w \div Span(j) /\ TableIndex(j, v) = TableIndex(j, w)
<1>1. \A i \in 1 .. 3 : v \div Span(i) = w \div Span(i) => v \div Span(i + 1) = w \div Span(i + 1)
  BY SpanSplit
<1>2. /\ v \div Span(1) = w \div Span(1) => v \div Span(2) = w \div Span(2)
      /\ v \div Span(2) = w \div Span(2) => v \div Span(3) = w \div Span(3)
      /\ v \div Span(3) = w \div Span(3) => v \div Span(4) = w \div Span(4)
  BY <1>1
<1>3. \A j \in l .. 4 : v \div Span(j) = w \div Span(j)
  BY <1>2
<1>4. QED
  BY <1>3 DEF TableIndex

LEMMA WaySame ==
  \A l \in 1 .. 4 : \A v, w \in Nat : \A t :
    v \div Span(l) = w \div Span(l) /\ Way(l, v, t) => Way(l, w, t) /\ TableIndex(l, v) = TableIndex(l, w)
<1> SUFFICES ASSUME NEW l \in 1 .. 4, NEW v \in Nat, NEW w \in Nat, NEW t, v \div Span(l) = w \div Span(l), Way(l, v, t)
             PROVE  Way(l, w, t) /\ TableIndex(l, v) = TableIndex(l, w)
  OBVIOUS
<1>1. \A j \in l .. 4 : TableIndex(j, v) = TableIndex(j, w)
  BY SameAbove
<1>2. l \in l .. 4
  OBVIOUS
<1>3. l < 4 => TableIndex(4, v) = TableIndex(4, w)
  BY <1>1
<1>4. l < 3 => TableIndex(3, v) = TableIndex(3, w)
  BY <1>1
<1>5. l < 2 => TableIndex(2, v) = TableIndex(2, w)
  BY <1>1
<1>6. Way3(v, t) /\ l < 4 => Way3(w, t)
  BY <1>3 DEF Way3
<1>7. Way2(v, t) /\ l < 3 => Way2(w, t)
  BY <1>3, <1>4 DEF Way3, Way2
<1>8. Way1(v, t) /\ l < 2 => Way1(w, t)
  BY <1>3, <1>4, <1>5 DEF Way3, Way2, Way1
<1>9. QED
  BY <1>1, <1>2, <1>6, <1>7, <1>8 DEF Way

LEMMA OneSpan ==
  ASSUME NEW k \in 0 .. Len(FreeFrames), Tree(k),
         NEW v \in 0 .. ENTRIES * Span(4) - 1, NEW w \in 0 .. ENTRIES * Span(4) - 1
  PROVE  \A l \in 1 .. 4 : \A t :
           Way(l, v, t) /\ Way(l, w, t) /\ TableIndex(l, v) = TableIndex(l, w) => v \div Span(l) = w \div Span(l)
<1> DEFINE Holds(l) == \A t : Way(l, v, t) /\ Way(l, w, t) /\ TableIndex(l, v) = TableIndex(l, w)
                               => v \div Span(l) = w \div Span(l)
<1>1. v \in Nat /\ w \in Nat
  <2> DEFINE s == ENTRIES * Span(4)
  <2>1. v \in 0 .. s - 1 /\ w \in 0 .. s - 1
    OBVIOUS
  <2>2. QED
    BY <2>1
<1>2. Holds(4)
  <2>1. ASSUME NEW x \in 0 .. ENTRIES * Span(4) - 1 PROVE TableIndex(4, x) = x \div Span(4)
    <3> DEFINE E == ENTRIES
               S == Span(4)
               s == E * S
               d == x \div S
    <3>1. E \in Nat /\ E > 1 /\ S \in Nat /\ S > 0
      BY Spans, PagingConstants
    <3>2. s \in Nat /\ x \in 0 .. s - 1
      BY <3>1
    <3>3. x \in Nat /\ x < E * S
      BY <3>2
    <3> HIDE DEF E, S
    <3>4. d \in Nat /\ S * d <= x
      BY <3>1, <3>3
    <3> HIDE DEF d
    <3>5. d < E
      <4>1. SUFFICES ASSUME d >= E PROVE FALSE
        BY <3>1, <3>4
      <4>2. d - E \in Nat
        BY <3>1, <3>4, <4>1
      <4>3. S * d = E * S + S * (d - E) /\ S * (d - E) \in Nat
        BY <3>1, <3>4, <4>2
      <4>4. QED
        BY <3>1, <3>3, <3>4, <4>3
    <3>6. d % E = d
      BY <3>1, <3>4, <3>5
    <3>7. QED
      BY <3>6 DEF TableIndex, E, S, d
  <2>2. QED
    BY <2>1
<1>3. ASSUME NEW l \in 2 .. 4, Holds(l) PROVE Holds(l - 1)
  <2>1. SUFFICES ASSUME NEW t, Way(l - 1, v, t), Way(l - 1, w, t), TableIndex(l - 1, v) = TableIndex(l - 1, w)
                 PROVE  v \div Span(l - 1) = w \div Span(l - 1)
    OBVIOUS
  <2>2. PICK u \in Frames : Way(l, v, u) /\ Leads(u, TableIndex(l, v)) /\ t = Child(u, TableIndex(l, v))
    BY <2>1, Ways
  <2>3. PICK x \in Frames : Way(l, w, x) /\ Leads(x, TableIndex(l, w)) /\ t = Child(x, TableIndex(l, w))
    BY <2>1, Ways
  <2>4. l \in 1 .. 4 /\ cr3 = Root
    BY DEF Tree, Typed
  <2>5. TableIndex(l, v) \in Index /\ TableIndex(l, w) \in Index
    BY <1>1, <2>4, Indices
  <2>6. u \in Upper3 /\ x \in Upper3
    <3>1. u \in TablesAt(l) /\ x \in TablesAt(l)
      BY <1>1, <2>2, <2>3, <2>4, WayTables
    <3>2. QED
      BY <3>1 DEF TablesAt, Upper3
  <2>7. u = x /\ TableIndex(l, v) = TableIndex(l, w)
    BY <2>2, <2>3, <2>5, <2>6 DEF Tree, OneParent
  <2>8. v \div Span(l) = w \div Span(l)
    BY <1>3, <2>2, <2>3, <2>7
  <2>9. l - 1 \in 1 .. 3 /\ l - 1 + 1 = l
    OBVIOUS
  <2>10. /\ v \div Span(l - 1) = ENTRIES * (v \div Span(l)) + TableIndex(l - 1, v)
         /\ w \div Span(l - 1) = ENTRIES * (w \div Span(l)) + TableIndex(l - 1, w)
    <3>1. /\ v \div Span(l - 1) = ENTRIES * (v \div Span(l - 1 + 1)) + TableIndex(l - 1, v)
          /\ w \div Span(l - 1) = ENTRIES * (w \div Span(l - 1 + 1)) + TableIndex(l - 1, w)
      BY <1>1, <2>9, SpanSplit
    <3>2. QED
      BY <2>9, <3>1
  <2>11. QED
    BY <2>1, <2>8, <2>10
<1> HIDE DEF Holds
<1>4. Holds(3)
  BY <1>2, <1>3
<1>5. Holds(2)
  BY <1>3, <1>4
<1>6. Holds(1)
  BY <1>3, <1>5
<1>7. \A l \in 1 .. 4 : l = 1 \/ l = 2 \/ l = 3 \/ l = 4
  OBVIOUS
<1>8. QED
  BY <1>2, <1>4, <1>5, <1>6, <1>7 DEF Holds

(* The four entries that the processor's walk looks at, and what the way   *)
(* through the tree says of them.                                          *)
E4(v) == EntryAt(mem, ALIGN_DOWN(cr3), 4, v)
E3(v) == EntryAt(mem, ALIGN_DOWN(E4(v)), 3, v)
E2(v) == EntryAt(mem, ALIGN_DOWN(E3(v)), 2, v)
E1(v) == EntryAt(mem, ALIGN_DOWN(E2(v)), 1, v)

LEMMA Walked ==
  \A v : Translate(v) =
    IF ~ Present(E4(v)) \/ ~ Present(E3(v)) THEN 0
    ELSE IF Large(E3(v)) THEN E3(v) + ALIGN_DOWN(v % Span(3))
    ELSE IF ~ Present(E2(v)) THEN 0
    ELSE IF Large(E2(v)) THEN E2(v) + ALIGN_DOWN(v % Span(2))
    ELSE IF Present(E1(v)) THEN E1(v) ELSE 0
  BY DEF Translate, TranslateIn, E4, E3, E2, E1

LEMMA WayEntries ==
  cr3 = Root => \A v \in Nat : \A u \in Frames :
    /\ Way(4, v, u) => E4(v) = mem[u][TableIndex(4, v)]
    /\ Way(3, v, u) => E3(v) = mem[u][TableIndex(3, v)] /\ Present(E4(v))
    /\ Way(2, v, u) => E2(v) = mem[u][TableIndex(2, v)] /\ Present(E4(v)) /\ Present(E3(v)) /\ ~ Large(E3(v))
    /\ Way(1, v, u) => /\ E1(v) = mem[u][TableIndex(1, v)] /\ Present(E4(v))
                       /\ Present(E3(v)) /\ ~ Large(E3(v)) /\ Present(E2(v)) /\ ~ Large(E2(v))
<1> SUFFICES ASSUME cr3 = Root, NEW v \in Nat
             PROVE  \A u \in Frames :
               /\ Way(4, v, u) => E4(v) = mem[u][TableIndex(4, v)]
               /\ Way(3, v, u) => E3(v) = mem[u][TableIndex(3, v)] /\ Present(E4(v))
               /\ Way(2, v, u) => E2(v) = mem[u][TableIndex(2, v)] /\ Present(E4(v)) /\ Present(E3(v)) /\ ~ Large(E3(v))
               /\ Way(1, v, u) => /\ E1(v) = mem[u][TableIndex(1, v)] /\ Present(E4(v))
                                  /\ Present(E3(v)) /\ ~ Large(E3(v)) /\ Present(E2(v)) /\ ~ Large(E2(v))
  OBVIOUS
<1>1. ALIGN_DOWN(Root) = Root /\ Root \in Frames
  BY AddressSpaceConstants, FramesAre, Words
<1>2. E4(v) = mem[Root][TableIndex(4, v)]
  BY <1>1 DEF E4, EntryAt
<1>3. ASSUME NEW u \in Frames, Way3(v, u)
      PROVE  E3(v) = mem[u][TableIndex(3, v)] /\ Present(E4(v))
  BY <1>2, <1>3 DEF Way3, Leads, Child, E3, EntryAt
<1>4. ASSUME NEW u \in Frames, Way2(v, u)
      PROVE  E2(v) = mem[u][TableIndex(2, v)] /\ Present(E4(v)) /\ Present(E3(v)) /\ ~ Large(E3(v))
  <2>1. PICK t \in Frames : Way3(v, t) /\ Leads(t, TableIndex(3, v)) /\ u = Child(t, TableIndex(3, v))
    BY <1>4 DEF Way2
  <2>2. E3(v) = mem[t][TableIndex(3, v)] /\ Present(E4(v))
    BY <1>3, <2>1
  <2>3. QED
    BY <2>1, <2>2 DEF Leads, Child, E2, EntryAt
<1>5. ASSUME NEW u \in Frames, Way1(v, u)
      PROVE  /\ E1(v) = mem[u][TableIndex(1, v)] /\ Present(E4(v))
             /\ Present(E3(v)) /\ ~ Large(E3(v)) /\ Present(E2(v)) /\ ~ Large(E2(v))
  <2>1. PICK t \in Frames : Way2(v, t) /\ Leads(t, TableIndex(2, v)) /\ u = Child(t, TableIndex(2, v))
    BY <1>5 DEF Way1
  <2>2. E2(v) = mem[t][TableIndex(2, v)] /\ Present(E4(v)) /\ Present(E3(v)) /\ ~ Large(E3(v))
    BY <1>4, <2>1
  <2>3. QED
    BY <2>1, <2>2 DEF Leads, Child, E1, EntryAt
<1>6. QED
  BY <1>2, <1>3, <1>4, <1>5 DEF Way

(* A way that ends at an entry that is not present ends in no mapping; one *)
(* that comes to level 1 ends in the entry there.                          *)
LEMMA DeadEnd ==
  cr3 = Root => \A l \in 1 .. 4, v \in Nat, u \in Frames :
    Way(l, v, u) /\ ~ Present(mem[u][TableIndex(l, v)]) => Translate(v) = 0
<1> SUFFICES ASSUME cr3 = Root, NEW l \in 1 .. 4, NEW v \in Nat, NEW u \in Frames,
                    Way(l, v, u), ~ Present(mem[u][TableIndex(l, v)])
             PROVE  Translate(v) = 0
  OBVIOUS
<1>1. l = 1 \/ l = 2 \/ l = 3 \/ l = 4
  OBVIOUS
<1>2. QED
  BY <1>1, WayEntries, Walked

LEMMA Arrive ==
  cr3 = Root => \A v \in Nat, u \in Frames :
    Way(1, v, u) => Translate(v) = IF Present(mem[u][TableIndex(1, v)]) THEN mem[u][TableIndex(1, v)] ELSE 0
  BY WayEntries, Walked

(* A walk that meets the same entries before and after a step, none of     *)
(* them in the making, translates alike.                                   *)
LEMMA SameTranslation ==
  ASSUME NEW k \in 0 .. Len(FreeFrames), Tree(k), cr3' = cr3, NEW v \in Nat,
         \A l \in 1 .. 4, u \in Frames :
           Way(l, v, u) => mem'[u][TableIndex(l, v)] = mem[u][TableIndex(l, v)] /\ ~ BeingFilled(u, TableIndex(l, v))
  PROVE  Translate(v)' = Translate(v)
<1>1. cr3 = Root /\ ALIGN_DOWN(Root) = Root /\ Root \in Frames
  BY AddressSpaceConstants, FramesAre, Words DEF Tree, Typed
<1>2. \A l \in 1 .. 4 : TableIndex(l, v) \in Index
  BY Indices
<1>3. ~ Present(0)
  BY FixedWords
<1>4. Way(4, v, Root)
  BY Ways
<1>5. E4(v) = mem[Root][TableIndex(4, v)] /\ E4(v)' = E4(v)
  BY <1>1, <1>4 DEF E4, EntryAt
<1>6. ASSUME Present(E4(v)), ALIGN_DOWN(E4(v)) \in Frames
      PROVE  Way(3, v, ALIGN_DOWN(E4(v)))
  <2>1. ~ BeingFilled(Root, TableIndex(4, v)) /\ Present(mem[Root][TableIndex(4, v)])
    BY <1>1, <1>4, <1>5, <1>6
  <2>2. ~ Large(mem[Root][TableIndex(4, v)])
    <3>1. Root \in Upper3 /\ Root # DirectMap /\ TableIndex(4, v) \in Index
      BY <1>1, <1>2, TablesAre, AddressSpaceConstants DEF Upper3
    <3>2. CASE TableIndex(4, v) = Hi
      BY <3>2, AddressSpaceConstants, FramesAre, Words DEF Tree, BootTables
    <3>3. CASE TableIndex(4, v) # Hi
      <4>1. PICK j \in 1 .. Done(k) : mem[Root][TableIndex(4, v)] = 7 + FreeFrames[j]
        BY <2>1, <3>1, <3>3 DEF Tree, GivenOut, Entries
      <4>2. j \in Given
        BY Sequence DEF Done, Given
      <4>3. QED
        BY <4>1, <4>2, Sequence, FramesAre, Words
    <3>4. QED
      BY <3>2, <3>3
  <2>3. Leads(Root, TableIndex(4, v)) /\ ALIGN_DOWN(E4(v)) = Child(Root, TableIndex(4, v))
    BY <1>5, <2>1, <2>2 DEF Leads, Child
  <2>4. QED
    BY <1>6, <2>3 DEF Way, Way3
<1>7. ASSUME Present(E4(v)) PROVE E3(v)' = E3(v)
  <2>1. CASE ALIGN_DOWN(E4(v)) \in Frames
    BY <1>5, <1>6, <1>7, <2>1 DEF E3, EntryAt
  <2>2. CASE ALIGN_DOWN(E4(v)) \notin Frames
    BY <1>5, <2>2 DEF E3, EntryAt
  <2>3. QED
    BY <2>1, <2>2
<1>8. ASSUME NEW l \in 2 .. 3, NEW u \in Frames, Way(l, v, u), NEW w, w = mem[u][TableIndex(l, v)],
             Present(w), ~ Large(w), ALIGN_DOWN(w) \in Frames
      PROVE  Way(l - 1, v, ALIGN_DOWN(w))
  <2>1. l \in 1 .. 4 /\ l \in 2 .. 4
    OBVIOUS
  <2>2. ~ BeingFilled(u, TableIndex(l, v))
    BY <1>8, <2>1
  <2>3. Leads(u, TableIndex(l, v)) /\ ALIGN_DOWN(w) = Child(u, TableIndex(l, v))
    BY <1>8, <2>2 DEF Leads, Child
  <2>4. QED
    BY <1>8, <2>1, <2>3, Ways
<1>9. ASSUME Present(E4(v)), Present(E3(v)), ~ Large(E3(v)), ALIGN_DOWN(E3(v)) \in Frames
       PROVE  Way(2, v, ALIGN_DOWN(E3(v)))
  <2>1. ALIGN_DOWN(E4(v)) \in Frames
    BY <1>3, <1>9 DEF E3, EntryAt
  <2>2. Way(3, v, ALIGN_DOWN(E4(v)))
    BY <1>6, <1>9, <2>1
  <2>3. E3(v) = mem[ALIGN_DOWN(E4(v))][TableIndex(3, v)]
    BY <2>1 DEF E3, EntryAt
  <2>4. Way(3 - 1, v, ALIGN_DOWN(E3(v)))
    BY <1>8, <1>9, <2>1, <2>2, <2>3
  <2>5. QED
    BY <2>4
<1>10. ASSUME Present(E4(v)), Present(E3(v)), ~ Large(E3(v)) PROVE E2(v)' = E2(v)
  <2>1. E3(v)' = E3(v)
    BY <1>7, <1>10
  <2>2. CASE ALIGN_DOWN(E3(v)) \in Frames
    BY <1>9, <1>10, <2>1, <2>2 DEF E2, EntryAt
  <2>3. CASE ALIGN_DOWN(E3(v)) \notin Frames
    BY <2>1, <2>3 DEF E2, EntryAt
  <2>4. QED
    BY <2>2, <2>3
<1>11. ASSUME Present(E4(v)), Present(E3(v)), ~ Large(E3(v)), Present(E2(v)), ~ Large(E2(v))
       PROVE  E1(v)' = E1(v)
  <2>1. E2(v)' = E2(v)
    BY <1>10, <1>11
  <2>2. CASE ALIGN_DOWN(E2(v)) \in Frames
    <3>1. ALIGN_DOWN(E3(v)) \in Frames
      BY <1>3, <1>11 DEF E2, EntryAt
    <3>2. Way(2, v, ALIGN_DOWN(E3(v)))
      BY <1>9, <1>11, <3>1
    <3>3. E2(v) = mem[ALIGN_DOWN(E3(v))][TableIndex(2, v)]
      BY <3>1 DEF E2, EntryAt
    <3>4. Way(2 - 1, v, ALIGN_DOWN(E2(v)))
      BY <1>8, <1>11, <2>2, <3>1, <3>2, <3>3
    <3>5. Way(1, v, ALIGN_DOWN(E2(v)))
      BY <3>4
    <3>6. QED
      BY <2>1, <2>2, <3>5 DEF E1, EntryAt
  <2>3. CASE ALIGN_DOWN(E2(v)) \notin Frames
    BY <2>1, <2>3 DEF E1, EntryAt
  <2>4. QED
    BY <2>2, <2>3
<1>12. Translate(v)' =
         IF ~ Present(E4(v)') \/ ~ Present(E3(v)') THEN 0
         ELSE IF Large(E3(v)') THEN E3(v)' + ALIGN_DOWN(v % Span(3))
         ELSE IF ~ Present(E2(v)') THEN 0
         ELSE IF Large(E2(v)') THEN E2(v)' + ALIGN_DOWN(v % Span(2))
         ELSE IF Present(E1(v)') THEN E1(v)' ELSE 0
  BY DEF Translate, TranslateIn, E4, E3, E2, E1
<1>13. QED
  BY <1>5, <1>7, <1>10, <1>11, <1>12, Walked

LEMMA WayKept ==
  ASSUME NEW k \in 0 .. Len(FreeFrames), Tree(k), Keeps, NEW v \in Nat
  PROVE  \A l \in 1 .. 4 : \A t : Way(l, v, t) => Way(l, v, t)'
<1>1. cr3 = Root
  BY DEF Tree, Typed
<1>2. /\ \A t : Way(4, v, t)' <=> t = Root
      /\ \A l \in 2 .. 4 : \A t :
           Way(l - 1, v, t)' <=>
             /\ t \in Frames
             /\ \E u \in Frames : Way(l, v, u)' /\ Leads(u, TableIndex(l, v))' /\ t = Child(u, TableIndex(l, v))'
  <2>1. Ways!:'
    BY Ways, PTL
  <2>2. QED
    BY <2>1
<1> DEFINE Kept1(l) == \A t : Way(l, v, t) => Way(l, v, t)'
<1>3. Kept1(4)
  BY <1>2, Ways
<1>4. ASSUME NEW l \in 2 .. 4, Kept1(l) PROVE Kept1(l - 1)
  <2>1. SUFFICES ASSUME NEW t, Way(l - 1, v, t) PROVE Way(l - 1, v, t)'
    OBVIOUS
  <2>2. PICK u \in Frames : Way(l, v, u) /\ Leads(u, TableIndex(l, v)) /\ t = Child(u, TableIndex(l, v))
    BY <2>1, Ways
  <2>3. u \in Upper3 /\ TableIndex(l, v) \in Index
    <3>1. l \in 1 .. 4
      OBVIOUS
    <3>2. u \in TablesAt(l)
      BY <1>1, <2>2, <3>1, WayTables
    <3>3. u \in Upper3
      BY <3>2 DEF TablesAt, Upper3
    <3>4. QED
      BY <3>1, <3>3, Indices
  <2>4. Leads(u, TableIndex(l, v))' /\ Child(u, TableIndex(l, v))' = t
    BY <2>2, <2>3 DEF Keeps
  <2>5. t \in Frames /\ Way(l, v, u)'
    BY <1>4, <2>1, <2>2 DEF Way
  <2>6. QED
    BY <1>2, <2>4, <2>5
<1> HIDE DEF Kept1
<1>5. Kept1(3)
  BY <1>3, <1>4
<1>6. Kept1(2)
  BY <1>4, <1>5
<1>7. Kept1(1)
  BY <1>4, <1>6
<1>8. \A l \in 1 .. 4 : l = 1 \/ l = 2 \/ l = 3 \/ l = 4
  OBVIOUS
<1>9. QED
  BY <1>3, <1>5, <1>6, <1>7, <1>8 DEF Kept1

-----------------------------------------------------------------------------
(* The second inductive invariant: a call stands on the way of its own     *)
(* address.                                                                *)
OnItsWay == oom \in BOOLEAN /\ (~ oom /\ pc # "idle" => Way(level, op.virtual_addr, table))

LEMMA Addresses ==
  ASSUME NEW k, Tree(k)
  PROVE  op.virtual_addr \in Nat /\ op.virtual_addr \in 0 .. ENTRIES * Span(4) - 1 /\ level \in 1 .. 4
<1> DEFINE w == ENTRIES * Span(4)
<1>1. op.virtual_addr \in 0 .. w - 1 /\ level \in 1 .. 4
  BY DEF Tree, Typed
<1>2. QED
  BY <1>1

LEMMA OneDown ==
  ASSUME NEW k \in 0 .. Len(FreeFrames), Tree(k), Keeps, NEW v \in Nat,
         level \in 2 .. 4, Way(level, v, table), NEW f \in Frames,
         \A t, n : t = table /\ n = TableIndex(level, v) => Leads(t, n)' /\ Child(t, n)' = f
  PROVE  \A l : l = level - 1 => Way(l, v, f)'
<1> SUFFICES ASSUME NEW l, l = level - 1 PROVE Way(l, v, f)'
  OBVIOUS
<1>1. PICK m \in 2 .. 4 : m = level
  OBVIOUS
<1>2. PICK t \in Frames : t = table /\ Way(m, v, t)
  BY <1>1 DEF Way
<1>3. Leads(t, TableIndex(m, v))' /\ Child(t, TableIndex(m, v))' = f
  BY <1>1, <1>2
<1>4. Way(m, v, t)'
  BY <1>2, WayKept
<1>5. \A x : Way(m - 1, v, x)' <=>
             /\ x \in Frames
             /\ \E u \in Frames : Way(m, v, u)' /\ Leads(u, TableIndex(m, v))' /\ x = Child(u, TableIndex(m, v))'
  <2>1. Ways!:'
    BY Ways, PTL
  <2>2. QED
    BY <2>1
<1>6. Way(m - 1, v, f)'
  BY <1>3, <1>4, <1>5
<1>7. l = m - 1
  BY <1>1
<1>8. QED
  BY <1>6, <1>7

LEMMA StaysOnItsWay == IInv /\ OnItsWay /\ [Next]_vars => OnItsWay'
<1> SUFFICES ASSUME IInv, OnItsWay, [Next]_vars PROVE OnItsWay'
  OBVIOUS
<1>1. oom' \in BOOLEAN /\ (~ oom' => ~ oom)
  BY DEF OnItsWay, Next, Call, Step, vars
<1> SUFFICES ASSUME ~ oom', pc' # "idle"
             PROVE  \A l, v, t : l = level' /\ v = op'.virtual_addr /\ t = table' => Way(l, v, t)'
  BY <1>1 DEF OnItsWay
<1>2. PICK k \in 0 .. Len(FreeFrames) : Tree(k)
  BY <1>1, IInvIs
<1>3. pc # "idle" => Way(level, op.virtual_addr, table)
  BY <1>1 DEF OnItsWay
<1>4. op.virtual_addr \in Nat /\ level \in 1 .. 4
  BY <1>2, Addresses
<1>5. ASSUME pc # "idle", Keeps, UNCHANGED <<op, level, table>>
      PROVE  \A l, v, t : l = level' /\ v = op'.virtual_addr /\ t = table' => Way(l, v, t)'
  BY <1>2, <1>3, <1>4, <1>5, WayKept
<1>6. CASE UNCHANGED pvars
  <2>1. UNCHANGED <<mem, pc, op, level, table>>
    BY <1>6 DEF pvars
  <2>2. index' = index
    BY <2>1 DEF index
  <2>3. Keeps
    BY <2>1, <2>2 DEF Keeps, Leads, Child, BeingFilled
  <2>4. QED
    BY <1>5, <2>1, <2>3
<1>7. ASSUME NEW r \in Requests, map_page_table(r.physical_addr, r.virtual_addr, r.flags)
      PROVE  \A l, v, t : l = level' /\ v = op'.virtual_addr /\ t = table' => Way(l, v, t)'
  <2>1. level' = 4 /\ table' = Root
    BY <1>2, <1>7 DEF map_page_table, Tree, Typed
  <2>2. Root \in Frames
    BY AddressSpaceConstants
  <2>3. QED
    BY <2>1, <2>2 DEF Way
<1>8. CASE FollowEntry
  <2>1. Keeps /\ Leads(table, index) /\ Child(table, index) = table' /\ UNCHANGED op /\ level' = level - 1
        /\ pc # "idle" /\ level > 1
    BY <1>2, <1>8, FollowTree DEF FollowEntry, Upper
  <2>2. table \in Upper3 /\ index \in Index
    BY <1>2, <2>1, Here
  <2>3. table' \in Frames
    <3>1. table' = DirectMap \/ \E j \in 1 .. Done(k) : table' = FreeFrames[j]
      BY <1>2, <2>1, <2>2, Families
    <3>2. \A j \in 1 .. Done(k) : j \in Given
      BY Sequence DEF Done, Given
    <3>3. QED
      BY <3>1, <3>2, Sequence, AddressSpaceConstants
  <2>4. \A t, n : t = table /\ n = TableIndex(level, op.virtual_addr) => Leads(t, n)' /\ Child(t, n)' = table'
    BY <2>1, <2>2 DEF Keeps, index
  <2>5. level \in 2 .. 4
    BY <1>4, <2>1
  <2>6. PICK v \in Nat : v = op.virtual_addr
    BY <1>4
  <2>7. PICK f \in Frames : f = table'
    BY <2>3
  <2>8. \A l : l = level - 1 => Way(l, v, f)'
    BY <1>2, <1>3, <2>1, <2>4, <2>5, <2>6, <2>7, OneDown
  <2>9. QED
    BY <2>1, <2>6, <2>7, <2>8
<1>9. CASE ClaimEntry
  BY <1>2, <1>5, <1>9, ClaimTree DEF ClaimEntry, Upper
<1>10. CASE FillEntry
  BY <1>2, <1>5, <1>10, FillTree DEF FillEntry
<1>11. CASE ClearTable
  <2>1. /\ Keeps /\ k \in Given /\ table' = FreeFrames[k] /\ UNCHANGED op /\ level' = level - 1 /\ pc # "idle"
        /\ \A t, n : t = table /\ n = index => Leads(t, n)' /\ Child(t, n)' = FreeFrames[k]
    BY <1>2, <1>11, ClearTree DEF ClearTable
  <2>2. level \in 2 .. 4
    BY <1>2, <1>4, <1>11 DEF ClearTable, Tree, Place
  <2>3. FreeFrames[k] \in Frames
    BY <2>1, Sequence
  <2>4. PICK v \in Nat : v = op.virtual_addr
    BY <1>4
  <2>5. \A t, n : t = table /\ n = TableIndex(level, v) => Leads(t, n)' /\ Child(t, n)' = FreeFrames[k]
    BY <2>1, <2>4 DEF index
  <2>6. \A l : l = level - 1 => Way(l, v, FreeFrames[k])'
    BY <1>2, <1>3, <2>1, <2>2, <2>3, <2>4, <2>5, OneDown
  <2>7. QED
    BY <2>1, <2>4, <2>6
<1>12. CASE WriteLeaf
  BY <1>12 DEF WriteLeaf
<1>13. QED
  BY <1>2, <1>6, <1>7, <1>8, <1>9, <1>10, <1>11, <1>12, Steps

LEMMA AlwaysOnItsWay == Spec => []OnItsWay
<1>1. Init => OnItsWay
  BY DEF Init, OnItsWay
<1>2. QED
  BY <1>1, StaysOnItsWay, Lasts, PTL DEF Spec

-----------------------------------------------------------------------------
(* The address space that the tables show, and that a step of a call       *)
(* changes at most the page it is for.                                     *)
Shown(v) == IF BeingMade(v) THEN 0 ELSE Translate(v)

LEMMA Pages ==
  /\ \A v \in VirtualPages : v \in Nat /\ v \in 0 .. ENTRIES * Span(4) - 1
  /\ \A a \in 0 .. ENTRIES * Span(4) - 1 :
       /\ ALIGN_DOWN(a) \in VirtualPages /\ ALIGN_DOWN(a) \div Span(1) = a \div Span(1)
       /\ \A v \in VirtualPages : v \div Span(1) = a \div Span(1) => v = ALIGN_DOWN(a)
<1> DEFINE W == ENTRIES * Span(4)
           c == ENTRIES * (ENTRIES * (ENTRIES * ENTRIES))
<1>1. ENTRIES \in Nat /\ ENTRIES > 1 /\ Span(1) = 4096
  BY Spans, PagingConstants DEF PAGE_SIZE
<1>2. c \in Nat /\ c > 0 /\ W = 4096 * c
  <2> DEFINE E == ENTRIES
  <2>1. E * E \in Nat /\ E * E > 0 /\ E * (E * E) \in Nat /\ E * (E * E) > 0 /\ E * (E * (E * E)) \in Nat /\ E * (E * (E * E)) > 0
    BY <1>1
  <2>2. Span(4) = E * (E * (E * 4096))
    BY <1>1, Spans
  <2>3. E * (E * (E * (E * 4096))) = 4096 * (E * (E * (E * E)))
    BY <1>1
  <2>4. QED
    BY <2>1, <2>2, <2>3
<1> HIDE DEF c, W
<1>3. W \div 4096 = c
  BY <1>2
<1>4. VirtualPages = {4096 * n : n \in 0 .. c - 1}
  BY <1>3 DEF VirtualPages, W, PAGE_SIZE
<1>5. ASSUME NEW v \in VirtualPages PROVE v \in Nat /\ v \in 0 .. W - 1 /\ v = 4096 * (v \div 4096)
  <2>1. PICK n \in 0 .. c - 1 : v = 4096 * n
    BY <1>4
  <2>2. QED
    BY <1>2, <2>1
<1>6. ASSUME NEW a \in 0 .. W - 1
      PROVE  ALIGN_DOWN(a) \in VirtualPages /\ ALIGN_DOWN(a) \div 4096 = a \div 4096 /\ ALIGN_DOWN(a) = 4096 * (a \div 4096)
  <2>1. a \div 4096 \in 0 .. c - 1
    BY <1>2
  <2>2. ALIGN_DOWN(a) = 4096 * (a \div 4096)
    BY <2>1 DEF ALIGN_DOWN, PAGE_SIZE
  <2>3. QED
    BY <1>4, <2>1, <2>2
<1>7. QED
  BY <1>1, <1>5, <1>6 DEF W

LEMMA OneLevel ==
  ASSUME NEW k \in 0 .. Len(FreeFrames), Tree(k),
         NEW l \in 1 .. 4, NEW m \in 1 .. 4, NEW t, t \in TablesAt(l), t \in TablesAt(m)
  PROVE  l = m
<1>1. Tables4 = {Root} /\ Root \notin Lower3
  BY Families
<1>2. (\A x \in Tables2 : x \notin Tables3) /\ (\A x \in Tables1 : x \notin Upper3)
  BY Levels
<1>3. (l = 1 \/ l = 2 \/ l = 3 \/ l = 4) /\ (m = 1 \/ m = 2 \/ m = 3 \/ m = 4)
  OBVIOUS
<1>4. QED
  BY <1>1, <1>2, <1>3 DEF TablesAt, Lower3, Upper3

(* A walk for a page outside the span of the call never meets its entry.   *)
LEMMA OffTheWay ==
  ASSUME NEW k \in 0 .. Len(FreeFrames), Tree(k), pc # "idle", Way(level, op.virtual_addr, table),
         NEW v \in VirtualPages, v \div Span(level) # op.virtual_addr \div Span(level),
         NEW l \in 1 .. 4, NEW u \in Frames, Way(l, v, u)
  PROVE  ~ (u = table /\ TableIndex(l, v) = index)
<1> SUFFICES ASSUME u = table, TableIndex(l, v) = index PROVE FALSE
  OBVIOUS
<1>1. v \in Nat /\ v \in 0 .. ENTRIES * Span(4) - 1 /\ op.virtual_addr \in Nat
      /\ op.virtual_addr \in 0 .. ENTRIES * Span(4) - 1 /\ level \in 1 .. 4
  BY Pages, Addresses
<1>2. cr3 = Root
  BY DEF Tree, Typed
<1>3. l = level
  <2>1. u \in TablesAt(l) /\ u \in TablesAt(level)
    BY <1>1, <1>2, WayTables
  <2>2. QED
    BY <1>1, <2>1, OneLevel
<1>4. Way(l, op.virtual_addr, u) /\ TableIndex(l, op.virtual_addr) = index
  BY <1>3 DEF index
<1>5. QED
  BY <1>1, <1>3, <1>4, OneSpan

LEMMA ElsewhereSame ==
  ASSUME NEW k \in 0 .. Len(FreeFrames), Tree(k), pc # "idle", Way(level, op.virtual_addr, table), cr3' = cr3,
         \A f \in Tables, n \in Index : ~ (f = table /\ n = index) => mem'[f][n] = mem[f][n],
         NEW v \in VirtualPages, v \div Span(level) # op.virtual_addr \div Span(level)
  PROVE  Translate(v)' = Translate(v)
<1>1. v \in Nat /\ cr3 = Root
  BY Pages DEF Tree, Typed
<1>2. ASSUME NEW l \in 1 .. 4, NEW u \in Frames, Way(l, v, u)
      PROVE  mem'[u][TableIndex(l, v)] = mem[u][TableIndex(l, v)] /\ ~ BeingFilled(u, TableIndex(l, v))
  <2>1. ~ (u = table /\ TableIndex(l, v) = index)
    BY <1>2, OffTheWay
  <2>2. u \in Tables /\ TableIndex(l, v) \in Index
    BY <1>1, <1>2, WayTables, Indices DEF TablesAt, Tables
  <2>3. QED
    BY <2>1, <2>2 DEF BeingFilled
<1>3. QED
  BY <1>1, <1>2, SameTranslation

(* A page inside the span of the call has the call's way.                  *)
LEMMA OnTheWay ==
  ASSUME NEW k \in 0 .. Len(FreeFrames), Tree(k), Way(level, op.virtual_addr, table),
         NEW v \in VirtualPages, v \div Span(level) = op.virtual_addr \div Span(level)
  PROVE  v \in Nat /\ Way(level, v, table) /\ TableIndex(level, v) = index
<1>1. v \in Nat /\ op.virtual_addr \in Nat /\ level \in 1 .. 4
  BY Pages, Addresses
<1>2. QED
  BY <1>1, WaySame DEF index

LEMMA ClaimShows ==
  ASSUME NEW k \in 0 .. Len(FreeFrames), Tree(k), Way(level, op.virtual_addr, table), ClaimEntry, NEW v \in VirtualPages
  PROVE  Shown(v)' = Shown(v)
<1>1. /\ pc = "walk" /\ pc' = "fill" /\ ~ Present(mem[table][index]) /\ Store(table, index, 7)
      /\ UNCHANGED <<cr3, pml4, op, level, table>>
  <2>1. PAGE_PRESENT + PAGE_READ_WRITE + PAGE_USER_SUPERVISOR = 7
    BY DEF PAGE_PRESENT, PAGE_READ_WRITE, PAGE_USER_SUPERVISOR
  <2>2. QED
    BY <2>1 DEF ClaimEntry, Upper, Missing, entry
<1>2. ~ BeingMade(v) /\ (BeingMade(v)' <=> v \div Span(level) = op.virtual_addr \div Span(level))
  BY <1>1 DEF BeingMade
<1>3. CASE v \div Span(level) = op.virtual_addr \div Span(level)
  <2>1. v \in Nat /\ Way(level, v, table) /\ TableIndex(level, v) = index
    BY <1>3, OnTheWay
  <2>2. level \in 1 .. 4 /\ table \in Frames /\ cr3 = Root
    BY <1>1, Here, Addresses DEF Tree, Typed
  <2>3. Translate(v) = 0
    BY <1>1, <2>1, <2>2, DeadEnd
  <2>4. QED
    BY <1>2, <1>3, <2>3 DEF Shown
<1>4. CASE v \div Span(level) # op.virtual_addr \div Span(level)
  <2>1. \A f \in Tables, n \in Index : ~ (f = table /\ n = index) => mem'[f][n] = mem[f][n]
    BY <1>1, TableWritten, Families
  <2>2. Translate(v)' = Translate(v)
    BY <1>1, <1>4, <2>1, ElsewhereSame
  <2>3. QED
    BY <1>2, <1>4, <2>2 DEF Shown
<1>5. QED
  BY <1>3, <1>4

LEMMA FillShows ==
  ASSUME NEW k \in 0 .. Len(FreeFrames), Tree(k), Way(level, op.virtual_addr, table), FillEntry, NEW v \in VirtualPages
  PROVE  Shown(v)' = Shown(v)
<1>1. /\ pc = "fill" /\ pc' = "clear" /\ UNCHANGED <<cr3, pml4, op, level, table>>
      /\ Store(table, index, entry + ALIGN_DOWN(mem[free_mem_head - hhdm][0]))
  BY DEF FillEntry
<1>2. /\ BeingMade(v) <=> v \div Span(level) = op.virtual_addr \div Span(level)
      /\ BeingMade(v)' <=> v \div Span(level) = op.virtual_addr \div Span(level)
  BY <1>1 DEF BeingMade
<1>3. CASE v \div Span(level) = op.virtual_addr \div Span(level)
  BY <1>2, <1>3 DEF Shown
<1>4. CASE v \div Span(level) # op.virtual_addr \div Span(level)
  <2>1. \A f \in Tables, n \in Index : ~ (f = table /\ n = index) => mem'[f][n] = mem[f][n]
    BY <1>1, Families DEF Store, Tree, Typed
  <2>2. Translate(v)' = Translate(v)
    BY <1>1, <1>4, <2>1, ElsewhereSame
  <2>3. QED
    BY <1>2, <1>4, <2>2 DEF Shown
<1>5. QED
  BY <1>3, <1>4

LEMMA ClearShows ==
  ASSUME NEW k \in 0 .. Len(FreeFrames), Tree(k), Way(level, op.virtual_addr, table), ClearTable, NEW v \in VirtualPages
  PROVE  Shown(v)' = Shown(v)
<1> DEFINE f == FreeFrames[k]
<1>1. /\ pc = "clear" /\ pc' = "walk" /\ level' = level - 1 /\ level \in 2 .. 4 /\ UNCHANGED <<cr3, op>>
  BY Addresses DEF ClearTable, Tree, Place
<1>2. /\ Keeps /\ k \in Given /\ f \notin Tables
      /\ mem' = [mem EXCEPT ![f] = [n \in Index |-> 0]]
      /\ \A t, n : t = table /\ n = index => Leads(t, n)' /\ Child(t, n)' = f
  BY ClearTree
<1>3. f \in Frames /\ mem \in [Frames -> [Index -> Nat]] /\ cr3 = Root
  BY <1>2, Sequence DEF Tree, Typed
<1> HIDE DEF f
<1>4. (BeingMade(v) <=> v \div Span(level) = op.virtual_addr \div Span(level)) /\ ~ BeingMade(v)'
  BY <1>1 DEF BeingMade
<1>5. CASE v \div Span(level) = op.virtual_addr \div Span(level)
  <2>1. v \in Nat /\ Way(level, v, table) /\ TableIndex(level, v) = index
    BY <1>5, OnTheWay
  <2>2. \A t, n : t = table /\ n = TableIndex(level, v) => Leads(t, n)' /\ Child(t, n)' = f
    BY <1>2, <2>1
  <2>3. PICK l \in 1 .. 3 : l = level - 1
    BY <1>1
  <2>4. Way(l, v, f)'
    BY <1>1, <1>2, <1>3, <2>1, <2>2, <2>3, OneDown
  <2>5. ~ Present(mem'[f][TableIndex(l, v)])
    <3>1. l \in 1 .. 4
      OBVIOUS
    <3>2. TableIndex(l, v) \in Index
      BY <2>1, <3>1, Indices
    <3>3. QED
      BY <1>2, <1>3, <3>2, FixedWords
  <2>6. Translate(v)' = 0
    <3>1. DeadEnd!:'
      BY DeadEnd, PTL
    <3>2. l \in 1 .. 4
      OBVIOUS
    <3>3. QED
      BY <1>1, <1>3, <2>1, <2>4, <2>5, <3>1, <3>2
  <2>7. QED
    BY <1>4, <1>5, <2>6 DEF Shown
<1>6. CASE v \div Span(level) # op.virtual_addr \div Span(level)
  <2>1. \A g \in Tables, n \in Index : ~ (g = table /\ n = index) => mem'[g][n] = mem[g][n]
    BY <1>2, <1>3, Families
  <2>2. Translate(v)' = Translate(v)
    BY <1>1, <1>6, <2>1, ElsewhereSame
  <2>3. QED
    BY <1>4, <1>6, <2>2 DEF Shown
<1>7. QED
  BY <1>5, <1>6

LEMMA LeafShows ==
  ASSUME NEW k \in 0 .. Len(FreeFrames), Tree(k), Way(level, op.virtual_addr, table), WriteLeaf, NEW v \in VirtualPages
  PROVE  Shown(v)' = IF v = ALIGN_DOWN(op.virtual_addr)
                     THEN IF Present(NewLeaf) THEN NewLeaf ELSE 0
                     ELSE Shown(v)
<1>1. /\ pc = "walk" /\ pc' = "idle" /\ level = 1 /\ Store(table, index, NewLeaf) /\ UNCHANGED <<cr3, op, level, table>>
  BY DEF WriteLeaf
<1>2. ~ BeingMade(v) /\ ~ BeingMade(v)'
  BY <1>1 DEF BeingMade
<1>3. /\ table \in Frames /\ index \in Index /\ cr3 = Root /\ mem \in [Frames -> [Index -> Nat]]
      /\ op.virtual_addr \in 0 .. ENTRIES * Span(4) - 1
  BY <1>1, Here, Addresses DEF Tree, Typed
<1>4. CASE v \div Span(level) = op.virtual_addr \div Span(level)
  <2>1. v = ALIGN_DOWN(op.virtual_addr)
    BY <1>1, <1>3, <1>4, Pages
  <2>2. v \in Nat /\ Way(1, v, table) /\ TableIndex(1, v) = index
    BY <1>1, <1>4, OnTheWay
  <2>3. PICK t \in Frames : t = table
    BY <1>3
  <2>4. Way(1, v, t)'
    BY <2>2, <2>3, LeafTree, WayKept
  <2>5. mem'[t][TableIndex(1, v)] = NewLeaf
    BY <1>1, <1>3, <2>2, <2>3 DEF Store
  <2>6. Translate(v)' = IF Present(NewLeaf) THEN NewLeaf ELSE 0
    <3>1. Arrive!:'
      BY Arrive, PTL
    <3>2. QED
      BY <1>1, <1>3, <2>2, <2>4, <2>5, <3>1
  <2>7. QED
    BY <1>2, <2>1, <2>6 DEF Shown
<1>5. CASE v \div Span(level) # op.virtual_addr \div Span(level)
  <2>1. v # ALIGN_DOWN(op.virtual_addr)
    BY <1>1, <1>3, <1>5, Pages
  <2>2. \A f \in Tables, n \in Index : ~ (f = table /\ n = index) => mem'[f][n] = mem[f][n]
    BY <1>1, <1>3, Families DEF Store
  <2>3. Translate(v)' = Translate(v)
    BY <1>1, <1>5, <2>2, ElsewhereSame
  <2>4. QED
    BY <1>2, <2>1, <2>3 DEF Shown
<1>6. QED
  BY <1>4, <1>5

LEMMA InitIsSpaceInit == Init => Space!Init
  BY DEF Init, Space!Init, Space!Idle

LEMMA StepIsSpaceStep == IInv /\ OnItsWay /\ [Next]_vars => [Space!Next]_Space!vars
<1> SUFFICES ASSUME IInv, OnItsWay, [Next]_vars PROVE [Space!Next]_Space!vars
  OBVIOUS
<1> DEFINE M == [v \in VirtualPages |-> IF BeingMade(v) THEN 0 ELSE Translate(v)]
           Q == IF pc \in {"idle", "fault"} THEN << >>
                ELSE <<ALIGN_DOWN(op.virtual_addr), IF Present(NewLeaf) THEN NewLeaf ELSE 0>>
<1>1. CASE oom'
  <2>1. oom' = TRUE
    BY <1>1 DEF OnItsWay, Next, Call, Step, vars
  <2>2. QED
    BY <2>1 DEF Space!Lapse, Space!Next
<1>2. CASE ~ oom'
  <2>1. ~ oom /\ oom' = oom
    BY <1>2 DEF OnItsWay, Next, Call, Step, vars
  <2>2. PICK k \in 0 .. Len(FreeFrames) : Tree(k)
    BY <2>1, IInvIs
  <2>3. pc # "idle" => Way(level, op.virtual_addr, table)
    BY <2>1 DEF OnItsWay
  <2>4. pc \in {"idle", "walk", "fill", "clear"}
    BY <2>2 DEF Tree, Typed
  <2>5. M = [v \in VirtualPages |-> Shown(v)] /\ M' = [v \in VirtualPages |-> Shown(v)']
    BY DEF Shown
  <2>6. ASSUME \A v \in VirtualPages : Shown(v)' = Shown(v) PROVE M' = M
    BY <2>5, <2>6
  <2>7. ASSUME M' = M, Q' = Q PROVE UNCHANGED Space!vars
    BY <2>1, <2>7 DEF Space!vars
  <2>8. ASSUME UNCHANGED <<op, pc>> PROVE Q' = Q
    BY <2>8 DEF NewLeaf
  <2>9. ASSUME pc \in {"walk", "fill", "clear"}, pc' \in {"walk", "fill", "clear"}, op' = op PROVE Q' = Q
    BY <2>9 DEF NewLeaf
  <2>10. ASSUME UNCHANGED <<mem, cr3>>, pc \in {"idle", "walk"}, pc' \in {"idle", "walk"} PROVE M' = M
    BY <2>10 DEF BeingMade, Translate
  <2> HIDE DEF M, Q
  <2>11. CASE UNCHANGED pvars
    <3>1. M' = M /\ Q' = Q
      BY <2>11 DEF M, Q, pvars, BeingMade, Translate, NewLeaf
    <3>2. QED
      BY <2>7, <3>1
  <2>12. ASSUME NEW r \in Requests, map_page_table(r.physical_addr, r.virtual_addr, r.flags)
         PROVE  [Space!Next]_Space!vars
    <3>1. pc = "idle" /\ pc' = "walk" /\ UNCHANGED <<mem, cr3>>
      BY <2>12 DEF map_page_table
    <3>2. M' = M
      BY <2>10, <3>1
    <3>3. Q = << >> /\ Q' # << >>
      BY <3>1 DEF Q
    <3>4. Space!Ask
      BY <2>1, <3>2, <3>3 DEF Space!Ask, Space!Idle, M, Q
    <3>5. QED
      BY <3>4 DEF Space!Next
  <2>13. CASE FollowEntry
    <3>1. pc = "walk" /\ UNCHANGED <<mem, cr3, op, pc>>
      BY <2>13 DEF FollowEntry, Upper
    <3>2. QED
      BY <2>7, <2>8, <2>10, <3>1
  <2>14. CASE ClaimEntry
    <3>1. pc = "walk" /\ pc' = "fill" /\ op' = op
      BY <2>14 DEF ClaimEntry, Upper
    <3>2. \A v \in VirtualPages : Shown(v)' = Shown(v)
      BY <2>2, <2>3, <2>14, <3>1, ClaimShows
    <3>3. QED
      BY <2>6, <2>7, <2>9, <3>1, <3>2
  <2>15. CASE FillEntry
    <3>1. pc = "fill" /\ pc' = "clear" /\ op' = op
      BY <2>15 DEF FillEntry
    <3>2. \A v \in VirtualPages : Shown(v)' = Shown(v)
      BY <2>2, <2>3, <2>15, <3>1, FillShows
    <3>3. QED
      BY <2>6, <2>7, <2>9, <3>1, <3>2
  <2>16. CASE ClearTable
    <3>1. pc = "clear" /\ pc' = "walk" /\ op' = op
      BY <2>16 DEF ClearTable
    <3>2. \A v \in VirtualPages : Shown(v)' = Shown(v)
      BY <2>2, <2>3, <2>16, <3>1, ClearShows
    <3>3. QED
      BY <2>6, <2>7, <2>9, <3>1, <3>2
  <2>17. CASE WriteLeaf
    <3> DEFINE p == ALIGN_DOWN(op.virtual_addr)
               e == IF Present(NewLeaf) THEN NewLeaf ELSE 0
    <3>1. pc = "walk" /\ pc' = "idle"
      BY <2>17 DEF WriteLeaf
    <3>2. Q = <<p, e>> /\ Q' = << >>
      BY <3>1 DEF Q
    <3>3. \A v \in VirtualPages : Shown(v)' = IF v = p THEN e ELSE Shown(v)
      BY <2>2, <2>3, <2>17, <3>1, LeafShows
    <3> HIDE DEF p, e
    <3>4. M' = [M EXCEPT ![Q[1]] = Q[2]]
      <4>1. Q[1] = p /\ Q[2] = e
        BY <3>2
      <4>2. M' = [M EXCEPT ![p] = e]
        BY <2>5, <3>3
      <4>3. QED
        BY <4>1, <4>2
    <3>5. Q # << >>
      BY <3>2
    <3>6. Space!Map
      BY <2>1, <3>2, <3>4, <3>5 DEF Space!Map, Space!Idle, M, Q
    <3>7. QED
      BY <3>6 DEF Space!Next
  <2>18. QED
    BY <1>2, <2>2, <2>11, <2>12, <2>13, <2>14, <2>15, <2>16, <2>17, Steps
<1>3. QED
  BY <1>1, <1>2

(* The tables implement an address space: from any boot, over any calls, a *)
(* call of map_page_table changes one page, at one moment, and in no state *)
(* in between does the processor find another page remapped or lost.       *)
THEOREM TablesImplementSpace == Spec => ImplementsPageMap
<1>1. Spec => Space!Init /\ [][Space!Next]_Space!vars
  BY InitIsSpaceInit, StepIsSpaceStep, Lasts, AlwaysOnItsWay, PTL DEF Spec
<1>2. QED
  BY <1>1 DEF ImplementsPageMap, Space!Spec
=============================================================================
