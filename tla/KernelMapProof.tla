--------------------------- MODULE KernelMapProof ---------------------------
(***************************************************************************)
(* The boot remapping for every machine with boot tables of small pages:   *)
(* kmain keeps what it stands on mapped, maps all of memory, and leaves    *)
(* everything else as it was, as long as memory lasts.                     *)
(***************************************************************************)
EXTENDS KernelMap, SequenceTheorems, WellFoundedInduction, TLAPS

-----------------------------------------------------------------------------
(* Arithmetic of spans and entries.                                        *)
LEMMA Divided ==
  ASSUME NEW a \in Nat, NEW b \in Nat, b > 0, NEW q \in Nat, NEW r \in Nat, r < b, a = b * q + r
  PROVE  a \div b = q /\ a % b = r
<1> DEFINE d == a \div b
           m == a % b
<1>1. d \in Int /\ m \in Nat /\ m < b /\ a = b * d + m
  OBVIOUS
<1> HIDE DEF d, m
<1>2. CASE d < q
  <2>1. q - d \in Nat /\ q - d >= 1
    BY <1>1, <1>2
  <2>2. b * (q - d) = m - r
    BY <1>1
  <2>3. b * (q - d) >= b
    BY <2>1
  <2>4. QED
    BY <1>1, <2>2, <2>3
<1>3. CASE d > q
  <2>1. d - q \in Nat /\ d - q >= 1
    BY <1>1, <1>3
  <2>2. b * (d - q) = r - m
    BY <1>1
  <2>3. b * (d - q) >= b
    BY <2>1
  <2>4. QED
    BY <1>1, <2>2, <2>3
<1>4. CASE d = q
  BY <1>1, <1>4 DEF d, m
<1>5. QED
  BY <1>1, <1>2, <1>3, <1>4

LEMMA Spans ==
  /\ \A l \in 1 .. 4 : Span(l) \in Nat /\ Span(l) > 0
  /\ Span(1) = PAGE_SIZE /\ Span(2) = ENTRIES * Span(1)
  /\ Span(3) = ENTRIES * Span(2) /\ Span(4) = ENTRIES * Span(3)
<1> DEFINE E == ENTRIES
<1>1. E \in Nat /\ E > 1
  BY PagingConstants
<1>2. /\ Span(1) = PAGE_SIZE * 1 /\ Span(2) = PAGE_SIZE * E
      /\ Span(3) = PAGE_SIZE * (E * E) /\ Span(4) = PAGE_SIZE * (E * E * E)
  BY DEF Span
<1>3. E * E \in Nat /\ E * E > 0 /\ E * E * E \in Nat /\ E * E * E > 0
  BY <1>1
<1> HIDE DEF E
<1>4. \A l \in 1 .. 4 : Span(l) \in Nat /\ Span(l) > 0
  <2>1. Span(1) > 0 /\ Span(2) > 0 /\ Span(3) > 0 /\ Span(4) > 0
    BY <1>1, <1>2, <1>3 DEF PAGE_SIZE
  <2>2. Span(1) \in Nat /\ Span(2) \in Nat /\ Span(3) \in Nat /\ Span(4) \in Nat
    BY <1>1, <1>2, <1>3 DEF PAGE_SIZE
  <2>3. \A l \in 1 .. 4 : l = 1 \/ l = 2 \/ l = 3 \/ l = 4
    OBVIOUS
  <2>4. QED
    BY <2>1, <2>2, <2>3
<1>5. QED
  BY <1>1, <1>2, <1>4 DEF E, PAGE_SIZE

LEMMA Indices ==
  ASSUME NEW l \in 1 .. 4, NEW v \in Nat
  PROVE  v \div Span(l) \in Nat /\ TableIndex(l, v) \in Index
<1>1. Span(l) \in Nat /\ Span(l) > 0 /\ ENTRIES \in Nat /\ ENTRIES > 1
  BY Spans, PagingConstants
<1> DEFINE d == v \div Span(l)
<1>2. d \in Nat
  BY <1>1
<1> HIDE DEF d
<1>3. d % ENTRIES \in 0 .. ENTRIES - 1
  BY <1>1, <1>2
<1>4. QED
  BY <1>2, <1>3 DEF d, TableIndex, Index

LEMMA SpanSplit ==
  ASSUME NEW l \in 1 .. 3, NEW v \in Nat
  PROVE  /\ v \div Span(l) = ENTRIES * (v \div Span(l + 1)) + TableIndex(l, v)
         /\ (v \div Span(l)) \div ENTRIES = v \div Span(l + 1)
<1> DEFINE E == ENTRIES
           S == Span(l)
           d == v \div S
           r == v % S
           q == d \div E
           m == d % E
<1>1. E \in Nat /\ E > 1 /\ S \in Nat /\ S > 0 /\ Span(l + 1) = E * S
  <2>1. l = 1 \/ l = 2 \/ l = 3
    OBVIOUS
  <2>2. QED
    BY <2>1, Spans, PagingConstants
<1> HIDE DEF E, S
<1>2. d \in Nat /\ r \in Nat /\ r < S /\ v = S * d + r
  BY <1>1
<1> HIDE DEF d, r
<1>3. q \in Nat /\ m \in Nat /\ m < E /\ d = E * q + m
  BY <1>1, <1>2
<1> HIDE DEF q, m
<1> DEFINE b == E * S
           a == S * m + r
<1>4. b \in Nat /\ b > 0 /\ a \in Nat
  BY <1>1, <1>2, <1>3
<1>5. a < b
  <2>1. m + 1 \in Nat /\ E - (m + 1) \in Nat
    BY <1>1, <1>3
  <2>2. S * (m + 1) = S * m + S
    BY <1>1, <1>3
  <2>3. S * E = S * (m + 1) + S * (E - (m + 1)) /\ S * (E - (m + 1)) \in Nat
    BY <1>1, <1>3, <2>1
  <2>4. S * E = E * S
    BY <1>1
  <2>5. QED
    BY <1>1, <1>2, <1>3, <2>2, <2>3, <2>4
<1>6. v = b * q + a
  <2>1. S * (E * q + m) = E * S * q + S * m
    BY <1>1, <1>3
  <2>2. QED
    BY <1>1, <1>2, <1>3, <2>1
<1> HIDE DEF a, b
<1>7. v \div b = q
  BY <1>3, <1>4, <1>5, <1>6, Divided
<1>8. v \div Span(l + 1) = q
  BY <1>1, <1>7 DEF b
<1>9. QED
  BY <1>3, <1>8 DEF E, S, d, q, m, TableIndex

LEMMA Least ==
  ASSUME NEW T \in SUBSET Nat, T # {}
  PROVE  \E n \in T : \A m \in T : ~ (m < n)
<1> DEFINE R == OpToRel(<, Nat)
<1>1. IsWellFoundedOn(R, Nat)
  BY NatLessThanWellFounded
<1>2. \A a, b \in Nat : a < b => <<a, b>> \in R
  BY DEF OpToRel
<1> HIDE DEF R
<1>3. PICK n \in T : \A m \in T : ~ (<<m, n>> \in R)
  BY <1>1, WFMin
<1>4. QED
  BY <1>2, <1>3

-----------------------------------------------------------------------------
(* Walks.  A memory m is walked from the table at r; At is the table the   *)
(* walk for v comes to at level l, Nowhere if an entry on the way is not   *)
(* present.                                                                *)
Nowhere  == -1
Memories == [Frames -> [Index -> Nat]]

Down(m, t, n) ==
  IF t # Nowhere /\ Present(m[t][n]) THEN ALIGN_DOWN(m[t][n]) ELSE Nowhere

At3(m, r, v) == Down(m, r, TableIndex(4, v))
At2(m, r, v) == Down(m, At3(m, r, v), TableIndex(3, v))
At1(m, r, v) == Down(m, At2(m, r, v), TableIndex(2, v))

At(m, r, l, v) ==
  IF l = 4 THEN r ELSE IF l = 3 THEN At3(m, r, v) ELSE IF l = 2 THEN At2(m, r, v) ELSE At1(m, r, v)

Through(m, r, l, t, n, v) == At(m, r, l, v) = t /\ TableIndex(l, v) = n

Found(m, r, v) ==
  LET t == At1(m, r, v)
      n == TableIndex(1, v)
  IN  IF t # Nowhere /\ Present(m[t][n]) THEN m[t][n] ELSE 0

(* The tables are a tree: lev gives the level of a table, 0 for any other  *)
(* page, up and at the one entry that leads to it.  Entries in x do not    *)
(* count.                                                                  *)
LeadsDown(m, lev, up, at, t, n) ==
  LET c == ALIGN_DOWN(m[t][n]) IN
  /\ ~ Large(m[t][n])
  /\ c \in Frames /\ lev[c] = lev[t] - 1
  /\ up[c] = t /\ at[c] = n

Shape(m, r, lev, up, at, x) ==
  /\ m \in Memories
  /\ lev \in [Frames -> 0 .. 4] /\ up \in [Frames -> Frames] /\ at \in [Frames -> Index]
  /\ r \in Frames /\ lev[r] = 4
  /\ \A t \in Frames, n \in Index :
       lev[t] \in 2 .. 4 /\ Present(m[t][n]) /\ <<t, n>> \notin x => LeadsDown(m, lev, up, at, t, n)

LEMMA FrameIsSomewhere == \A f \in Frames : f \in Nat /\ f # Nowhere
  BY PagingConstants DEF Nowhere

(* A walk that has not passed the entry x stands on a table of its level.  *)
Stands(m, r, lev, t0, n0, v) ==
  \A l \in 1 .. 4 :
    l >= lev[t0] \/ ~ Through(m, r, lev[t0], t0, n0, v) =>
      At(m, r, l, v) = Nowhere \/ (At(m, r, l, v) \in Frames /\ lev[At(m, r, l, v)] = l)

LEMMA OnTables ==
  ASSUME NEW m, NEW r, NEW lev, NEW up, NEW at, NEW t0 \in Frames, NEW n0 \in Index,
         Shape(m, r, lev, up, at, {<<t0, n0>>}), lev[t0] \in 1 .. 4, NEW v \in Nat
  PROVE  Stands(m, r, lev, t0, n0, v)
<1> DEFINE l0 == lev[t0]
           B(l) == l >= l0 \/ ~ Through(m, r, l0, t0, n0, v)
           Fine(l) == At(m, r, l, v) = Nowhere \/ (At(m, r, l, v) \in Frames /\ lev[At(m, r, l, v)] = l)
<1>1. \A l \in 1 .. 4 : TableIndex(l, v) \in Index
  BY Indices
<1>2. Fine(4)
  BY DEF At, Shape
<1>3. ASSUME NEW l \in 2 .. 4, B(l - 1), Fine(l), At(m, r, l, v) # Nowhere,
             Present(m[At(m, r, l, v)][TableIndex(l, v)])
      PROVE  LeadsDown(m, lev, up, at, At(m, r, l, v), TableIndex(l, v))
  <2> DEFINE t == At(m, r, l, v)
             n == TableIndex(l, v)
  <2>1. t \in Frames /\ lev[t] = l /\ n \in Index
    BY <1>1, <1>3
  <2>2. <<t, n>> # <<t0, n0>>
    <3>1. CASE <<t, n>> = <<t0, n0>>
      <4>1. l = l0 /\ Through(m, r, l0, t0, n0, v)
        BY <2>1, <3>1 DEF Through
      <4>2. QED
        BY <1>3, <4>1
    <3>2. QED
      BY <3>1
  <2>3. QED
    BY <1>3, <2>1, <2>2 DEF Shape
<1>4. \A l \in 2 .. 4 : B(l - 1) => B(l)
  BY DEF Shape
<1>5. ASSUME NEW l \in 2 .. 4, B(l - 1), Fine(l), At(m, r, l - 1, v) = Down(m, At(m, r, l, v), TableIndex(l, v))
      PROVE  Fine(l - 1)
  <2>1. CASE At(m, r, l, v) # Nowhere /\ Present(m[At(m, r, l, v)][TableIndex(l, v)])
    <3>1. LeadsDown(m, lev, up, at, At(m, r, l, v), TableIndex(l, v)) /\ lev[At(m, r, l, v)] = l
      BY <1>3, <1>5, <2>1
    <3>2. QED
      BY <1>5, <2>1, <3>1 DEF LeadsDown, Down
  <2>2. QED
    BY <1>5, <2>1 DEF Down
<1>6. /\ At(m, r, 3, v) = Down(m, At(m, r, 4, v), TableIndex(4, v))
      /\ At(m, r, 2, v) = Down(m, At(m, r, 3, v), TableIndex(3, v))
      /\ At(m, r, 1, v) = Down(m, At(m, r, 2, v), TableIndex(2, v))
  BY DEF At, At1, At2, At3
<1> HIDE DEF B, Fine
<1>7. (B(3) => Fine(3)) /\ (B(2) => Fine(2)) /\ (B(1) => Fine(1))
  <2>1. B(3) => Fine(3)
    <3>1. 4 \in 2 .. 4 /\ 4 - 1 = 3
      OBVIOUS
    <3>2. QED
      BY <1>2, <1>5, <1>6, <3>1
  <2>2. B(2) => B(3) /\ Fine(2)
    <3>1. 3 \in 2 .. 4 /\ 3 - 1 = 2
      OBVIOUS
    <3>2. QED
      BY <1>4, <1>5, <1>6, <2>1, <3>1
  <2>3. B(1) => Fine(1)
    <3>1. 2 \in 2 .. 4 /\ 2 - 1 = 1
      OBVIOUS
    <3>2. QED
      BY <1>4, <1>5, <1>6, <2>2, <3>1
  <2>4. QED
    BY <2>1, <2>2, <2>3
<1>8. \A l \in 1 .. 4 : l = 1 \/ l = 2 \/ l = 3 \/ l = 4
  OBVIOUS
<1>9. QED
  BY <1>2, <1>7, <1>8 DEF B, Fine, Stands

(* The processor's walk of such a tree finds what At leads to.             *)
LEMMA Value ==
  ASSUME NEW m, NEW r, NEW lev, NEW up, NEW at, NEW t0 \in Frames, NEW n0 \in Index,
         Shape(m, r, lev, up, at, {<<t0, n0>>}), lev[t0] \in 1 .. 4, NEW v \in Nat,
         ~ Through(m, r, lev[t0], t0, n0, v), NEW root, ALIGN_DOWN(root) = r
  PROVE  TranslateIn(m, root, v) = Found(m, r, v)
<1> DEFINE T(l) == At(m, r, l, v)
           n(l) == TableIndex(l, v)
           w(l) == m[T(l)][n(l)]
<1>1. \A l \in 1 .. 4 : T(l) = Nowhere \/ (T(l) \in Frames /\ lev[T(l)] = l)
  BY OnTables DEF Stands
<1>2. ~ Present(0)
  BY DEF Present, HasFlag, PAGE_PRESENT
<1>3. ASSUME NEW l \in 2 .. 4, T(l) # Nowhere, Present(w(l))
      PROVE  ~ Large(w(l))
  <2>1. T(l) \in Frames /\ lev[T(l)] = l /\ n(l) \in Index
    BY <1>1, <1>3, Indices
  <2>2. <<T(l), n(l)>> # <<t0, n0>>
    BY <2>1 DEF Through
  <2>3. LeadsDown(m, lev, up, at, T(l), n(l))
    BY <1>3, <2>1, <2>2 DEF Shape
  <2>4. QED
    BY <2>3 DEF LeadsDown
<1>4. /\ T(4) = r /\ r \in Frames
      /\ T(3) = (IF Present(w(4)) THEN ALIGN_DOWN(w(4)) ELSE Nowhere)
      /\ T(2) = (IF T(3) # Nowhere /\ Present(w(3)) THEN ALIGN_DOWN(w(3)) ELSE Nowhere)
      /\ T(1) = (IF T(2) # Nowhere /\ Present(w(2)) THEN ALIGN_DOWN(w(2)) ELSE Nowhere)
      /\ T(1) = At1(m, r, v)
  <2>1. r \in Frames /\ r # Nowhere
    BY FrameIsSomewhere DEF Shape
  <2>2. T(4) = r /\ T(3) = At3(m, r, v) /\ T(2) = At2(m, r, v) /\ T(1) = At1(m, r, v)
    BY DEF At
  <2>3. T(3) = IF Present(w(4)) THEN ALIGN_DOWN(w(4)) ELSE Nowhere
    BY <2>1, <2>2 DEF At3, Down
  <2>4. T(2) = IF T(3) # Nowhere /\ Present(w(3)) THEN ALIGN_DOWN(w(3)) ELSE Nowhere
    BY <2>2 DEF At2, Down
  <2>5. T(1) = IF T(2) # Nowhere /\ Present(w(2)) THEN ALIGN_DOWN(w(2)) ELSE Nowhere
    BY <2>2 DEF At1, Down
  <2>6. QED
    BY <2>1, <2>2, <2>3, <2>4, <2>5
<1>5. (T(1) # Nowhere => T(1) \in Frames) /\ (T(2) # Nowhere => T(2) \in Frames) /\ (T(3) # Nowhere => T(3) \in Frames)
  BY <1>1
<1>6. /\ Present(w(4)) => ~ Large(w(4))
      /\ T(3) # Nowhere /\ Present(w(3)) => ~ Large(w(3))
      /\ T(2) # Nowhere /\ Present(w(2)) => ~ Large(w(2))
  BY <1>3, <1>4, FrameIsSomewhere
<1>7. Found(m, r, v) = IF T(1) # Nowhere /\ Present(w(1)) THEN w(1) ELSE 0
  BY <1>4 DEF Found
<1>8. /\ EntryAt(m, ALIGN_DOWN(root), 4, v) = w(4)
      /\ Present(w(4)) => EntryAt(m, ALIGN_DOWN(w(4)), 3, v) = w(3) /\ T(3) # Nowhere
      /\ T(3) # Nowhere /\ Present(w(3)) => EntryAt(m, ALIGN_DOWN(w(3)), 2, v) = w(2) /\ T(2) # Nowhere
      /\ T(2) # Nowhere /\ Present(w(2)) => EntryAt(m, ALIGN_DOWN(w(2)), 1, v) = w(1) /\ T(1) # Nowhere
  <2>1. EntryAt(m, ALIGN_DOWN(root), 4, v) = w(4)
    BY <1>4 DEF EntryAt
  <2>2. ASSUME NEW l \in 2 .. 4, T(l) # Nowhere, Present(w(l)), T(l - 1) = ALIGN_DOWN(w(l))
        PROVE  EntryAt(m, ALIGN_DOWN(w(l)), l - 1, v) = w(l - 1) /\ T(l - 1) # Nowhere
    <3>1. T(l) \in Frames /\ lev[T(l)] = l /\ n(l) \in Index
      BY <1>1, <2>2, Indices
    <3>2. <<T(l), n(l)>> # <<t0, n0>>
      BY <3>1 DEF Through
    <3>3. LeadsDown(m, lev, up, at, T(l), n(l))
      BY <2>2, <3>1, <3>2 DEF Shape
    <3>4. T(l - 1) \in Frames
      BY <2>2, <3>3 DEF LeadsDown
    <3>5. QED
      BY <2>2, <3>4, FrameIsSomewhere DEF EntryAt
  <2>3. Present(w(4)) => EntryAt(m, ALIGN_DOWN(w(4)), 3, v) = w(3) /\ T(3) # Nowhere
    <3>1. 4 \in 2 .. 4 /\ 4 - 1 = 3
      OBVIOUS
    <3>2. QED
      BY <1>4, <2>2, <3>1, FrameIsSomewhere
  <2>4. T(3) # Nowhere /\ Present(w(3)) => EntryAt(m, ALIGN_DOWN(w(3)), 2, v) = w(2) /\ T(2) # Nowhere
    <3>1. 3 \in 2 .. 4 /\ 3 - 1 = 2
      OBVIOUS
    <3>2. QED
      BY <1>4, <2>2, <3>1
  <2>5. T(2) # Nowhere /\ Present(w(2)) => EntryAt(m, ALIGN_DOWN(w(2)), 1, v) = w(1) /\ T(1) # Nowhere
    <3>1. 2 \in 2 .. 4 /\ 2 - 1 = 1
      OBVIOUS
    <3>2. QED
      BY <1>4, <2>2, <3>1
  <2>6. QED
    BY <2>1, <2>3, <2>4, <2>5
<1> DEFINE e4 == EntryAt(m, ALIGN_DOWN(root), 4, v)
           e3 == EntryAt(m, ALIGN_DOWN(e4), 3, v)
           e2 == EntryAt(m, ALIGN_DOWN(e3), 2, v)
           e1 == EntryAt(m, ALIGN_DOWN(e2), 1, v)
<1>9. ~ Present(e4) \/ ~ Present(e3) => TranslateIn(m, root, v) = 0
  BY DEF TranslateIn
<1>10. /\ Present(e4) /\ Present(e3) /\ ~ Large(e3) /\ ~ Present(e2) => TranslateIn(m, root, v) = 0
       /\ Present(e4) /\ Present(e3) /\ ~ Large(e3) /\ Present(e2) /\ ~ Large(e2)
          => TranslateIn(m, root, v) = IF Present(e1) THEN e1 ELSE 0
  BY DEF TranslateIn
<1>11. CASE ~ Present(w(4))
  <2>1. T(3) = Nowhere /\ T(2) = Nowhere /\ T(1) = Nowhere
    BY <1>4, <1>11
  <2>2. QED
    BY <1>7, <1>8, <1>9, <1>11, <2>1
<1>12. CASE Present(w(4)) /\ ~ Present(w(3))
  <2>1. T(2) = Nowhere /\ T(1) = Nowhere
    BY <1>4, <1>12
  <2>2. QED
    BY <1>7, <1>8, <1>9, <1>12, <2>1
<1>13. CASE Present(w(4)) /\ Present(w(3)) /\ ~ Present(w(2))
  <2>1. T(1) = Nowhere
    BY <1>4, <1>13
  <2>2. e4 = w(4) /\ e3 = w(3) /\ e2 = w(2) /\ ~ Large(e3)
    BY <1>6, <1>8, <1>13
  <2>3. QED
    BY <1>7, <1>10, <1>13, <2>1, <2>2
<1>14. CASE Present(w(4)) /\ Present(w(3)) /\ Present(w(2))
  <2>1. e4 = w(4) /\ e3 = w(3) /\ e2 = w(2) /\ e1 = w(1) /\ ~ Large(e3) /\ ~ Large(e2) /\ T(1) # Nowhere
    BY <1>6, <1>8, <1>14
  <2>2. QED
    BY <1>7, <1>10, <1>14, <2>1
<1>15. QED
  BY <1>11, <1>12, <1>13, <1>14

(* A store to one entry, or to pages that are no tables, leaves alone      *)
(* every walk that does not read the entry.                                *)
OnlyEntry(m, m2, lev, t0, n0) ==
  \A t \in Frames, n \in Index : lev[t] # 0 => m2[t][n] = m[t][n] \/ <<t, n>> = <<t0, n0>>

LEMMA SameShape ==
  ASSUME NEW m, NEW r, NEW lev, NEW up, NEW at, NEW t0 \in Frames, NEW n0 \in Index,
         Shape(m, r, lev, up, at, {<<t0, n0>>}), NEW m2 \in Memories,
         OnlyEntry(m, m2, lev, t0, n0)
  PROVE  Shape(m2, r, lev, up, at, {<<t0, n0>>})
<1>1. ASSUME NEW t \in Frames, NEW n \in Index, lev[t] \in 2 .. 4, Present(m2[t][n]), <<t, n>> \notin {<<t0, n0>>}
      PROVE  LeadsDown(m2, lev, up, at, t, n)
  <2>1. m2[t][n] = m[t][n]
    BY <1>1 DEF OnlyEntry
  <2>2. LeadsDown(m, lev, up, at, t, n)
    BY <1>1, <2>1 DEF Shape
  <2>3. QED
    BY <2>1, <2>2 DEF LeadsDown
<1>2. QED
  BY <1>1 DEF Shape

LEMMA SameWalks ==
  ASSUME NEW m, NEW r, NEW lev, NEW up, NEW at, NEW t0 \in Frames, NEW n0 \in Index,
         Shape(m, r, lev, up, at, {<<t0, n0>>}), lev[t0] \in 1 .. 4, NEW m2 \in Memories,
         OnlyEntry(m, m2, lev, t0, n0),
         NEW v \in Nat
  PROVE  /\ \A l \in 1 .. 4 : l >= lev[t0] => At(m2, r, l, v) = At(m, r, l, v)
         /\ ~ Through(m, r, lev[t0], t0, n0, v) =>
              /\ \A l \in 1 .. 4 : At(m2, r, l, v) = At(m, r, l, v)
              /\ Found(m2, r, v) = Found(m, r, v)
<1> DEFINE l0 == lev[t0]
<1> DEFINE B(l) == l >= l0 \/ ~ Through(m, r, l0, t0, n0, v)
           Read(l) == m2[At(m, r, l, v)][TableIndex(l, v)] = m[At(m, r, l, v)][TableIndex(l, v)]
<1>3. \A l \in 1 .. 4 : B(l) => At(m, r, l, v) = Nowhere \/ (At(m, r, l, v) \in Frames /\ lev[At(m, r, l, v)] = l)
  <2>1. Stands(m, r, lev, t0, n0, v)
    BY OnTables
  <2>2. QED
    BY <2>1 DEF Stands
<1>4. ASSUME NEW l \in 1 .. 4, l > l0 \/ ~ Through(m, r, l0, t0, n0, v), At(m, r, l, v) # Nowhere PROVE Read(l)
  <2> DEFINE t == At(m, r, l, v)
             n == TableIndex(l, v)
  <2>1. l > l0 => l >= l0
    OBVIOUS
  <2>2. B(l)
    BY <1>4, <2>1
  <2>3. t \in Frames /\ lev[t] = l /\ n \in Index
    BY <1>3, <1>4, <2>2, Indices
  <2>4. <<t, n>> # <<t0, n0>>
    BY <1>4, <2>3 DEF Through
  <2>5. lev[t] # 0
    BY <2>3
  <2>6. m2[t][n] = m[t][n]
    BY <2>3, <2>4, <2>5 DEF OnlyEntry
  <2>7. QED
    BY <2>6
<1>5. /\ At(m, r, 3, v) = Down(m, At(m, r, 4, v), TableIndex(4, v))
      /\ At(m, r, 2, v) = Down(m, At(m, r, 3, v), TableIndex(3, v))
      /\ At(m, r, 1, v) = Down(m, At(m, r, 2, v), TableIndex(2, v))
      /\ At(m2, r, 3, v) = Down(m2, At(m2, r, 4, v), TableIndex(4, v))
      /\ At(m2, r, 2, v) = Down(m2, At(m2, r, 3, v), TableIndex(3, v))
      /\ At(m2, r, 1, v) = Down(m2, At(m2, r, 2, v), TableIndex(2, v))
      /\ At(m2, r, 4, v) = At(m, r, 4, v)
  BY DEF At, At1, At2, At3
<1>6. ASSUME NEW l \in 2 .. 4, B(l - 1), At(m2, r, l, v) = At(m, r, l, v)
      PROVE  Down(m2, At(m2, r, l, v), TableIndex(l, v)) = Down(m, At(m, r, l, v), TableIndex(l, v))
  <2>1. l \in 1 .. 4 /\ (l > l0 \/ ~ Through(m, r, l0, t0, n0, v))
    BY <1>6 DEF Shape
  <2>2. At(m, r, l, v) # Nowhere => Read(l)
    BY <1>4, <2>1
  <2>3. QED
    BY <1>6, <2>2 DEF Down
<1>7. \A l \in 2 .. 4 : B(l - 1) => B(l)
  BY DEF Shape
<1> DEFINE S(l) == B(l) => At(m2, r, l, v) = At(m, r, l, v)
<1> HIDE DEF B
<1>8. S(4)
  BY <1>5
<1>9. S(3)
  <2>1. 4 \in 2 .. 4 /\ 4 - 1 = 3
    OBVIOUS
  <2>2. QED
    BY <1>5, <1>6, <1>7, <1>8, <2>1
<1>10. S(2)
  <2>1. 3 \in 2 .. 4 /\ 3 - 1 = 2
    OBVIOUS
  <2>2. QED
    BY <1>5, <1>6, <1>7, <1>9, <2>1
<1>11. S(1)
  <2>1. 2 \in 2 .. 4 /\ 2 - 1 = 1
    OBVIOUS
  <2>2. QED
    BY <1>5, <1>6, <1>7, <1>10, <2>1
<1>12. \A l \in 1 .. 4 : S(l)
  <2>1. \A l \in 1 .. 4 : l = 1 \/ l = 2 \/ l = 3 \/ l = 4
    OBVIOUS
  <2>2. QED
    BY <1>8, <1>9, <1>10, <1>11, <2>1
<1>13. ASSUME ~ Through(m, r, l0, t0, n0, v) PROVE Found(m2, r, v) = Found(m, r, v)
  <2>1. At1(m2, r, v) = At1(m, r, v)
    BY <1>11, <1>13 DEF B, At
  <2>2. At1(m, r, v) # Nowhere => Read(1)
    <3>1. 1 \in 1 .. 4 /\ At(m, r, 1, v) = At1(m, r, v)
      BY DEF At
    <3>2. QED
      BY <1>4, <1>13, <3>1
  <2>3. At(m, r, 1, v) = At1(m, r, v)
    BY DEF At
  <2>4. QED
    BY <2>1, <2>2, <2>3 DEF Found
<1>14. QED
  BY <1>12, <1>13 DEF B

(* Two addresses whose walks come to the same table have come there by the *)
(* same entries.                                                           *)
LEMMA OnePath ==
  ASSUME NEW m, NEW r, NEW lev, NEW up, NEW at, Shape(m, r, lev, up, at, {}),
         NEW v \in Nat, NEW u \in Nat, At1(m, r, v) = At1(m, r, u), At1(m, r, v) # Nowhere
  PROVE  \A l \in 2 .. 4 : TableIndex(l, v) = TableIndex(l, u)
<1>1. \A l \in 1 .. 4, w \in Nat : TableIndex(l, w) \in Index
  BY Indices
<1>2. ASSUME NEW t \in Frames, lev[t] \in 2 .. 4, NEW n \in Index, Down(m, t, n) # Nowhere
      PROVE  LET c == Down(m, t, n) IN c \in Frames /\ lev[c] = lev[t] - 1 /\ up[c] = t /\ at[c] = n
  <2>1. Present(m[t][n]) /\ Down(m, t, n) = ALIGN_DOWN(m[t][n])
    BY <1>2 DEF Down
  <2>2. LeadsDown(m, lev, up, at, t, n)
    BY <1>2, <2>1 DEF Shape
  <2>3. QED
    BY <2>1, <2>2 DEF LeadsDown
<1>3. ASSUME NEW w \in Nat, At1(m, r, w) # Nowhere
      PROVE  /\ At2(m, r, w) # Nowhere /\ At3(m, r, w) # Nowhere
             /\ at[At3(m, r, w)] = TableIndex(4, w)
             /\ up[At2(m, r, w)] = At3(m, r, w) /\ at[At2(m, r, w)] = TableIndex(3, w)
             /\ up[At1(m, r, w)] = At2(m, r, w) /\ at[At1(m, r, w)] = TableIndex(2, w)
  <2>1. At2(m, r, w) # Nowhere
    BY <1>3 DEF At1, Down
  <2>2. At3(m, r, w) # Nowhere
    BY <2>1 DEF At2, Down
  <2>3. r \in Frames /\ lev[r] = 4 /\ lev[r] \in 2 .. 4
    BY DEF Shape
  <2>4. At3(m, r, w) \in Frames /\ lev[At3(m, r, w)] = 3 /\ at[At3(m, r, w)] = TableIndex(4, w)
    BY <1>1, <1>2, <2>2, <2>3 DEF At3
  <2>5. At2(m, r, w) \in Frames /\ lev[At2(m, r, w)] = 2 /\ up[At2(m, r, w)] = At3(m, r, w) /\ at[At2(m, r, w)] = TableIndex(3, w)
    <3>1. lev[At3(m, r, w)] \in 2 .. 4
      BY <2>4
    <3>2. QED
      BY <1>1, <1>2, <2>1, <2>4, <3>1 DEF At2
  <2>6. up[At1(m, r, w)] = At2(m, r, w) /\ at[At1(m, r, w)] = TableIndex(2, w)
    <3>1. lev[At2(m, r, w)] \in 2 .. 4
      BY <2>5
    <3>2. QED
      BY <1>1, <1>2, <1>3, <2>5, <3>1 DEF At1
  <2>7. QED
    BY <2>1, <2>2, <2>4, <2>5, <2>6
<1>4. TableIndex(2, v) = TableIndex(2, u) /\ At2(m, r, v) = At2(m, r, u)
  BY <1>3
<1>5. TableIndex(3, v) = TableIndex(3, u) /\ At3(m, r, v) = At3(m, r, u)
  BY <1>3, <1>4
<1>6. TableIndex(4, v) = TableIndex(4, u)
  BY <1>3, <1>5
<1>7. \A l \in 2 .. 4 : l = 2 \/ l = 3 \/ l = 4
  OBVIOUS
<1>8. QED
  BY <1>4, <1>5, <1>6, <1>7

(* Pages are told apart by their four indices.                             *)
LEMMA Pages ==
  /\ \A v \in VirtualPages : v \in Nat /\ v \in 0 .. ENTRIES * Span(4) - 1 /\ ALIGN_DOWN(v) = v
  /\ \A a \in 0 .. ENTRIES * Span(4) - 1 :
       /\ ALIGN_DOWN(a) \in VirtualPages
       /\ \A v \in VirtualPages : v \div Span(1) = a \div Span(1) => v = ALIGN_DOWN(a)
<1> DEFINE W == ENTRIES * Span(4)
           c == ENTRIES * (ENTRIES * (ENTRIES * ENTRIES))
<1>1. ENTRIES \in Nat /\ ENTRIES > 1 /\ Span(1) = 4096
  BY Spans, PagingConstants DEF PAGE_SIZE
<1>2. c \in Nat /\ c > 0 /\ W = 4096 * c
  <2> DEFINE E == ENTRIES
  <2>1. E * E \in Nat /\ E * E > 0 /\ E * (E * E) \in Nat /\ E * (E * E) > 0 /\ E * (E * (E * E)) \in Nat /\ E * (E * (E * E)) > 0
    BY <1>1
  <2>2. Span(4) = E * (E * (E * 4096))
    BY <1>1, Spans
  <2>3. E * (E * (E * (E * 4096))) = 4096 * (E * (E * (E * E)))
    BY <1>1
  <2>4. QED
    BY <2>1, <2>2, <2>3
<1> HIDE DEF c, W
<1>3. W \div 4096 = c
  BY <1>2
<1>4. VirtualPages = {4096 * n : n \in 0 .. c - 1}
  BY <1>3 DEF VirtualPages, W, PAGE_SIZE
<1>5. ASSUME NEW v \in VirtualPages PROVE v \in Nat /\ v \in 0 .. W - 1 /\ v = 4096 * (v \div 4096)
  <2>1. PICK n \in 0 .. c - 1 : v = 4096 * n
    BY <1>4
  <2>2. QED
    BY <1>2, <2>1
<1>6. ASSUME NEW a \in 0 .. W - 1
      PROVE  ALIGN_DOWN(a) \in VirtualPages /\ ALIGN_DOWN(a) \div 4096 = a \div 4096 /\ ALIGN_DOWN(a) = 4096 * (a \div 4096)
  <2>1. a \div 4096 \in 0 .. c - 1
    BY <1>2
  <2>2. ALIGN_DOWN(a) = 4096 * (a \div 4096)
    BY <2>1 DEF ALIGN_DOWN, PAGE_SIZE
  <2>3. QED
    BY <1>4, <2>1, <2>2
<1>7. \A v \in VirtualPages : ALIGN_DOWN(v) = v
  BY <1>5, <1>6
<1>8. QED
  BY <1>1, <1>5, <1>6, <1>7 DEF W

LEMMA SamePage ==
  ASSUME NEW a \in 0 .. ENTRIES * Span(4) - 1, NEW v \in VirtualPages,
         \A l \in 1 .. 4 : TableIndex(l, v) = TableIndex(l, a)
  PROVE  v = ALIGN_DOWN(a)
<1>1. v \in Nat /\ a \in Nat /\ v \in 0 .. ENTRIES * Span(4) - 1
  BY Pages, Spans
<1>2. ASSUME NEW w \in 0 .. ENTRIES * Span(4) - 1 PROVE w \div Span(4) = TableIndex(4, w)
  <2> DEFINE S == Span(4)
             E == ENTRIES
             d == w \div S
  <2>1. S \in Nat /\ S > 0 /\ E \in Nat /\ E > 0 /\ w \in Nat /\ w < E * S
    BY Spans, PagingConstants
  <2> HIDE DEF S, E
  <2>2. d \in Nat /\ S * d <= w
    BY <2>1
  <2> HIDE DEF d
  <2>3. d < E
    <3>1. CASE d >= E
      <4>1. d - E \in Nat /\ S * d = S * E + S * (d - E) /\ S * (d - E) \in Nat /\ S * E = E * S
        BY <2>1, <2>2, <3>1
      <4>2. QED
        BY <2>1, <2>2, <4>1
    <3>2. QED
      BY <2>1, <2>2, <3>1
  <2>4. d % E = d
    BY <2>1, <2>2, <2>3
  <2>5. QED
    BY <2>4 DEF TableIndex, S, E, d
<1>3. v \div Span(4) = a \div Span(4)
  BY <1>1, <1>2
<1>4. ASSUME NEW l \in 1 .. 3, v \div Span(l + 1) = a \div Span(l + 1) PROVE v \div Span(l) = a \div Span(l)
  <2>1. TableIndex(l, v) = TableIndex(l, a)
    OBVIOUS
  <2>2. v \div Span(l) = ENTRIES * (v \div Span(l + 1)) + TableIndex(l, v)
    BY <1>1, SpanSplit
  <2>3. a \div Span(l) = ENTRIES * (a \div Span(l + 1)) + TableIndex(l, a)
    BY <1>1, SpanSplit
  <2>4. QED
    BY <1>4, <2>1, <2>2, <2>3
<1>5. v \div Span(1) = a \div Span(1)
  <2>1. v \div Span(3) = a \div Span(3)
    <3>1. 3 \in 1 .. 3 /\ 3 + 1 = 4
      OBVIOUS
    <3>2. QED
      BY <1>3, <1>4, <3>1
  <2>2. v \div Span(2) = a \div Span(2)
    <3>1. 2 \in 1 .. 3 /\ 2 + 1 = 3
      OBVIOUS
    <3>2. QED
      BY <1>4, <2>1, <3>1
  <2>3. 1 \in 1 .. 3 /\ 1 + 1 = 2
    OBVIOUS
  <2>4. QED
    BY <1>4, <2>2, <2>3
<1>6. QED
  BY <1>5, Pages

LEMMA OneDown ==
  ASSUME NEW m, NEW r, NEW l \in 2 .. 4, NEW v
  PROVE  At(m, r, l - 1, v) = Down(m, At(m, r, l, v), TableIndex(l, v))
<1>1. l = 2 \/ l = 3 \/ l = 4
  OBVIOUS
<1>2. CASE l = 2
  BY <1>2 DEF At, At1
<1>3. CASE l = 3
  BY <1>3 DEF At, At2
<1>4. CASE l = 4
  BY <1>4 DEF At, At3
<1>5. QED
  BY <1>1, <1>2, <1>3, <1>4

(* A walk that comes to an entry that is not present finds nothing.        *)
LEMMA DeadEnd ==
  ASSUME NEW m, NEW r, NEW l \in 1 .. 4, NEW v, ~ Present(m[At(m, r, l, v)][TableIndex(l, v)])
  PROVE  Found(m, r, v) = 0
<1>1. l = 1 \/ l = 2 \/ l = 3 \/ l = 4
  OBVIOUS
<1>2. CASE l = 1
  <2>1. At(m, r, l, v) = At1(m, r, v)
    BY <1>2 DEF At
  <2>2. QED
    BY <1>2, <2>1 DEF Found
<1>3. CASE l = 2
  <2>1. At(m, r, l, v) = At2(m, r, v)
    BY <1>3 DEF At
  <2>2. At1(m, r, v) = Nowhere
    BY <1>3, <2>1 DEF At1, Down
  <2>3. QED
    BY <2>2 DEF Found
<1>4. CASE l = 3
  <2>1. At(m, r, l, v) = At3(m, r, v)
    BY <1>4 DEF At
  <2>2. At1(m, r, v) = Nowhere
    BY <1>4, <2>1 DEF At1, At2, Down
  <2>3. QED
    BY <2>2 DEF Found
<1>5. CASE l = 4
  <2>1. At(m, r, l, v) = r
    BY <1>5 DEF At
  <2>2. At1(m, r, v) = Nowhere
    BY <1>5, <2>1 DEF At1, At2, At3, Down
  <2>3. QED
    BY <2>2 DEF Found
<1>6. QED
  BY <1>1, <1>2, <1>3, <1>4, <1>5

(* An entry for the page at p: present and not large, whatever the page.   *)
LEMMA Words ==
  /\ Present(7) /\ ~ Large(7) /\ ~ Present(0) /\ ALIGN_DOWN(0) = 0 /\ ALIGN_DOWN(7) = 0
  /\ \A p \in Frames : Present(7 + p) /\ ~ Large(7 + p) /\ ALIGN_DOWN(7 + p) = p /\ ALIGN_DOWN(p) = p
<1>1. Present(7) /\ ~ Large(7) /\ ~ Present(0) /\ ALIGN_DOWN(0) = 0 /\ ALIGN_DOWN(7) = 0
  BY DEF Present, Large, HasFlag, PAGE_PRESENT, PAGE_PAGE_SIZE, ALIGN_DOWN, PAGE_SIZE
<1>2. ASSUME NEW p \in Frames PROVE Present(7 + p) /\ ~ Large(7 + p) /\ ALIGN_DOWN(7 + p) = p /\ ALIGN_DOWN(p) = p
  <2>1. p \in Nat /\ p % 4096 = 0
    BY PagingConstants DEF PAGE_SIZE
  <2>2. PICK q \in Nat : p = 4096 * q
    BY <2>1
  <2>3. (7 + p) \div 1 = 7 + p /\ (7 + p) % 2 = 1
    BY <2>2
  <2>4. (7 + p) \div 128 = 32 * q /\ (32 * q) % 2 = 0
    BY <2>2
  <2>5. (7 + p) \div 4096 = q /\ p \div 4096 = q
    BY <2>2
  <2>6. QED
    BY <2>2, <2>3, <2>4, <2>5 DEF Present, Large, HasFlag, PAGE_PRESENT, PAGE_PAGE_SIZE, ALIGN_DOWN, PAGE_SIZE
<1>3. QED
  BY <1>1, <1>2

-----------------------------------------------------------------------------
(* The memory of the kernel: the tables are a tree, the step a call is at  *)
(* is on the way to its page, and of the usable pages those below b are    *)
(* still linked in the list, the others given out.                         *)
Root     == ALIGN_DOWN(layout.cr3)
Busy     == pc \in {"fill", "clear", "fault"}
Excepted == IF Busy THEN {<<table, index>>} ELSE {}

Typed ==
  /\ layout \in Layouts
  /\ ALIGN_DOWN(cr3) = Root
  /\ pc \in {"idle", "walk", "fill", "clear", "fault"}
  /\ pc # "idle" =>
       /\ op.virtual_addr \in 0 .. ENTRIES * Span(4) - 1
       /\ op.physical_addr \in Nat /\ op.flags \in Nat

OnTheWay(lev) ==
  pc # "idle" =>
    /\ level \in 1 .. 4 /\ (Busy => level \in 2 .. 4)
    /\ table \in Frames /\ lev[table] = level
    /\ At(mem, Root, level, op.virtual_addr) = table

Free(lev, b) ==
  /\ b \in Nat
  /\ free_mem_head = PointerBelow(b)
  /\ \A p \in UsablePages : p < b =>
       mem[p][0] = p /\ mem[p][1] = PointerBelow(p) /\ lev[p] = 0

Pending(lev, b) ==
  /\ pc = "fill" => mem[table][index] = 7
  /\ pc = "clear" => b \in UsablePages /\ lev[b] = 0 /\ mem[table][index] = 7 + b

Tree(lev, up, at) == Shape(mem, Root, lev, up, at, Excepted)

Memory(lev, up, at, b) ==
  Typed /\ Tree(lev, up, at) /\ OnTheWay(lev) /\ Free(lev, b) /\ Pending(lev, b)

(* What the processor finds for v, an entry being filled left out.         *)
Hidden(v) == Busy /\ Through(mem, Root, level, table, index, v)
Seen(v)   == IF Hidden(v) THEN 0 ELSE Translate(v)

LEMMA UsableFrames == UsablePages \subseteq Frames
  BY DEF UsablePages, UsableIn

LEMMA IndexIs ==
  ASSUME Typed, pc # "idle", level \in 1 .. 4
  PROVE  index \in Index /\ op.virtual_addr \in Nat
<1>1. op.virtual_addr \in Nat
  BY DEF Typed
<1>2. QED
  BY <1>1, Indices DEF index

LEMMA Weaker ==
  ASSUME NEW m, NEW r, NEW lev, NEW up, NEW at, NEW x, Shape(m, r, lev, up, at, {})
  PROVE  Shape(m, r, lev, up, at, x)
  BY DEF Shape

LEMMA SeenIs ==
  ASSUME NEW lev, NEW up, NEW at, Typed, Tree(lev, up, at), OnTheWay(lev), NEW v \in Nat
  PROVE  /\ pc # "idle" /\ ~ Through(mem, Root, level, table, index, v) => Translate(v) = Found(mem, Root, v)
         /\ ~ Busy => Translate(v) = Found(mem, Root, v) /\ Seen(v) = Translate(v)
         /\ Seen(v) = IF Hidden(v) THEN 0 ELSE Found(mem, Root, v)
<1>1. ASSUME pc # "idle", ~ Through(mem, Root, level, table, index, v)
      PROVE  Translate(v) = Found(mem, Root, v)
  <2>1. index \in Index /\ table \in Frames /\ lev[table] = level /\ level \in 1 .. 4
    BY <1>1, IndexIs DEF OnTheWay
  <2>2. Shape(mem, Root, lev, up, at, {<<table, index>>})
    BY Weaker DEF Tree, Excepted
  <2>3. QED
    BY <1>1, <2>1, <2>2, Value DEF Typed, Translate
<1>2. ASSUME ~ Busy PROVE Translate(v) = Found(mem, Root, v)
  <2>1. Shape(mem, Root, lev, up, at, {})
    BY <1>2 DEF Tree, Excepted
  <2>2. PICK n \in Index : TableIndex(4, v) # n
    <3>1. 0 \in Index /\ 1 \in Index
      BY PagingConstants DEF Index
    <3>2. QED
      BY <3>1
  <2>3. Root \in Frames /\ lev[Root] = 4
    BY <2>1 DEF Shape
  <2>4. ~ Through(mem, Root, lev[Root], Root, n, v)
    BY <2>2, <2>3 DEF Through
  <2>5. Shape(mem, Root, lev, up, at, {<<Root, n>>})
    BY <2>1, Weaker
  <2>6. lev[Root] \in 1 .. 4 /\ ALIGN_DOWN(cr3) = Root /\ n \in Index
    BY <2>3 DEF Typed
  <2>7. TranslateIn(mem, cr3, v) = Found(mem, Root, v)
    BY <2>3, <2>4, <2>5, <2>6, Value
  <2>8. QED
    BY <2>7 DEF Translate
<1>3. QED
  BY <1>1, <1>2 DEF Seen, Hidden, Busy

LEMMA SameMachine ==
  ASSUME layout' = layout
  PROVE  /\ Root' = Root /\ UsablePages' = UsablePages
         /\ \A a : PointerBelow(a)' = PointerBelow(a)
         /\ \A v : BootTranslate(v)' = BootTranslate(v)
<1>1. Root' = Root
  BY DEF Root
<1>2. UsablePages' = UsablePages
  BY DEF UsablePages, memmap
<1>3. \A a : PointerBelow(a)' = PointerBelow(a)
  BY <1>2 DEF PointerBelow
<1>4. \A v : BootTranslate(v)' = BootTranslate(v)
  BY DEF BootTranslate
<1>5. QED
  BY <1>1, <1>2, <1>3, <1>4

(* The pointer to the pages below a: 0, or to the highest of them.         *)
LEMMA HeadOfList ==
  ASSUME layout \in Layouts, NEW a \in Nat
  PROVE  \/ PointerBelow(a) = 0 /\ \A p \in UsablePages : ~ (p < a)
         \/ \E f \in UsablePages :
              /\ f \in Frames /\ f < a /\ \A p \in UsablePages : p < a => p <= f
              /\ PointerBelow(a) = f + hhdm /\ f + hhdm # 0 /\ f + hhdm - hhdm = f
<1> DEFINE below == {p \in UsablePages : p < a}
           top   == layout.virtual_base
<1>1. top \in Nat /\ \A f \in Frames : f + hhdm < top
  BY LayoutsLegal DEF ImageLegal
<1>2. hhdm \in Nat /\ hhdm > 0 /\ \A f \in Frames : f \in Nat
  BY PagingConstants
<1>3. CASE below = {}
  <2>1. PointerBelow(a) = 0
    BY <1>3 DEF PointerBelow
  <2>2. QED
    BY <1>3, <2>1
<1>4. CASE below # {}
  <2> DEFINE d == {top - p : p \in below}
  <2>1. \A p \in below : p \in Nat /\ top - p \in Nat
    BY <1>1, <1>2, UsableFrames
  <2>2. d \in SUBSET Nat /\ d # {}
    BY <1>4, <2>1
  <2>3. PICK n \in d : \A k \in d : ~ (k < n)
    BY <2>2, Least
  <2>4. PICK f \in below : n = top - f
    BY <2>3
  <2>5. \A p \in below : f >= p
    <3>1. ASSUME NEW p \in below PROVE f >= p
      <4>1. ~ (top - p < top - f)
        BY <2>3, <2>4
      <4>2. QED
        BY <1>1, <2>1, <4>1
    <3>2. QED
      BY <3>1
  <2>6. Max(below) \in below /\ \A p \in below : Max(below) >= p
    BY <2>4, <2>5 DEF Max
  <2>7. PointerBelow(a) = Max(below) + hhdm
    BY <1>4 DEF PointerBelow
  <2> DEFINE g == Max(below)
  <2> HIDE DEF g, d
  <2>8. g \in UsablePages /\ g \in Frames /\ g \in Nat /\ g < a /\ \A p \in UsablePages : p < a => g >= p
    BY <2>1, <2>6, UsableFrames DEF g
  <2>9. PointerBelow(a) = g + hhdm
    BY <2>7 DEF g
  <2>10. \A p \in UsablePages : p < a => p <= g
    BY <1>2, <2>8, UsableFrames
  <2>11. g + hhdm # 0 /\ g + hhdm - hhdm = g
    BY <1>2, <2>8
  <2>12. QED
    BY <2>8, <2>9, <2>10, <2>11
<1>5. QED
  BY <1>3, <1>4

(* What a store of the call does to the walks.                             *)
LEMMA Stored ==
  ASSUME NEW lev, NEW up, NEW at, Typed, Tree(lev, up, at), OnTheWay(lev), pc # "idle",
         NEW m2 \in Memories, OnlyEntry(mem, m2, lev, table, index)
  PROVE  /\ Shape(m2, Root, lev, up, at, {<<table, index>>})
         /\ At(m2, Root, level, op.virtual_addr) = table
         /\ \A v \in Nat :
              /\ At(m2, Root, level, v) = At(mem, Root, level, v)
              /\ Through(m2, Root, level, table, index, v) <=> Through(mem, Root, level, table, index, v)
              /\ ~ Through(mem, Root, level, table, index, v) => Found(m2, Root, v) = Found(mem, Root, v)
<1>1. /\ index \in Index /\ op.virtual_addr \in Nat
      /\ table \in Frames /\ lev[table] = level /\ level \in 1 .. 4 /\ lev[table] \in 1 .. 4
  BY IndexIs DEF OnTheWay
<1>2. Shape(mem, Root, lev, up, at, {<<table, index>>})
  BY Weaker DEF Tree, Excepted
<1>3. Shape(m2, Root, lev, up, at, {<<table, index>>})
  BY <1>1, <1>2, SameShape
<1>4. ASSUME NEW v \in Nat
      PROVE  /\ At(m2, Root, level, v) = At(mem, Root, level, v)
             /\ ~ Through(mem, Root, level, table, index, v) => Found(m2, Root, v) = Found(mem, Root, v)
  <2>1. /\ \A l \in 1 .. 4 : l >= lev[table] => At(m2, Root, l, v) = At(mem, Root, l, v)
        /\ ~ Through(mem, Root, lev[table], table, index, v) => Found(m2, Root, v) = Found(mem, Root, v)
    BY <1>1, <1>2, SameWalks
  <2>2. level >= lev[table]
    BY <1>1
  <2>3. QED
    BY <1>1, <2>1, <2>2
<1>5. At(m2, Root, level, op.virtual_addr) = table
  BY <1>1, <1>4 DEF OnTheWay
<1>6. QED
  BY <1>3, <1>4, <1>5 DEF Through

LEMMA StoreIs ==
  ASSUME NEW lev, NEW up, NEW at, Typed, Tree(lev, up, at), OnTheWay(lev), pc # "idle",
         NEW w \in Nat, Store(table, index, w)
  PROVE  /\ mem' \in Memories /\ OnlyEntry(mem, mem', lev, table, index)
         /\ mem'[table][index] = w
         /\ \A f \in Frames : f # table => mem'[f] = mem[f]
<1>1. index \in Index /\ table \in Frames
  BY IndexIs DEF OnTheWay
<1>2. mem \in [Frames -> [Index -> Nat]]
  BY DEF Tree, Shape, Memories
<1>3. mem' = [mem EXCEPT ![table][index] = w]
  BY DEF Store
<1>4. mem' \in [Frames -> [Index -> Nat]]
  BY <1>1, <1>2, <1>3
<1>5. \A t \in Frames, n \in Index : mem'[t][n] = IF t = table /\ n = index THEN w ELSE mem[t][n]
  BY <1>1, <1>2, <1>3
<1>6. \A f \in Frames : f # table => mem'[f] = mem[f]
  BY <1>1, <1>2, <1>3
<1>7. OnlyEntry(mem, mem', lev, table, index)
  BY <1>5 DEF OnlyEntry
<1>8. QED
  BY <1>1, <1>4, <1>5, <1>6, <1>7 DEF Memories

LEMMA FreeKept ==
  ASSUME NEW lev, NEW b, Free(lev, b), layout' = layout, free_mem_head' = free_mem_head,
         \A p \in UsablePages : p < b => mem'[p] = mem[p]
  PROVE  Free(lev, b)'
<1>1. UsablePages' = UsablePages /\ \A a : PointerBelow(a)' = PointerBelow(a)
  BY SameMachine
<1>2. QED
  BY <1>1 DEF Free

(* The same, closed, to be read of the next state as well.                 *)
LEMMA SeenFound ==
  \A lev, up, at : \A v \in Nat : Typed /\ Tree(lev, up, at) /\ OnTheWay(lev) =>
    Seen(v) = IF Hidden(v) THEN 0 ELSE Found(mem, Root, v)
  BY SeenIs

LEMMA SeenIsNext ==
  \A lev, up, at : \A v \in Nat : Typed' /\ Tree(lev, up, at)' /\ OnTheWay(lev)' =>
    Seen(v)' = IF Hidden(v)' THEN 0 ELSE Found(mem', Root', v)
<1>1. SeenFound!:'
  BY SeenFound, PTL
<1>2. QED
  BY <1>1

-----------------------------------------------------------------------------
(* Each step of map_page_table keeps the memory in order, and changes what *)
(* is seen of one page at most.                                            *)
Same == \A v \in VirtualPages : Seen(v)' = Seen(v)

LEMMA CallKeeps ==
  ASSUME NEW lev, NEW up, NEW at, NEW b, Memory(lev, up, at, b), layout' = layout, pml4 = Root,
         NEW p \in Nat, NEW v \in 0 .. ENTRIES * Span(4) - 1, NEW w \in Nat, map_page_table(p, v, w)
  PROVE  Memory(lev, up, at, b)' /\ Same
<1>1. Root' = Root
  BY SameMachine
<1>2. /\ pc = "idle" /\ pc' = "walk" /\ level' = 4 /\ table' = Root
      /\ op' = [physical_addr |-> p, virtual_addr |-> v, flags |-> w]
      /\ mem' = mem /\ cr3' = cr3 /\ free_mem_head' = free_mem_head
  BY DEF map_page_table
<1>3. ~ Busy /\ ~ Busy'
  BY <1>2 DEF Busy
<1>4. Shape(mem, Root, lev, up, at, {})
  BY <1>3 DEF Memory, Tree, Excepted
<1>5. Typed'
  BY <1>1, <1>2 DEF Memory, Typed
<1>6. Tree(lev, up, at)'
  BY <1>1, <1>2, <1>3, <1>4 DEF Tree, Excepted
<1>7. OnTheWay(lev)'
  <2>1. Root \in Frames /\ lev[Root] = 4
    BY <1>4 DEF Shape
  <2>2. At(mem, Root, 4, v) = Root
    BY DEF At
  <2>3. QED
    BY <1>1, <1>2, <1>3, <2>1, <2>2 DEF OnTheWay
<1>8. Free(lev, b)'
  BY <1>2, FreeKept DEF Memory
<1>9. Pending(lev, b)'
  BY <1>2 DEF Pending
<1>10. Same
  BY <1>2, <1>3 DEF Same, Seen, Hidden, Translate
<1>11. QED
  BY <1>5, <1>6, <1>7, <1>8, <1>9, <1>10 DEF Memory

LEMMA FollowKeeps ==
  ASSUME NEW lev, NEW up, NEW at, NEW b, Memory(lev, up, at, b), layout' = layout, FollowEntry
  PROVE  Memory(lev, up, at, b)' /\ Same
<1>1. Root' = Root
  BY SameMachine
<1>2. /\ pc = "walk" /\ pc' = "walk" /\ level > 1 /\ level' = level - 1 /\ table' = ALIGN_DOWN(mem[table][index])
      /\ Present(mem[table][index]) /\ op' = op
      /\ mem' = mem /\ cr3' = cr3 /\ free_mem_head' = free_mem_head
  BY DEF FollowEntry, Upper, Missing, entry, NextTable
<1>3. ~ Busy /\ ~ Busy'
  BY <1>2 DEF Busy
<1>4. Shape(mem, Root, lev, up, at, {})
  BY <1>3 DEF Memory, Tree, Excepted
<1>5. Typed'
  BY <1>1, <1>2 DEF Memory, Typed
<1>6. Tree(lev, up, at)'
  BY <1>1, <1>2, <1>3, <1>4 DEF Tree, Excepted
<1>7. /\ level \in 1 .. 4 /\ level \in 2 .. 4 /\ level - 1 \in 1 .. 4 /\ table \in Frames /\ lev[table] = level
      /\ index \in Index /\ At(mem, Root, level, op.virtual_addr) = table
  <2>1. level \in 1 .. 4 /\ table \in Frames /\ lev[table] = level /\ At(mem, Root, level, op.virtual_addr) = table
    BY <1>2 DEF Memory, OnTheWay
  <2>2. index \in Index
    BY <1>2, <2>1, IndexIs DEF Memory
  <2>3. QED
    BY <1>2, <2>1, <2>2
<1>8. OnTheWay(lev)'
  <2>1. LeadsDown(mem, lev, up, at, table, index)
    BY <1>2, <1>4, <1>7 DEF Shape
  <2>2. At(mem, Root, level - 1, op.virtual_addr) = Down(mem, table, index)
    BY <1>7, OneDown DEF index
  <2>3. Down(mem, table, index) = ALIGN_DOWN(mem[table][index])
    BY <1>2, <1>7, FrameIsSomewhere DEF Down
  <2>4. table' \in Frames /\ lev[table'] = level'
    BY <1>2, <1>7, <2>1 DEF LeadsDown
  <2>5. QED
    BY <1>1, <1>2, <1>3, <1>7, <2>2, <2>3, <2>4 DEF OnTheWay
<1>9. Free(lev, b)'
  BY <1>2, FreeKept DEF Memory
<1>10. Pending(lev, b)'
  BY <1>2 DEF Pending
<1>11. Same
  BY <1>2, <1>3 DEF Same, Seen, Hidden, Translate
<1>12. QED
  BY <1>5, <1>6, <1>8, <1>9, <1>10, <1>11 DEF Memory

LEMMA ClaimKeeps ==
  ASSUME NEW lev, NEW up, NEW at, NEW b, Memory(lev, up, at, b), layout' = layout, ClaimEntry
  PROVE  Memory(lev, up, at, b)' /\ Same
<1>1. Root' = Root
  BY SameMachine
<1>2. /\ pc = "walk" /\ pc' = "fill" /\ level > 1 /\ level' = level /\ table' = table
      /\ ~ Present(mem[table][index]) /\ op' = op /\ index' = index
      /\ Store(table, index, 7) /\ cr3' = cr3 /\ free_mem_head' = free_mem_head
  BY DEF ClaimEntry, Upper, Missing, entry, index, PAGE_PRESENT, PAGE_READ_WRITE, PAGE_USER_SUPERVISOR
<1>3. ~ Busy /\ Busy'
  BY <1>2 DEF Busy
<1>4. Typed /\ Tree(lev, up, at) /\ OnTheWay(lev) /\ Free(lev, b)
  BY DEF Memory
<1>5. /\ mem' \in Memories /\ OnlyEntry(mem, mem', lev, table, index) /\ mem'[table][index] = 7
      /\ \A f \in Frames : f # table => mem'[f] = mem[f]
  BY <1>2, <1>4, StoreIs
<1>6. /\ Shape(mem', Root, lev, up, at, {<<table, index>>})
      /\ At(mem', Root, level, op.virtual_addr) = table
      /\ \A v \in Nat :
           /\ Through(mem', Root, level, table, index, v) <=> Through(mem, Root, level, table, index, v)
           /\ ~ Through(mem, Root, level, table, index, v) => Found(mem', Root, v) = Found(mem, Root, v)
  BY <1>2, <1>4, <1>5, Stored
<1>7. Typed'
  BY <1>1, <1>2, <1>4 DEF Typed
<1>8. Tree(lev, up, at)'
  BY <1>1, <1>2, <1>3, <1>6 DEF Tree, Excepted
<1>9. level \in 2 .. 4 /\ level \in 1 .. 4 /\ table \in Frames /\ lev[table] = level
  BY <1>2, <1>4 DEF OnTheWay
<1>10. OnTheWay(lev)'
  BY <1>1, <1>2, <1>6, <1>9 DEF OnTheWay
<1>11. Free(lev, b)'
  <2>1. ASSUME NEW p \in UsablePages, p < b PROVE mem'[p] = mem[p]
    <3>1. p \in Frames /\ lev[p] = 0
      BY <1>4, <2>1, UsableFrames DEF Free
    <3>2. QED
      BY <1>5, <1>9, <3>1
  <2>2. QED
    BY <1>2, <1>4, <2>1, FreeKept
<1>12. Pending(lev, b)'
  BY <1>2, <1>5 DEF Pending
<1>13. ASSUME NEW v \in VirtualPages PROVE Seen(v)' = Seen(v)
  <2>1. v \in Nat
    BY Pages
  <2>2. Seen(v) = Found(mem, Root, v)
    BY <1>3, <1>4, <2>1, SeenIs DEF Hidden
  <2>3. Hidden(v)' <=> Through(mem, Root, level, table, index, v)
    BY <1>1, <1>2, <1>3, <1>6, <2>1 DEF Hidden
  <2>4. Seen(v)' = IF Hidden(v)' THEN 0 ELSE Found(mem', Root, v)
    <3>1. /\ Typed' /\ Tree(lev, up, at)' /\ OnTheWay(lev)'
          => Seen(v)' = IF Hidden(v)' THEN 0 ELSE Found(mem', Root', v)
      BY <2>1, SeenIsNext
    <3>2. QED
      BY <1>1, <1>7, <1>8, <1>10, <3>1
  <2>5. CASE Through(mem, Root, level, table, index, v)
    <3>1. Found(mem, Root, v) = 0
      BY <1>2, <1>9, <2>5, DeadEnd DEF Through
    <3>2. QED
      BY <2>2, <2>3, <2>4, <2>5, <3>1
  <2>6. CASE ~ Through(mem, Root, level, table, index, v)
    BY <1>6, <2>1, <2>2, <2>3, <2>4, <2>6
  <2>7. QED
    BY <2>5, <2>6
<1>14. QED
  BY <1>7, <1>8, <1>10, <1>11, <1>12, <1>13 DEF Memory, Same

LEMMA SameIndices ==
  ASSUME NEW a \in Nat
  PROVE  \A l \in 1 .. 4 : TableIndex(l, ALIGN_DOWN(a)) = TableIndex(l, a)
<1> DEFINE v == ALIGN_DOWN(a)
<1>1. v \in Nat /\ v \div 4096 = a \div 4096
  <2>1. a \div 4096 \in Nat /\ v = 4096 * (a \div 4096)
    BY DEF ALIGN_DOWN, PAGE_SIZE
  <2>2. QED
    BY <2>1
<1> HIDE DEF v
<1>2. v \div Span(1) = a \div Span(1)
  BY <1>1, Spans DEF PAGE_SIZE
<1>3. \A i_ \in 1 .. 3 : v \div Span(i_) = a \div Span(i_) => v \div Span(i_ + 1) = a \div Span(i_ + 1)
  BY <1>1, SpanSplit
<1>4. /\ v \div Span(1) = a \div Span(1) => v \div Span(2) = a \div Span(2)
      /\ v \div Span(2) = a \div Span(2) => v \div Span(3) = a \div Span(3)
      /\ v \div Span(3) = a \div Span(3) => v \div Span(4) = a \div Span(4)
  BY <1>3
<1>5. \A l \in 1 .. 4 : l = 1 \/ l = 2 \/ l = 3 \/ l = 4
  OBVIOUS
<1>6. QED
  BY <1>2, <1>4, <1>5 DEF v, TableIndex

LEMMA FillKeeps ==
  ASSUME NEW lev, NEW up, NEW at, NEW b, Memory(lev, up, at, b), layout' = layout, FillEntry
  PROVE  \E a \in Nat : Memory(lev, up, at, a)' /\ Same
<1>1. Root' = Root /\ UsablePages' = UsablePages /\ \A a : PointerBelow(a)' = PointerBelow(a)
  BY SameMachine
<1>2. Typed /\ Tree(lev, up, at) /\ OnTheWay(lev) /\ Free(lev, b)
  BY DEF Memory
<1>3. PICK f \in UsablePages :
        /\ f \in Frames /\ f < b /\ \A p \in UsablePages : p < b => p <= f
        /\ PointerBelow(b) = f + hhdm /\ f + hhdm # 0 /\ f + hhdm - hhdm = f
  <2>1. b \in Nat /\ PointerBelow(b) # 0 /\ layout \in Layouts
    BY <1>2 DEF FillEntry, Free, Typed
  <2>2. QED
    BY <2>1, HeadOfList
<1>4. f \in Nat /\ b \in Nat /\ mem[f][0] = f /\ mem[f][1] = PointerBelow(f) /\ lev[f] = 0 /\ ALIGN_DOWN(f) = f
  BY <1>2, <1>3, FrameIsSomewhere, Words DEF Free
<1>5. /\ pc = "fill" /\ pc' = "clear" /\ level' = level /\ table' = table /\ op' = op /\ index' = index
      /\ Store(table, index, 7 + f) /\ cr3' = cr3 /\ free_mem_head' = PointerBelow(f)
  <2>1. free_mem_head = PointerBelow(b)
    BY <1>2 DEF Free
  <2>2. PointerBelow(b) = f + hhdm /\ f + hhdm - hhdm = f
    BY <1>3
  <2>3. free_mem_head = f + hhdm
    BY <2>1, <2>2
  <2>4. free_mem_head - hhdm = f
    <3>1. f \in Nat /\ hhdm \in Nat
      BY <1>4, PagingConstants
    <3>2. QED
      BY <2>3, <3>1
  <2>5. pc = "fill" /\ mem[table][index] = 7
    BY DEF FillEntry, Memory, Pending
  <2>6. QED
    BY <1>4, <2>4, <2>5 DEF FillEntry, NextFree, entry, index
<1>6. Busy /\ Busy'
  BY <1>5 DEF Busy
<1>7. level \in 2 .. 4 /\ level \in 1 .. 4 /\ table \in Frames /\ lev[table] = level /\ index \in Index
  BY <1>2, <1>5, <1>6, IndexIs DEF OnTheWay
<1>8. 7 + f \in Nat
  BY <1>4
<1>9. /\ mem' \in Memories /\ OnlyEntry(mem, mem', lev, table, index)
      /\ mem'[table][index] = 7 + f /\ \A g \in Frames : g # table => mem'[g] = mem[g]
  BY <1>2, <1>5, <1>8, StoreIs
<1>10. /\ Shape(mem', Root, lev, up, at, {<<table, index>>})
       /\ At(mem', Root, level, op.virtual_addr) = table
       /\ \A v \in Nat :
            /\ Through(mem', Root, level, table, index, v) <=> Through(mem, Root, level, table, index, v)
            /\ ~ Through(mem, Root, level, table, index, v) => Found(mem', Root, v) = Found(mem, Root, v)
  BY <1>2, <1>5, <1>9, Stored
<1>11. Typed'
  BY <1>1, <1>2, <1>5 DEF Typed
<1>12. Tree(lev, up, at)'
  BY <1>1, <1>5, <1>6, <1>10 DEF Tree, Excepted
<1>13. OnTheWay(lev)'
  BY <1>1, <1>5, <1>7, <1>10 DEF OnTheWay
<1>14. Free(lev, f)'
  <2>1. ASSUME NEW p \in UsablePages, p < f
        PROVE  mem'[p][0] = p /\ mem'[p][1] = PointerBelow(p) /\ lev[p] = 0
    <3>1. p \in Frames /\ p \in Nat
      BY UsableFrames, FrameIsSomewhere
    <3>2. f < b
      BY <1>3
    <3>3. p < b
      BY <1>4, <2>1, <3>1, <3>2
    <3>4. mem[p][0] = p /\ mem[p][1] = PointerBelow(p) /\ lev[p] = 0
      BY <1>2, <3>3 DEF Free
    <3>5. QED
      BY <1>7, <1>9, <3>1, <3>4
  <2>2. QED
    BY <1>1, <1>4, <1>5, <2>1 DEF Free
<1>15. Pending(lev, f)'
  BY <1>1, <1>3, <1>4, <1>5, <1>9 DEF Pending
<1>16. ASSUME NEW v \in VirtualPages PROVE Seen(v)' = Seen(v)
  <2>1. v \in Nat
    BY Pages
  <2>2. Seen(v) = IF Hidden(v) THEN 0 ELSE Found(mem, Root, v)
    BY <1>2, <2>1, SeenIs
  <2>3. Hidden(v)' <=> Hidden(v)
    BY <1>1, <1>5, <1>6, <1>10, <2>1 DEF Hidden
  <2>4. Seen(v)' = IF Hidden(v)' THEN 0 ELSE Found(mem', Root, v)
    BY <1>1, <1>11, <1>12, <1>13, <2>1, SeenIsNext
  <2>5. ~ Hidden(v) => Found(mem', Root, v) = Found(mem, Root, v)
    BY <1>6, <1>10, <2>1 DEF Hidden
  <2>6. QED
    BY <2>2, <2>3, <2>4, <2>5
<1>17. QED
  BY <1>4, <1>11, <1>12, <1>13, <1>14, <1>15, <1>16 DEF Memory, Same

(* The new table joins the tree: empty, under the entry that was filled.   *)
LEMMA ClearKeeps ==
  ASSUME NEW lev, NEW up, NEW at, NEW b, Memory(lev, up, at, b), layout' = layout, ClearTable
  PROVE  \E l2, u2, a2 : Memory(l2, u2, a2, b)' /\ Same
<1>1. Root' = Root /\ UsablePages' = UsablePages /\ \A a : PointerBelow(a)' = PointerBelow(a)
  BY SameMachine
<1>2. Typed /\ Tree(lev, up, at) /\ OnTheWay(lev) /\ Free(lev, b)
  BY DEF Memory
<1>3. pc = "clear" /\ b \in UsablePages /\ b \in Frames /\ lev[b] = 0 /\ mem[table][index] = 7 + b
  BY UsableFrames DEF Memory, Pending, ClearTable
<1>4. Busy /\ level \in 2 .. 4 /\ level \in 1 .. 4 /\ table \in Frames /\ lev[table] = level /\ index \in Index
  BY <1>2, <1>3, IndexIs DEF OnTheWay, Busy
<1>5. /\ mem \in [Frames -> [Index -> Nat]] /\ Root \in Frames /\ lev[Root] = 4
      /\ lev \in [Frames -> 0 .. 4] /\ up \in [Frames -> Frames] /\ at \in [Frames -> Index]
  BY <1>2 DEF Tree, Shape, Memories
<1>6. mem' = [mem EXCEPT ![b] = [n \in Index |-> 0]]
  BY <1>3, Words DEF ClearTable, Cleared, NextTable, entry
<1>7. mem' \in Memories /\ \A t \in Frames, n \in Index : mem'[t][n] = IF t = b THEN 0 ELSE mem[t][n]
  BY <1>3, <1>5, <1>6 DEF Memories
<1>8. /\ pc' = "walk" /\ level' = level - 1 /\ table' = b /\ op' = op
      /\ cr3' = cr3 /\ free_mem_head' = free_mem_head
  <2>1. mem'[table][index] = 7 + b
    BY <1>3, <1>4, <1>7
  <2>2. QED
    BY <1>3, <2>1, Words DEF ClearTable
<1>9. ~ Busy'
  BY <1>8 DEF Busy
<1>10. OnlyEntry(mem, mem', lev, table, index)
  BY <1>3, <1>7 DEF OnlyEntry
<1>11. /\ Shape(mem', Root, lev, up, at, {<<table, index>>})
       /\ \A v \in Nat :
            /\ At(mem', Root, level, v) = At(mem, Root, level, v)
            /\ ~ Through(mem, Root, level, table, index, v) => Found(mem', Root, v) = Found(mem, Root, v)
  BY <1>2, <1>3, <1>7, <1>10, Stored
<1>12. PICK l2 \in [Frames -> 0 .. 4], u2 \in [Frames -> Frames], a2 \in [Frames -> Index] :
         /\ \A f \in Frames : f # b => l2[f] = lev[f] /\ u2[f] = up[f] /\ a2[f] = at[f]
         /\ l2[b] = level - 1 /\ u2[b] = table /\ a2[b] = index
  <2> DEFINE l == [lev EXCEPT ![b] = level - 1]
             u == [up EXCEPT ![b] = table]
             a == [at EXCEPT ![b] = index]
  <2>1. level - 1 \in 0 .. 4
    BY <1>4
  <2>2. l \in [Frames -> 0 .. 4] /\ u \in [Frames -> Frames] /\ a \in [Frames -> Index]
    BY <1>3, <1>4, <1>5, <2>1
  <2>3. /\ \A f \in Frames : f # b => l[f] = lev[f] /\ u[f] = up[f] /\ a[f] = at[f]
        /\ l[b] = level - 1 /\ u[b] = table /\ a[b] = index
    BY <1>3, <1>5
  <2> HIDE DEF l, u, a
  <2>4. QED
    BY <2>2, <2>3
<1>13. Shape(mem', Root, l2, u2, a2, {})
  <2>1. ASSUME NEW t \in Frames, NEW n \in Index, l2[t] \in 2 .. 4, Present(mem'[t][n])
        PROVE  LeadsDown(mem', l2, u2, a2, t, n)
    <3>1. t # b
      BY <1>7, <2>1, Words
    <3>2. CASE <<t, n>> = <<table, index>>
      <4>1. t = table /\ n = index /\ mem'[t][n] = 7 + b
        BY <1>3, <1>7, <3>1, <3>2
      <4>2. QED
        BY <1>3, <1>4, <1>12, <3>1, <4>1, Words DEF LeadsDown
    <3>3. CASE <<t, n>> # <<table, index>>
      <4>1. LeadsDown(mem', lev, up, at, t, n)
        BY <1>11, <1>12, <2>1, <3>1, <3>3 DEF Shape
      <4>2. lev[ALIGN_DOWN(mem'[t][n])] # 0
        BY <1>12, <2>1, <3>1, <4>1 DEF LeadsDown
      <4>3. QED
        BY <1>3, <1>12, <3>1, <4>1, <4>2 DEF LeadsDown
    <3>4. QED
      BY <3>2, <3>3
  <2>2. Root # b
    BY <1>3, <1>5
  <2>3. QED
    BY <1>5, <1>7, <1>12, <2>1, <2>2 DEF Shape
<1>14. Typed'
  BY <1>1, <1>2, <1>8, <1>3 DEF Typed
<1>15. Tree(l2, u2, a2)'
  BY <1>1, <1>9, <1>13 DEF Tree, Excepted
<1>16. ASSUME NEW v \in Nat, Through(mem, Root, level, table, index, v)
       PROVE  At(mem', Root, level - 1, v) = b
  <2>1. At(mem', Root, level, v) = table /\ TableIndex(level, v) = index
    BY <1>11, <1>16 DEF Through
  <2>2. At(mem', Root, level - 1, v) = Down(mem', table, index)
    BY <1>4, <2>1, OneDown
  <2>3. Present(mem'[table][index]) /\ ALIGN_DOWN(mem'[table][index]) = b
    BY <1>3, <1>4, <1>7, Words
  <2>4. QED
    BY <1>4, <2>2, <2>3, FrameIsSomewhere DEF Down
<1>17. OnTheWay(l2)'
  <2>1. Through(mem, Root, level, table, index, op.virtual_addr) /\ op.virtual_addr \in Nat
    BY <1>2, <1>3, <1>4, IndexIs DEF OnTheWay, Through, index
  <2>2. At(mem', Root, level - 1, op.virtual_addr) = b
    BY <1>16, <2>1
  <2>3. level - 1 \in 1 .. 4
    BY <1>4
  <2>4. QED
    BY <1>1, <1>3, <1>8, <1>9, <1>12, <2>2, <2>3 DEF OnTheWay
<1>18. Free(l2, b)'
  <2>1. ASSUME NEW p \in UsablePages, p < b
        PROVE  mem'[p][0] = p /\ mem'[p][1] = PointerBelow(p) /\ l2[p] = 0
    <3>1. p \in Frames /\ p # b /\ mem'[p] = mem[p]
      BY <1>2, <1>5, <1>6, <2>1, UsableFrames DEF Free
    <3>2. QED
      BY <1>2, <1>12, <2>1, <3>1 DEF Free
  <2>2. QED
    BY <1>1, <1>2, <1>8, <2>1 DEF Free
<1>19. Pending(l2, b)'
  BY <1>8 DEF Pending
<1>20. ASSUME NEW v \in VirtualPages PROVE Seen(v)' = Seen(v)
  <2>1. v \in Nat
    BY Pages
  <2>2. Seen(v) = IF Hidden(v) THEN 0 ELSE Found(mem, Root, v)
    BY <1>2, <2>1, SeenIs
  <2>3. Hidden(v) <=> Through(mem, Root, level, table, index, v)
    BY <1>4 DEF Hidden
  <2>4. Seen(v)' = Found(mem', Root, v)
    <3>1. Seen(v)' = IF Hidden(v)' THEN 0 ELSE Found(mem', Root', v)
      BY <1>14, <1>15, <1>17, <2>1, SeenIsNext
    <3>2. QED
      BY <1>1, <1>9, <3>1 DEF Hidden
  <2>5. CASE Hidden(v)
    <3>1. At(mem', Root, level - 1, v) = b
      BY <1>16, <2>1, <2>3, <2>5
    <3>2. level - 1 \in 1 .. 4
      BY <1>4
    <3>3. TableIndex(level - 1, v) \in Index
      BY <2>1, <3>2, Indices
    <3>4. ~ Present(mem'[b][TableIndex(level - 1, v)])
      BY <1>3, <1>7, <3>3, Words
    <3>5. Found(mem', Root, v) = 0
      BY <3>1, <3>2, <3>4, DeadEnd
    <3>6. QED
      BY <2>2, <2>4, <2>5, <3>5
  <2>6. CASE ~ Hidden(v)
    BY <1>11, <2>1, <2>2, <2>3, <2>4, <2>6
  <2>7. QED
    BY <2>5, <2>6
<1>21. QED
  BY <1>14, <1>15, <1>17, <1>18, <1>19, <1>20 DEF Memory, Same

(* The last store: the page of the call, and it alone, is found as asked.  *)
LEMMA LeafKeeps ==
  ASSUME NEW lev, NEW up, NEW at, NEW b, Memory(lev, up, at, b), layout' = layout, WriteLeaf,
         NewLeaf \in Nat, Present(NewLeaf)
  PROVE  /\ Memory(lev, up, at, b)'
         /\ \A v \in VirtualPages :
              Seen(v)' = IF v = ALIGN_DOWN(op.virtual_addr) THEN NewLeaf ELSE Seen(v)
<1>1. Root' = Root
  BY SameMachine
<1>2. /\ pc = "walk" /\ pc' = "idle" /\ level = 1 /\ Store(table, index, NewLeaf)
      /\ op' = op /\ cr3' = cr3 /\ free_mem_head' = free_mem_head
  BY DEF WriteLeaf
<1>3. ~ Busy /\ ~ Busy'
  BY <1>2 DEF Busy
<1>4. Typed /\ Tree(lev, up, at) /\ OnTheWay(lev) /\ Free(lev, b) /\ Shape(mem, Root, lev, up, at, {})
  BY <1>3 DEF Memory, Tree, Excepted
<1>5. /\ mem' \in Memories /\ OnlyEntry(mem, mem', lev, table, index)
      /\ mem'[table][index] = NewLeaf /\ \A f \in Frames : f # table => mem'[f] = mem[f]
  BY <1>2, <1>4, StoreIs
<1>6. /\ Shape(mem', Root, lev, up, at, {<<table, index>>})
      /\ \A v \in Nat :
           /\ At(mem', Root, level, v) = At(mem, Root, level, v)
           /\ ~ Through(mem, Root, level, table, index, v) => Found(mem', Root, v) = Found(mem, Root, v)
  BY <1>2, <1>4, <1>5, Stored
<1>7. table \in Frames /\ lev[table] = 1 /\ index \in Index /\ At(mem, Root, 1, op.virtual_addr) = table
  BY <1>2, <1>4, IndexIs DEF OnTheWay
<1>8. Shape(mem', Root, lev, up, at, {})
  <2>1. ASSUME NEW t \in Frames, NEW n \in Index, lev[t] \in 2 .. 4, Present(mem'[t][n])
        PROVE  LeadsDown(mem', lev, up, at, t, n)
    <3>1. <<t, n>> # <<table, index>>
      BY <1>7, <2>1
    <3>2. QED
      BY <1>6, <2>1, <3>1 DEF Shape
  <2>2. QED
    BY <1>6, <2>1 DEF Shape
<1>9. Typed'
  BY <1>1, <1>2, <1>4 DEF Typed
<1>10. Tree(lev, up, at)'
  BY <1>1, <1>3, <1>8 DEF Tree, Excepted
<1>11. OnTheWay(lev)'
  BY <1>2 DEF OnTheWay
<1>12. Free(lev, b)'
  <2>1. ASSUME NEW p \in UsablePages, p < b PROVE mem'[p] = mem[p]
    <3>1. p \in Frames /\ lev[p] = 0
      BY <1>4, <2>1, UsableFrames DEF Free
    <3>2. QED
      BY <1>5, <1>7, <3>1
  <2>2. QED
    BY <1>2, <1>4, <2>1, FreeKept
<1>13. Pending(lev, b)'
  BY <1>2 DEF Pending
<1>14. ASSUME NEW v \in VirtualPages
       PROVE  Seen(v)' = IF v = ALIGN_DOWN(op.virtual_addr) THEN NewLeaf ELSE Seen(v)
  <2>1. v \in Nat /\ op.virtual_addr \in 0 .. ENTRIES * Span(4) - 1 /\ op.virtual_addr \in Nat
    BY <1>2, <1>4, <1>7, IndexIs, Pages DEF Typed
  <2>2. Seen(v) = Found(mem, Root, v)
    BY <1>3, <1>4, <2>1, SeenIs DEF Hidden
  <2>3. Seen(v)' = Found(mem', Root, v)
    <3>1. Seen(v)' = IF Hidden(v)' THEN 0 ELSE Found(mem', Root', v)
      BY <1>9, <1>10, <1>11, <2>1, SeenIsNext
    <3>2. QED
      BY <1>1, <1>3, <3>1 DEF Hidden
  <2>4. table # Nowhere /\ At(mem, Root, 1, v) = At1(mem, Root, v) /\ At(mem', Root, 1, v) = At1(mem', Root, v)
        /\ At1(mem, Root, op.virtual_addr) = table
    BY <1>7, FrameIsSomewhere DEF At
  <2>5. CASE Through(mem, Root, level, table, index, v)
    <3>1. At1(mem, Root, v) = table /\ TableIndex(1, v) = index /\ At1(mem', Root, v) = table
      BY <1>2, <1>6, <2>1, <2>4, <2>5 DEF Through
    <3>2. Found(mem', Root, v) = NewLeaf
      BY <1>5, <2>4, <3>1 DEF Found
    <3>3. \A l \in 2 .. 4 : TableIndex(l, v) = TableIndex(l, op.virtual_addr)
      BY <1>4, <2>1, <2>4, <3>1, OnePath
    <3>4. TableIndex(1, v) = TableIndex(1, op.virtual_addr)
      BY <1>2, <3>1 DEF index
    <3>5. \A l \in 1 .. 4 : TableIndex(l, v) = TableIndex(l, op.virtual_addr)
      <4>1. \A l \in 1 .. 4 : l = 1 \/ l \in 2 .. 4
        OBVIOUS
      <4>2. QED
        BY <3>3, <3>4, <4>1
    <3>6. v = ALIGN_DOWN(op.virtual_addr)
      BY <2>1, <3>5, SamePage
    <3>7. QED
      BY <2>3, <3>2, <3>6
  <2>6. CASE ~ Through(mem, Root, level, table, index, v)
    <3>1. Seen(v)' = Seen(v)
      BY <1>6, <2>1, <2>2, <2>3, <2>6
    <3>2. v # ALIGN_DOWN(op.virtual_addr)
      <4>1. CASE v = ALIGN_DOWN(op.virtual_addr)
        <5>1. \A l \in 1 .. 4 : TableIndex(l, v) = TableIndex(l, op.virtual_addr)
          BY <2>1, <4>1, SameIndices
        <5>2. At(mem, Root, 1, v) = At(mem, Root, 1, op.virtual_addr) /\ TableIndex(1, v) = index
          BY <1>2, <5>1 DEF At, At1, At2, At3, index
        <5>3. QED
          BY <1>2, <1>7, <2>6, <5>2 DEF Through
      <4>2. QED
        BY <4>1
    <3>3. QED
      BY <3>1, <3>2
  <2>7. QED
    BY <2>5, <2>6
<1>15. QED
  BY <1>9, <1>10, <1>11, <1>12, <1>13, <1>14 DEF Memory

-----------------------------------------------------------------------------
(* What kmain has done and is about to do, on top of that memory: where it *)
(* is, what the call under way may change, what is still found as at boot, *)
(* what has changed, and which pages of the direct map are in place.       *)
Physical == {v - hhdm : v \in {w \in VirtualPages : w >= hhdm}}
Asks(e)  == IF e.type = "FRAMEBUFFER" THEN 11 ELSE 3

Promised(k, f) ==
  /\ Mapped(memmap[k])
  /\ \/ WholePageOf(memmap[k], f)
     \/ memmap[k].base % PAGE_SIZE = 0 /\ Overlap(memmap[k], [base |-> f, length |-> PAGE_SIZE])

Region(v) ==
  \/ \E k \in 1 .. Len(memmap) :
       Mapped(memmap[k]) /\ Overlap(memmap[k], [base |-> v - hhdm, length |-> PAGE_SIZE])
  \/ layout.virtual_base <= v /\ v < 2 * section_end(3) - layout.virtual_base

Control ==
  /\ stage \in {"pmm_init", "init_pml4", "map_kernel", "map_memmap", "map_entry", "set_cr3", "halted"}
  /\ stage \notin {"pmm_init", "init_pml4"} => pml4 = Root
  /\ stage \notin {"map_kernel", "map_entry"} => pc = "idle"
  /\ section \in 1 .. 3 /\ i \in Nat
  /\ stage \in {"map_memmap", "map_entry"} => i >= 1
  /\ stage = "map_entry" =>
       /\ i \in 1 .. Len(memmap) /\ Mapped(memmap[i])
       /\ current \in Nat /\ current >= memmap[i].base
       /\ memmap[i].base % PAGE_SIZE = 0 => current % PAGE_SIZE = 0
  /\ stage \in {"set_cr3", "halted"} => i > Len(memmap)

LeafOf(o)   == ALIGN_DOWN(o.physical_addr) + (o.flags % 4096)
TargetOf(o) == ALIGN_DOWN(o.virtual_addr)

Lawful(o) ==
  /\ LeafOf(o) \in Nat /\ Present(LeafOf(o))
  /\ BootTranslate(TargetOf(o)) # 0 => ALIGN_DOWN(LeafOf(o)) = ALIGN_DOWN(BootTranslate(TargetOf(o)))
  /\ \A f \in Frames : TargetOf(o) = f + hhdm => Writable(LeafOf(o))
  /\ Region(TargetOf(o))
  /\ \A k \in 1 .. Len(memmap) : \A f \in Physical :
       Promised(k, f) /\ TargetOf(o) = f + hhdm => LeafOf(o) = f + Asks(memmap[k])

InCall == pc # "idle" => Lawful(op)

AsAtBoot ==
  /\ \A v \in VirtualPages : BootTranslate(v) # 0 =>
       Seen(v) # 0 /\ ALIGN_DOWN(Seen(v)) = ALIGN_DOWN(BootTranslate(v))
  /\ \A v \in ImagePages : Present(Seen(v))
  /\ \A f \in Frames : Present(Seen(f + hhdm)) /\ Writable(Seen(f + hhdm))

Confined == \A v \in VirtualPages : Seen(v) = BootTranslate(v) \/ Region(v)

Done(k, f) == k < i \/ (k = i /\ stage = "map_entry" /\ f < ALIGN_DOWN(current))
Coming(f)  == pc # "idle" /\ TargetOf(op) = f + hhdm

InPlace ==
  stage \in {"map_memmap", "map_entry", "set_cr3", "halted"} =>
    \A k \in 1 .. Len(memmap) : \A f \in Physical :
      Promised(k, f) /\ Done(k, f) /\ ~ Coming(f) => Seen(f + hhdm) = f + Asks(memmap[k])

Cached ==
  /\ DOMAIN tlb = layout.watched
  /\ \A v \in layout.watched : tlb[v] # 0 /\ BootTranslate(v) # 0 =>
       ALIGN_DOWN(tlb[v]) = ALIGN_DOWN(BootTranslate(v))

Machine ==
  \E lev, up, at, b :
    /\ Memory(lev, up, at, b)
    /\ stage = "pmm_init" => \A p \in UsablePages : lev[p] = 0

Promises == Control /\ InCall /\ AsAtBoot /\ Confined /\ InPlace /\ Cached

IInv == Small /\ ~ oom => Machine /\ Promises

-----------------------------------------------------------------------------
(* Pages and their addresses.                                              *)
LEMMA Rounding ==
  \A a \in Nat :
    /\ ALIGN_DOWN(a) \in Nat /\ ALIGN_DOWN(a) % PAGE_SIZE = 0
    /\ ALIGN_DOWN(a) <= a /\ a < ALIGN_DOWN(a) + PAGE_SIZE
    /\ ALIGN_DOWN(ALIGN_DOWN(a)) = ALIGN_DOWN(a)
    /\ ALIGN_UP(a) \in Nat /\ ALIGN_UP(a) % PAGE_SIZE = 0
    /\ a <= ALIGN_UP(a) /\ ALIGN_UP(a) < a + PAGE_SIZE
<1> SUFFICES ASSUME NEW a \in Nat
             PROVE  /\ ALIGN_DOWN(a) \in Nat /\ ALIGN_DOWN(a) % PAGE_SIZE = 0
                    /\ ALIGN_DOWN(a) <= a /\ a < ALIGN_DOWN(a) + PAGE_SIZE
                    /\ ALIGN_DOWN(ALIGN_DOWN(a)) = ALIGN_DOWN(a)
                    /\ ALIGN_UP(a) \in Nat /\ ALIGN_UP(a) % PAGE_SIZE = 0
                    /\ a <= ALIGN_UP(a) /\ ALIGN_UP(a) < a + PAGE_SIZE
  OBVIOUS
<1>1. PICK q \in Nat : q = a \div 4096
  OBVIOUS
<1>2. PICK u \in Nat : u = (a + 4095) \div 4096
  OBVIOUS
<1>3. ALIGN_DOWN(a) = q * 4096 /\ ALIGN_UP(a) = u * 4096
  BY <1>1, <1>2 DEF ALIGN_DOWN, ALIGN_UP, PAGE_SIZE
<1>4. (q * 4096) \div 4096 = q /\ (q * 4096) % 4096 = 0 /\ (u * 4096) % 4096 = 0
  OBVIOUS
<1>5. q * 4096 <= a /\ a < q * 4096 + 4096 /\ a <= u * 4096 /\ u * 4096 < a + 4096
  BY <1>1, <1>2
<1>6. ALIGN_DOWN(ALIGN_DOWN(a)) = q * 4096
  BY <1>3, <1>4 DEF ALIGN_DOWN, PAGE_SIZE
<1>7. QED
  BY <1>3, <1>4, <1>5, <1>6 DEF PAGE_SIZE

LEMMA Aligned ==
  \A a, p \in Nat : p % PAGE_SIZE = 0 =>
    /\ ALIGN_DOWN(p) = p /\ ALIGN_DOWN(a + p) = ALIGN_DOWN(a) + p
    /\ p <= a => p <= ALIGN_DOWN(a)
    /\ a < p => ALIGN_DOWN(a) + PAGE_SIZE <= p
    /\ a % PAGE_SIZE = 0 => (a + p) % PAGE_SIZE = 0
    /\ a % PAGE_SIZE = 0 /\ p <= a => (a - p) % PAGE_SIZE = 0
<1> SUFFICES ASSUME NEW a \in Nat, NEW p \in Nat, p % PAGE_SIZE = 0
             PROVE  /\ ALIGN_DOWN(p) = p /\ ALIGN_DOWN(a + p) = ALIGN_DOWN(a) + p
                    /\ p <= a => p <= ALIGN_DOWN(a)
                    /\ a < p => ALIGN_DOWN(a) + PAGE_SIZE <= p
                    /\ a % PAGE_SIZE = 0 => (a + p) % PAGE_SIZE = 0
                    /\ a % PAGE_SIZE = 0 /\ p <= a => (a - p) % PAGE_SIZE = 0
  OBVIOUS
<1>1. PICK q \in Nat : p = q * 4096
  BY DEF PAGE_SIZE
<1>2. PICK d \in Nat : d = a \div 4096
  OBVIOUS
<1>3. ALIGN_DOWN(p) = q * 4096 /\ ALIGN_DOWN(a) = d * 4096 /\ ALIGN_DOWN(a + p) = (d + q) * 4096
  <2>1. p \div 4096 = q /\ (a + p) \div 4096 = d + q
    BY <1>1, <1>2
  <2>2. QED
    BY <1>2, <2>1 DEF ALIGN_DOWN, PAGE_SIZE
<1>4. p <= a => q <= d
  BY <1>1, <1>2
<1>5. a < p => d + 1 <= q
  BY <1>1, <1>2
<1>6. a % 4096 = 0 => (a + p) % 4096 = 0 /\ (p <= a => (a - p) % 4096 = 0)
  BY <1>1
<1>7. QED
  BY <1>1, <1>3, <1>4, <1>5, <1>6 DEF PAGE_SIZE

LEMMA NextPage ==
  \A a \in Nat :
    /\ ALIGN_DOWN(a + PAGE_SIZE) = ALIGN_DOWN(a) + PAGE_SIZE
    /\ a % PAGE_SIZE = 0 => (a + PAGE_SIZE) % PAGE_SIZE = 0
  BY Aligned DEF PAGE_SIZE

LEMMA VirtualPage ==
  /\ \A v \in VirtualPages : v \in Nat /\ v % PAGE_SIZE = 0 /\ v < ENTRIES * Span(4)
  /\ \A v \in Nat : v % PAGE_SIZE = 0 /\ v < ENTRIES * Span(4) => v \in VirtualPages
<1>1. ENTRIES * Span(4) \in Nat
  <2>1. ENTRIES \in Nat /\ Span(4) \in Nat
    BY Spans, PagingConstants
  <2>2. QED
    BY <2>1
<1>2. ASSUME NEW v \in VirtualPages PROVE v \in Nat /\ v % PAGE_SIZE = 0 /\ v < ENTRIES * Span(4)
  <2>1. v \in Nat /\ v \in 0 .. ENTRIES * Span(4) - 1 /\ ALIGN_DOWN(v) = v
    BY Pages
  <2>2. v % PAGE_SIZE = 0
    BY <2>1, Rounding
  <2>3. QED
    BY <1>1, <2>1, <2>2
<1>3. ASSUME NEW v \in Nat, v % PAGE_SIZE = 0, v < ENTRIES * Span(4) PROVE v \in VirtualPages
  <2>1. v \in 0 .. ENTRIES * Span(4) - 1
    BY <1>1, <1>3
  <2>2. ALIGN_DOWN(v) = v
    BY <1>3, Aligned
  <2>3. QED
    BY <2>1, <2>2, Pages
<1>4. QED
  BY <1>2, <1>3

-----------------------------------------------------------------------------
(* The places of a machine: the direct map below the image, the image and  *)
(* what map_section takes for it below the end of the address space.       *)
ImageBase == layout.virtual_base
ImageEnd == section_end(3)

LEMMA Places ==
  ASSUME layout \in Layouts
  PROVE  /\ ImageBase \in Nat /\ ImageBase % PAGE_SIZE = 0 /\ hhdm \in Nat /\ hhdm > 0 /\ hhdm % PAGE_SIZE = 0
         /\ layout.physical_base \in Nat /\ layout.physical_base % PAGE_SIZE = 0
         /\ ImageEnd \in Nat /\ ImageBase <= ImageEnd /\ 2 * ImageEnd - ImageBase + PAGE_SIZE <= ENTRIES * Span(4)
         /\ \A k \in 1 .. 3 :
              /\ section_begin(k) \in Nat /\ section_end(k) \in Nat
              /\ ImageBase <= section_begin(k) /\ section_begin(k) <= section_end(k) /\ section_end(k) <= ImageEnd
         /\ \A f \in Frames : f \in Nat /\ f % PAGE_SIZE = 0 /\ f + hhdm < ImageBase
<1>1. ImageLegal(layout)
  BY LayoutsLegal
<1>2. \A k \in 1 .. 3 :
        /\ section_begin(k) \in Nat /\ section_end(k) \in Nat
        /\ ImageBase <= section_begin(k) /\ section_begin(k) <= section_end(k) /\ section_end(k) <= ImageEnd
  BY <1>1 DEF ImageLegal, section_begin, section_end, ImageBase, ImageEnd
<1>3. ImageEnd \in Nat /\ ImageBase <= ImageEnd
  <2>1. 3 \in 1 .. 3
    OBVIOUS
  <2>2. ImageBase \in Nat
    BY <1>1 DEF ImageLegal, ImageBase
  <2>3. section_end(3) \in Nat /\ ImageBase <= section_begin(3) /\ section_begin(3) <= section_end(3) /\ section_begin(3) \in Nat
    BY <1>2, <2>1
  <2>4. QED
    BY <2>2, <2>3 DEF ImageEnd
<1>4. QED
  BY <1>1, <1>2, <1>3, PagingConstants DEF ImageLegal, ImageBase, ImageEnd, section_end

LEMMA EntriesOf ==
  ASSUME layout \in Layouts, NEW k \in 1 .. Len(memmap)
  PROVE  /\ memmap[k].base \in Nat /\ memmap[k].length \in Nat /\ Limit(memmap[k]) \in Nat
         /\ memmap[k].type \in MemmapType
         /\ Mapped(memmap[k]) => Limit(memmap[k]) + hhdm <= ImageBase
         /\ memmap[k].type \in {"USABLE", "BOOTLOADER_RECLAIMABLE"} =>
              /\ memmap[k].base % PAGE_SIZE = 0 /\ memmap[k].length % PAGE_SIZE = 0
              /\ \A j \in 1 .. Len(memmap) : j # k => ~ Overlap(memmap[j], memmap[k])
<1>1. MapLegal(memmap) /\ ImageLegal(layout)
  BY LayoutsLegal DEF memmap
<1>2. memmap[k] \in MemmapEntry
  BY <1>1 DEF MapLegal
<1>3. memmap[k].base \in Nat /\ memmap[k].length \in Nat /\ memmap[k].type \in MemmapType
  BY <1>2 DEF MemmapEntry
<1>4. Limit(memmap[k]) \in Nat
  BY <1>3 DEF Limit
<1>5. Mapped(memmap[k]) => Limit(memmap[k]) + hhdm <= ImageBase
  BY <1>1 DEF ImageLegal, memmap, ImageBase
<1>6. memmap[k].type \in {"USABLE", "BOOTLOADER_RECLAIMABLE"} =>
        /\ memmap[k].base % PAGE_SIZE = 0 /\ memmap[k].length % PAGE_SIZE = 0
        /\ \A j \in 1 .. Len(memmap) : j # k => ~ Overlap(memmap[j], memmap[k])
  BY <1>1 DEF MapLegal
<1>7. QED
  BY <1>3, <1>4, <1>5, <1>6

LEMMA PhysicalIs ==
  /\ \A f \in Physical : f \in Nat /\ f % PAGE_SIZE = 0 /\ f + hhdm \in VirtualPages
  /\ \A f \in Nat : f + hhdm \in VirtualPages => f \in Physical
<1>1. hhdm \in Nat /\ hhdm % PAGE_SIZE = 0
  BY PagingConstants
<1>2. ASSUME NEW f \in Physical PROVE f \in Nat /\ f % PAGE_SIZE = 0 /\ f + hhdm \in VirtualPages
  <2>1. PICK v \in VirtualPages : v >= hhdm /\ f = v - hhdm
    BY DEF Physical
  <2>2. v \in Nat /\ v % PAGE_SIZE = 0
    BY VirtualPage
  <2>3. f \in Nat /\ f + hhdm = v
    BY <1>1, <2>1, <2>2
  <2>4. (v - hhdm) % PAGE_SIZE = 0
    BY <1>1, <2>1, <2>2, Aligned
  <2>5. QED
    BY <2>1, <2>3, <2>4
<1>3. ASSUME NEW f \in Nat, f + hhdm \in VirtualPages PROVE f \in Physical
  <2>1. PICK w \in VirtualPages : w = f + hhdm
    BY <1>3
  <2>2. w >= hhdm /\ f = w - hhdm
    BY <1>1, <2>1
  <2>3. QED
    BY <2>2 DEF Physical
<1>4. QED
  BY <1>2, <1>3

LEMMA FramesDirect ==
  ASSUME layout \in Layouts
  PROVE  \A f \in Frames : f \in Nat /\ f \in Physical /\ f + hhdm \in VirtualPages /\ f + hhdm < ImageBase
<1> SUFFICES ASSUME NEW f \in Frames
             PROVE  f \in Nat /\ f \in Physical /\ f + hhdm \in VirtualPages /\ f + hhdm < ImageBase
  OBVIOUS
<1>1. f \in Nat /\ f % PAGE_SIZE = 0 /\ f + hhdm < ImageBase /\ hhdm \in Nat /\ hhdm % PAGE_SIZE = 0
  BY Places
<1>2. ImageBase <= ENTRIES * Span(4)
  <2>1. ImageBase \in Nat /\ ImageEnd \in Nat /\ ImageBase <= ImageEnd /\ 2 * ImageEnd - ImageBase + PAGE_SIZE <= ENTRIES * Span(4)
    BY Places
  <2>2. ENTRIES * Span(4) \in Nat
    <3>1. ENTRIES \in Nat /\ Span(4) \in Nat
      BY Spans, PagingConstants
    <3>2. QED
      BY <3>1
  <2>3. QED
    BY <2>1, <2>2 DEF PAGE_SIZE
<1>3. (f + hhdm) % PAGE_SIZE = 0 /\ f + hhdm \in Nat
  BY <1>1, Aligned
<1>4. f + hhdm < ENTRIES * Span(4)
  <2>1. ImageBase \in Nat /\ ENTRIES * Span(4) \in Nat
    <3>1. ENTRIES \in Nat /\ Span(4) \in Nat
      BY Spans, PagingConstants
    <3>2. QED
      BY <3>1, Places
  <2>2. QED
    BY <1>1, <1>2, <1>3, <2>1
<1>5. f + hhdm \in VirtualPages
  BY <1>3, <1>4, VirtualPage
<1>6. QED
  BY <1>1, <1>5, PhysicalIs

LEMMA ImageIsThere ==
  ASSUME layout \in Layouts
  PROVE  \A v \in ImagePages : Frames # {} => v \in VirtualPages /\ v >= ImageBase /\ v >= hhdm
<1> SUFFICES ASSUME NEW v \in ImagePages, Frames # {}
             PROVE  v \in VirtualPages /\ v >= ImageBase /\ v >= hhdm
  OBVIOUS
<1>1. /\ ImageBase \in Nat /\ ImageBase % PAGE_SIZE = 0 /\ hhdm \in Nat /\ ImageEnd \in Nat /\ ImageBase <= ImageEnd
      /\ 2 * ImageEnd - ImageBase + PAGE_SIZE <= ENTRIES * Span(4)
      /\ \A f \in Frames : f \in Nat /\ f + hhdm < ImageBase
  BY Places
<1>2. PICK u \in Nat : u = ALIGN_UP(ImageEnd) /\ u % PAGE_SIZE = 0 /\ u < ImageEnd + PAGE_SIZE /\ ImageEnd <= u
  BY <1>1, Rounding
<1>3. PICK n \in 0 .. (u - ImageBase) \div PAGE_SIZE - 1 : v = ImageBase + n * PAGE_SIZE
  BY <1>2 DEF ImagePages, ImagePagesOf, ImageBase, ImageEnd, section_end
<1>4. n \in Nat /\ n * PAGE_SIZE < u - ImageBase
  <2>1. u - ImageBase \in Nat
    BY <1>1, <1>2
  <2>2. PICK d \in Nat : d = (u - ImageBase) \div 4096
    BY <2>1
  <2>3. d * 4096 <= u - ImageBase
    BY <2>1, <2>2
  <2>4. n \in Nat /\ n + 1 <= d
    BY <1>3, <2>2 DEF PAGE_SIZE
  <2>5. QED
    BY <2>1, <2>2, <2>3, <2>4 DEF PAGE_SIZE
<1>5. v \in Nat /\ v >= ImageBase /\ v < u
  BY <1>1, <1>2, <1>3, <1>4 DEF PAGE_SIZE
<1>6. v % PAGE_SIZE = 0
  <2>1. n * PAGE_SIZE \in Nat /\ (n * PAGE_SIZE) % PAGE_SIZE = 0
    BY <1>4 DEF PAGE_SIZE
  <2>2. QED
    BY <1>1, <1>3, <2>1, Aligned
<1>7. v < ENTRIES * Span(4)
  <2>1. ENTRIES * Span(4) \in Nat
    <3>1. ENTRIES \in Nat /\ Span(4) \in Nat
      BY Spans, PagingConstants
    <3>2. QED
      BY <3>1
  <2>2. PICK W \in Nat : W = ENTRIES * Span(4)
    BY <2>1
  <2>3. 2 * ImageEnd - ImageBase + 4096 <= W
    BY <1>1, <2>2 DEF PAGE_SIZE
  <2>4. v < W
    BY <1>1, <1>2, <1>5, <2>3 DEF PAGE_SIZE
  <2>5. QED
    BY <2>2, <2>4
<1>8. v >= hhdm
  BY <1>1, <1>5
<1>9. QED
  BY <1>5, <1>6, <1>7, <1>8, VirtualPage

-----------------------------------------------------------------------------
(* What kmain asks of map_page_table is in order, call by call.            *)
LEMMA LeafWords ==
  ASSUME NEW p \in Nat, p % PAGE_SIZE = 0
  PROVE  /\ \A w \in {1, 3, 11} : Present(p + w) /\ ALIGN_DOWN(p + w) = p /\ p + w \in Nat /\ w % 4096 = w
         /\ Writable(p + 3) /\ Writable(p + 11) /\ 4107 % 4096 = 11
<1>1. PICK q \in Nat : p = q * 4096
  BY DEF PAGE_SIZE
<1>2. ASSUME NEW w \in {1, 3, 11} PROVE Present(p + w) /\ ALIGN_DOWN(p + w) = p /\ p + w \in Nat /\ w % 4096 = w
  <2>1. (p + w) \div 1 = p + w /\ (p + w) % 2 = 1
    BY <1>1
  <2>2. (p + w) \div 4096 = q
    BY <1>1
  <2>3. QED
    BY <1>1, <2>1, <2>2 DEF Present, HasFlag, PAGE_PRESENT, ALIGN_DOWN, PAGE_SIZE
<1>3. Writable(p + 3) /\ Writable(p + 11)
  <2>1. (p + 3) \div 2 = 2048 * q + 1 /\ (p + 11) \div 2 = 2048 * q + 5
    BY <1>1
  <2>2. (2048 * q + 1) % 2 = 1 /\ (2048 * q + 5) % 2 = 1
    OBVIOUS
  <2>3. QED
    BY <2>1, <2>2 DEF Writable, HasFlag, PAGE_READ_WRITE
<1>4. QED
  BY <1>2, <1>3

LEMMA PromisedBelow ==
  ASSUME layout \in Layouts, NEW k \in 1 .. Len(memmap), NEW f \in Nat, Promised(k, f)
  PROVE  /\ f < Limit(memmap[k]) /\ memmap[k].base < f + PAGE_SIZE /\ f + hhdm < ImageBase
         /\ memmap[k].type \in {"USABLE", "BOOTLOADER_RECLAIMABLE", "FRAMEBUFFER"}
<1>1. memmap[k].base \in Nat /\ Limit(memmap[k]) \in Nat /\ Limit(memmap[k]) + hhdm <= ImageBase
  BY EntriesOf DEF Promised
<1>2. f < Limit(memmap[k]) /\ memmap[k].base < f + PAGE_SIZE
  <2>1. CASE WholePageOf(memmap[k], f)
    BY <1>1, <2>1 DEF WholePageOf, PAGE_SIZE
  <2>2. CASE Overlap(memmap[k], [base |-> f, length |-> PAGE_SIZE])
    BY <2>2 DEF Overlap, Limit
  <2>3. QED
    BY <2>1, <2>2 DEF Promised
<1>3. hhdm \in Nat /\ ImageBase \in Nat
  BY Places
<1>4. QED
  BY <1>1, <1>2, <1>3 DEF Promised, Mapped

(* Entries that share a page are framebuffers, and ask for the same.       *)
LEMMA Agreement ==
  ASSUME layout \in Layouts, NEW j \in 1 .. Len(memmap), NEW k \in 1 .. Len(memmap), NEW c \in Nat,
         Mapped(memmap[j]), memmap[j].base <= c, c < Limit(memmap[j]), Promised(k, ALIGN_DOWN(c))
  PROVE  Asks(memmap[k]) = Asks(memmap[j])
<1> DEFINE f == ALIGN_DOWN(c)
<1>1. f \in Nat /\ f % PAGE_SIZE = 0 /\ f <= c /\ c < f + PAGE_SIZE
  BY Rounding
<1>2. f < Limit(memmap[k]) /\ memmap[k].base < f + PAGE_SIZE
      /\ memmap[k].type \in {"USABLE", "BOOTLOADER_RECLAIMABLE", "FRAMEBUFFER"}
  BY <1>1, PromisedBelow
<1>3. /\ memmap[j].base \in Nat /\ memmap[j].length \in Nat /\ Limit(memmap[j]) = memmap[j].base + memmap[j].length
      /\ memmap[k].base \in Nat /\ memmap[k].length \in Nat /\ Limit(memmap[k]) = memmap[k].base + memmap[k].length
  BY EntriesOf DEF Limit
<1> HIDE DEF f
<1>4. ASSUME NEW a \in 1 .. Len(memmap), memmap[a].type \in {"USABLE", "BOOTLOADER_RECLAIMABLE"},
             f < Limit(memmap[a]), memmap[a].base < f + PAGE_SIZE
      PROVE  memmap[a].base <= f /\ f + PAGE_SIZE <= Limit(memmap[a])
  <2>1. /\ memmap[a].base \in Nat /\ memmap[a].length \in Nat /\ Limit(memmap[a]) = memmap[a].base + memmap[a].length
        /\ memmap[a].base % PAGE_SIZE = 0 /\ memmap[a].length % PAGE_SIZE = 0
    BY <1>4, EntriesOf DEF Limit
  <2>2. Limit(memmap[a]) \in Nat /\ Limit(memmap[a]) % PAGE_SIZE = 0
    BY SMTT(30), <2>1 DEF PAGE_SIZE
  <2>3. ALIGN_DOWN(f) = f
    BY <1>1, Aligned
  <2>4. f + PAGE_SIZE <= Limit(memmap[a])
    BY <1>1, <1>4, <2>2, <2>3, Aligned
  <2>5. ALIGN_DOWN(memmap[a].base) = memmap[a].base /\ (f < memmap[a].base => f + PAGE_SIZE <= memmap[a].base)
    BY <1>1, <2>1, <2>3, Aligned
  <2>6. memmap[a].base <= f
    <3>1. ~ (f < memmap[a].base)
      BY <1>1, <1>4, <2>1, <2>5 DEF PAGE_SIZE
    <3>2. QED
      BY <1>1, <2>1, <3>1
  <2>7. QED
    BY <2>4, <2>6
<1>5. CASE k = j
  BY <1>5
<1>6. CASE k # j /\ memmap[k].type \in {"USABLE", "BOOTLOADER_RECLAIMABLE"}
  <2>1. memmap[k].base <= f /\ f + PAGE_SIZE <= Limit(memmap[k])
    BY <1>2, <1>4, <1>6
  <2>2. Overlap(memmap[j], memmap[k])
    BY SMTT(30), <1>1, <1>3, <2>1 DEF Overlap, PAGE_SIZE
  <2>3. QED
    BY <1>6, <2>2, EntriesOf
<1>7. CASE k # j /\ memmap[j].type \in {"USABLE", "BOOTLOADER_RECLAIMABLE"}
  <2>1. f < Limit(memmap[j]) /\ memmap[j].base < f + PAGE_SIZE
    BY SMTT(30), <1>1, <1>3 DEF PAGE_SIZE
  <2>2. memmap[j].base <= f /\ f + PAGE_SIZE <= Limit(memmap[j])
    BY <1>4, <1>7, <2>1
  <2>3. Overlap(memmap[k], memmap[j])
    BY SMTT(30), <1>1, <1>2, <1>3, <2>2 DEF Overlap, PAGE_SIZE
  <2>4. QED
    BY <1>7, <2>3, EntriesOf
<1>8. CASE memmap[k].type = "FRAMEBUFFER" /\ memmap[j].type = "FRAMEBUFFER"
  BY <1>8 DEF Asks
<1>9. QED
  BY <1>2, <1>5, <1>6, <1>7, <1>8 DEF Mapped

Requests == [physical_addr : Nat, virtual_addr : 0 .. ENTRIES * Span(4) - 1, flags : Nat]

LEMMA SectionLawful ==
  ASSUME layout \in Layouts, Frames # {}, NEW k \in 1 .. 3, NEW n \in Nat, n < pages(k)
  PROVE  LET o == [physical_addr |-> SectionFrame(k, n),
                   virtual_addr  |-> layout.virtual_base + offset(k) + n * PAGE_SIZE,
                   flags         |-> SectionFlags(k)]
         IN  o \in Requests /\ Lawful(o)
<1> DEFINE p == SectionFrame(k, n)
           v == layout.virtual_base + offset(k) + n * PAGE_SIZE
           w == SectionFlags(k)
           o == [physical_addr |-> p, virtual_addr |-> v, flags |-> w]
<1>1. /\ ImageBase \in Nat /\ ImageBase % PAGE_SIZE = 0 /\ hhdm \in Nat /\ hhdm > 0
      /\ layout.physical_base \in Nat /\ layout.physical_base % PAGE_SIZE = 0
      /\ ImageEnd \in Nat /\ ImageBase <= ImageEnd /\ 2 * ImageEnd - ImageBase + PAGE_SIZE <= ENTRIES * Span(4)
      /\ \A f \in Frames : f \in Nat /\ f + hhdm < ImageBase
      /\ section_begin(k) \in Nat /\ section_end(k) \in Nat
      /\ ImageBase <= section_begin(k) /\ section_begin(k) <= section_end(k) /\ section_end(k) <= ImageEnd
  BY Places
<1>2. PICK d \in Nat : d = offset(k) /\ d % PAGE_SIZE = 0 /\ d <= ImageEnd - ImageBase
  <2>1. section_end(k) - section_begin(k) \in Nat
    BY <1>1
  <2>2. offset(k) \in Nat /\ offset(k) % PAGE_SIZE = 0 /\ offset(k) <= section_end(k) - section_begin(k)
    BY <2>1, Rounding DEF offset
  <2>3. QED
    BY <1>1, <2>2
<1>3. PICK m \in Nat : m = n * PAGE_SIZE /\ m % PAGE_SIZE = 0 /\ m < ImageEnd - ImageBase
  <2>1. PICK b \in Nat : b = ALIGN_DOWN(section_begin(k)) /\ b <= section_begin(k) /\ ImageBase <= b
    BY <1>1, Rounding, Aligned
  <2>2. PICK x \in Nat : x = section_end(k) - b
    BY <1>1, <2>1
  <2>3. PICK u \in Nat : u = pages(k) /\ u * 4096 < x + 4096
    <3>1. ALIGN_UP(x) < x + PAGE_SIZE
      BY Rounding
    <3>2. PICK u \in Nat : u = (x + 4095) \div 4096
      OBVIOUS
    <3>3. ALIGN_UP(x) = u * 4096 /\ (u * 4096) \div 4096 = u
      BY <3>2 DEF ALIGN_UP, PAGE_SIZE
    <3>4. pages(k) = u
      BY <2>1, <2>2, <3>3 DEF pages, PAGE_SIZE
    <3>5. QED
      BY <3>1, <3>3, <3>4 DEF PAGE_SIZE
  <2>4. n * 4096 < x
    BY <2>3
  <2>5. QED
    BY <1>1, <2>1, <2>2, <2>4 DEF PAGE_SIZE
<1>4. v = ImageBase + d + m /\ p = layout.physical_base + d + m
  BY <1>2, <1>3 DEF ImageBase, SectionFrame
<1>5. w \in {1, 3} /\ w % 4096 = w
  BY DEF SectionFlags, PAGE_PRESENT, PAGE_READ_WRITE
<1> HIDE DEF v, p, w
<1>6. p \in Nat /\ p % PAGE_SIZE = 0 /\ v \in Nat /\ v % PAGE_SIZE = 0
  <2>1. d + m \in Nat /\ (d + m) % PAGE_SIZE = 0
    BY <1>2, <1>3 DEF PAGE_SIZE
  <2>2. ImageBase + (d + m) \in Nat /\ (ImageBase + (d + m)) % PAGE_SIZE = 0
    BY <1>1, <2>1 DEF PAGE_SIZE
  <2>3. layout.physical_base + (d + m) \in Nat /\ (layout.physical_base + (d + m)) % PAGE_SIZE = 0
    BY <1>1, <2>1 DEF PAGE_SIZE
  <2>4. v = ImageBase + (d + m) /\ p = layout.physical_base + (d + m)
    BY <1>1, <1>2, <1>3, <1>4
  <2>5. QED
    BY <2>2, <2>3, <2>4
<1>7. v < 2 * ImageEnd - ImageBase /\ v >= ImageBase
  BY <1>1, <1>2, <1>3, <1>4
<1>8. v < ENTRIES * Span(4)
  <2>1. PICK W \in Nat : W = ENTRIES * Span(4)
    <3>1. ENTRIES \in Nat /\ Span(4) \in Nat
      BY Spans, PagingConstants
    <3>2. QED
      BY <3>1
  <2>2. QED
    BY <1>1, <1>6, <1>7, <2>1 DEF PAGE_SIZE
<1>9. o \in Requests
  BY <1>5, <1>6, <1>8, Spans, PagingConstants DEF Requests
<1>10. TargetOf(o) = v /\ LeafOf(o) = p + w
  <2>1. ALIGN_DOWN(v) = v /\ ALIGN_DOWN(p) = p
    BY <1>6, Aligned
  <2>2. o.virtual_addr = v /\ o.physical_addr = p /\ o.flags = w
    OBVIOUS
  <2>3. QED
    BY <1>5, <2>1, <2>2 DEF TargetOf, LeafOf
<1>11. LeafOf(o) \in Nat /\ Present(LeafOf(o)) /\ ALIGN_DOWN(LeafOf(o)) = p
  BY <1>5, <1>6, <1>10, LeafWords
<1>12. BootTranslate(v) # 0 => ALIGN_DOWN(BootTranslate(v)) = p
  <2>1. v \in VirtualPages
    BY <1>6, <1>8, VirtualPage
  <2>2. PICK f \in Frames : f \in Nat /\ f + hhdm < ImageBase
    BY <1>1
  <2>3. v >= hhdm /\ ~ (v < ImageBase)
    BY <1>1, <1>6, <1>7, <2>2
  <2>4. BootTranslate(v) # 0 => ALIGN_DOWN(BootTranslate(v)) = v - ImageBase + layout.physical_base
    BY <2>1, <2>3, LayoutsLegal DEF MappingLegal, BootTranslate, ImageBase
  <2>5. v - ImageBase + layout.physical_base = p
    BY <1>1, <1>2, <1>3, <1>4
  <2>6. QED
    BY <2>4, <2>5
<1>13. \A f \in Frames : v # f + hhdm
  BY <1>1, <1>6, <1>7
<1>14. \A j \in 1 .. Len(memmap) : \A f \in Physical : Promised(j, f) => v # f + hhdm
  <2>1. ASSUME NEW j \in 1 .. Len(memmap), NEW f \in Physical, Promised(j, f) PROVE v # f + hhdm
    <3>1. f \in Nat /\ f + hhdm < ImageBase
      BY <2>1, PhysicalIs, PromisedBelow
    <3>2. QED
      BY <1>1, <1>6, <1>7, <3>1
  <2>2. QED
    BY <2>1
<1>15. Region(v)
  BY <1>7 DEF Region, ImageBase, ImageEnd
<1>16. Lawful(o)
  BY <1>10, <1>11, <1>12, <1>13, <1>14, <1>15 DEF Lawful
<1>17. QED
  BY <1>9, <1>16 DEF v, p, w

LEMMA EntryLawful ==
  ASSUME layout \in Layouts, Frames # {}, NEW j \in 1 .. Len(memmap), Mapped(memmap[j]),
         NEW c \in Nat, memmap[j].base <= c, c < Limit(memmap[j])
  PROVE  LET o == [physical_addr |-> c, virtual_addr |-> c + hhdm, flags |-> EntryFlags(memmap[j])]
         IN  o \in Requests /\ Lawful(o) /\ TargetOf(o) = ALIGN_DOWN(c) + hhdm
<1> DEFINE w == EntryFlags(memmap[j])
           o == [physical_addr |-> c, virtual_addr |-> c + hhdm, flags |-> w]
           a == Asks(memmap[j])
<1>1. /\ ImageBase \in Nat /\ hhdm \in Nat /\ hhdm % PAGE_SIZE = 0 /\ hhdm > 0 /\ ImageBase % PAGE_SIZE = 0
      /\ ImageEnd \in Nat /\ ImageBase <= ImageEnd /\ 2 * ImageEnd - ImageBase + PAGE_SIZE <= ENTRIES * Span(4)
      /\ memmap[j].base \in Nat /\ Limit(memmap[j]) \in Nat /\ Limit(memmap[j]) + hhdm <= ImageBase
  BY Places, EntriesOf
<1>2. PICK f \in Nat : f = ALIGN_DOWN(c) /\ f % PAGE_SIZE = 0 /\ f <= c /\ c < f + PAGE_SIZE
  BY Rounding
<1>3. w \in Nat /\ w % 4096 = a /\ a \in {3, 11}
  BY DEF EntryFlags, Asks, PAGE_PRESENT, PAGE_READ_WRITE, PAGE_ATTRIBUTE_TABLE, PAGE_WRITE_THROUGH
<1> HIDE DEF w, a
<1>4. c + hhdm \in Nat /\ c + hhdm < ImageBase /\ f + hhdm < ImageBase /\ f + hhdm \in Nat /\ (f + hhdm) % PAGE_SIZE = 0
  <2>1. c < Limit(memmap[j])
    OBVIOUS
  <2>2. Limit(memmap[j]) \in Nat /\ hhdm \in Nat /\ ImageBase \in Nat /\ Limit(memmap[j]) + hhdm <= ImageBase
    BY <1>1
  <2>3. c + hhdm \in Nat /\ c + hhdm < ImageBase
    BY <2>1, <2>2
  <2>4. f + hhdm \in Nat /\ f + hhdm < ImageBase
    BY <1>2, <2>2, <2>3
  <2>5. hhdm % PAGE_SIZE = 0 /\ f % PAGE_SIZE = 0
    BY <1>1, <1>2
  <2>6. (f + hhdm) % PAGE_SIZE = 0
    <3>1. hhdm \in Nat /\ f \in Nat /\ hhdm % 4096 = 0 /\ f % 4096 = 0
      BY <1>2, <2>2, <2>5 DEF PAGE_SIZE
    <3>2. \A x, y \in Nat : x % 4096 = 0 /\ y % 4096 = 0 => (x + y) % 4096 = 0
      OBVIOUS
    <3>3. QED
      BY <3>1, <3>2 DEF PAGE_SIZE
  <2>7. QED
    BY <2>3, <2>4, <2>6
<1>5. c + hhdm < ENTRIES * Span(4) /\ f + hhdm < ENTRIES * Span(4)
  <2>1. PICK W \in Nat : W = ENTRIES * Span(4)
    <3>1. ENTRIES \in Nat /\ Span(4) \in Nat
      BY Spans, PagingConstants
    <3>2. QED
      BY <3>1
  <2>2. ImageBase <= W
    BY SMTT(30), <1>1, <2>1 DEF PAGE_SIZE
  <2>3. c + hhdm < W /\ f + hhdm < W
    BY <1>1, <1>4, <2>2
  <2>4. QED
    BY <2>1, <2>3
<1>6. o \in Requests
  <2>1. c + hhdm \in 0 .. ENTRIES * Span(4) - 1
    <3>1. ENTRIES \in Nat /\ Span(4) \in Nat
      BY Spans, PagingConstants
    <3>2. ENTRIES * Span(4) \in Nat
      BY <3>1
    <3>3. QED
      BY <1>4, <1>5, <3>2
  <2>2. QED
    BY <1>3, <2>1 DEF Requests
<1>7. TargetOf(o) = f + hhdm /\ LeafOf(o) = f + a
  <2>1. ALIGN_DOWN(c + hhdm) = f + hhdm
    BY <1>1, <1>2, Aligned
  <2>2. o.virtual_addr = c + hhdm /\ o.physical_addr = c /\ o.flags = w
    OBVIOUS
  <2>3. QED
    BY <1>2, <1>3, <2>1, <2>2 DEF TargetOf, LeafOf
<1>8. LeafOf(o) \in Nat /\ Present(LeafOf(o)) /\ Writable(LeafOf(o)) /\ ALIGN_DOWN(LeafOf(o)) = f
  BY SMTT(30), <1>2, <1>3, <1>7, LeafWords
<1>9. BootTranslate(f + hhdm) # 0 => ALIGN_DOWN(BootTranslate(f + hhdm)) = f
  <2>1. f + hhdm \in VirtualPages
    BY <1>4, <1>5, VirtualPage
  <2>2. f + hhdm >= hhdm /\ f + hhdm < ImageBase /\ f + hhdm - hhdm = f
    BY SMTT(30), <1>1, <1>4
  <2>3. PICK v \in VirtualPages : v = f + hhdm
    BY <2>1
  <2>4. BootTranslate(v) # 0 => ALIGN_DOWN(BootTranslate(v)) = v - hhdm
    BY <2>2, <2>3, LayoutsLegal DEF MappingLegal, BootTranslate, ImageBase
  <2>5. v - hhdm = f
    BY <2>3, PagingConstants
  <2>6. QED
    BY <2>3, <2>4, <2>5
<1>10. Region(f + hhdm)
  <2>1. f + hhdm - hhdm = f
    BY <1>1
  <2>2. memmap[j].base < f + PAGE_SIZE /\ f < Limit(memmap[j])
    BY SMTT(30), <1>1, <1>2 DEF PAGE_SIZE
  <2>3. Overlap(memmap[j], [base |-> f, length |-> PAGE_SIZE])
    BY <2>2 DEF Overlap, Limit
  <2>4. PICK v \in Nat : v = f + hhdm /\ v - hhdm = f
    BY PagingConstants
  <2>5. \E k \in 1 .. Len(memmap) :
          Mapped(memmap[k]) /\ Overlap(memmap[k], [base |-> v - hhdm, length |-> PAGE_SIZE])
    BY <2>3, <2>4
  <2>6. Region(v)
    BY <2>5 DEF Region
  <2>7. QED
    BY <2>4, <2>6
<1>11. ASSUME NEW k \in 1 .. Len(memmap), NEW g \in Physical, Promised(k, g), TargetOf(o) = g + hhdm
       PROVE  LeafOf(o) = g + Asks(memmap[k])
  <2>1. g = f
    BY SMTT(30), <1>1, <1>7, <1>11, PhysicalIs
  <2>2. Asks(memmap[k]) = a
    BY <1>2, <1>11, <2>1, Agreement DEF a
  <2>3. QED
    BY <1>7, <2>1, <2>2
<1>12. Lawful(o)
  BY <1>7, <1>8, <1>9, <1>10, <1>11 DEF Lawful
<1>13. QED
  BY <1>2, <1>6, <1>7, <1>12 DEF w

-----------------------------------------------------------------------------
(* The machine as the boot loader left it.                                 *)
LEMMA Aside ==
  ASSUME NEW m, NEW r, NEW lev, NEW up, NEW at, Shape(m, r, lev, up, at, {}), NEW v
  PROVE  \E n \in Index : /\ ~ Through(m, r, lev[r], r, n, v)
                          /\ Shape(m, r, lev, up, at, {<<r, n>>}) /\ lev[r] \in 1 .. 4 /\ r \in Frames
<1>1. PICK n \in Index : TableIndex(4, v) # n
  <2>1. 0 \in Index /\ 1 \in Index
    BY PagingConstants DEF Index
  <2>2. QED
    BY <2>1
<1>2. r \in Frames /\ lev[r] = 4
  BY DEF Shape
<1>3. ~ Through(m, r, lev[r], r, n, v)
  BY <1>1, <1>2 DEF Through
<1>4. Shape(m, r, lev, up, at, {<<r, n>>})
  BY Weaker
<1>5. lev[r] \in 1 .. 4
  BY <1>2
<1>6. WITNESS n \in Index
<1>7. QED
  BY <1>2, <1>3, <1>4, <1>5

LEMMA Translated ==
  ASSUME NEW m, NEW r, NEW lev, NEW up, NEW at, Shape(m, r, lev, up, at, {}),
         NEW v \in Nat, NEW root, ALIGN_DOWN(root) = r
  PROVE  TranslateIn(m, root, v) = Found(m, r, v)
<1>1. PICK n \in Index : /\ ~ Through(m, r, lev[r], r, n, v)
                         /\ Shape(m, r, lev, up, at, {<<r, n>>}) /\ lev[r] \in 1 .. 4 /\ r \in Frames
  BY Aside
<1>2. QED
  BY <1>1, Value

(* Memory that is no table does not matter to any walk.                    *)
LEMMA SameTables ==
  ASSUME NEW m, NEW r, NEW lev, NEW up, NEW at, Shape(m, r, lev, up, at, {}), NEW m2 \in Memories,
         \A t \in Frames, n \in Index : lev[t] # 0 => m2[t][n] = m[t][n]
  PROVE  Shape(m2, r, lev, up, at, {}) /\ \A v \in Nat : Found(m2, r, v) = Found(m, r, v)
<1>1. Shape(m2, r, lev, up, at, {})
  <2>1. ASSUME NEW t \in Frames, NEW n \in Index, lev[t] \in 2 .. 4, Present(m2[t][n])
        PROVE  LeadsDown(m2, lev, up, at, t, n)
    <3>1. m2[t][n] = m[t][n]
      BY <2>1
    <3>2. LeadsDown(m, lev, up, at, t, n)
      BY <2>1, <3>1 DEF Shape
    <3>3. QED
      BY <3>1, <3>2 DEF LeadsDown
  <2>2. QED
    BY <2>1 DEF Shape
<1>2. ASSUME NEW v \in Nat PROVE Found(m2, r, v) = Found(m, r, v)
  <2>1. PICK n \in Index : /\ ~ Through(m, r, lev[r], r, n, v)
                           /\ Shape(m, r, lev, up, at, {<<r, n>>}) /\ lev[r] \in 1 .. 4 /\ r \in Frames
    BY Aside
  <2>2. OnlyEntry(m, m2, lev, r, n)
    BY DEF OnlyEntry
  <2>3. QED
    BY <2>1, <2>2, SameWalks
<1>3. QED
  BY <1>1, <1>2

LEMMA BootTree ==
  ASSUME NEW l \in Layouts, NoLarge(l)
  PROVE  \E lev, up, at :
           /\ \A p \in UsableIn(l.memmap) : lev[p] = 0
           /\ \A t \in Frames : lev[t] # 0 => t \in DOMAIN l.tables
           /\ \A g \in Nat : Shape(BootMemory(l, g), ALIGN_DOWN(l.cr3), lev, up, at, {})
<1> DEFINE D  == DOMAIN l.tables
           U  == Boot4(l) \cup Boot3(l) \cup Boot2(l)
           r  == ALIGN_DOWN(l.cr3)
           es == BootEntries(l, U)
           lev == [f \in Frames |-> IF f \in Boot4(l) THEN 4 ELSE IF f \in Boot3(l) THEN 3
                                    ELSE IF f \in Boot2(l) THEN 2 ELSE IF f \in Boot1(l) THEN 1 ELSE 0]
           to(c) == CHOOSE x \in es : BootChild(l, x) = c
           up == [f \in Frames |-> IF \E x \in es : BootChild(l, x) = f THEN to(f)[1] ELSE r]
           at == [f \in Frames |-> IF \E x \in es : BootChild(l, x) = f THEN to(f)[2] ELSE 0]
<1>1. /\ D \subseteq Frames \ UsableIn(l.memmap)
      /\ \A f \in D : l.tables[f] \in [Index -> Nat]
      /\ U \cup Boot1(l) \subseteq D
      /\ Boot4(l) \cap Boot3(l) = {} /\ (Boot4(l) \cup Boot3(l)) \cap Boot2(l) = {}
      /\ U \cap Boot1(l) = {}
      /\ \A x, y \in es : BootChild(l, x) = BootChild(l, y) => x = y
  BY LayoutsLegal DEF TablesLegal
<1>2. r \in Boot4(l) /\ r \in D /\ r \in Frames
  BY <1>1 DEF Boot4
<1>3. es \subseteq U \X Index /\ \A x \in es : x[1] \in U /\ x[2] \in Index /\ x = <<x[1], x[2]>>
  BY DEF BootEntries
<1>4. /\ \A x \in es : x[1] \in Boot4(l) => BootChild(l, x) \in Boot3(l)
      /\ \A x \in es : x[1] \in Boot3(l) => BootChild(l, x) \in Boot2(l)
      /\ \A x \in es : x[1] \in Boot2(l) => BootChild(l, x) \in Boot1(l)
  <2>1. ASSUME NEW ts, NEW x \in es, x[1] \in ts PROVE BootChild(l, x) \in BootBelow(l, ts)
    <3>1. x \in BootEntries(l, ts)
      BY <1>3, <2>1 DEF BootEntries
    <3>2. QED
      BY <3>1 DEF BootBelow
  <2>2. QED
    BY <2>1 DEF Boot3, Boot2, Boot1
<1> HIDE DEF es, to
<1>5. ASSUME NEW x \in es PROVE to(BootChild(l, x)) = x
  <2>1. to(BootChild(l, x)) \in es /\ BootChild(l, to(BootChild(l, x))) = BootChild(l, x)
    BY DEF to
  <2>2. QED
    BY <1>1, <2>1
<1>6. ASSUME NEW f \in Frames, \E x \in es : BootChild(l, x) = f PROVE to(f)[1] \in Frames /\ to(f)[2] \in Index
  <2>1. to(f) \in es
    BY <1>6 DEF to
  <2>2. QED
    BY <1>1, <1>3, <2>1
<1>7. lev \in [Frames -> 0 .. 4] /\ up \in [Frames -> Frames] /\ at \in [Frames -> Index]
  <2>1. 0 \in Index
    BY PagingConstants DEF Index
  <2>2. up \in [Frames -> Frames]
    BY <1>2, <1>6
  <2>3. at \in [Frames -> Index]
    BY <2>1, <1>6
  <2>4. lev \in [Frames -> 0 .. 4]
    OBVIOUS
  <2>5. QED
    BY <2>2, <2>3, <2>4
<1>8. /\ \A f \in Frames : f \in Boot4(l) => lev[f] = 4
      /\ \A f \in Frames : f \in Boot3(l) => lev[f] = 3
      /\ \A f \in Frames : f \in Boot2(l) => lev[f] = 2
      /\ \A f \in Frames : f \in Boot1(l) => lev[f] = 1
      /\ \A f \in Frames : lev[f] # 0 => f \in U \cup Boot1(l)
      /\ \A f \in Frames : lev[f] \in 2 .. 4 => f \in U
  <2>1. \A f \in Frames : lev[f] = IF f \in Boot4(l) THEN 4 ELSE IF f \in Boot3(l) THEN 3
                                    ELSE IF f \in Boot2(l) THEN 2 ELSE IF f \in Boot1(l) THEN 1 ELSE 0
    OBVIOUS
  <2> HIDE DEF lev
  <2>2. QED
    BY <1>1, <2>1
<1>9. \A x \in es : BootChild(l, x) \in Frames => up[BootChild(l, x)] = x[1] /\ at[BootChild(l, x)] = x[2]
  BY <1>5
<1> HIDE DEF lev, up, at
<1>10. ASSUME NEW g \in Nat PROVE Shape(BootMemory(l, g), r, lev, up, at, {})
  <2> DEFINE m == BootMemory(l, g)
  <2>1. m \in Memories
    BY <1>1 DEF BootMemory, Memories
  <2>2. \A f \in D : m[f] = l.tables[f]
    <3>1. ASSUME NEW f \in D PROVE m[f] = l.tables[f]
      <4>1. m[f] = [n \in Index |-> l.tables[f][n]]
        BY <1>1 DEF BootMemory
      <4>2. QED
        BY <1>1, <4>1
    <3>2. QED
      BY <3>1
  <2>3. ASSUME NEW t \in Frames, NEW n \in Index, lev[t] \in 2 .. 4, Present(m[t][n])
        PROVE  LeadsDown(m, lev, up, at, t, n)
    <3>1. t \in U /\ t \in D /\ m[t][n] = l.tables[t][n]
      BY <1>1, <1>8, <2>2, <2>3
    <3> DEFINE x == <<t, n>>
    <3>2. x[1] = t /\ x[2] = n
      OBVIOUS
    <3>3. x \in es
      BY <2>3, <3>1 DEF BootEntries, es
    <3> HIDE DEF x
    <3>4. BootChild(l, x) = ALIGN_DOWN(m[t][n])
      BY <3>1, <3>2 DEF BootChild
    <3>5. ~ Large(m[t][n])
      BY <3>1 DEF NoLarge
    <3>6. BootChild(l, x) \in Frames /\ lev[BootChild(l, x)] = lev[t] - 1
      <4>1. CASE t \in Boot4(l)
        <5>1. BootChild(l, x) \in Boot3(l)
          BY <1>4, <3>2, <3>3, <4>1
        <5>2. QED
          BY <1>1, <1>8, <4>1, <5>1
      <4>2. CASE t \in Boot3(l)
        <5>1. BootChild(l, x) \in Boot2(l)
          BY <1>4, <3>2, <3>3, <4>2
        <5>2. QED
          BY <1>1, <1>8, <4>2, <5>1
      <4>3. CASE t \in Boot2(l)
        <5>1. BootChild(l, x) \in Boot1(l)
          BY <1>4, <3>2, <3>3, <4>3
        <5>2. QED
          BY <1>1, <1>8, <4>3, <5>1
      <4>4. QED
        BY <3>1, <4>1, <4>2, <4>3
    <3>7. up[BootChild(l, x)] = t /\ at[BootChild(l, x)] = n
      BY <1>9, <3>2, <3>3, <3>6
    <3>8. QED
      BY <3>4, <3>5, <3>6, <3>7 DEF LeadsDown
  <2>4. QED
    BY <1>2, <1>7, <1>8, <2>1, <2>3 DEF Shape
<1>11. \A p \in UsableIn(l.memmap) : lev[p] = 0
  BY <1>1, <1>8 DEF UsableIn
<1>12. \A t \in Frames : lev[t] # 0 => t \in DOMAIN l.tables
  BY <1>1, <1>8
<1>13. QED
  BY <1>10, <1>11, <1>12

LEMMA Highest ==
  ASSUME layout \in Layouts, Frames # {}
  PROVE  Max(Frames) \in Nat /\ \A f \in Frames : f <= Max(Frames)
<1> DEFINE d == {ImageBase - p : p \in Frames}
<1>1. \A p \in Frames : p \in Nat /\ ImageBase \in Nat /\ ImageBase - p \in Nat
  BY Places
<1>2. d \in SUBSET Nat /\ d # {}
  BY <1>1
<1>3. PICK n \in d : \A k \in d : ~ (k < n)
  BY <1>2, Least
<1>4. PICK f \in Frames : n = ImageBase - f
  BY <1>3
<1>5. \A p \in Frames : f >= p
  <2>1. ASSUME NEW p \in Frames PROVE f >= p
    <3>1. ~ (ImageBase - p < ImageBase - f)
      BY <1>3, <1>4
    <3>2. QED
      BY <1>1, <3>1
  <2>2. QED
    BY <2>1
<1>6. Max(Frames) \in Frames /\ \A p \in Frames : Max(Frames) >= p
  BY <1>4, <1>5 DEF Max
<1> DEFINE g == Max(Frames)
<1> HIDE DEF g
<1>7. g \in Nat /\ \A p \in Frames : p <= g
  BY <1>1, <1>6 DEF g
<1>8. QED
  BY <1>7 DEF g

LEMMA InitMachine ==
  ASSUME Init, Small
  PROVE  Machine /\ \A v \in VirtualPages : Seen(v) = BootTranslate(v)
<1>1. /\ layout \in Layouts /\ cr3 = layout.cr3 /\ pc = "idle" /\ free_mem_head = 0
      /\ NoLarge(layout) /\ UsablePages = UsableIn(layout.memmap)
  BY DEF Init, Small, UsablePages, memmap
<1>2. PICK g \in Nat : mem = BootMemory(layout, g)
  <2>1. PICK g \in Garbage : mem = BootMemory(layout, g)
    BY DEF Init
  <2>2. g \in Nat
    BY LayoutsLegal
  <2>3. QED
    BY <2>1, <2>2
<1>3. PICK lev, up, at :
        /\ \A p \in UsableIn(layout.memmap) : lev[p] = 0
        /\ \A t \in Frames : lev[t] # 0 => t \in DOMAIN layout.tables
        /\ \A w \in Nat : Shape(BootMemory(layout, w), ALIGN_DOWN(layout.cr3), lev, up, at, {})
  BY <1>1, BootTree
<1>4. ~ Busy
  BY <1>1 DEF Busy
<1>5. Typed
  BY <1>1 DEF Typed, Root
<1>6. Tree(lev, up, at) /\ Shape(mem, Root, lev, up, at, {})
  BY <1>2, <1>3, <1>4 DEF Tree, Excepted, Root
<1>7. OnTheWay(lev)
  BY <1>1 DEF OnTheWay
<1>8. Free(lev, 0)
  <2>1. \A p \in UsablePages : ~ (p < 0)
    BY UsableFrames, FrameIsSomewhere
  <2>2. {p \in UsablePages : p < 0} = {}
    BY <2>1
  <2>3. PointerBelow(0) = 0
    BY <2>2 DEF PointerBelow
  <2>4. QED
    BY <1>1, <2>1, <2>3 DEF Free
<1>9. Pending(lev, 0)
  BY <1>1 DEF Pending
<1>10. Memory(lev, up, at, 0)
  BY <1>5, <1>6, <1>7, <1>8, <1>9 DEF Memory
<1>11. Machine
  BY <1>1, <1>3, <1>10 DEF Machine
<1>12. ASSUME NEW v \in VirtualPages PROVE Seen(v) = BootTranslate(v)
  <2>1. v \in Nat
    BY Pages
  <2>2. Seen(v) = Translate(v)
    BY <1>4 DEF Seen, Hidden
  <2>3. Translate(v) = Found(mem, Root, v)
    BY <1>1, <1>6, <2>1, Translated DEF Translate, Root
  <2> DEFINE m0 == BootMemory(layout, 0)
  <2>4. Shape(m0, Root, lev, up, at, {})
    BY <1>3 DEF Root
  <2>5. BootTranslate(v) = Found(m0, Root, v)
    <3>1. TranslateIn(m0, layout.cr3, v) = Found(m0, Root, v)
      BY <2>1, <2>4, Translated DEF Root
    <3>2. QED
      BY <3>1 DEF BootTranslate, BootWalk
  <2>6. \A t \in Frames, n \in Index : lev[t] # 0 => m0[t][n] = mem[t][n]
    BY <1>2, <1>3 DEF BootMemory
  <2> HIDE DEF m0
  <2>7. m0 \in Memories
    BY <2>4 DEF Shape
  <2>8. Found(m0, Root, v) = Found(mem, Root, v)
    BY <1>6, <2>1, <2>6, <2>7, SameTables
  <2>9. QED
    BY <2>2, <2>3, <2>5, <2>8
<1>13. QED
  BY <1>11, <1>12

(* pmm_init writes the list into pages that are no tables.                 *)
LEMMA PmmInitKeeps ==
  ASSUME NEW lev, NEW up, NEW at, NEW b, Memory(lev, up, at, b), \A p \in UsablePages : lev[p] = 0,
         pc = "idle", pmm_init
  PROVE  \E a \in Nat : Memory(lev, up, at, a)' /\ Same
<1>1. /\ layout' = layout /\ cr3' = cr3 /\ pc' = "idle" /\ ~ Busy /\ ~ Busy'
      /\ mem' = [f \in Frames |-> IF f \in UsablePages
                                  THEN [mem[f] EXCEPT ![0] = f, ![1] = PointerBelow(f)] ELSE mem[f]]
      /\ free_mem_head' = PointerBelow(Max(Frames) + PAGE_SIZE)
  BY DEF pmm_init, Busy
<1>2. Root' = Root /\ UsablePages' = UsablePages /\ \A a : PointerBelow(a)' = PointerBelow(a)
  BY <1>1, SameMachine
<1>3. Typed /\ Shape(mem, Root, lev, up, at, {}) /\ layout \in Layouts
  BY <1>1 DEF Memory, Tree, Excepted, Typed
<1>4. mem \in [Frames -> [Index -> Nat]] /\ Root \in Frames
  BY <1>3 DEF Shape, Memories
<1>5. PICK a \in Nat : a = Max(Frames) + PAGE_SIZE /\ \A f \in Frames : f < a
  <2>1. Max(Frames) \in Nat /\ \A f \in Frames : f <= Max(Frames)
    BY <1>3, <1>4, Highest
  <2>2. QED
    BY <2>1, PagingConstants DEF PAGE_SIZE
<1>6. 0 \in Index /\ 1 \in Index
  BY PagingConstants DEF Index
<1>7. ASSUME NEW f \in UsablePages
      PROVE  f \in Frames /\ mem'[f] \in [Index -> Nat] /\ mem'[f][0] = f /\ mem'[f][1] = PointerBelow(f)
  <2>1. f \in Frames /\ f \in Nat
    BY UsableFrames, FrameIsSomewhere
  <2>2. PointerBelow(f) \in Nat
    <3>1. PointerBelow(f) = 0 \/ \E p \in UsablePages : p \in Frames /\ PointerBelow(f) = p + hhdm
      BY <1>3, <2>1, HeadOfList
    <3>2. CASE PointerBelow(f) = 0
      BY <3>2
    <3>3. ASSUME NEW p \in Frames, PointerBelow(f) = p + hhdm PROVE PointerBelow(f) \in Nat
      <4>1. p + hhdm \in Nat
        BY PagingConstants
      <4>2. QED
        BY <3>3, <4>1
    <3>4. QED
      BY <3>1, <3>2, <3>3
  <2>3. mem'[f] = [mem[f] EXCEPT ![0] = f, ![1] = PointerBelow(f)]
    BY <1>1, <2>1
  <2>4. mem[f] \in [Index -> Nat]
    BY <1>4, <2>1
  <2>5. QED
    BY <1>6, <2>1, <2>2, <2>3, <2>4
<1>8. mem' \in Memories
  BY <1>1, <1>4, <1>7 DEF Memories
<1>9. \A t \in Frames, n \in Index : lev[t] # 0 => mem'[t][n] = mem[t][n]
  BY <1>1
<1>10. Shape(mem', Root, lev, up, at, {}) /\ \A v \in Nat : Found(mem', Root, v) = Found(mem, Root, v)
  BY <1>3, <1>8, <1>9, SameTables
<1>11. Typed'
  BY <1>1, <1>2, <1>3 DEF Typed
<1>12. Tree(lev, up, at)'
  BY <1>1, <1>2, <1>10 DEF Tree, Excepted
<1>13. OnTheWay(lev)' /\ Pending(lev, a)'
  BY <1>1 DEF OnTheWay, Pending
<1>14. Free(lev, a)'
  <2>1. free_mem_head' = PointerBelow(a)
    BY <1>1, <1>5
  <2>2. QED
    BY <1>2, <1>7, <2>1 DEF Free
<1>15. ASSUME NEW v \in VirtualPages PROVE Seen(v)' = Seen(v)
  <2>1. v \in Nat
    BY Pages
  <2>2. Seen(v) = Found(mem, Root, v)
    <3>1. Tree(lev, up, at) /\ OnTheWay(lev)
      BY DEF Memory
    <3>2. QED
      BY <1>1, <1>3, <2>1, <3>1, SeenIs DEF Hidden
  <2>3. Seen(v)' = Found(mem', Root, v)
    <3>1. Seen(v)' = IF Hidden(v)' THEN 0 ELSE Found(mem', Root', v)
      BY <1>11, <1>12, <1>13, <2>1, SeenIsNext
    <3>2. QED
      BY <1>1, <1>2, <3>1 DEF Hidden
  <2>4. QED
    BY <1>10, <2>1, <2>2, <2>3
<1>16. Memory(lev, up, at, a)' /\ Same
  BY <1>11, <1>12, <1>13, <1>14, <1>15 DEF Memory, Same
<1>17. QED
  BY <1>16

(* Between calls kmain may do anything that leaves memory and list alone,  *)
(* and write to cr3 where the tables are.                                  *)
LEMMA IdleKeeps ==
  ASSUME NEW lev, NEW up, NEW at, NEW b, Memory(lev, up, at, b), pc = "idle", pc' = "idle",
         layout' = layout, mem' = mem, free_mem_head' = free_mem_head, ALIGN_DOWN(cr3') = Root
  PROVE  Memory(lev, up, at, b)' /\ Same
<1>1. Root' = Root /\ ~ Busy /\ ~ Busy'
  BY SameMachine DEF Busy
<1>2. Typed' /\ Tree(lev, up, at)' /\ OnTheWay(lev)' /\ Pending(lev, b)'
  BY <1>1 DEF Memory, Typed, Tree, Excepted, OnTheWay, Pending
<1>3. Free(lev, b)'
  BY FreeKept DEF Memory
<1>4. ASSUME NEW v \in VirtualPages PROVE Seen(v)' = Seen(v)
  <2>1. v \in Nat
    BY Pages
  <2>2. Seen(v) = Found(mem, Root, v)
    <3>1. Seen(v) = IF Hidden(v) THEN 0 ELSE Found(mem, Root, v)
      BY <2>1, SeenFound DEF Memory
    <3>2. QED
      BY <1>1, <3>1 DEF Hidden
  <2>3. Seen(v)' = Found(mem', Root', v)
    <3>1. Seen(v)' = IF Hidden(v)' THEN 0 ELSE Found(mem', Root', v)
      BY <1>2, <2>1, SeenIsNext
    <3>2. QED
      BY <1>1, <3>1 DEF Hidden
  <2>4. QED
    BY <1>1, <2>2, <2>3
<1>5. QED
  BY <1>2, <1>3, <1>4 DEF Memory, Same

-----------------------------------------------------------------------------
(* While everything is found as at boot the kernel reaches every page of   *)
(* memory, and no access of a call faults.                                 *)
LEMMA Reaches ==
  ASSUME layout \in Layouts, AsAtBoot
  PROVE  \A f \in Frames : Reachable(f)
<1> SUFFICES ASSUME NEW f \in Frames PROVE Reachable(f)
  OBVIOUS
<1> DEFINE v == f + hhdm
<1>1. f \in Nat /\ v \in VirtualPages /\ v < ImageBase /\ hhdm \in Nat
  BY FramesDirect, PagingConstants
<1>2. v >= hhdm /\ v - hhdm = f
  BY <1>1
<1>3. Present(BootTranslate(v)) /\ MappingLegal(layout)
  <2>1. MappingLegal(layout)
    BY LayoutsLegal
  <2>2. QED
    BY <2>1 DEF MappingLegal, BootTranslate
<1> HIDE DEF v
<1>4. BootTranslate(v) # 0
  BY <1>3, Words
<1>5. ALIGN_DOWN(BootTranslate(v)) = v - hhdm
  BY <1>1, <1>2, <1>3, <1>4 DEF MappingLegal, BootTranslate, ImageBase
<1>6. Seen(v) # 0 /\ ALIGN_DOWN(Seen(v)) = f
  BY <1>1, <1>2, <1>4, <1>5 DEF AsAtBoot
<1>7. Translate(v) = Seen(v)
  BY <1>6 DEF Seen
<1>8. QED
  BY <1>6, <1>7 DEF Reachable, v

LEMMA NoFault ==
  ASSUME NEW lev, NEW up, NEW at, NEW b, Memory(lev, up, at, b), AsAtBoot
  PROVE  ~ AccessFaults
<1>1. Typed /\ OnTheWay(lev) /\ Free(lev, b) /\ layout \in Layouts /\ b \in Nat
  BY DEF Memory, Typed, Free
<1>2. \A f \in Frames : Reachable(f)
  BY <1>1, Reaches
<1>3. pc = "walk" => Reachable(table)
  BY <1>1, <1>2 DEF OnTheWay
<1>4. pc = "fill" /\ free_mem_head # 0 => Reachable(free_mem_head - hhdm)
  <2>1. ASSUME pc = "fill", free_mem_head # 0 PROVE Reachable(free_mem_head - hhdm)
    <3>1. free_mem_head = PointerBelow(b)
      BY <1>1 DEF Free
    <3>2. PICK f \in Frames : PointerBelow(b) = f + hhdm
      BY <1>1, <2>1, <3>1, HeadOfList
    <3>3. f \in Nat /\ hhdm \in Nat
      BY PagingConstants
    <3>4. free_mem_head - hhdm = f
      BY <3>1, <3>2, <3>3
    <3>5. QED
      BY <1>2, <3>4
  <2>2. QED
    BY <2>1
<1>5. pc = "clear" => Reachable(NextTable)
  <2>1. pc = "clear" => b \in Frames /\ NextTable = b
    BY UsableFrames, Words DEF Memory, Pending, NextTable, entry
  <2>2. QED
    BY <1>2, <2>1
<1>6. QED
  BY <1>3, <1>4, <1>5 DEF AccessFaults

(* The store to the list head may fault all the same; then nothing moves.  *)
LEMMA StoreFaultKeeps ==
  ASSUME NEW lev, NEW up, NEW at, NEW b, Memory(lev, up, at, b), layout' = layout, HeadStoreFaults
  PROVE  Memory(lev, up, at, b)' /\ Same
<1>1. /\ pc = "fill" /\ pc' = "fault" /\ Busy /\ Busy'
      /\ UNCHANGED <<mem, cr3, free_mem_head, op, level, table>>
  BY DEF HeadStoreFaults, Fault, Busy
<1>2. Root' = Root /\ index' = index /\ Excepted' = Excepted
  BY <1>1, SameMachine DEF index, Excepted
<1>3. Typed'
  BY <1>1, <1>2 DEF Memory, Typed
<1>4. Tree(lev, up, at)'
  BY <1>1, <1>2 DEF Memory, Tree
<1>5. OnTheWay(lev)'
  BY <1>1, <1>2 DEF Memory, OnTheWay
<1>6. Free(lev, b)'
  BY <1>1, FreeKept DEF Memory
<1>7. Pending(lev, b)'
  BY <1>1 DEF Pending
<1>8. Same
  BY <1>1, <1>2 DEF Same, Seen, Hidden, Translate
<1>9. QED
  BY <1>3, <1>4, <1>5, <1>6, <1>7, <1>8 DEF Memory

(* A step of a call: nothing is seen to change, or the call ends and its   *)
(* page is found as asked.                                                 *)
Answered ==
  \A v \in VirtualPages : Seen(v)' = IF v = TargetOf(op) THEN LeafOf(op) ELSE Seen(v)

LEMMA PagingKeeps ==
  ASSUME NEW lev, NEW up, NEW at, NEW b, Memory(lev, up, at, b), AsAtBoot, InCall, PagingStep, ~ oom'
  PROVE  /\ pc # "idle" /\ op' = op /\ pml4' = pml4 /\ ~ oom /\ UNCHANGED <<kvars, tlb>>
         /\ \E l, u, a, c : Memory(l, u, a, c)'
         /\ \/ pc' # "idle" /\ Same
            \/ pc' = "idle" /\ Answered
<1>1. UNCHANGED <<kvars, tlb>> /\ layout' = layout /\ ~ oom /\ ~ FillEntryFromEmpty
  BY DEF PagingStep, kvars
<1>2. CASE FollowEntry
  <2>1. pc = "walk" /\ pc' = "walk" /\ op' = op /\ pml4' = pml4
    BY <1>2 DEF FollowEntry, Upper
  <2>2. Memory(lev, up, at, b)' /\ Same
    BY <1>1, <1>2, FollowKeeps
  <2>3. QED
    BY <1>1, <2>1, <2>2
<1>3. CASE ClaimEntry
  <2>1. pc = "walk" /\ pc' = "fill" /\ op' = op /\ pml4' = pml4
    BY <1>3 DEF ClaimEntry, Upper
  <2>2. Memory(lev, up, at, b)' /\ Same
    BY <1>1, <1>3, ClaimKeeps
  <2>3. QED
    BY <1>1, <2>1, <2>2
<1>4. CASE FillEntry
  <2>1. pc = "fill" /\ pc' = "clear" /\ op' = op /\ pml4' = pml4
    BY <1>4 DEF FillEntry
  <2>2. PICK a \in Nat : Memory(lev, up, at, a)' /\ Same
    BY <1>1, <1>4, FillKeeps
  <2>3. QED
    BY <1>1, <2>1, <2>2
<1>5. CASE ClearTable
  <2>1. pc = "clear" /\ pc' = "walk" /\ op' = op /\ pml4' = pml4
    BY <1>5 DEF ClearTable
  <2>2. PICK l2, u2, a2 : Memory(l2, u2, a2, b)' /\ Same
    BY <1>1, <1>5, ClearKeeps
  <2>3. QED
    BY <1>1, <2>1, <2>2
<1>6. CASE WriteLeaf
  <2>1. pc = "walk" /\ pc' = "idle" /\ op' = op /\ pml4' = pml4
    BY <1>6 DEF WriteLeaf
  <2>2. NewLeaf = LeafOf(op) /\ NewLeaf \in Nat /\ Present(NewLeaf)
    BY <2>1 DEF InCall, Lawful, LeafOf, NewLeaf
  <2>3. /\ Memory(lev, up, at, b)'
        /\ \A v \in VirtualPages : Seen(v)' = IF v = ALIGN_DOWN(op.virtual_addr) THEN NewLeaf ELSE Seen(v)
    BY <1>1, <1>6, <2>2, LeafKeeps
  <2>4. Answered
    BY <2>2, <2>3 DEF Answered, TargetOf
  <2>5. QED
    BY <1>1, <2>1, <2>3, <2>4
<1>7. CASE AccessFaults
  BY <1>7, NoFault
<1>8. CASE HeadStoreFaults
  <2>1. pc = "fill" /\ pc' = "fault" /\ op' = op /\ pml4' = pml4
    BY <1>8 DEF HeadStoreFaults, Fault
  <2>2. Memory(lev, up, at, b)' /\ Same
    BY <1>1, <1>8, StoreFaultKeeps
  <2>3. QED
    BY <1>1, <2>1, <2>2
<1>9. QED
  BY <1>1, <1>2, <1>3, <1>4, <1>5, <1>6, <1>7, <1>8 DEF PagingStep, map_page_table_step

-----------------------------------------------------------------------------
(* What a step that changes nothing seen, or one page, leaves true.        *)
LEMMA SameLayout ==
  ASSUME layout' = layout
  PROVE  /\ memmap' = memmap /\ ImagePages' = ImagePages /\ UsablePages' = UsablePages
         /\ (Small' <=> Small)
         /\ \A v : BootTranslate(v)' = BootTranslate(v)
         /\ \A v : Region(v)' <=> Region(v)
         /\ \A k, f : Promised(k, f)' <=> Promised(k, f)
         /\ \A o : Lawful(o)' <=> Lawful(o)
<1>1. memmap' = memmap /\ ImagePages' = ImagePages /\ UsablePages' = UsablePages /\ (Small' <=> Small)
  BY DEF memmap, ImagePages, UsablePages, Small
<1>2. \A v : BootTranslate(v)' = BootTranslate(v)
  BY DEF BootTranslate
<1>3. \A v : Region(v)' <=> Region(v)
  BY <1>1 DEF Region, section_end
<1>4. \A k, f : Promised(k, f)' <=> Promised(k, f)
  BY <1>1 DEF Promised
<1>5. \A o : Lawful(o)' <=> Lawful(o)
  BY <1>1, <1>2, <1>3, <1>4 DEF Lawful
<1>6. QED
  BY <1>1, <1>2, <1>3, <1>4, <1>5

LEMMA SameKeeps ==
  ASSUME layout \in Layouts, Frames # {}, layout' = layout, Same, AsAtBoot, Confined
  PROVE  AsAtBoot' /\ Confined'
<1>1. /\ ImagePages' = ImagePages
      /\ \A v : BootTranslate(v)' = BootTranslate(v) /\ (Region(v)' <=> Region(v))
  BY SameLayout
<1>2. \A v \in VirtualPages : Seen(v)' = Seen(v)
  BY DEF Same
<1>3. \A v \in ImagePages : v \in VirtualPages
  BY ImageIsThere
<1>4. \A f \in Frames : f + hhdm \in VirtualPages
  BY FramesDirect
<1>5. \A v \in VirtualPages : BootTranslate(v)' # 0 =>
        Seen(v)' # 0 /\ ALIGN_DOWN(Seen(v)') = ALIGN_DOWN(BootTranslate(v)')
  BY <1>1, <1>2 DEF AsAtBoot
<1>6. \A v \in ImagePages : Present(Seen(v)')
  BY <1>2, <1>3 DEF AsAtBoot
<1>7. \A f \in Frames : Present(Seen(f + hhdm)') /\ Writable(Seen(f + hhdm)')
  BY <1>2, <1>4 DEF AsAtBoot
<1>8. AsAtBoot'
  BY <1>1, <1>5, <1>6, <1>7 DEF AsAtBoot
<1>9. Confined'
  BY <1>1, <1>2 DEF Confined
<1>10. QED
  BY <1>8, <1>9

LEMMA AnswerKeeps ==
  ASSUME layout \in Layouts, Frames # {}, layout' = layout, Answered, Lawful(op), AsAtBoot, Confined
  PROVE  AsAtBoot' /\ Confined'
<1> DEFINE t == TargetOf(op)
           w == LeafOf(op)
<1>1. /\ ImagePages' = ImagePages
      /\ \A v : BootTranslate(v)' = BootTranslate(v) /\ (Region(v)' <=> Region(v))
  BY SameLayout
<1>2. \A v \in VirtualPages : Seen(v)' = IF v = t THEN w ELSE Seen(v)
  BY DEF Answered
<1>3. /\ w # 0 /\ Present(w) /\ (BootTranslate(t) # 0 => ALIGN_DOWN(w) = ALIGN_DOWN(BootTranslate(t)))
      /\ \A f \in Frames : t = f + hhdm => Writable(w)
      /\ Region(t)
  <2>1. Present(w)
    BY DEF Lawful
  <2>2. w # 0
    BY <2>1, Words
  <2>3. QED
    BY <2>1, <2>2 DEF Lawful
<1> HIDE DEF t, w
<1>4. \A v \in ImagePages : v \in VirtualPages
  BY ImageIsThere
<1>5. \A f \in Frames : f + hhdm \in VirtualPages
  BY FramesDirect
<1>6. \A v \in VirtualPages : BootTranslate(v)' # 0 =>
        Seen(v)' # 0 /\ ALIGN_DOWN(Seen(v)') = ALIGN_DOWN(BootTranslate(v)')
  BY <1>1, <1>2, <1>3 DEF AsAtBoot
<1>7. \A v \in ImagePages : Present(Seen(v)')
  BY <1>2, <1>3, <1>4 DEF AsAtBoot
<1>8. \A f \in Frames : Present(Seen(f + hhdm)') /\ Writable(Seen(f + hhdm)')
  BY <1>2, <1>3, <1>5 DEF AsAtBoot
<1>9. AsAtBoot'
  BY <1>1, <1>6, <1>7, <1>8 DEF AsAtBoot
<1>10. Confined'
  BY <1>1, <1>2, <1>3 DEF Confined
<1>11. QED
  BY <1>9, <1>10

Mapping == {"map_memmap", "map_entry", "set_cr3", "halted"}

(* Pages in place stay so; a step may count as done what is in place.      *)
LEMMA InPlaceKeeps ==
  ASSUME layout' = layout, Same, InPlace,
         ASSUME stage' \in Mapping,
                NEW k \in 1 .. Len(memmap), NEW f \in Physical, Promised(k, f), Done(k, f)', ~ Coming(f)'
         PROVE  stage \in Mapping /\ Done(k, f) /\ ~ Coming(f)
  PROVE  InPlace'
<1>1. memmap' = memmap /\ \A k, f : Promised(k, f)' <=> Promised(k, f)
  BY SameLayout
<1>2. ASSUME stage' \in Mapping,
             NEW k \in 1 .. Len(memmap), NEW f \in Physical, Promised(k, f), Done(k, f)', ~ Coming(f)'
      PROVE  Seen(f + hhdm)' = f + Asks(memmap[k])
  <2>1. stage \in Mapping /\ Done(k, f) /\ ~ Coming(f)
    BY <1>2
  <2>2. Seen(f + hhdm) = f + Asks(memmap[k])
    BY <1>2, <2>1 DEF InPlace, Mapping
  <2>3. f + hhdm \in VirtualPages
    BY PhysicalIs
  <2>4. QED
    BY <2>2, <2>3 DEF Same
<1>3. QED
  BY <1>1, <1>2 DEF InPlace, Mapping

LEMMA InPlaceAnswered ==
  ASSUME layout' = layout, Answered, Lawful(op), InPlace,
         pc # "idle", pc' = "idle", UNCHANGED <<stage, i, current>>
  PROVE  InPlace'
<1>1. memmap' = memmap /\ \A k, f : Promised(k, f)' <=> Promised(k, f)
  BY SameLayout
<1>2. ASSUME stage' \in Mapping,
             NEW k \in 1 .. Len(memmap), NEW f \in Physical, Promised(k, f), Done(k, f)'
      PROVE  Seen(f + hhdm)' = f + Asks(memmap[k])
  <2>1. stage \in Mapping /\ Done(k, f)
    BY <1>2 DEF Done
  <2>2. f + hhdm \in VirtualPages
    BY PhysicalIs
  <2>3. CASE TargetOf(op) = f + hhdm
    <3>1. LeafOf(op) = f + Asks(memmap[k])
      BY <1>2, <2>3 DEF Lawful
    <3>2. QED
      BY <2>2, <2>3, <3>1 DEF Answered
  <2>4. CASE TargetOf(op) # f + hhdm
    <3>1. Seen(f + hhdm) = f + Asks(memmap[k])
      BY <1>2, <2>1, <2>4 DEF InPlace, Coming, Mapping
    <3>2. QED
      BY <2>2, <2>4, <3>1 DEF Answered
  <2>5. QED
    BY <2>3, <2>4
<1>3. QED
  BY <1>1, <1>2 DEF InPlace, Mapping

LEMMA CachedKeeps ==
  ASSUME layout' = layout, tlb' = tlb, Cached
  PROVE  Cached'
<1>1. \A v : BootTranslate(v)' = BootTranslate(v)
  BY SameLayout
<1>2. QED
  BY <1>1 DEF Cached

LEMMA MachineHas ==
  ASSUME Machine
  PROVE  layout \in Layouts /\ Frames # {}
  BY DEF Machine, Memory, Typed, Tree, Shape

-----------------------------------------------------------------------------
(* The steps of kmain, one by one.                                         *)
LEMMA IdleStep ==
  ASSUME Machine, AsAtBoot, Confined, pc = "idle", pc' = "idle", layout' = layout, mem' = mem,
         free_mem_head' = free_mem_head, ALIGN_DOWN(cr3') = Root, stage' # "pmm_init"
  PROVE  Machine' /\ Same /\ AsAtBoot' /\ Confined' /\ InCall'
<1>1. PICK lev, up, at, b : Memory(lev, up, at, b)
  BY DEF Machine
<1>2. Memory(lev, up, at, b)' /\ Same
  BY <1>1, IdleKeeps
<1>3. Machine'
  BY <1>2 DEF Machine
<1>4. AsAtBoot' /\ Confined'
  BY <1>2, MachineHas, SameKeeps
<1>5. QED
  BY <1>2, <1>3, <1>4 DEF InCall

LEMMA RootStays ==
  ASSUME Machine
  PROVE  ALIGN_DOWN(cr3) = Root /\ ALIGN_DOWN(Root) = Root /\ Root \in Frames
<1>1. ALIGN_DOWN(cr3) = Root /\ Root \in Frames
  BY DEF Machine, Memory, Typed, Tree, Shape
<1>2. QED
  BY <1>1, Words

LEMMA PmmInitStep ==
  ASSUME Machine, Promises, pmm_init
  PROVE  Machine' /\ Promises'
<1>1. /\ stage = "pmm_init" /\ stage' = "init_pml4" /\ layout' = layout /\ pc = "idle" /\ pc' = "idle"
      /\ UNCHANGED <<section, i, tlb>>
  BY DEF pmm_init, Promises, Control
<1>2. PICK lev, up, at, b : Memory(lev, up, at, b) /\ \A p \in UsablePages : lev[p] = 0
  BY <1>1 DEF Machine
<1>3. PICK a \in Nat : Memory(lev, up, at, a)' /\ Same
  BY <1>1, <1>2, PmmInitKeeps
<1>4. Machine'
  BY <1>1, <1>3 DEF Machine
<1>5. AsAtBoot' /\ Confined'
  BY <1>1, <1>3, MachineHas, SameKeeps DEF Promises
<1>6. Control'
  BY <1>1 DEF Promises, Control
<1>7. InCall' /\ InPlace'
  BY <1>1 DEF InCall, InPlace
<1>8. Cached'
  BY <1>1, CachedKeeps DEF Promises
<1>9. QED
  BY <1>4, <1>5, <1>6, <1>7, <1>8 DEF Promises

LEMMA InitPml4Step ==
  ASSUME Machine, Promises, init_pml4
  PROVE  Machine' /\ Promises'
<1>1. /\ stage = "init_pml4" /\ stage' = "map_kernel" /\ layout' = layout /\ pc = "idle" /\ pc' = "idle"
      /\ pml4' = ALIGN_DOWN(cr3)
      /\ UNCHANGED <<mem, cr3, free_mem_head, section, i, tlb>>
  BY DEF init_pml4, Promises, Control
<1>2. Root' = Root /\ pml4' = Root'
  BY <1>1, SameMachine, RootStays
<1>3. Machine' /\ Same /\ AsAtBoot' /\ Confined' /\ InCall'
  BY <1>1, IdleStep, RootStays DEF Promises
<1>4. Control'
  BY <1>1, <1>2 DEF Promises, Control
<1>5. InPlace'
  BY <1>1 DEF InPlace
<1>6. Cached'
  BY <1>1, CachedKeeps DEF Promises
<1>7. QED
  BY <1>3, <1>4, <1>5, <1>6 DEF Promises

LEMMA LeaveSectionStep ==
  ASSUME Machine, Promises, LeaveSection
  PROVE  Machine' /\ Promises'
<1>1. /\ stage = "map_kernel" /\ layout' = layout /\ pc = "idle" /\ pc' = "idle" /\ pml4' = pml4
      /\ UNCHANGED <<mem, cr3, free_mem_head, tlb>>
      /\ stage' \in {"map_kernel", "map_memmap"} /\ (stage' = "map_memmap" => i' = 1)
  BY DEF LeaveSection, pvars
<1>2. section' \in 1 .. 3 /\ i' \in Nat
  BY DEF LeaveSection, Promises, Control
<1>3. Root' = Root /\ memmap' = memmap
  BY <1>1, SameMachine, SameLayout
<1>4. Machine' /\ Same /\ AsAtBoot' /\ Confined' /\ InCall'
  BY <1>1, IdleStep, RootStays DEF Promises
<1>5. Control'
  BY <1>1, <1>2, <1>3 DEF Promises, Control
<1>6. InPlace'
  <2>1. \A k \in 1 .. Len(memmap) : \A f \in Physical : stage' \in Mapping => ~ Done(k, f)'
    BY <1>1 DEF Done, Mapping
  <2>2. InPlace
    BY DEF Promises
  <2>3. QED
    BY <1>1, <1>4, <2>1, <2>2, InPlaceKeeps
<1>7. Cached'
  BY <1>1, CachedKeeps DEF Promises
<1>8. QED
  BY <1>4, <1>5, <1>6, <1>7 DEF Promises

LEMMA EnterEntryStep ==
  ASSUME Machine, Promises, EnterEntry
  PROVE  Machine' /\ Promises'
<1>1. /\ stage = "map_memmap" /\ stage' = "map_entry" /\ layout' = layout
      /\ i <= Len(memmap) /\ Mapped(memmap[i]) /\ current' = memmap[i].base
      /\ UNCHANGED <<mem, cr3, pml4, free_mem_head, pc, tlb, section, i>>
  BY DEF EnterEntry, pvars
<1>2. pc = "idle" /\ pc' = "idle" /\ pml4 = Root /\ i \in Nat /\ i >= 1 /\ section \in 1 .. 3
  BY <1>1 DEF Promises, Control
<1>3. Root' = Root /\ memmap' = memmap
  BY <1>1, SameMachine, SameLayout
<1>4. Machine' /\ Same /\ AsAtBoot' /\ Confined' /\ InCall'
  BY <1>1, <1>2, IdleStep, RootStays DEF Promises
<1>5. layout \in Layouts /\ Len(memmap) \in Nat /\ i \in 1 .. Len(memmap)
  <2>1. layout \in Layouts
    BY MachineHas
  <2>2. MapLegal(memmap)
    BY <2>1, LayoutsLegal DEF memmap
  <2>3. Len(memmap) \in Nat
    BY <2>2 DEF MapLegal
  <2>4. QED
    BY <1>1, <1>2, <2>1, <2>3
<1>6. memmap[i].base \in Nat
  BY <1>5, EntriesOf
<1>7. Control'
  BY <1>1, <1>2, <1>3, <1>5, <1>6 DEF Control
<1>8. InPlace'
  <2>1. ASSUME NEW k \in 1 .. Len(memmap), NEW f \in Physical, Promised(k, f), Done(k, f)', ~ Coming(f)'
        PROVE  stage \in Mapping /\ Done(k, f) /\ ~ Coming(f)
    <3>1. k < i \/ (k = i /\ f < ALIGN_DOWN(memmap[i].base))
      BY <1>1, <2>1 DEF Done
    <3>2. CASE k = i /\ f < ALIGN_DOWN(memmap[i].base)
      <4>1. f \in Nat /\ f % PAGE_SIZE = 0 /\ memmap[i].base < f + PAGE_SIZE
        BY <1>5, <2>1, <3>2, PhysicalIs, PromisedBelow
      <4>2. PICK a \in Nat : a = ALIGN_DOWN(memmap[i].base) /\ a % PAGE_SIZE = 0 /\ a <= memmap[i].base
        BY <1>6, Rounding
      <4>3. ALIGN_DOWN(f) + PAGE_SIZE <= a /\ ALIGN_DOWN(f) = f
        BY <3>2, <4>1, <4>2, Aligned
      <4>4. QED
        BY <1>6, <4>1, <4>2, <4>3 DEF PAGE_SIZE
    <3>3. QED
      BY <1>1, <1>2, <3>1, <3>2 DEF Done, Coming, Mapping
  <2>2. InPlace
    BY DEF Promises
  <2>3. QED
    BY <1>1, <1>4, <2>1, <2>2, InPlaceKeeps
<1>9. Cached'
  BY <1>1, CachedKeeps DEF Promises
<1>10. QED
  BY <1>4, <1>7, <1>8, <1>9 DEF Promises

LEMMA SkipEntryStep ==
  ASSUME Machine, Promises, SkipEntry
  PROVE  Machine' /\ Promises'
<1>1. /\ stage = "map_memmap" /\ stage' = "map_memmap" /\ layout' = layout
      /\ ~ Mapped(memmap[i]) /\ i' = i + 1
      /\ UNCHANGED <<mem, cr3, pml4, free_mem_head, pc, tlb, section>>
  BY DEF SkipEntry, pvars
<1>2. pc = "idle" /\ pc' = "idle" /\ pml4 = Root /\ i \in Nat /\ i >= 1 /\ section \in 1 .. 3
  BY <1>1 DEF Promises, Control
<1>3. Root' = Root /\ memmap' = memmap
  BY <1>1, SameMachine, SameLayout
<1>4. Machine' /\ Same /\ AsAtBoot' /\ Confined' /\ InCall'
  BY <1>1, <1>2, IdleStep, RootStays DEF Promises
<1>5. Control'
  BY <1>1, <1>2, <1>3 DEF Control
<1>6. InPlace'
  <2>1. ASSUME NEW k \in 1 .. Len(memmap), NEW f \in Physical, Promised(k, f), Done(k, f)', ~ Coming(f)'
        PROVE  stage \in Mapping /\ Done(k, f) /\ ~ Coming(f)
    <3>1. k < i + 1 /\ k # i
      BY <1>1, <2>1 DEF Done, Promised
    <3>2. k < i
      BY <1>2, <3>1
    <3>3. QED
      BY <1>1, <1>2, <3>2 DEF Done, Coming, Mapping
  <2>2. InPlace
    BY DEF Promises
  <2>3. QED
    BY <1>1, <1>4, <2>1, <2>2, InPlaceKeeps
<1>7. Cached'
  BY <1>1, CachedKeeps DEF Promises
<1>8. QED
  BY <1>4, <1>5, <1>6, <1>7 DEF Promises

LEMMA LeaveEntryStep ==
  ASSUME Machine, Promises, LeaveEntry
  PROVE  Machine' /\ Promises'
<1>1. /\ stage = "map_entry" /\ stage' = "map_memmap" /\ layout' = layout
      /\ ~ (current < Limit(memmap[i])) /\ i' = i + 1 /\ pc = "idle" /\ pc' = "idle"
      /\ UNCHANGED <<mem, cr3, pml4, free_mem_head, tlb, section>>
  BY DEF LeaveEntry, pvars, NextEntry
<1>2. /\ pml4 = Root /\ i \in 1 .. Len(memmap) /\ section \in 1 .. 3 /\ i \in Nat /\ i >= 1
      /\ current \in Nat /\ (memmap[i].base % PAGE_SIZE = 0 => current % PAGE_SIZE = 0)
  BY <1>1 DEF Promises, Control
<1>3. Root' = Root /\ memmap' = memmap
  BY <1>1, SameMachine, SameLayout
<1>4. Machine' /\ Same /\ AsAtBoot' /\ Confined' /\ InCall'
  BY <1>1, IdleStep, RootStays DEF Promises
<1>5. Control'
  BY <1>1, <1>2, <1>3 DEF Control
<1>6. layout \in Layouts /\ Limit(memmap[i]) \in Nat /\ Limit(memmap[i]) <= current
  <2>1. layout \in Layouts
    BY MachineHas
  <2>2. Limit(memmap[i]) \in Nat
    BY <1>2, <2>1, EntriesOf
  <2>3. QED
    BY <1>1, <1>2, <2>1, <2>2
<1>7. InPlace'
  <2>1. ASSUME NEW k \in 1 .. Len(memmap), NEW f \in Physical, Promised(k, f), Done(k, f)', ~ Coming(f)'
        PROVE  stage \in Mapping /\ Done(k, f) /\ ~ Coming(f)
    <3>1. k < i \/ k = i
      BY <1>1, <1>2, <2>1 DEF Done
    <3>2. f \in Nat /\ f % PAGE_SIZE = 0
      BY PhysicalIs
    <3>3. CASE k = i
      <4>1. CASE WholePageOf(memmap[k], f)
        <5>1. PICK g \in Nat : g = f + PAGE_SIZE /\ g % PAGE_SIZE = 0 /\ g <= current
          BY <1>2, <1>6, <3>2, <3>3, <4>1 DEF WholePageOf, PAGE_SIZE
        <5>2. g <= ALIGN_DOWN(current) /\ ALIGN_DOWN(current) \in Nat
          BY <1>2, <5>1, Aligned, Rounding
        <5>3. f < ALIGN_DOWN(current)
          BY <3>2, <5>1, <5>2 DEF PAGE_SIZE
        <5>4. QED
          BY <1>1, <3>3, <5>3 DEF Done, Coming, Mapping
      <4>2. CASE memmap[k].base % PAGE_SIZE = 0
        <5>1. f < Limit(memmap[i])
          BY <1>6, <2>1, <3>2, <3>3, PromisedBelow
        <5>2. ALIGN_DOWN(current) = current
          BY <1>2, <3>3, <4>2, Aligned
        <5>3. f < ALIGN_DOWN(current)
          BY <1>2, <1>6, <3>2, <5>1, <5>2
        <5>4. QED
          BY <1>1, <3>3, <5>3 DEF Done, Coming, Mapping
      <4>3. QED
        BY <2>1, <4>1, <4>2 DEF Promised
    <3>4. QED
      BY <1>1, <3>1, <3>3 DEF Done, Coming, Mapping
  <2>2. InPlace
    BY DEF Promises
  <2>3. QED
    BY <1>1, <1>4, <2>1, <2>2, InPlaceKeeps
<1>8. Cached'
  BY <1>1, CachedKeeps DEF Promises
<1>9. QED
  BY <1>4, <1>5, <1>7, <1>8 DEF Promises

LEMMA MemmapDoneStep ==
  ASSUME Machine, Promises, MemmapDone
  PROVE  Machine' /\ Promises'
<1>1. /\ stage = "map_memmap" /\ stage' = "set_cr3" /\ layout' = layout /\ i > Len(memmap)
      /\ UNCHANGED <<mem, cr3, pml4, free_mem_head, pc, tlb, section, i>>
  BY DEF MemmapDone, pvars
<1>2. pc = "idle" /\ pc' = "idle" /\ pml4 = Root /\ i \in Nat /\ section \in 1 .. 3
  BY <1>1 DEF Promises, Control
<1>3. Root' = Root /\ memmap' = memmap
  BY <1>1, SameMachine, SameLayout
<1>4. Machine' /\ Same /\ AsAtBoot' /\ Confined' /\ InCall'
  BY <1>1, <1>2, IdleStep, RootStays DEF Promises
<1>5. Control'
  BY <1>1, <1>2, <1>3 DEF Control
<1>6. InPlace'
  <2>1. \A k, f : Done(k, f)' => Done(k, f)
    BY <1>1 DEF Done
  <2>2. \A f : ~ Coming(f)
    BY <1>2 DEF Coming
  <2>3. InPlace /\ stage \in Mapping
    BY <1>1 DEF Promises, Mapping
  <2>4. QED
    BY <1>1, <1>4, <2>1, <2>2, <2>3, InPlaceKeeps
<1>7. Cached'
  BY <1>1, CachedKeeps DEF Promises
<1>8. QED
  BY <1>4, <1>5, <1>6, <1>7 DEF Promises

LEMMA SetCr3Step ==
  ASSUME Machine, Promises, set_cr3
  PROVE  Machine' /\ Promises'
<1>1. /\ stage = "set_cr3" /\ stage' = "halted" /\ layout' = layout /\ cr3' = pml4
      /\ tlb' = [v \in layout.watched |-> 0]
      /\ UNCHANGED <<mem, pml4, free_mem_head, pc, section, i>>
  BY DEF set_cr3
<1>2. pc = "idle" /\ pc' = "idle" /\ pml4 = Root /\ i \in Nat /\ section \in 1 .. 3 /\ i > Len(memmap)
  BY <1>1 DEF Promises, Control
<1>3. Root' = Root /\ memmap' = memmap /\ ALIGN_DOWN(cr3') = Root
  BY <1>1, <1>2, SameMachine, SameLayout, RootStays
<1>4. Machine' /\ Same /\ AsAtBoot' /\ Confined' /\ InCall'
  BY <1>1, <1>2, <1>3, IdleStep DEF Promises
<1>5. Control'
  BY <1>1, <1>2, <1>3 DEF Control
<1>6. InPlace'
  <2>1. \A k, f : Done(k, f)' => Done(k, f)
    BY <1>1 DEF Done
  <2>2. \A f : ~ Coming(f)
    BY <1>2 DEF Coming
  <2>3. InPlace /\ stage \in Mapping
    BY <1>1 DEF Promises, Mapping
  <2>4. QED
    BY <1>1, <1>4, <2>1, <2>2, <2>3, InPlaceKeeps
<1>7. Cached'
  BY <1>1 DEF Cached
<1>8. QED
  BY <1>4, <1>5, <1>6, <1>7 DEF Promises

(* A call of map_page_table with a lawful request.                         *)
LEMMA InCallIs == \A o : op = o => (InCall <=> (pc # "idle" => Lawful(o)))
  BY DEF InCall

LEMMA CallStep ==
  ASSUME Machine, Promises, layout' = layout, NEW o \in Requests, Lawful(o),
         map_page_table(o.physical_addr, o.virtual_addr, o.flags),
         stage' = stage, stage \in {"map_kernel", "map_entry"}
  PROVE  /\ Machine' /\ Same /\ AsAtBoot' /\ Confined' /\ InCall' /\ op' = o
         /\ pc = "idle" /\ pc' # "idle" /\ pml4' = pml4 /\ pml4 = Root
<1>1. PICK p \in Nat, v \in 0 .. ENTRIES * Span(4) - 1, w \in Nat :
        o = [physical_addr |-> p, virtual_addr |-> v, flags |-> w]
  BY DEF Requests
<1>2. o.physical_addr = p /\ o.virtual_addr = v /\ o.flags = w
  BY <1>1
<1>3. map_page_table(p, v, w)
  BY <1>2
<1>4. pc = "idle" /\ pc' = "walk" /\ op' = o /\ pml4' = pml4
  BY <1>1, <1>3 DEF map_page_table
<1>5. pml4 = Root /\ stage # "pmm_init"
  BY DEF Promises, Control
<1>6. PICK lev, up, at, b : Memory(lev, up, at, b)
  BY DEF Machine
<1>7. Memory(lev, up, at, b)' /\ Same
  BY <1>3, <1>5, <1>6, CallKeeps
<1>8. Machine'
  BY <1>5, <1>7 DEF Machine
<1>9. AsAtBoot' /\ Confined'
  BY <1>7, MachineHas, SameKeeps DEF Promises
<1>10. InCall'
  <2>1. InCallIs!:'
    BY InCallIs, PTL
  <2>2. Lawful(o)'
    BY SameLayout
  <2>3. QED
    BY <1>4, <2>1, <2>2
<1>11. QED
  BY <1>4, <1>5, <1>7, <1>8, <1>9, <1>10

LEMMA MapSectionPageStep ==
  ASSUME Machine, Promises, MapSectionPage
  PROVE  Machine' /\ Promises'
<1>1. /\ stage = "map_kernel" /\ stage' = "map_kernel" /\ layout' = layout /\ i < pages(section)
      /\ i' = i + 1 /\ UNCHANGED <<section, tlb>>
      /\ map_page_table(SectionFrame(section, i), layout.virtual_base + offset(section) + i * PAGE_SIZE,
                        SectionFlags(section))
  BY DEF MapSectionPage
<1>2. section \in 1 .. 3 /\ i \in Nat
  BY DEF Promises, Control
<1>3. PICK k \in 1 .. 3, n \in Nat : k = section /\ n = i
  BY <1>2
<1>4. PICK o : o = [physical_addr |-> SectionFrame(k, n),
                    virtual_addr  |-> layout.virtual_base + offset(k) + n * PAGE_SIZE,
                    flags         |-> SectionFlags(k)]
  OBVIOUS
<1>5. o \in Requests /\ Lawful(o)
  BY <1>1, <1>3, <1>4, MachineHas, SectionLawful
<1>6. map_page_table(o.physical_addr, o.virtual_addr, o.flags)
  BY <1>1, <1>3, <1>4
<1>7. /\ Machine' /\ Same /\ AsAtBoot' /\ Confined' /\ InCall'
      /\ pc' # "idle" /\ pml4' = pml4 /\ pml4 = Root
  BY <1>1, <1>5, <1>6, CallStep
<1>8. Root' = Root
  BY <1>1, SameMachine
<1>9. Control'
  BY <1>1, <1>2, <1>7, <1>8 DEF Control
<1>10. InPlace'
  BY <1>1 DEF InPlace
<1>11. Cached'
  BY <1>1, CachedKeeps DEF Promises
<1>12. QED
  BY <1>7, <1>9, <1>10, <1>11 DEF Promises

LEMMA MapEntryPageStep ==
  ASSUME Machine, Promises, MapEntryPage
  PROVE  Machine' /\ Promises'
<1>1. /\ stage = "map_entry" /\ stage' = "map_entry" /\ layout' = layout /\ current < Limit(memmap[i])
      /\ current' = current + PAGE_SIZE /\ UNCHANGED <<section, i, tlb>>
      /\ map_page_table(current, current + hhdm, EntryFlags(memmap[i]))
  BY DEF MapEntryPage
<1>2. /\ section \in 1 .. 3 /\ i \in Nat /\ i >= 1 /\ i \in 1 .. Len(memmap) /\ Mapped(memmap[i])
      /\ current \in Nat /\ current >= memmap[i].base
      /\ memmap[i].base % PAGE_SIZE = 0 => current % PAGE_SIZE = 0
  BY <1>1 DEF Promises, Control
<1>3. layout \in Layouts /\ Frames # {} /\ memmap[i].base \in Nat /\ memmap[i].base <= current
  <2>1. layout \in Layouts /\ Frames # {}
    BY MachineHas
  <2>2. memmap[i].base \in Nat
    BY <1>2, <2>1, EntriesOf
  <2>3. QED
    BY <1>2, <2>1, <2>2
<1>4. PICK j \in 1 .. Len(memmap), c \in Nat : j = i /\ c = current
  BY <1>2
<1>5. PICK o : o = [physical_addr |-> c, virtual_addr |-> c + hhdm, flags |-> EntryFlags(memmap[j])]
  OBVIOUS
<1>6. o \in Requests /\ Lawful(o) /\ TargetOf(o) = ALIGN_DOWN(c) + hhdm
  BY <1>1, <1>2, <1>3, <1>4, <1>5, EntryLawful
<1>7. map_page_table(o.physical_addr, o.virtual_addr, o.flags)
  BY <1>1, <1>4, <1>5
<1>8. /\ Machine' /\ Same /\ AsAtBoot' /\ Confined' /\ InCall' /\ op' = o
      /\ pc = "idle" /\ pc' # "idle" /\ pml4' = pml4 /\ pml4 = Root
  BY <1>1, <1>6, <1>7, CallStep
<1>9. Root' = Root /\ memmap' = memmap
  BY <1>1, SameMachine, SameLayout
<1>10. /\ current' \in Nat /\ current' >= memmap[i].base /\ ALIGN_DOWN(current') = ALIGN_DOWN(c) + PAGE_SIZE
       /\ memmap[i].base % PAGE_SIZE = 0 => current' % PAGE_SIZE = 0
  <2>1. current' = c + PAGE_SIZE
    BY <1>1, <1>4
  <2>2. c + PAGE_SIZE \in Nat /\ c + PAGE_SIZE >= memmap[i].base
    BY <1>3, <1>4 DEF PAGE_SIZE
  <2>3. ALIGN_DOWN(c + PAGE_SIZE) = ALIGN_DOWN(c) + PAGE_SIZE
    BY NextPage
  <2>4. memmap[i].base % PAGE_SIZE = 0 => (c + PAGE_SIZE) % PAGE_SIZE = 0
    BY <1>2, <1>4, NextPage
  <2>5. QED
    BY <2>1, <2>2, <2>3, <2>4
<1>11. Control'
  BY <1>1, <1>2, <1>8, <1>9, <1>10 DEF Control
<1>12. InPlace'
  <2>1. ASSUME NEW k \in 1 .. Len(memmap), NEW f \in Physical, Promised(k, f), Done(k, f)', ~ Coming(f)'
        PROVE  stage \in Mapping /\ Done(k, f) /\ ~ Coming(f)
    <3>1. f \in Nat /\ f % PAGE_SIZE = 0
      BY PhysicalIs
    <3>2. PICK a \in Nat : a = ALIGN_DOWN(c) /\ a % PAGE_SIZE = 0
      BY Rounding
    <3>3. f # a
      <4>1. TargetOf(o) # f + hhdm
        BY <1>8, <2>1 DEF Coming
      <4>2. QED
        BY <1>6, <3>2, <4>1
    <3>4. k < i \/ (k = i /\ f < a + PAGE_SIZE)
      BY <1>1, <1>10, <2>1, <3>2 DEF Done
    <3>5. f < a + PAGE_SIZE => f < a
      <4>1. ASSUME a < f PROVE ~ (f < a + PAGE_SIZE)
        <5>1. ALIGN_DOWN(a) + PAGE_SIZE <= f /\ ALIGN_DOWN(a) = a
          BY <3>1, <3>2, <4>1, Aligned
        <5>2. QED
          BY <3>1, <3>2, <5>1 DEF PAGE_SIZE
      <4>2. QED
        BY <3>1, <3>2, <3>3, <4>1
    <3>6. Done(k, f)
      BY <1>1, <1>4, <3>2, <3>4, <3>5 DEF Done
    <3>7. QED
      BY <1>1, <1>8, <3>6 DEF Coming, Mapping
  <2>2. InPlace
    BY DEF Promises
  <2>3. QED
    BY <1>1, <1>8, <2>1, <2>2, InPlaceKeeps
<1>13. Cached'
  BY <1>1, CachedKeeps DEF Promises
<1>14. QED
  BY <1>8, <1>11, <1>12, <1>13 DEF Promises

LEMMA PagingStepKeeps ==
  ASSUME Machine, Promises, PagingStep, ~ oom'
  PROVE  Machine' /\ Promises'
<1>1. UNCHANGED <<kvars, tlb>>
  BY DEF PagingStep
<1>2. UNCHANGED <<layout, stage, section, i, current, tlb>>
  BY <1>1 DEF kvars
<1>3. PICK lev, up, at, b : Memory(lev, up, at, b)
  BY DEF Machine
<1>4. Control /\ InCall /\ AsAtBoot /\ Confined /\ InPlace /\ Cached
  BY DEF Promises
<1>5. /\ pc # "idle" /\ op' = op /\ pml4' = pml4
      /\ \E l, u, a, c : Memory(l, u, a, c)'
      /\ \/ pc' # "idle" /\ Same
         \/ pc' = "idle" /\ Answered
  BY <1>3, <1>4, PagingKeeps
<1>6. stage \in {"map_kernel", "map_entry"}
  BY <1>4, <1>5 DEF Control
<1>7. Machine'
  BY <1>2, <1>5, <1>6 DEF Machine
<1>8. Lawful(op) /\ layout \in Layouts /\ Frames # {}
  BY <1>4, <1>5, MachineHas DEF InCall
<1>9. Root' = Root /\ memmap' = memmap
  BY <1>2, SameMachine, SameLayout
<1>10. Control'
  BY <1>2, <1>4, <1>5, <1>6, <1>9 DEF Control
<1>11. InCall'
  <2>1. PICK o : o = op
    OBVIOUS
  <2>2. InCallIs!:'
    BY InCallIs, PTL
  <2>3. Lawful(o) /\ Lawful(o)' /\ op' = o
    BY <1>2, <1>5, <1>8, <2>1, SameLayout
  <2>4. QED
    BY <2>2, <2>3
<1>12. AsAtBoot' /\ Confined'
  BY <1>2, <1>4, <1>5, <1>8, SameKeeps, AnswerKeeps
<1>13. InPlace'
  <2>1. CASE pc' # "idle" /\ Same
    <3>1. \A k, f : Done(k, f)' <=> Done(k, f)
      BY <1>2 DEF Done
    <3>2. \A f : Coming(f)' <=> Coming(f)
      BY <1>5, <2>1 DEF Coming, TargetOf
    <3>3. stage' \in Mapping <=> stage \in Mapping
      BY <1>2
    <3>4. QED
      BY <1>2, <1>4, <2>1, <3>1, <3>2, <3>3, InPlaceKeeps
  <2>2. CASE pc' = "idle" /\ Answered
    BY <1>2, <1>4, <1>5, <1>8, <2>2, InPlaceAnswered
  <2>3. QED
    BY <1>5, <2>1, <2>2
<1>14. Cached'
  BY <1>2, <1>4, CachedKeeps
<1>15. QED
  BY <1>7, <1>10, <1>11, <1>12, <1>13, <1>14 DEF Promises

(* The processor's cache comes and goes beside the kernel's steps.         *)
LEMMA Untouched ==
  ASSUME UNCHANGED <<pvars, kvars>>
  PROVE  /\ Machine' <=> Machine
         /\ Control' <=> Control
         /\ InCall' <=> InCall
         /\ AsAtBoot' <=> AsAtBoot
         /\ Confined' <=> Confined
         /\ InPlace' <=> InPlace
<1>1. UNCHANGED <<mem, cr3, pml4, free_mem_head, pc, op, level, table>>
  BY DEF pvars
<1>2. UNCHANGED <<layout, stage, section, i, current>>
  BY DEF kvars
<1>3. Root' = Root /\ (Busy' <=> Busy) /\ index' = index /\ Excepted' = Excepted
  BY <1>1, <1>2 DEF Root, Busy, index, Excepted
<1>4. UsablePages' = UsablePages /\ \A a : PointerBelow(a)' = PointerBelow(a)
  BY <1>2, SameMachine
<1>5. \A lev, up, at, b : Memory(lev, up, at, b)' <=> Memory(lev, up, at, b)
  BY <1>1, <1>2, <1>3, <1>4 DEF Memory, Typed, Tree, OnTheWay, Free, Pending
<1>6. Machine' <=> Machine
  BY <1>2, <1>4, <1>5 DEF Machine
<1>7. \A v : Seen(v)' = Seen(v)
  BY <1>1, <1>3 DEF Seen, Hidden, Translate
<1>8. /\ memmap' = memmap /\ ImagePages' = ImagePages
      /\ \A v : BootTranslate(v)' = BootTranslate(v)
      /\ \A v : Region(v)' <=> Region(v)
      /\ \A k, f : Promised(k, f)' <=> Promised(k, f)
  BY <1>2, SameLayout
<1>9. Control' <=> Control
  BY <1>1, <1>2, <1>3, <1>8 DEF Control
<1>10. InCall' <=> InCall
  <2>1. PICK o : o = op
    OBVIOUS
  <2>2. InCallIs!:'
    BY InCallIs, PTL
  <2>3. Lawful(o)' <=> Lawful(o)
    BY <1>2, SameLayout
  <2>4. op' = o /\ pc' = pc
    BY <1>1, <2>1
  <2>5. InCall' <=> (pc' # "idle" => Lawful(o)')
    BY <2>2, <2>4
  <2>6. InCall <=> (pc # "idle" => Lawful(o))
    BY <2>1, InCallIs
  <2>7. QED
    BY <2>3, <2>4, <2>5, <2>6
<1>11. AsAtBoot' <=> AsAtBoot
  BY <1>7, <1>8 DEF AsAtBoot
<1>12. Confined' <=> Confined
  BY <1>7, <1>8 DEF Confined
<1>13. InPlace' <=> InPlace
  BY <1>1, <1>2, <1>7, <1>8 DEF InPlace, Done, Coming, TargetOf
<1>14. QED
  BY <1>6, <1>9, <1>10, <1>11, <1>12, <1>13

LEMMA CacheStep ==
  ASSUME Machine, Promises, NEW v \in layout.watched, CacheTranslation(v) \/ DropTranslation(v)
  PROVE  Machine' /\ Promises'
<1>1. UNCHANGED <<pvars, kvars>> /\ layout' = layout
  BY DEF CacheTranslation, DropTranslation, kvars
<1>2. Machine' /\ Control' /\ InCall' /\ AsAtBoot' /\ Confined' /\ InPlace'
  BY <1>1, Untouched DEF Promises
<1>3. Cached /\ AsAtBoot /\ layout \in Layouts /\ \A w : BootTranslate(w)' = BootTranslate(w)
  BY <1>1, SameLayout, MachineHas DEF Promises
<1>4. v \in VirtualPages
  BY <1>3, LayoutsLegal
<1>5. Cached'
  <2>1. CASE DropTranslation(v)
    BY <1>1, <1>3, <2>1 DEF DropTranslation, Cached
  <2>2. CASE CacheTranslation(v)
    <3>1. BootTranslate(v) # 0 => ALIGN_DOWN(Translate(v)) = ALIGN_DOWN(BootTranslate(v))
      BY <1>3, <1>4 DEF AsAtBoot, Seen
    <3>2. tlb' = [tlb EXCEPT ![v] = Translate(v)] /\ DOMAIN tlb = layout.watched
      BY <1>3, <2>2 DEF CacheTranslation, Cached
    <3> DEFINE e == Translate(v)
    <3> HIDE DEF e
    <3>3. DOMAIN tlb' = layout.watched /\ \A w \in layout.watched : tlb'[w] = IF w = v THEN e ELSE tlb[w]
      BY <3>2 DEF e
    <3>4. BootTranslate(v) # 0 => ALIGN_DOWN(e) = ALIGN_DOWN(BootTranslate(v))
      BY <3>1 DEF e
    <3>5. QED
      BY <1>1, <1>3, <3>3, <3>4 DEF Cached
  <2>3. QED
    BY <2>1, <2>2
<1>6. QED
  BY <1>2, <1>5 DEF Promises

-----------------------------------------------------------------------------
(* The inductive invariant holds in every state.                           *)
LEMMA InitKeeps == Init => IInv
<1> SUFFICES ASSUME Init, Small PROVE Machine /\ Promises
  BY DEF IInv
<1>1. Machine /\ \A v \in VirtualPages : Seen(v) = BootTranslate(v)
  BY InitMachine
<1>2. layout \in Layouts /\ Frames # {} /\ MappingLegal(layout)
  BY <1>1, MachineHas, LayoutsLegal
<1>3. Control /\ InCall /\ InPlace
  BY DEF Init, Control, InCall, InPlace
<1>4. AsAtBoot
  <2>1. \A v \in ImagePages : v \in VirtualPages /\ Present(BootTranslate(v))
    BY <1>2, ImageIsThere DEF MappingLegal, ImagePages, BootTranslate
  <2>2. \A f \in Frames : Present(BootTranslate(f + hhdm)) /\ Writable(BootTranslate(f + hhdm))
    BY <1>2 DEF MappingLegal, BootTranslate
  <2>3. \A f \in Frames : f + hhdm \in VirtualPages
    BY <1>2, FramesDirect
  <2>4. QED
    BY <1>1, <2>1, <2>2, <2>3 DEF AsAtBoot
<1>5. Confined
  BY <1>1 DEF Confined
<1>6. Cached
  BY DEF Init, Cached
<1>7. QED
  BY <1>1, <1>3, <1>4, <1>5, <1>6 DEF Promises

LEMMA NextKeeps == IInv /\ [Next]_vars => IInv'
<1> SUFFICES ASSUME IInv, [Next]_vars, Small', ~ oom' PROVE Machine' /\ Promises'
  BY DEF IInv
<1>1. CASE UNCHANGED vars
  <2>1. UNCHANGED <<pvars, kvars>> /\ tlb' = tlb /\ oom' = oom /\ layout' = layout
    BY <1>1 DEF vars, kvars
  <2>2. Small /\ ~ oom
    BY <2>1, SameLayout
  <2>3. Machine /\ Promises
    BY <2>2 DEF IInv
  <2>4. QED
    BY <2>1, <2>3, Untouched, CachedKeeps DEF Promises
<1>2. CASE Next
  <2>1. layout' = layout /\ ~ oom
    <3>1. CASE Kernel
      <4>1. CASE PagingStep
        BY <4>1 DEF PagingStep, kvars
      <4>2. QED
        BY <3>1, <4>1 DEF Kernel, pmm_init, init_pml4, MapSectionPage, LeaveSection, EnterEntry, SkipEntry,
                          MapEntryPage, LeaveEntry, MemmapDone, set_cr3
    <3>2. CASE \E v \in layout.watched : CacheTranslation(v) \/ DropTranslation(v)
      BY <3>2 DEF CacheTranslation, DropTranslation, kvars
    <3>3. QED
      BY <1>2, <3>1, <3>2 DEF Next
  <2>2. Machine /\ Promises
    BY <2>1, SameLayout DEF IInv
  <2>3. CASE Kernel
    BY <2>2, <2>3, PmmInitStep, InitPml4Step, MapSectionPageStep, LeaveSectionStep, EnterEntryStep,
       SkipEntryStep, MapEntryPageStep, LeaveEntryStep, MemmapDoneStep, SetCr3Step, PagingStepKeeps DEF Kernel
  <2>4. CASE \E v \in layout.watched : CacheTranslation(v) \/ DropTranslation(v)
    BY <2>2, <2>4, CacheStep
  <2>5. QED
    BY <1>2, <2>3, <2>4 DEF Next
<1>3. QED
  BY <1>1, <1>2

(* Control, the call under way, the tree of tables, the list of free pages *)
(* and what each stage promises of it hold in every state, for every       *)
(* machine in Layouts.                                                     *)
THEOREM Invariance == Spec => []IInv
  BY InitKeeps, NextKeeps, PTL DEF Spec

LEMMA InvImpliesMapped == IInv => KernelStaysMapped
<1> SUFFICES ASSUME Machine, Promises
             PROVE  /\ \A v \in ImagePages : Present(Translate(v)) /\ ALIGN_DOWN(Translate(v)) = ImageFrame(v)
                    /\ \A f \in Frames : LET e == Translate(f + hhdm)
                                         IN Present(e) /\ Writable(e) /\ ALIGN_DOWN(e) = f
  BY DEF IInv, KernelStaysMapped
<1>1. layout \in Layouts /\ Frames # {} /\ MappingLegal(layout) /\ AsAtBoot
  BY MachineHas, LayoutsLegal DEF Promises
<1>2. ASSUME NEW v \in ImagePages PROVE Present(Translate(v)) /\ ALIGN_DOWN(Translate(v)) = ImageFrame(v)
  <2>1. v \in VirtualPages /\ v >= ImageBase /\ v >= hhdm /\ v \in Nat /\ ImageBase \in Nat
    BY <1>1, ImageIsThere, VirtualPage, Places
  <2>2. Present(BootTranslate(v)) /\ BootTranslate(v) # 0
    BY <1>1, Words DEF MappingLegal, ImagePages, BootTranslate
  <2>3. ~ (v < ImageBase)
    BY <2>1
  <2>4. ALIGN_DOWN(BootTranslate(v)) = v - ImageBase + layout.physical_base
    BY <1>1, <2>1, <2>2, <2>3 DEF MappingLegal, BootTranslate, ImageBase
  <2>5. Present(Seen(v)) /\ Seen(v) # 0 /\ ALIGN_DOWN(Seen(v)) = ALIGN_DOWN(BootTranslate(v))
    BY <1>1, <2>1, <2>2 DEF AsAtBoot
  <2>6. Translate(v) = Seen(v)
    BY <2>5 DEF Seen
  <2>7. QED
    BY <2>4, <2>5, <2>6 DEF ImageFrame, ImageBase
<1>3. ASSUME NEW f \in Frames
      PROVE  Present(Translate(f + hhdm)) /\ Writable(Translate(f + hhdm)) /\ ALIGN_DOWN(Translate(f + hhdm)) = f
  <2>1. Present(Seen(f + hhdm)) /\ Writable(Seen(f + hhdm))
    BY <1>1 DEF AsAtBoot
  <2>2. Translate(f + hhdm) = Seen(f + hhdm)
    BY <2>1, Words DEF Seen
  <2>3. Reachable(f)
    BY <1>1, Reaches
  <2>4. QED
    BY <2>1, <2>2, <2>3 DEF Reachable
<1>4. QED
  BY <1>2, <1>3

LEMMA HaltedIs ==
  ASSUME Machine, Promises, stage = "halted"
  PROVE  /\ layout \in Layouts /\ Frames # {}
         /\ \A v : Translate(v) = Seen(v)
         /\ \A k \in 1 .. Len(memmap) : k < i
<1>1. layout \in Layouts /\ Frames # {} /\ pc = "idle" /\ i \in Nat /\ i > Len(memmap)
  BY MachineHas DEF Promises, Control
<1>2. \A v : Translate(v) = Seen(v)
  BY <1>1 DEF Seen, Hidden, Busy
<1>3. Len(memmap) \in Nat
  <2>1. MapLegal(memmap)
    BY <1>1, LayoutsLegal DEF memmap
  <2>2. QED
    BY <2>1 DEF MapLegal
<1>4. \A k \in 1 .. Len(memmap) : k < i
  BY <1>1, <1>3
<1>5. QED
  BY <1>1, <1>2, <1>4

LEMMA InvImpliesComplete == IInv => DirectMapComplete
<1> SUFFICES ASSUME Machine, Promises, stage = "halted", NEW k \in 1 .. Len(memmap),
                    NEW f \in {PAGE_SIZE * n : n \in memmap[k].base \div PAGE_SIZE .. Limit(memmap[k]) \div PAGE_SIZE},
                    \/ WholePageOf(memmap[k], f)
                    \/ /\ memmap[k].base % PAGE_SIZE = 0
                       /\ Overlap(memmap[k], [base |-> f, length |-> PAGE_SIZE])
             PROVE  /\ memmap[k].type \in {"USABLE", "BOOTLOADER_RECLAIMABLE"} => Translate(f + hhdm) = f + 3
                    /\ memmap[k].type = "FRAMEBUFFER" => Translate(f + hhdm) = f + 11
  BY DEF IInv, DirectMapComplete
<1>1. layout \in Layouts /\ Frames # {} /\ (\A v : Translate(v) = Seen(v)) /\ k < i
  BY HaltedIs
<1>2. memmap[k].base \in Nat /\ Limit(memmap[k]) \in Nat
  BY <1>1, EntriesOf
<1>3. f \in Nat /\ f % PAGE_SIZE = 0
  <2>1. PICK n \in memmap[k].base \div PAGE_SIZE .. Limit(memmap[k]) \div PAGE_SIZE : f = PAGE_SIZE * n
    OBVIOUS
  <2>2. n \in Nat
    BY <1>2, <2>1 DEF PAGE_SIZE
  <2>3. QED
    BY <2>1, <2>2 DEF PAGE_SIZE
<1>4. ASSUME Mapped(memmap[k]) PROVE Translate(f + hhdm) = f + Asks(memmap[k])
  <2>1. Promised(k, f)
    BY <1>4 DEF Promised
  <2>2. f + hhdm < ImageBase
    BY <1>1, <1>3, <2>1, PromisedBelow
  <2>3. f \in Physical
    <3>1. /\ hhdm \in Nat /\ hhdm % PAGE_SIZE = 0 /\ ImageBase \in Nat /\ ImageEnd \in Nat /\ ImageBase <= ImageEnd
          /\ 2 * ImageEnd - ImageBase + PAGE_SIZE <= ENTRIES * Span(4)
      BY <1>1, Places
    <3>2. PICK W \in Nat : W = ENTRIES * Span(4)
      <4>1. ENTRIES \in Nat /\ Span(4) \in Nat
        BY Spans, PagingConstants
      <4>2. QED
        BY <4>1
    <3>3. ImageBase <= W
      BY <3>1, <3>2 DEF PAGE_SIZE
    <3>4. f + hhdm \in Nat /\ (f + hhdm) % PAGE_SIZE = 0
      BY <1>3, <3>1, Aligned
    <3>5. f + hhdm < W
      BY <2>2, <3>1, <3>3, <3>4
    <3>6. f + hhdm \in VirtualPages
      BY <3>2, <3>4, <3>5, VirtualPage
    <3>7. QED
      BY <1>3, <3>6, PhysicalIs
  <2>4. Done(k, f) /\ ~ Coming(f)
    BY <1>1 DEF Done, Coming, Promises, Control
  <2>5. Seen(f + hhdm) = f + Asks(memmap[k])
    BY <2>1, <2>3, <2>4 DEF Promises, InPlace
  <2>6. QED
    BY <1>1, <2>5
<1>5. QED
  BY <1>4 DEF Mapped, Asks

LEMMA InvImpliesNothingElse == IInv => NothingElseChanged
<1> SUFFICES ASSUME Machine, Promises, stage = "halted", NEW v \in VirtualPages
             PROVE  Translate(v) = BootTranslate(v) \/ Region(v)
  BY DEF IInv, NothingElseChanged, Region
<1>1. Translate(v) = Seen(v)
  BY HaltedIs
<1>2. QED
  BY <1>1 DEF Promises, Confined

(* In every reachable state the image and the direct map are where the     *)
(* boot loader put them, and all of memory can be written: map_kernel,     *)
(* map_memmap and set_page_entry rewrite the tables the kernel runs on     *)
(* without ever taking a page away from under it.                          *)
THEOREM StaysMapped == Spec => []KernelStaysMapped
  BY Invariance, InvImpliesMapped, PTL

(* When kmain halts, map_memmap has put every whole page of every usable,  *)
(* reclaimable and framebuffer entry into the direct map, with the flags   *)
(* that fit into an entry, and none was overwritten by a later call.       *)
THEOREM MapsEverything == Spec => []DirectMapComplete
  BY Invariance, InvImpliesComplete, PTL

(* When kmain halts, a page outside the direct map and the neighbourhood   *)
(* of the image is found as the boot loader left it, however many tables   *)
(* set_page_entry built out of recycled pages.                             *)
THEOREM ChangesNothingElse == Spec => []NothingElseChanged
  BY Invariance, InvImpliesNothingElse, PTL

(* Without a single invlpg, what the processor cached for an address the   *)
(* boot loader mapped still leads to the right page.                       *)
THEOREM StaleIsHarmless == Spec => []StaleEntriesHarmless
<1>1. IInv => StaleEntriesHarmless
  BY DEF IInv, StaleEntriesHarmless, Promises, Cached
<1>2. QED
  BY <1>1, Invariance, PTL

=============================================================================
