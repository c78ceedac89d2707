--------------------------- MODULE BootstubProof ----------------------------
(***************************************************************************)
(* Proofs about the boot stub, for every size of its heap and every answer *)
(* the boot loader may give.                                               *)
(***************************************************************************)
EXTENDS Bootstub, SequenceTheorems, TLAPS

Stages ==
  {"hhdm", "kernel_address", "memmap", "entries", "framebuffer", "framebuffers", "kmain", "crash"}

TypeInv ==
  /\ answer \in Answers
  /\ DOMAIN heap = 0 .. MAX_HEAP_SIZE \div 8 - 1
  /\ heap_head \in Nat /\ heap_head % 16 = 0
  /\ params \in [hhdm : Nat, kernel_addr : Nat, memmap : Nat \cup {Null}, entry_count : Nat,
                 framebuffers : Nat \cup {Null}]
  /\ stub_pc \in Stages
  /\ n \in Nat
  /\ blocks \in Seq([at : Nat, size : Nat])

HeapInv == TypeInv /\ HeapSafe

-----------------------------------------------------------------------------
(* Rounding up to 16 reaches the next multiple of 16.                      *)
LEMMA RoundedUp ==
  ASSUME NEW size \in Nat
  PROVE  Rounded(size) \in Nat /\ Rounded(size) % 16 = 0 /\ size <= Rounded(size)
BY DEF Rounded

LEMMA AlignedSum ==
  ASSUME NEW a \in Nat, NEW b \in Nat, a % 16 = 0, b % 16 = 0
  PROVE  (a + b) % 16 = 0
OBVIOUS

(* The answer in use is one of those assumed.                              *)
LEMMA AnswerType ==
  ASSUME TypeInv
  PROVE  /\ answer.hhdm \in Nat /\ answer.kernel_address \in Nat
         /\ answer.memmap \in Seq([base : Nat, length : Nat, type : Nat])
         /\ answer.framebuffers \in Seq(Nat)
         /\ Len(answer.memmap) \in Nat /\ Len(answer.framebuffers) \in Nat
         /\ Len(answer.memmap) * SizeofMemmapEntry \in Nat
         /\ Len(answer.framebuffers) * SizeofFramebuffer \in Nat
<1>1. answer \in Answers
  BY DEF TypeInv
<1>2. /\ answer.hhdm \in Nat /\ answer.kernel_address \in Nat
      /\ answer.memmap \in Seq([base : Nat, length : Nat, type : Nat])
      /\ answer.framebuffers \in Seq(Nat)
  BY <1>1, AnswersAreTyped
<1>3. Len(answer.memmap) \in Nat /\ Len(answer.framebuffers) \in Nat
  BY <1>2
<1>4. QED
  BY <1>2, <1>3 DEF SizeofMemmapEntry, SizeofFramebuffer

(* heap_alloc keeps the heap in order, whether or not it grants a block.   *)
LEMMA AllocateSafe ==
  ASSUME HeapInv, NEW size \in Nat, Allocate(size)
  PROVE  /\ heap_head' \in Nat /\ heap_head' % 16 = 0
         /\ blocks' \in Seq([at : Nat, size : Nat])
         /\ HeapSafe'
<1>1. /\ heap_head \in Nat /\ heap_head <= MAX_HEAP_SIZE
      /\ blocks \in Seq([at : Nat, size : Nat]) /\ Len(blocks) \in Nat
  BY DEF HeapInv, TypeInv, HeapSafe
<1>2. heap_head % 16 = 0
  BY DEF HeapInv, TypeInv
<1>3. Rounded(size) \in Nat /\ size <= Rounded(size)
  BY RoundedUp
<1>4. CASE ~ Granted(size)
  <2>1. UNCHANGED <<heap_head, blocks>>
    BY <1>4 DEF Allocate
  <2>2. QED
    BY <1>1, <1>2, <2>1 DEF HeapInv, HeapSafe
<1>5. CASE Granted(size)
  <2> DEFINE block == [at |-> heap_head, size |-> size]
  <2>1. /\ heap_head' = heap_head + Rounded(size)
        /\ blocks' = Append(blocks, block)
    BY <1>5 DEF Allocate, heap_alloc
  <2>2. /\ heap_head' \in Nat /\ heap_head' <= MAX_HEAP_SIZE
        /\ heap_head + size <= heap_head' /\ heap_head <= heap_head'
    <3>1. MAX_HEAP_SIZE \in Nat
      BY HeapIsWhole
    <3>2. Rounded(size) <= MAX_HEAP_SIZE - heap_head
      BY <1>5 DEF Granted
    <3>3. QED
      BY <1>1, <1>3, <2>1, <3>1, <3>2
  <2>3. heap_head' % 16 = 0
    BY <1>1, <1>2, <2>1, RoundedUp, AlignedSum
  <2>4. block \in [at : Nat, size : Nat]
    BY <1>1
  <2>5. /\ blocks' \in Seq([at : Nat, size : Nat])
        /\ Len(blocks') = Len(blocks) + 1
        /\ \A k \in 1 .. Len(blocks) : blocks'[k] = blocks[k]
        /\ blocks'[Len(blocks) + 1] = block
    BY <1>1, <2>1, <2>4
  <2>6. \A k \in 1 .. Len(blocks) :
          /\ blocks[k].at \in Nat /\ blocks[k].size \in Nat
          /\ blocks[k].at % 16 = 0 /\ blocks[k].at + blocks[k].size <= heap_head
    <3> TAKE k \in 1 .. Len(blocks)
    <3>1. blocks[k] \in [at : Nat, size : Nat]
      BY <1>1, ElementOfSeq
    <3>2. blocks[k].at % 16 = 0 /\ blocks[k].at + blocks[k].size <= heap_head
      BY DEF HeapInv, HeapSafe
    <3>3. QED
      BY <3>1, <3>2
  <2>7. ASSUME NEW k \in 1 .. Len(blocks')
        PROVE  /\ blocks'[k].at % 16 = 0
               /\ blocks'[k].at + blocks'[k].size <= heap_head'
               /\ \A l \in 1 .. k - 1 : blocks'[l].at + blocks'[l].size <= blocks'[k].at
    <3>1. CASE k = Len(blocks) + 1
      <4>1. blocks'[k].at = heap_head /\ blocks'[k].size = size
        BY <2>5, <3>1
      <4>2. ASSUME NEW l \in 1 .. k - 1
            PROVE  blocks'[l].at + blocks'[l].size <= heap_head
        <5>1. l \in 1 .. Len(blocks)
          BY <1>1, <3>1
        <5>2. QED
          BY <2>5, <2>6, <5>1
      <4>3. blocks'[k].at % 16 = 0
        BY <1>2, <4>1
      <4>4. QED
        BY <2>2, <4>1, <4>2, <4>3
    <3>2. CASE k \in 1 .. Len(blocks)
      <4>1. \A l \in 1 .. k - 1 : l \in 1 .. Len(blocks)
        BY <1>1, <3>2
      <4>2. \A l \in 1 .. k - 1 : blocks[l].at + blocks[l].size <= blocks[k].at
        BY <3>2 DEF HeapInv, HeapSafe
      <4>3. /\ blocks'[k] = blocks[k]
            /\ \A l \in 1 .. k - 1 : blocks'[l] = blocks[l]
        BY <2>5, <3>2, <4>1
      <4>4. /\ blocks[k].at \in Nat /\ blocks[k].size \in Nat
            /\ blocks[k].at + blocks[k].size <= heap_head
        BY <2>6, <3>2
      <4>5. blocks'[k].at + blocks'[k].size <= heap_head'
        BY SMTT(30), <1>1, <2>2, <4>3, <4>4
      <4>6. blocks'[k].at % 16 = 0
        BY <2>6, <3>2, <4>3
      <4>7. QED
        BY <4>2, <4>3, <4>5, <4>6
    <3>3. QED
      BY <1>1, <2>5, <3>1, <3>2
  <2>8. QED
    BY <2>2, <2>3, <2>5, <2>7 DEF HeapSafe
<1>6. QED
  BY <1>4, <1>5

(* heap_alloc's answer is an offset or the null pointer.                   *)
LEMMA AllocType ==
  ASSUME TypeInv, NEW size \in Nat
  PROVE  heap_alloc(size) \in Nat \cup {Null}
BY DEF TypeInv, heap_alloc

(* A store keeps the heap's size.                                          *)
LEMMA StoreDomain ==
  ASSUME NEW at, NEW words, Store(at, words)
  PROVE  DOMAIN heap' = DOMAIN heap
BY DEF Store

(* A number of a memory type in the kernel's numbering.                    *)
LEMMA KernelNumber ==
  /\ MEMMAP("RESERVED") = 0 /\ MEMMAP("ACPI_RECLAIMABLE") = 1
  /\ MEMMAP("EXECUTABLE_AND_MODULES") = 2 /\ MEMMAP("ACPI_NVS") = 3
  /\ MEMMAP("BAD_MEMORY") = 4 /\ MEMMAP("BOOTLOADER_RECLAIMABLE") = 5
  /\ MEMMAP("FRAMEBUFFER") = 6 /\ MEMMAP("USABLE") = 7 /\ MEMMAP("UNKNOWN") = 8
<1>1. /\ Len(KernelTypes) = 9
      /\ KernelTypes[1] = "RESERVED" /\ KernelTypes[2] = "ACPI_RECLAIMABLE"
      /\ KernelTypes[3] = "EXECUTABLE_AND_MODULES" /\ KernelTypes[4] = "ACPI_NVS"
      /\ KernelTypes[5] = "BAD_MEMORY" /\ KernelTypes[6] = "BOOTLOADER_RECLAIMABLE"
      /\ KernelTypes[7] = "FRAMEBUFFER" /\ KernelTypes[8] = "USABLE"
      /\ KernelTypes[9] = "UNKNOWN"
  BY DEF KernelTypes
<1>2. \A k \in 1 .. Len(KernelTypes) :
        k = 1 \/ k = 2 \/ k = 3 \/ k = 4 \/ k = 5 \/ k = 6 \/ k = 7 \/ k = 8 \/ k = 9
  BY <1>1
<1>3. QED
  BY <1>1, <1>2 DEF MEMMAP

(* As an int a number of 32 bits stays what it is or becomes negative.     *)
LEMMA ShortAsInt ==
  ASSUME NEW type \in Nat, type < INT_VALUES
  PROVE  AsInt(type) \in Int /\ (AsInt(type) = type \/ (type >= 8 /\ AsInt(type) < 0))
<1>1. INT_VALUES \in Nat /\ INT_VALUES >= 16
  BY IntIsSigned
<1>2. type % INT_VALUES = type
  BY <1>1
<1>3. QED
  BY <1>1, <1>2 DEF AsInt

(* from_limine_type keeps the meaning of every number it is given whole.   *)
LEMMA TypeTranslated ==
  ASSUME NEW type \in Nat, type < INT_VALUES
  PROVE  KernelTypes[from_limine_type(AsInt(type)) + 1] =
           IF type < Len(LimineTypes) THEN LimineTypes[type + 1] ELSE "UNKNOWN"
<1> DEFINE t == AsInt(type)
<1>1. t \in Int /\ (t = type \/ (type >= 8 /\ t < 0))
  BY ShortAsInt
<1> HIDE DEF t
<1>2. Len(LimineTypes) = 8
  BY DEF LimineTypes
<1>3. CASE t = type
  <2>1. KernelTypes[from_limine_type(type) + 1] =
          IF type < Len(LimineTypes) THEN LimineTypes[type + 1] ELSE "UNKNOWN"
    BY KernelNumber DEF from_limine_type, KernelTypes, LimineTypes
  <2>2. QED
    BY <1>3, <2>1 DEF t
<1>4. CASE type >= 8 /\ t < 0
  <2>1. from_limine_type(t) = MEMMAP("UNKNOWN")
    BY <1>1, <1>4 DEF from_limine_type
  <2>2. from_limine_type(t) + 1 = 9 /\ ~ (type < Len(LimineTypes))
    BY <1>2, <1>4, <2>1, KernelNumber
  <2>3. KernelTypes[9] = "UNKNOWN"
    BY DEF KernelTypes
  <2>4. QED
    BY <2>2, <2>3 DEF t
<1>5. QED
  BY <1>1, <1>3, <1>4

-----------------------------------------------------------------------------
(* Every step of the stub keeps HeapInv.                                   *)
LEMMA InitHeap == StubInit => HeapInv
<1> SUFFICES ASSUME StubInit PROVE HeapInv
  OBVIOUS
<1>1. blocks = << >> /\ heap_head = 0
  BY DEF StubInit
<1>2. blocks \in Seq([at : Nat, size : Nat]) /\ Len(blocks) = 0
  BY <1>1
<1>3. HeapSafe
  BY <1>1, <1>2, HeapIsWhole DEF HeapSafe
<1>4. TypeInv
  BY <1>1, <1>2 DEF StubInit, TypeInv, Stages, Null
<1>5. QED
  BY <1>3, <1>4 DEF HeapInv

LEMMA HeapUnchanged ==
  ASSUME HeapInv, UNCHANGED <<heap_head, blocks>>
  PROVE  HeapSafe'
BY DEF HeapInv, HeapSafe

LEMMA NextKeepsHeap == HeapInv /\ [StubNext]_stub_vars => HeapInv'
<1> SUFFICES ASSUME HeapInv, [StubNext]_stub_vars PROVE HeapInv'
  OBVIOUS
<1> USE AnswerType DEF HeapInv
<1>1. CASE load_hhdm
  BY <1>1, HeapUnchanged DEF load_hhdm, Missing, TypeInv, Stages
<1>2. CASE get_kernel_address
  BY <1>2, HeapUnchanged DEF get_kernel_address, Missing, TypeInv, Stages
<1>3. CASE get_memmap
  <2>1. CASE Missing("memmap")
    BY <2>1, HeapUnchanged DEF Missing, TypeInv, Stages
  <2>2. CASE ~ Missing("memmap")
    <3> DEFINE size == Len(answer.memmap) * SizeofMemmapEntry
    <3>1. /\ size \in Nat /\ Allocate(size)
          /\ params' = [params EXCEPT !.entry_count = Len(answer.memmap),
                                      !.memmap = heap_alloc(size)]
          /\ n' = 0 /\ stub_pc' = "entries" /\ UNCHANGED <<answer, heap>>
      BY <1>3, <2>2 DEF get_memmap
    <3>2. /\ heap_head' \in Nat /\ heap_head' % 16 = 0
          /\ blocks' \in Seq([at : Nat, size : Nat]) /\ HeapSafe'
      BY <3>1, AllocateSafe
    <3>3. heap_alloc(size) \in Nat \cup {Null}
      BY <3>1, AllocType
    <3>4. params' \in [hhdm : Nat, kernel_addr : Nat, memmap : Nat \cup {Null},
                       entry_count : Nat, framebuffers : Nat \cup {Null}]
      BY <3>1, <3>3 DEF TypeInv
    <3>5. QED
      BY <3>1, <3>2, <3>4 DEF TypeInv, Stages
  <2>3. QED
    BY <2>1, <2>2
<1>4. CASE copy_entry
  <2>1. CASE params.memmap = Null
    BY <1>4, <2>1, HeapUnchanged DEF copy_entry, TypeInv, Stages
  <2>2. CASE params.memmap # Null
    <3>1. DOMAIN heap' = DOMAIN heap
      BY <1>4, <2>2, StoreDomain DEF copy_entry
    <3>2. n' = n + 1 /\ stub_pc' = stub_pc /\ UNCHANGED <<answer, heap_head, params, blocks>>
      BY <1>4, <2>2 DEF copy_entry
    <3>3. QED
      BY <3>1, <3>2, HeapUnchanged DEF TypeInv
  <2>3. QED
    BY <2>1, <2>2
<1>5. CASE entries_done
  BY <1>5, HeapUnchanged DEF entries_done, TypeInv, Stages
<1>6. CASE get_framebuffers
  <2>1. CASE Missing("framebuffer")
    BY <2>1, HeapUnchanged DEF Missing, TypeInv, Stages
  <2>2. CASE ~ Missing("framebuffer")
    <3> DEFINE size == Len(answer.framebuffers) * SizeofFramebuffer
    <3>1. /\ size \in Nat /\ Allocate(size)
          /\ params' = [params EXCEPT !.framebuffers = heap_alloc(size)]
          /\ n' = 0 /\ stub_pc' = "framebuffers" /\ UNCHANGED <<answer, heap>>
      BY <1>6, <2>2 DEF get_framebuffers
    <3>2. /\ heap_head' \in Nat /\ heap_head' % 16 = 0
          /\ blocks' \in Seq([at : Nat, size : Nat]) /\ HeapSafe'
      BY <3>1, AllocateSafe
    <3>3. heap_alloc(size) \in Nat \cup {Null}
      BY <3>1, AllocType
    <3>4. params' \in [hhdm : Nat, kernel_addr : Nat, memmap : Nat \cup {Null},
                       entry_count : Nat, framebuffers : Nat \cup {Null}]
      BY <3>1, <3>3 DEF TypeInv
    <3>5. QED
      BY <3>1, <3>2, <3>4 DEF TypeInv, Stages
  <2>3. QED
    BY <2>1, <2>2
<1>7. CASE copy_framebuffer
  <2>1. CASE params.framebuffers = Null
    BY <1>7, <2>1, HeapUnchanged DEF copy_framebuffer, TypeInv, Stages
  <2>2. CASE params.framebuffers # Null
    <3>1. DOMAIN heap' = DOMAIN heap
      BY <1>7, <2>2, StoreDomain DEF copy_framebuffer
    <3>2. n' = n + 1 /\ stub_pc' = stub_pc /\ UNCHANGED <<answer, heap_head, params, blocks>>
      BY <1>7, <2>2 DEF copy_framebuffer
    <3>3. QED
      BY <3>1, <3>2, HeapUnchanged DEF TypeInv
  <2>3. QED
    BY <2>1, <2>2
<1>8. CASE kstart_done
  BY <1>8, HeapUnchanged DEF kstart_done, TypeInv, Stages
<1>9. CASE UNCHANGED stub_vars
  BY <1>9, HeapUnchanged DEF stub_vars, TypeInv
<1>10. QED
  BY <1>1, <1>2, <1>3, <1>4, <1>5, <1>6, <1>7, <1>8, <1>9 DEF StubNext

LEMMA HeapInvariance == StubSpec => []HeapInv
BY InitHeap, NextKeepsHeap, PTL DEF StubSpec

-----------------------------------------------------------------------------
(* What has been copied.  The first block of the heap is the memory map's, *)
(* at offset 0; the framebuffers lie behind it.                            *)
Loaded ==
  /\ stub_pc \in Stages \ {"hhdm", "crash"} => params.hhdm = answer.hhdm
  /\ stub_pc \in Stages \ {"hhdm", "kernel_address", "crash"} =>
       params.kernel_addr = answer.kernel_address
  /\ stub_pc \in {"hhdm", "kernel_address", "memmap"} => heap_head = 0

EntriesCopied == IF stub_pc = "entries" THEN n ELSE Len(answer.memmap)

EntryCopied(k) ==
  /\ heap[3 * k]     = answer.memmap[k + 1].base
  /\ heap[3 * k + 1] = answer.memmap[k + 1].length
  /\ heap[3 * k + 2] = from_limine_type(AsInt(answer.memmap[k + 1].type))

MemmapInv ==
  stub_pc \in {"entries", "framebuffer", "framebuffers", "kmain"} =>
    /\ params.entry_count = Len(answer.memmap)
    /\ EntriesCopied <= Len(answer.memmap)
    /\ IF params.memmap = Null THEN EntriesCopied = 0
       ELSE params.memmap = 0 /\ 24 * Len(answer.memmap) <= heap_head
    /\ \A k \in 0 .. EntriesCopied - 1 : EntryCopied(k)

FramebuffersCopied == IF stub_pc = "framebuffers" THEN n ELSE Len(answer.framebuffers)

FramebufferCopied(k) ==
  \A w \in 0 .. 4 :
    heap[params.framebuffers \div 8 + 5 * k + w] = answer.framebuffers[k + 1]

FramebufferInv ==
  stub_pc \in {"framebuffers", "kmain"} =>
    /\ FramebuffersCopied <= Len(answer.framebuffers)
    /\ IF params.framebuffers = Null THEN FramebuffersCopied = 0
       ELSE /\ params.framebuffers % 16 = 0
            /\ params.memmap # Null => 24 * Len(answer.memmap) <= params.framebuffers
            /\ params.framebuffers + 40 * Len(answer.framebuffers) <= heap_head
    /\ \A k \in 0 .. FramebuffersCopied - 1 : FramebufferCopied(k)

CopyInv == HeapInv /\ Loaded /\ MemmapInv /\ FramebufferInv

-----------------------------------------------------------------------------
(* Byte offsets and word numbers.                                          *)
LEMMA WordsBelow ==
  ASSUME NEW a \in Nat, NEW b \in Nat, 8 * a <= b
  PROVE  a <= b \div 8
OBVIOUS

LEMMA WordOf ==
  ASSUME NEW a \in Nat, NEW b \in Nat, a % 8 = 0
  PROVE  (a + 8 * b) \div 8 = a \div 8 + b
OBVIOUS

LEMMA SixteenIsEven ==
  ASSUME NEW a \in Nat, a % 16 = 0
  PROVE  a % 8 = 0
OBVIOUS

LEMMA PlaceOf ==
  ASSUME NEW b \in Nat, NEW i \in Nat, NEW m \in Nat, NEW limit \in Nat,
         i < m, 8 * b + 40 * m <= limit
  PROVE  /\ 8 * b + 40 * i = 8 * (b + 5 * i)
         /\ 8 * b + 40 * i \in Nat
         /\ 8 * b + 40 * i + 40 <= limit
OBVIOUS

(* Storing an array of words puts them at the word offset of the place and *)
(* leaves every other word alone.                                          *)
LEMMA Stored ==
  ASSUME HeapInv, NEW at \in Nat, at % 8 = 0, NEW words, Len(words) \in Nat,
         Store(at, words), at + 8 * Len(words) <= heap_head
  PROVE  /\ \A j \in 0 .. Len(words) - 1 : heap'[at \div 8 + j] = words[j + 1]
         /\ \A w \in 0 .. at \div 8 - 1 : heap'[w] = heap[w]
<1> DEFINE first == at \div 8
<1>1. first \in Nat /\ MAX_HEAP_SIZE \div 8 \in Nat
  BY HeapIsWhole
<1>2. first + Len(words) <= MAX_HEAP_SIZE \div 8
  <2>1. at = 8 * first
    OBVIOUS
  <2>2. heap_head \in Nat /\ heap_head <= MAX_HEAP_SIZE /\ MAX_HEAP_SIZE \in Nat
    BY HeapIsWhole DEF HeapInv, TypeInv, HeapSafe
  <2> HIDE DEF first
  <2>3. 8 * (first + Len(words)) <= MAX_HEAP_SIZE
    BY <1>1, <2>1, <2>2
  <2>4. QED
    BY <1>1, <2>2, <2>3, WordsBelow
<1>3. DOMAIN heap = 0 .. MAX_HEAP_SIZE \div 8 - 1
  BY DEF HeapInv, TypeInv
<1>4. heap' = [w \in DOMAIN heap |->
                 IF w - first \in 0 .. Len(words) - 1 THEN words[w - first + 1] ELSE heap[w]]
  BY DEF Store
<1> DEFINE top == MAX_HEAP_SIZE \div 8
<1>5. first \in Nat /\ top \in Nat /\ first + Len(words) <= top /\ DOMAIN heap = 0 .. top - 1
  BY <1>1, <1>2, <1>3
<1> HIDE DEF first, top
<1>6. ASSUME NEW j \in 0 .. Len(words) - 1 PROVE heap'[first + j] = words[j + 1]
  <2>1. first + j \in DOMAIN heap /\ (first + j) - first = j
    BY <1>5
  <2>2. QED
    BY <1>4, <2>1
<1>7. ASSUME NEW w \in 0 .. first - 1 PROVE heap'[w] = heap[w]
  <2>1. w \in DOMAIN heap /\ w - first \notin 0 .. Len(words) - 1
    BY <1>5
  <2>2. QED
    BY <1>4, <2>1
<1>8. QED
  BY <1>6, <1>7 DEF first

-----------------------------------------------------------------------------
LEMMA InitCopy == StubInit => Loaded /\ MemmapInv /\ FramebufferInv
BY DEF StubInit, Loaded, MemmapInv, FramebufferInv, Stages

LEMMA NextKeepsLoaded == HeapInv /\ Loaded /\ [StubNext]_stub_vars => Loaded'
<1> SUFFICES ASSUME HeapInv, Loaded, [StubNext]_stub_vars PROVE Loaded'
  OBVIOUS
<1> USE DEF HeapInv, TypeInv, Loaded, Stages
<1>1. CASE load_hhdm
  BY <1>1 DEF load_hhdm, Missing
<1>2. CASE get_kernel_address
  BY <1>2 DEF get_kernel_address, Missing
<1>3. CASE get_memmap
  BY <1>3 DEF get_memmap, Missing
<1>4. CASE copy_entry
  BY <1>4 DEF copy_entry
<1>5. CASE entries_done
  BY <1>5 DEF entries_done
<1>6. CASE get_framebuffers
  BY <1>6 DEF get_framebuffers, Missing
<1>7. CASE copy_framebuffer
  BY <1>7 DEF copy_framebuffer
<1>8. CASE kstart_done
  BY <1>8 DEF kstart_done
<1>9. CASE UNCHANGED stub_vars
  BY <1>9 DEF stub_vars
<1>10. QED
  BY <1>1, <1>2, <1>3, <1>4, <1>5, <1>6, <1>7, <1>8, <1>9 DEF StubNext

(* The memory map gets the first block of the heap, all of it or nothing.  *)
LEMMA MemmapAllocated ==
  ASSUME CopyInv, get_memmap, stub_pc' # "crash"
  PROVE  MemmapInv'
<1> DEFINE size == Len(answer.memmap) * SizeofMemmapEntry
<1>1. /\ Allocate(size) /\ n' = 0 /\ stub_pc' = "entries" /\ UNCHANGED <<answer, heap>>
      /\ params' = [params EXCEPT !.entry_count = Len(answer.memmap), !.memmap = heap_alloc(size)]
  BY DEF get_memmap, Missing
<1>2. /\ params'.entry_count = Len(answer.memmap) /\ params'.memmap = heap_alloc(size)
  BY <1>1 DEF CopyInv, HeapInv, TypeInv
<1>3. heap_head = 0
  BY DEF CopyInv, Loaded, get_memmap
<1>4. Len(answer.memmap) \in Nat /\ size \in Nat /\ size = 24 * Len(answer.memmap)
  BY AnswerType DEF CopyInv, HeapInv, SizeofMemmapEntry
<1>5. params'.memmap = Null \/ (params'.memmap = 0 /\ size <= heap_head')
  <2>1. CASE Granted(size)
    BY <1>1, <1>2, <1>3, <1>4, <2>1, RoundedUp DEF Allocate, heap_alloc
  <2>2. CASE ~ Granted(size)
    BY <1>2, <2>2 DEF heap_alloc
  <2>3. QED
    BY <2>1, <2>2
<1>6. QED
  BY <1>1, <1>2, <1>4, <1>5 DEF MemmapInv, EntriesCopied

(* One more entry is copied, and those before it stay.                     *)
LEMMA EntryIsCopied ==
  ASSUME CopyInv, copy_entry, stub_pc' # "crash"
  PROVE  MemmapInv'
<1> DEFINE e     == answer.memmap[n + 1]
           at    == params.memmap + n * SizeofMemmapEntry
           words == << e.base, e.length, from_limine_type(AsInt(e.type)) >>
<1>1. /\ stub_pc = "entries" /\ n < params.entry_count /\ params.memmap # Null
      /\ Store(at, words) /\ n' = n + 1 /\ stub_pc' = stub_pc
      /\ UNCHANGED <<answer, heap_head, params, blocks>>
  BY DEF copy_entry
<1>2. /\ params.entry_count = Len(answer.memmap) /\ params.memmap = 0
      /\ 24 * Len(answer.memmap) <= heap_head
      /\ \A k \in 0 .. n - 1 : EntryCopied(k)
  BY <1>1 DEF CopyInv, MemmapInv, EntriesCopied
<1>3. n \in Nat /\ Len(answer.memmap) \in Nat /\ heap_head \in Nat
  BY AnswerType DEF CopyInv, HeapInv, TypeInv
<1>4. at = 8 * (3 * n) /\ at \in Nat /\ at + 24 <= heap_head
  BY <1>1, <1>2, <1>3 DEF SizeofMemmapEntry
<1>5. at % 8 = 0 /\ at \div 8 = 3 * n
  BY <1>3, <1>4
<1>6. Len(words) = 3 /\ words[1] = e.base /\ words[2] = e.length
      /\ words[3] = from_limine_type(AsInt(e.type))
  OBVIOUS
<1> HIDE DEF e, at, words
<1>7. /\ \A j \in 0 .. 2 : heap'[3 * n + j] = words[j + 1]
      /\ \A w \in 0 .. 3 * n - 1 : heap'[w] = heap[w]
  <2>1. HeapInv /\ at + 8 * Len(words) <= heap_head /\ Len(words) \in Nat
    BY <1>3, <1>4, <1>6 DEF CopyInv
  <2>2. /\ \A j \in 0 .. Len(words) - 1 : heap'[at \div 8 + j] = words[j + 1]
        /\ \A w \in 0 .. at \div 8 - 1 : heap'[w] = heap[w]
    BY <1>1, <1>4, <1>5, <2>1, Stored
  <2>3. Len(words) - 1 = 2
    BY <1>6
  <2>4. QED
    BY <1>5, <2>2, <2>3
<1>8. ASSUME NEW k \in 0 .. n PROVE EntryCopied(k)'
  <2>1. CASE k = n
    <3>1. 0 \in 0 .. 2 /\ 1 \in 0 .. 2 /\ 2 \in 0 .. 2 /\ 3 * k + 0 = 3 * k
      BY <1>3
    <3>2. heap'[3 * k] = words[1] /\ heap'[3 * k + 1] = words[2] /\ heap'[3 * k + 2] = words[3]
      BY <1>7, <2>1, <3>1
    <3>3. answer'.memmap[k + 1] = e
      BY <1>1, <2>1 DEF e
    <3>4. QED
      BY <1>6, <3>2, <3>3 DEF EntryCopied
  <2>2. CASE k \in 0 .. n - 1
    <3>1. 3 * k \in 0 .. 3 * n - 1 /\ 3 * k + 1 \in 0 .. 3 * n - 1 /\ 3 * k + 2 \in 0 .. 3 * n - 1
      BY <1>3, <2>2
    <3>2. QED
      BY <1>1, <1>2, <1>7, <2>2, <3>1 DEF EntryCopied
  <2>3. QED
    BY <1>3, <2>1, <2>2
<1>9. /\ EntriesCopied' = n + 1 /\ EntriesCopied' - 1 = n
      /\ EntriesCopied' <= Len(answer'.memmap) /\ params'.memmap = 0
  BY <1>1, <1>2, <1>3 DEF EntriesCopied
<1>10. QED
  BY <1>1, <1>2, <1>8, <1>9 DEF MemmapInv, Null

(* Entries stay copied while the heap is not written.                      *)
LEMMA EntriesStay ==
  ASSUME MemmapInv, HeapInv, UNCHANGED <<answer, heap>>, heap_head <= heap_head',
         heap_head \in Nat, heap_head' \in Nat,
         params'.entry_count = params.entry_count, params'.memmap = params.memmap,
         stub_pc \in {"entries", "framebuffer", "framebuffers", "kmain"},
         EntriesCopied' = EntriesCopied
  PROVE  MemmapInv'
<1>1. Len(answer.memmap) \in Nat
  BY AnswerType DEF HeapInv
<1>2. \A k \in 0 .. EntriesCopied - 1 : EntryCopied(k)'
  BY DEF MemmapInv, EntryCopied
<1>3. QED
  BY <1>1, <1>2 DEF MemmapInv

(* The framebuffers get a block behind the memory map's.                   *)
LEMMA FramebuffersAllocated ==
  ASSUME CopyInv, get_framebuffers, stub_pc' # "crash"
  PROVE  MemmapInv' /\ FramebufferInv'
<1> DEFINE size == Len(answer.framebuffers) * SizeofFramebuffer
<1>1. /\ Allocate(size) /\ n' = 0 /\ stub_pc = "framebuffer" /\ stub_pc' = "framebuffers"
      /\ UNCHANGED <<answer, heap>>
      /\ params' = [params EXCEPT !.framebuffers = heap_alloc(size)]
  BY DEF get_framebuffers, Missing
<1>2. /\ params'.entry_count = params.entry_count /\ params'.memmap = params.memmap
      /\ params'.framebuffers = heap_alloc(size)
  BY <1>1 DEF CopyInv, HeapInv, TypeInv
<1>3. /\ Len(answer.framebuffers) \in Nat /\ Len(answer.memmap) \in Nat
      /\ size \in Nat /\ size = 40 * Len(answer.framebuffers)
  BY AnswerType DEF CopyInv, HeapInv, SizeofFramebuffer
<1>4. heap_head \in Nat /\ heap_head % 16 = 0
  BY DEF CopyInv, HeapInv, TypeInv
<1>5. CASE Granted(size)
  <2>1. heap_head' = heap_head + Rounded(size) /\ heap_alloc(size) = heap_head
    BY <1>1, <1>5 DEF Allocate, heap_alloc
  <2>2. heap_head' \in Nat /\ heap_head <= heap_head' /\ heap_head + size <= heap_head'
    <3>1. Rounded(size) \in Nat /\ size <= Rounded(size)
      BY <1>3, RoundedUp
    <3>2. QED
      BY <1>3, <1>4, <2>1, <3>1
  <2>3. MemmapInv'
    BY <1>1, <1>2, <1>4, <2>2, EntriesStay DEF CopyInv, EntriesCopied
  <2>4. params.memmap # Null => 24 * Len(answer.memmap) <= heap_head
    BY <1>1 DEF CopyInv, MemmapInv
  <2>5. FramebuffersCopied' = 0
    BY <1>1 DEF FramebuffersCopied
  <2>6. FramebufferInv'
    BY <1>1, <1>2, <1>3, <1>4, <2>1, <2>2, <2>4, <2>5 DEF FramebufferInv
  <2>7. QED
    BY <2>3, <2>6
<1>6. CASE ~ Granted(size)
  <2>1. heap_head' = heap_head /\ heap_alloc(size) = Null
    BY <1>1, <1>6 DEF Allocate, heap_alloc
  <2>2. MemmapInv'
    BY <1>1, <1>2, <1>4, <2>1, EntriesStay DEF CopyInv, EntriesCopied
  <2>3. FramebuffersCopied' = 0
    BY <1>1 DEF FramebuffersCopied
  <2>4. FramebufferInv'
    BY <1>1, <1>2, <1>3, <2>1, <2>3 DEF FramebufferInv
  <2>5. QED
    BY <2>2, <2>4
<1>7. QED
  BY <1>5, <1>6

(* One more framebuffer is copied; those before it and the memory map, in  *)
(* a block of its own, stay.                                               *)
LEMMA FramebufferIsCopied ==
  ASSUME CopyInv, copy_framebuffer, stub_pc' # "crash"
  PROVE  MemmapInv' /\ FramebufferInv'
<1> DEFINE base  == params.framebuffers
           at    == params.framebuffers + n * SizeofFramebuffer
           words == [w \in 1 .. 5 |-> answer.framebuffers[n + 1]]
<1>1. /\ stub_pc = "framebuffers" /\ n < Len(answer.framebuffers) /\ base # Null
      /\ Store(at, words) /\ n' = n + 1 /\ stub_pc' = stub_pc
      /\ UNCHANGED <<answer, heap_head, params, blocks>>
  BY DEF copy_framebuffer
<1>2. /\ base \in Nat /\ base % 16 = 0 /\ base + 40 * Len(answer.framebuffers) <= heap_head
      /\ params.memmap # Null => 24 * Len(answer.memmap) <= base
      /\ \A k \in 0 .. n - 1 : FramebufferCopied(k)
  BY <1>1 DEF CopyInv, HeapInv, TypeInv, FramebufferInv, FramebuffersCopied
<1>3. /\ n \in Nat /\ Len(answer.framebuffers) \in Nat /\ Len(answer.memmap) \in Nat
      /\ heap_head \in Nat
  BY AnswerType DEF CopyInv, HeapInv, TypeInv
<1> DEFINE b == base \div 8
<1>4. b \in Nat /\ base = 8 * b
  <2>1. base % 8 = 0
    BY <1>2, SixteenIsEven
  <2>2. QED
    BY <1>2, <2>1
<1> HIDE DEF base, b
<1>5. at = 8 * (b + 5 * n) /\ at \in Nat /\ at + 40 <= heap_head
  <2>1. at = base + 40 * n
    BY <1>3 DEF SizeofFramebuffer, base
  <2>2. n < Len(answer.framebuffers) /\ base + 40 * Len(answer.framebuffers) <= heap_head
    BY <1>1, <1>2
  <2> HIDE DEF at
  <2>3. 8 * b + 40 * Len(answer.framebuffers) <= heap_head /\ at = 8 * b + 40 * n
    BY <1>4, <2>1, <2>2
  <2>4. QED
    BY <1>3, <1>4, <2>2, <2>3, PlaceOf
<1>6. at % 8 = 0 /\ at \div 8 = b + 5 * n
  BY <1>3, <1>4, <1>5
<1>7. Len(words) = 5 /\ \A j \in 0 .. 4 : words[j + 1] = answer.framebuffers[n + 1]
  OBVIOUS
<1> HIDE DEF at, words
<1>8. /\ \A j \in 0 .. 4 : heap'[b + 5 * n + j] = words[j + 1]
      /\ \A w \in 0 .. b + 5 * n - 1 : heap'[w] = heap[w]
  <2>1. HeapInv /\ at + 8 * Len(words) <= heap_head /\ Len(words) \in Nat
    BY <1>3, <1>5, <1>7 DEF CopyInv
  <2>2. /\ \A j \in 0 .. Len(words) - 1 : heap'[at \div 8 + j] = words[j + 1]
        /\ \A w \in 0 .. at \div 8 - 1 : heap'[w] = heap[w]
    BY SMTT(30), <1>1, <1>5, <1>6, <2>1, Stored
  <2> DEFINE first == at \div 8  last == Len(words) - 1
  <2>3. /\ \A j \in 0 .. last : heap'[first + j] = words[j + 1]
        /\ \A w \in 0 .. first - 1 : heap'[w] = heap[w]
        /\ last = 4 /\ first = b + 5 * n
    BY <1>6, <1>7, <2>2
  <2> HIDE DEF first, last
  <2>4. QED
    BY <1>3, <1>4, <2>3
<1>9. params'.framebuffers \div 8 = b /\ params.framebuffers \div 8 = b
  BY <1>1 DEF b, base
<1>10. ASSUME NEW k \in 0 .. n PROVE FramebufferCopied(k)'
  <2> SUFFICES ASSUME NEW w \in 0 .. 4
               PROVE  heap'[b + 5 * k + w] = answer.framebuffers[k + 1]
    BY <1>1, <1>9 DEF FramebufferCopied
  <2>1. CASE k = n
    BY <1>7, <1>8, <2>1
  <2>2. CASE k \in 0 .. n - 1
    <3>1. b + 5 * k + w \in 0 .. b + 5 * n - 1
      BY <1>3, <1>4, <2>2
    <3>2. heap[b + 5 * k + w] = answer.framebuffers[k + 1]
      BY <1>2, <1>9, <2>2 DEF FramebufferCopied
    <3>3. QED
      BY <1>8, <3>1, <3>2
  <2>3. QED
    BY <1>3, <2>1, <2>2
<1>11. FramebufferInv'
  <2>1. /\ FramebuffersCopied' = n + 1 /\ FramebuffersCopied' - 1 = n
        /\ FramebuffersCopied' <= Len(answer'.framebuffers)
    BY <1>1, <1>3 DEF FramebuffersCopied
  <2>2. /\ params.framebuffers % 16 = 0 /\ params.framebuffers # Null
        /\ params.memmap # Null => 24 * Len(answer.memmap) <= params.framebuffers
        /\ params.framebuffers + 40 * Len(answer.framebuffers) <= heap_head
    BY <1>1, <1>2 DEF base
  <2>3. \A k \in 0 .. FramebuffersCopied' - 1 : FramebufferCopied(k)'
    BY <1>10, <2>1
  <2>4. QED
    BY <1>1, <2>1, <2>2, <2>3 DEF FramebufferInv
<1>12. MemmapInv'
  <2>1. /\ params.entry_count = Len(answer.memmap)
        /\ IF params.memmap = Null THEN Len(answer.memmap) = 0
           ELSE params.memmap = 0 /\ 24 * Len(answer.memmap) <= heap_head
        /\ \A k \in 0 .. Len(answer.memmap) - 1 : EntryCopied(k)
    BY <1>1 DEF CopyInv, MemmapInv, EntriesCopied
  <2>2. ASSUME NEW k \in 0 .. Len(answer.memmap) - 1 PROVE EntryCopied(k)'
    <3>1. 24 * Len(answer.memmap) <= 8 * b
      BY <1>2, <1>3, <1>4, <2>1
    <3>2. /\ 3 * k \in 0 .. b + 5 * n - 1 /\ 3 * k + 1 \in 0 .. b + 5 * n - 1
          /\ 3 * k + 2 \in 0 .. b + 5 * n - 1
      BY <1>3, <1>4, <3>1
    <3>3. QED
      BY <1>1, <1>8, <2>1, <3>2 DEF EntryCopied
  <2>3. EntriesCopied' = Len(answer'.memmap)
    BY <1>1 DEF EntriesCopied
  <2>4. QED
    BY <1>1, <1>3, <2>1, <2>2, <2>3 DEF MemmapInv
<1>13. QED
  BY <1>11, <1>12

-----------------------------------------------------------------------------
LEMMA NextKeepsCopy == CopyInv /\ [StubNext]_stub_vars => CopyInv'
<1> SUFFICES ASSUME CopyInv, [StubNext]_stub_vars PROVE MemmapInv' /\ FramebufferInv'
  BY NextKeepsHeap, NextKeepsLoaded DEF CopyInv
<1>1. CASE stub_pc' \in {"hhdm", "kernel_address", "memmap", "crash"}
  BY <1>1 DEF MemmapInv, FramebufferInv
<1>2. CASE get_memmap /\ stub_pc' # "crash"
  BY <1>2, MemmapAllocated DEF get_memmap, Missing, FramebufferInv
<1>3. CASE copy_entry /\ stub_pc' # "crash"
  BY <1>3, EntryIsCopied DEF copy_entry, FramebufferInv
<1>4. CASE entries_done
  <2>1. /\ stub_pc = "entries" /\ stub_pc' = "framebuffer" /\ ~ (n < params.entry_count)
        /\ UNCHANGED <<answer, heap, heap_head, params, n, blocks>>
    BY <1>4 DEF entries_done
  <2>2. n \in Nat /\ Len(answer.memmap) \in Nat /\ heap_head \in Nat
    BY AnswerType DEF CopyInv, HeapInv, TypeInv
  <2>3. EntriesCopied' = EntriesCopied
    BY <2>1, <2>2 DEF CopyInv, MemmapInv, EntriesCopied
  <2>4. QED
    BY <2>1, <2>2, <2>3, EntriesStay DEF CopyInv, FramebufferInv
<1>5. CASE get_framebuffers /\ stub_pc' # "crash"
  BY <1>5, FramebuffersAllocated
<1>6. CASE copy_framebuffer /\ stub_pc' # "crash"
  BY <1>6, FramebufferIsCopied
<1>7. CASE kstart_done
  <2>1. /\ stub_pc = "framebuffers" /\ stub_pc' = "kmain" /\ ~ (n < Len(answer.framebuffers))
        /\ UNCHANGED <<answer, heap, heap_head, params, n, blocks>>
    BY <1>7 DEF kstart_done
  <2>2. n \in Nat /\ Len(answer.framebuffers) \in Nat /\ heap_head \in Nat
    BY AnswerType DEF CopyInv, HeapInv, TypeInv
  <2>3. /\ EntriesCopied' = EntriesCopied
        /\ FramebuffersCopied' = FramebuffersCopied
    BY <2>1, <2>2 DEF CopyInv, FramebufferInv, EntriesCopied, FramebuffersCopied
  <2>4. MemmapInv'
    BY <2>1, <2>2, <2>3, EntriesStay DEF CopyInv
  <2>5. QED
    BY <2>1, <2>2, <2>3, <2>4 DEF CopyInv, FramebufferInv, FramebufferCopied
<1>8. CASE UNCHANGED stub_vars
  <2>1. /\ EntriesCopied' = EntriesCopied
        /\ FramebuffersCopied' = FramebuffersCopied
    BY <1>8 DEF stub_vars, EntriesCopied, FramebuffersCopied
  <2>2. QED
    BY <1>8, <2>1 DEF stub_vars, CopyInv, MemmapInv, FramebufferInv, EntryCopied, FramebufferCopied
<1>9. CASE load_hhdm \/ get_kernel_address
  BY <1>1, <1>9 DEF load_hhdm, get_kernel_address, Missing
<1>10. QED
  BY <1>1, <1>2, <1>3, <1>4, <1>5, <1>6, <1>7, <1>8, <1>9 DEF StubNext

LEMMA CopyInvariance == StubSpec => []CopyInv
<1>1. StubInit => CopyInv
  BY InitHeap, InitCopy DEF CopyInv
<1>2. QED
  BY <1>1, NextKeepsCopy, PTL DEF StubSpec

-----------------------------------------------------------------------------
(* heap_alloc never gives out a byte twice, nor one outside the heap.      *)
THEOREM HeapStaysSafe == StubSpec => []HeapSafe
<1>1. HeapInv => HeapSafe
  BY DEF HeapInv
<1>2. QED
  BY <1>1, HeapInvariance, PTL

(* Whatever the boot loader answers, kmain finds it whole and, types of 32 *)
(* bits, with the same meaning: no entry cut off, overwritten or           *)
(* mistranslated.                                                          *)
THEOREM HandoverCorrect == StubSpec => []HandoverIntact
<1>1. CopyInv => HandoverIntact
  <2> SUFFICES ASSUME CopyInv, stub_pc = "kmain" PROVE HandoverIntact
    BY DEF HandoverIntact
  <2>1. /\ params.hhdm = answer.hhdm /\ params.kernel_addr = answer.kernel_address
        /\ params.entry_count = Len(answer.memmap)
    BY DEF CopyInv, Loaded, MemmapInv, Stages
  <2>2. /\ Len(answer.memmap) \in Nat /\ Len(answer.framebuffers) \in Nat
        /\ answer.memmap \in Seq([base : Nat, length : Nat, type : Nat])
    BY AnswerType DEF CopyInv, HeapInv
  <2>3. ASSUME NEW k \in 0 .. Len(answer.memmap) - 1
        PROVE  LET at == params.memmap + k * SizeofMemmapEntry
                   e  == answer.memmap[k + 1]
               IN /\ Word(at) = e.base /\ Word(at + 8) = e.length
                  /\ e.type < INT_VALUES =>
                       KernelTypes[Word(at + 16) + 1] =
                       IF e.type < Len(LimineTypes) THEN LimineTypes[e.type + 1] ELSE "UNKNOWN"
    <3>1. params.memmap = 0 /\ EntryCopied(k)
      BY <2>2 DEF CopyInv, MemmapInv, EntriesCopied
    <3> DEFINE at == params.memmap + k * SizeofMemmapEntry
    <3>2. at \div 8 = 3 * k /\ (at + 8) \div 8 = 3 * k + 1 /\ (at + 16) \div 8 = 3 * k + 2
      BY <2>2, <3>1 DEF SizeofMemmapEntry
    <3>3. answer.memmap[k + 1].type \in Nat
      <4>1. k + 1 \in 1 .. Len(answer.memmap)
        BY <2>2
      <4>2. answer.memmap[k + 1] \in [base : Nat, length : Nat, type : Nat]
        BY <2>2, <4>1, ElementOfSeq
      <4>3. QED
        BY <4>2
    <3>4. /\ Word(at) = answer.memmap[k + 1].base
          /\ Word(at + 8) = answer.memmap[k + 1].length
          /\ Word(at + 16) = from_limine_type(AsInt(answer.memmap[k + 1].type))
      BY <3>1, <3>2 DEF EntryCopied, Word
    <3> HIDE DEF at
    <3>5. answer.memmap[k + 1].type < INT_VALUES =>
            KernelTypes[Word(at + 16) + 1] =
            IF answer.memmap[k + 1].type < Len(LimineTypes)
            THEN LimineTypes[answer.memmap[k + 1].type + 1] ELSE "UNKNOWN"
      BY <3>3, <3>4, TypeTranslated
    <3>6. QED
      BY <3>4, <3>5 DEF at
  <2>4. ASSUME NEW k \in 0 .. Len(answer.framebuffers) - 1, NEW w \in 0 .. 4
        PROVE  Word(params.framebuffers + k * SizeofFramebuffer + 8 * w)
                 = answer.framebuffers[k + 1]
    <3>1. /\ params.framebuffers # Null /\ params.framebuffers % 16 = 0
          /\ FramebufferCopied(k)
      BY <2>2 DEF CopyInv, FramebufferInv, FramebuffersCopied
    <3>2. params.framebuffers \in Nat
      BY <3>1 DEF CopyInv, HeapInv, TypeInv
    <3>3. params.framebuffers % 8 = 0
      BY <3>1, <3>2, SixteenIsEven
    <3>4. /\ params.framebuffers + k * SizeofFramebuffer + 8 * w
               = params.framebuffers + 8 * (5 * k + w)
          /\ 5 * k + w \in Nat
      BY <2>2, <3>2 DEF SizeofFramebuffer
    <3>5. (params.framebuffers + 8 * (5 * k + w)) \div 8
            = params.framebuffers \div 8 + (5 * k + w)
      BY <3>2, <3>3, <3>4, WordOf
    <3>6. params.framebuffers \div 8 + (5 * k + w) = params.framebuffers \div 8 + 5 * k + w
      BY <2>2, <3>2
    <3>7. QED
      BY <3>1, <3>4, <3>5, <3>6 DEF FramebufferCopied, Word
  <2>5. QED
    BY <2>1, <2>3, <2>4 DEF HandoverIntact
<1>2. QED
  BY <1>1, CopyInvariance, PTL
=============================================================================
