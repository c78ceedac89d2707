--------------------------- MODULE RoutinesProof ---------------------------
(***************************************************************************)
(* Routines the kernel calls and that call nothing.  The memory functions, *)
(* for every size of memory, all its contents and every legal call,        *)
(* overlapping areas included.  The serial console for every kind of chip, *)
(* every text and whatever is typed: the line carries what was put.        *)
(***************************************************************************)
EXTENDS LibcString, Serial, SequenceTheorems, TLAPS

-----------------------------------------------------------------------------
(* The memory functions.                                                   *)
LibcTypeInv ==
  /\ call \in Calls
  /\ mem \in [Address -> Byte] /\ before \in [Address -> Byte]
  /\ i \in Nat
  /\ libc_pc \in {"loop", "done"}

(* The part of dest that has been written: from the front, or from the     *)
(* back where memmove copies downwards.                                    *)
Written == IF Down THEN call.dest + i .. call.dest + call.n - 1
                   ELSE call.dest .. call.dest + i - 1

Writing == call.fn \in {"memcpy", "memmove", "memset", "strcpy"}

(* What has been written is what is wanted, everything else is as it was.  *)
AreaInv ==
  Writing =>
    /\ i <= call.n
    /\ \A a \in Address : mem[a] = IF a \in Written THEN Wanted(a) ELSE before[a]
    /\ libc_pc = "done" /\ call.fn # "strcpy" =>
         \/ Down /\ i = 0
         \/ ~ Down /\ i = call.n
         \/ call.fn = "memmove" /\ call.src = call.dest

(* strcpy has not passed the first terminator, and returns at it.          *)
StringInv ==
  call.fn = "strcpy" =>
    /\ \E k \in 0 .. call.n - 1 : before[call.src + k] = 0 /\ i <= k
    /\ \A l \in 0 .. i - 1 : before[call.src + l] # 0
    /\ libc_pc = "done" => before[call.src + i] = 0

(* memcmp writes nothing, has found equal all it has passed, and returns   *)
(* at the end or at a difference.                                          *)
CompareInv ==
  call.fn = "memcmp" =>
    /\ mem = before
    /\ \A l \in 0 .. i - 1 : before[call.dest + l] = before[call.src + l]
    /\ libc_pc = "loop" => i <= call.n
    /\ libc_pc = "done" =>
         \/ i >= call.n /\ libc_result = 0
         \/ /\ i < call.n
            /\ before[call.dest + i] # before[call.src + i]
            /\ libc_result = Order(before[call.dest + i], before[call.src + i])

Inv == LibcTypeInv /\ AreaInv /\ StringInv /\ CompareInv

-----------------------------------------------------------------------------
(* A call names two areas of the memory, apart from each other for memcpy. *)
LEMMA CallType ==
  ASSUME LibcTypeInv
  PROVE  /\ call.dest \in Nat /\ call.src \in Nat /\ call.n \in Nat /\ call.c \in Int
         /\ call.dest + call.n <= Size /\ call.src + call.n <= Size /\ Size \in Nat
         /\ call.fn \in {"memcpy", "memmove", "memset", "memcmp", "strcpy"}
         /\ call.fn \in {"memcpy", "strcpy"} => \/ call.dest + call.n <= call.src
                                                \/ call.src + call.n <= call.dest
<1>1. call \in Calls
  BY DEF LibcTypeInv
<1>2. QED
  BY <1>1, CallsAreLegal DEF InMemory, Apart

LEMMA InitInv == LibcInit => Inv
<1> SUFFICES ASSUME LibcInit PROVE Inv
  OBVIOUS
<1>1. call \in Calls /\ mem \in [Address -> Byte] /\ before = mem /\ libc_pc = "loop"
  BY CallsAreLegal DEF LibcInit
<1>2. call.n \in Nat /\ call.dest \in Nat
  BY <1>1, CallsAreLegal DEF InMemory
<1>3. LibcTypeInv
  BY <1>1, <1>2 DEF LibcInit, LibcTypeInv
<1>4. i <= call.n /\ Written = {} /\ (call.fn = "strcpy" \/ call.fn = "memcmp" => i = 0)
  BY <1>2 DEF LibcInit, Written, Down
<1>5. AreaInv
  BY <1>1, <1>4 DEF AreaInv
<1>6. StringInv
  BY <1>1, <1>2, <1>4 DEF LibcInit, StringInv
<1>7. CompareInv
  BY <1>1, <1>2, <1>4 DEF CompareInv
<1>8. QED
  BY <1>3, <1>5, <1>6, <1>7 DEF Inv

(* Writing the next byte of dest with the right value extends the part     *)
(* that is written by just that byte.                                      *)
LEMMA OneByte ==
  ASSUME Inv, Writing, NEW p \in Address, NEW byte \in Byte,
         Put(p, byte), byte = Wanted(p), UNCHANGED <<call, libc_pc, before>>,
         i' \in Nat, i' <= call.n, Written' = Written \cup {p}, libc_pc = "loop"
  PROVE  LibcTypeInv' /\ AreaInv'
<1>1. mem \in [Address -> Byte] /\ mem' = [mem EXCEPT ![p] = byte]
  BY DEF Inv, LibcTypeInv, Put
<1>2. mem' \in [Address -> Byte]
  BY <1>1
<1>3. ASSUME NEW a \in Address
      PROVE  mem'[a] = IF a \in Written' THEN Wanted(a)' ELSE before'[a]
  <2>1. Wanted(a)' = Wanted(a)
    BY DEF Wanted
  <2>2. mem[a] = IF a \in Written THEN Wanted(a) ELSE before[a]
    BY DEF Inv, AreaInv
  <2>3. QED
    BY <1>1, <2>1, <2>2
<1>4. QED
  BY <1>2, <1>3 DEF Inv, LibcTypeInv, AreaInv, Writing

(* A return after the last byte keeps everything.                          *)
LEMMA Returning ==
  ASSUME Inv, NEW x, Finish(x),
         Writing /\ call.fn # "strcpy" =>
           \/ Down /\ i = 0
           \/ ~ Down /\ i = call.n
           \/ call.fn = "memmove" /\ call.src = call.dest
  PROVE  LibcTypeInv' /\ AreaInv'
<1>1. libc_pc' = "done" /\ UNCHANGED <<mem, call, i, before>>
  BY DEF Finish
<1>2. Written' = Written /\ Down' = Down
  BY <1>1 DEF Written, Down
<1>3. \A a : Wanted(a)' = Wanted(a)
  BY <1>1 DEF Wanted
<1>4. QED
  BY <1>1, <1>2, <1>3 DEF Inv, LibcTypeInv, AreaInv, Writing

(* The invariants of strcpy and memcmp say nothing of the other functions. *)
LEMMA NeitherStringNorCompare ==
  ASSUME call.fn \notin {"strcpy", "memcmp"}, call' = call, LibcTypeInv', AreaInv'
  PROVE  Inv'
BY DEF Inv, StringInv, CompareInv

LEMMA CopyUpInv == Inv /\ copy_up => Inv'
<1> SUFFICES ASSUME Inv, copy_up PROVE Inv'
  OBVIOUS
<1>1. /\ call.dest \in Nat /\ call.src \in Nat /\ call.n \in Nat /\ i \in Nat /\ Size \in Nat
      /\ call.dest + call.n <= Size /\ call.src + call.n <= Size /\ i <= call.n
      /\ Writing /\ ~ Down /\ libc_pc = "loop"
      /\ \/ call.dest + call.n <= call.src
         \/ call.src + call.n <= call.dest
         \/ call.dest < call.src
  BY CallType DEF Inv, LibcTypeInv, AreaInv, copy_up, CopyingUp, Writing, Down
<1>2. CASE i < call.n
  <2> DEFINE p == call.dest + i   q == call.src + i
  <2>1. /\ Put(p, mem[q]) /\ i' = i + 1 /\ UNCHANGED <<call, libc_result, libc_pc, before>>
    BY <1>1, <1>2 DEF copy_up
  <2>2. p \in Address /\ q \in Address /\ q \notin Written /\ i' \in Nat /\ i' <= call.n
    BY <1>1, <1>2, <2>1 DEF Address, Written
  <2>3. mem[q] \in Byte /\ mem[q] = before[q]
    BY <1>1, <2>2 DEF Inv, LibcTypeInv, AreaInv
  <2>4. mem[q] = Wanted(p)
    <3>1. call.fn # "memset" /\ call.src + (p - call.dest) = q
      BY <1>1 DEF copy_up, CopyingUp
    <3>2. QED
      BY <2>3, <3>1 DEF Wanted
  <2>5. Written' = Written \cup {p}
    <3>1. Down' = Down
      BY <2>1 DEF Down
    <3>2. QED
      BY <1>1, <2>1, <3>1 DEF Written
  <2>6. LibcTypeInv' /\ AreaInv'
    BY <1>1, <2>1, <2>2, <2>3, <2>4, <2>5, OneByte
  <2>7. QED
    BY <2>1, <2>6, NeitherStringNorCompare DEF copy_up, CopyingUp
<1>3. CASE ~ (i < call.n)
  <2>1. Finish(0) /\ i = call.n
    BY <1>1, <1>3 DEF copy_up
  <2>2. LibcTypeInv' /\ AreaInv'
    BY <1>1, <2>1, Returning
  <2>3. QED
    BY <2>1, <2>2, NeitherStringNorCompare DEF copy_up, CopyingUp, Finish
<1>4. QED
  BY <1>2, <1>3

LEMMA CopyDownInv == Inv /\ copy_down => Inv'
<1> SUFFICES ASSUME Inv, copy_down PROVE Inv'
  OBVIOUS
<1>1. /\ call.dest \in Nat /\ call.src \in Nat /\ call.n \in Nat /\ i \in Nat /\ Size \in Nat
      /\ call.dest + call.n <= Size /\ call.src + call.n <= Size /\ i <= call.n
      /\ Writing /\ Down /\ call.fn = "memmove" /\ call.src < call.dest /\ libc_pc = "loop"
  BY CallType DEF Inv, LibcTypeInv, AreaInv, copy_down, Writing, Down
<1>2. CASE i > 0
  <2> DEFINE p == call.dest + i - 1   q == call.src + i - 1
  <2>1. /\ Put(p, mem[q]) /\ i' = i - 1 /\ UNCHANGED <<call, libc_result, libc_pc, before>>
    BY <1>1, <1>2 DEF copy_down, MoreDown
  <2>2. p \in Address /\ q \in Address /\ q \notin Written /\ i' \in Nat /\ i' <= call.n
    BY <1>1, <1>2, <2>1 DEF Address, Written
  <2>3. mem[q] \in Byte /\ mem[q] = before[q]
    BY <1>1, <2>2 DEF Inv, LibcTypeInv, AreaInv
  <2>4. mem[q] = Wanted(p)
    <3>1. call.fn # "memset" /\ call.src + (p - call.dest) = q
      BY <1>1
    <3>2. QED
      BY <2>3, <3>1 DEF Wanted
  <2>5. Written' = Written \cup {p}
    <3>1. Down' = Down
      BY <2>1 DEF Down
    <3>2. QED
      BY <1>1, <1>2, <2>1, <3>1 DEF Written
  <2>6. LibcTypeInv' /\ AreaInv'
    BY <1>1, <2>1, <2>2, <2>3, <2>4, <2>5, OneByte
  <2>7. QED
    BY <1>1, <2>1, <2>6, NeitherStringNorCompare
<1>3. CASE ~ (i > 0)
  <2>1. Finish(0) /\ i = 0
    BY <1>1, <1>3 DEF copy_down, MoreDown
  <2>2. LibcTypeInv' /\ AreaInv'
    BY <1>1, <2>1, Returning
  <2>3. QED
    BY <1>1, <2>1, <2>2, NeitherStringNorCompare DEF Finish
<1>4. QED
  BY <1>2, <1>3

LEMMA CopyNothingInv == Inv /\ copy_nothing => Inv'
<1> SUFFICES ASSUME Inv, copy_nothing PROVE Inv'
  OBVIOUS
<1>1. Finish(0) /\ call.fn = "memmove" /\ call.src = call.dest
  BY DEF copy_nothing
<1>2. LibcTypeInv' /\ AreaInv'
  BY <1>1, Returning
<1>3. QED
  BY <1>1, <1>2, NeitherStringNorCompare DEF Finish

LEMMA MemsetInv == Inv /\ memset => Inv'
<1> SUFFICES ASSUME Inv, memset PROVE Inv'
  OBVIOUS
<1>1. /\ call.dest \in Nat /\ call.n \in Nat /\ i \in Nat /\ Size \in Nat /\ call.c \in Int
      /\ call.dest + call.n <= Size /\ i <= call.n
      /\ Writing /\ ~ Down /\ call.fn = "memset" /\ libc_pc = "loop"
  BY CallType DEF Inv, LibcTypeInv, AreaInv, memset, Writing, Down
<1>2. CASE i < call.n
  <2> DEFINE p == call.dest + i   byte == call.c % 256
  <2>1. /\ Put(p, byte) /\ i' = i + 1 /\ UNCHANGED <<call, libc_result, libc_pc, before>>
    BY <1>1, <1>2 DEF memset
  <2>2. p \in Address /\ i' \in Nat /\ i' <= call.n
    <3> HIDE DEF byte
    <3> QED
      BY <1>1, <1>2, <2>1 DEF Address
  <2>3. byte \in Byte /\ byte = Wanted(p)
    <3>1. \A c \in Int : c % 256 \in Byte
      BY DEF Byte
    <3>2. byte \in Byte
      BY <1>1, <3>1
    <3>3. byte = Wanted(p)
      BY <1>1 DEF Wanted
    <3>4. QED
      BY <3>2, <3>3
  <2>4. Written' = Written \cup {p}
    <3> HIDE DEF byte
    <3>1. Down' = Down
      BY <2>1 DEF Down
    <3>2. QED
      BY <1>1, <2>1, <3>1 DEF Written
  <2>5. LibcTypeInv' /\ AreaInv'
    BY <1>1, <2>1, <2>2, <2>3, <2>4, OneByte
  <2>6. QED
    BY <1>1, <2>1, <2>5, NeitherStringNorCompare
<1>3. CASE ~ (i < call.n)
  <2>1. Finish(0) /\ i = call.n
    BY <1>1, <1>3 DEF memset
  <2>2. LibcTypeInv' /\ AreaInv'
    BY <1>1, <2>1, Returning
  <2>3. QED
    BY <1>1, <2>1, <2>2, NeitherStringNorCompare DEF Finish
<1>4. QED
  BY <1>2, <1>3

LEMMA MemcmpInv == Inv /\ memcmp => Inv'
<1> SUFFICES ASSUME Inv, memcmp PROVE Inv'
  OBVIOUS
<1>1. call.n \in Nat /\ i \in Nat /\ i <= call.n /\ call.fn = "memcmp" /\ mem = before
  BY CallType DEF Inv, LibcTypeInv, CompareInv, memcmp
<1>2. StringInv' /\ AreaInv'
  <2>1. call' = call
    BY DEF memcmp, Finish
  <2>2. QED
    BY <1>1, <2>1 DEF StringInv, AreaInv, Writing
<1> DEFINE a == mem[call.dest + i]   b == mem[call.src + i]
<1>3. CASE i < call.n /\ a = b /\ i' = i + 1 /\ UNCHANGED <<mem, call, libc_result, libc_pc, before>>
  <2>1. LibcTypeInv'
    BY <1>1, <1>3 DEF Inv, LibcTypeInv
  <2>2. CompareInv'
    BY <1>1, <1>3 DEF Inv, CompareInv, memcmp
  <2>3. QED
    BY <1>2, <2>1, <2>2 DEF Inv
<1>4. CASE \/ i < call.n /\ a # b /\ Finish(Order(a, b))
           \/ i >= call.n /\ Finish(0)
  <2>1. LibcTypeInv'
    BY <1>4 DEF Inv, LibcTypeInv, Finish
  <2>2. CompareInv'
    BY <1>1, <1>4 DEF Inv, CompareInv, Finish
  <2>3. QED
    BY <1>2, <2>1, <2>2 DEF Inv
<1>5. QED
  BY <1>3, <1>4 DEF memcmp

LEMMA StrcpyInv == Inv /\ strcpy => Inv'
<1> SUFFICES ASSUME Inv, strcpy PROVE Inv'
  OBVIOUS
<1>1. /\ call.dest \in Nat /\ call.src \in Nat /\ call.n \in Nat /\ i \in Nat /\ Size \in Nat
      /\ call.dest + call.n <= Size /\ call.src + call.n <= Size
      /\ Writing /\ ~ Down /\ call.fn = "strcpy" /\ libc_pc = "loop"
      /\ \/ call.dest + call.n <= call.src
         \/ call.src + call.n <= call.dest
  BY CallType DEF Inv, LibcTypeInv, strcpy, Writing, Down
<1> DEFINE p == call.dest + i   q == call.src + i
<1>2. PICK k \in 0 .. call.n - 1 : before[call.src + k] = 0 /\ i <= k
  BY <1>1 DEF Inv, StringInv
<1>3. p \in Address /\ q \in Address /\ q \notin Written /\ i + 1 \in Nat
  BY <1>1, <1>2 DEF Address, Written
<1>4. mem[q] \in Byte /\ mem[q] = before[q]
  BY <1>1, <1>3 DEF Inv, LibcTypeInv, AreaInv
<1>5. CASE mem[q] # 0
  <2>1. Put(p, mem[q]) /\ i' = i + 1 /\ UNCHANGED <<call, libc_result, libc_pc, before>>
    BY <1>5 DEF strcpy
  <2>2. i < k /\ i' <= k /\ i' <= call.n
    <3>1. i # k
      BY <1>2, <1>4, <1>5
    <3>2. QED
      BY <1>1, <1>2, <2>1, <3>1
  <2>3. mem[q] = Wanted(p)
    <3>1. call.src + (p - call.dest) = q
      BY <1>1
    <3>2. QED
      BY <1>1, <1>4, <3>1 DEF Wanted
  <2>4. Written' = Written \cup {p}
    <3>1. Down' = Down
      BY <2>1 DEF Down
    <3>2. QED
      BY <1>1, <2>1, <3>1 DEF Written
  <2>5. LibcTypeInv' /\ AreaInv'
    BY <1>1, <1>3, <1>4, <2>1, <2>2, <2>3, <2>4, OneByte
  <2>6. StringInv'
    <3>1. ASSUME NEW l \in 0 .. i' - 1 PROVE before[call.src + l] # 0
      <4>1. l \in 0 .. i - 1 \/ l = i
        BY <1>1, <2>1
      <4>2. QED
        BY <1>1, <1>4, <1>5, <4>1 DEF Inv, StringInv
    <3>2. QED
      BY <1>1, <1>2, <2>1, <2>2, <3>1 DEF StringInv
  <2>7. CompareInv'
    BY <1>1, <2>1 DEF CompareInv
  <2>8. QED
    BY <2>5, <2>6, <2>7 DEF Inv
<1>6. CASE mem[q] = 0
  <2>1. Finish(0)
    BY <1>6 DEF strcpy
  <2>2. LibcTypeInv' /\ AreaInv'
    BY <1>1, <2>1, Returning
  <2>3. StringInv' /\ CompareInv'
    BY <1>1, <1>4, <1>6, <2>1 DEF Inv, StringInv, CompareInv, Finish
  <2>4. QED
    BY <2>2, <2>3 DEF Inv
<1>7. QED
  BY <1>5, <1>6

LEMMA NextInv == Inv /\ [LibcNext]_libc_vars => Inv'
<1> SUFFICES ASSUME Inv, [LibcNext]_libc_vars PROVE Inv'
  OBVIOUS
<1>1. CASE LibcNext
  BY <1>1, CopyUpInv, CopyDownInv, CopyNothingInv, MemsetInv, MemcmpInv, StrcpyInv DEF LibcNext
<1>2. CASE UNCHANGED libc_vars
  <2>1. Written' = Written /\ \A a : Wanted(a)' = Wanted(a)
    BY <1>2 DEF libc_vars, Written, Wanted, Down
  <2>2. QED
    BY <1>2, <2>1 DEF libc_vars, Inv, LibcTypeInv, AreaInv, StringInv, CompareInv, Writing, Down
<1>3. QED
  BY <1>1, <1>2

LEMMA Invariance == LibcSpec => []Inv
<1>1. QED
  BY InitInv, NextInv, PTL DEF LibcSpec

(* At the end Written is all of dest, or a copy was of an area onto itself.*)
LEMMA InvArea == Inv => AreaWritten
<1> SUFFICES ASSUME Inv, libc_pc = "done", call.fn \in {"memcpy", "memmove", "memset"},
                    NEW a \in Address
             PROVE  mem[a] = IF a \in Dest THEN Wanted(a) ELSE before[a]
  BY DEF AreaWritten
<1>1. call.dest \in Nat /\ call.src \in Nat /\ call.n \in Nat /\ Size \in Nat
  BY CallType DEF Inv
<1>2. mem[a] = IF a \in Written THEN Wanted(a) ELSE before[a]
  BY DEF Inv, AreaInv, Writing
<1>3. CASE \/ Down /\ i = 0
           \/ ~ Down /\ i = call.n
  <2>1. Written = Dest
    BY <1>1, <1>3 DEF Written, Dest
  <2>2. QED
    BY <1>2, <2>1
<1>4. CASE call.fn = "memmove" /\ call.src = call.dest
  <2>1. call.src + (a - call.dest) = a
    BY <1>1, <1>4 DEF Address
  <2>2. Wanted(a) = before[a]
    BY <1>4, <2>1 DEF Wanted
  <2>3. QED
    BY <1>2, <2>2
<1>5. QED
  BY <1>3, <1>4 DEF Inv, AreaInv, Writing

(* The place where strcpy stops is the string's length.                    *)
LEMMA InvString == Inv => StringCopied
<1> SUFFICES ASSUME Inv, libc_pc = "done", call.fn = "strcpy" PROVE StringCopied
  BY DEF StringCopied
<1>1. /\ call.dest \in Nat /\ call.src \in Nat /\ call.n \in Nat /\ i \in Nat
      /\ i \in 0 .. call.n - 1
      /\ before[call.src + i] = 0
      /\ \A l \in 0 .. i - 1 : before[call.src + l] # 0
  BY CallType DEF Inv, LibcTypeInv, StringInv
<1> DEFINE Ends(k) == /\ before[call.src + k] = 0
                      /\ \A l \in 0 .. k - 1 : before[call.src + l] # 0
           len == CHOOSE k \in 0 .. call.n - 1 : Ends(k)
<1>2. ASSUME NEW k \in 0 .. call.n - 1, Ends(k) PROVE k = i
  <2>1. ~ (k < i) /\ ~ (i < k)
    BY <1>1, <1>2
  <2>2. QED
    BY <1>1, <2>1
<1>3. len = i
  BY <1>1, <1>2
<1>4. ASSUME NEW a \in Address
      PROVE  mem[a] = IF a \in call.dest .. call.dest + i - 1
                      THEN before[call.src + (a - call.dest)] ELSE before[a]
  BY <1>4 DEF Inv, AreaInv, Writing, Written, Wanted, Down
<1>5. QED
  BY <1>3, <1>4 DEF StringCopied

(* The place where memcmp stops is the first difference, if there is one.  *)
LEMMA InvCompare == Inv => CompareCorrect
<1> SUFFICES ASSUME Inv, libc_pc = "done", call.fn = "memcmp" PROVE CompareCorrect
  BY DEF CompareCorrect
<1> DEFINE differ == {k \in 0 .. call.n - 1 : before[call.dest + k] # before[call.src + k]}
           first  == CHOOSE k \in differ : \A l \in differ : k <= l
<1>1. /\ call.n \in Nat /\ i \in Nat /\ mem = before
      /\ \A l \in 0 .. i - 1 : before[call.dest + l] = before[call.src + l]
  BY CallType DEF Inv, LibcTypeInv, CompareInv
<1>2. CASE i >= call.n /\ libc_result = 0
  <2>1. differ = {}
    BY <1>1, <1>2
  <2>2. QED
    BY <1>1, <1>2, <2>1 DEF CompareCorrect
<1>3. CASE /\ i < call.n
           /\ before[call.dest + i] # before[call.src + i]
           /\ libc_result = Order(before[call.dest + i], before[call.src + i])
  <2>1. i \in differ /\ \A l \in differ : i <= l
    BY <1>1, <1>3
  <2>2. \A k \in differ : (\A l \in differ : k <= l) => k = i
    BY <1>1, <2>1
  <2>3. first = i
    <3> HIDE DEF differ
    <3> QED
      BY <2>1, <2>2
  <2>4. differ # {}
    BY <2>1
  <2>5. QED
    BY <1>1, <1>3, <2>3, <2>4 DEF CompareCorrect, Order
<1>4. QED
  BY <1>2, <1>3 DEF Inv, CompareInv

(* memcpy, memmove and memset are right about every byte of memory.        *)
THEOREM AreaCorrect == LibcSpec => []AreaWritten
<1>1. QED
  BY Invariance, InvArea, PTL

(* strcpy copies the string up to its terminator and nothing else.         *)
THEOREM StringCorrect == LibcSpec => []StringCopied
<1>1. QED
  BY Invariance, InvString, PTL

(* memcmp answers by the first byte that differs.                          *)
THEOREM CompareAnswer == LibcSpec => []CompareCorrect
<1>1. QED
  BY Invariance, InvCompare, PTL

(* Every call of the five functions does what its function promises, on    *)
(* areas of every size and with every overlap it allows.                   *)
THEOREM CallsCorrect == LibcSpec => []CallCorrect
<1>1. AreaWritten /\ CompareCorrect /\ StringCopied => CallCorrect
  BY DEF CallCorrect
<1>2. QED
  BY <1>1, AreaCorrect, StringCorrect, CompareAnswer, PTL

-----------------------------------------------------------------------------
(* The serial console.                                                     *)
Text == Greeting \o Progress

TypeInv ==
  /\ tx \in Seq(0 .. 255) /\ rx \in Seq(0 .. 255) /\ wire \in Seq(0 .. 255)
  /\ text \in Seq(0 .. 255) /\ sent \in Seq(0 .. 255)
  /\ pc \in {"init", "test", "enable", "poll", "send"}
  /\ step \in 1 .. 10
  /\ result \in {-1, 0, 1}
  /\ handler \in BOOLEAN /\ dlab \in BOOLEAN /\ loop \in BOOLEAN

(* Bring-up: loopback and the divisor latch are on between the writes that *)
(* switch them, nothing is on its way before the test byte, and the test   *)
(* byte can still be on its way behind the test only if the same byte was  *)
(* typed.                                                                  *)
BringUp ==
  /\ pc = "init" =>
       /\ step <= 9 /\ (dlab <=> step \in 3 .. 5) /\ (loop <=> step = 9) /\ tx = << >>
       /\ rx # << >> => Head(rx) \in Typed
  /\ pc # "init" => ~ dlab
  /\ pc \in {"test", "enable"} => loop
  /\ pc = "test" /\ tx # << >> => tx = << 174 >> /\ (rx # << >> => Head(rx) \in Typed)
  /\ pc = "enable" => Working /\ (tx # << >> => tx = << 174 >> /\ 174 \in Typed)
  /\ pc \in {"init", "test", "enable"} =>
       result = -1 /\ ~ handler /\ text = << >> /\ sent = << >> /\ wire = << >>

(* Printing: to a chip that passed the test, out of loopback; to one that  *)
(* did not, in loopback for good.                                          *)
Printing ==
  /\ pc \in {"poll", "send"} => result # -1
  /\ result = 1 => loop /\ wire = << >> /\ sent = << >>
  /\ result = 0 => ~ loop /\ Working
  /\ ~ Working => tx = << >>
  /\ Len(tx) <= 1
  /\ pc = "send" => text # << >> /\ tx = << >>

(* What is on the line and on its way is what was sent; what was sent and  *)
(* what is left is the text.                                               *)
OnTheLine == result = 0 => \E stray \in Strays : wire \o tx = stray \o sent

Unfinished ==
  result = 0 =>
    /\ ~ handler => sent \o text = Text
    /\ handler => \E n \in 0 .. Len(Text) : sent \o text = SubSeq(Text, 1, n) \o Report

IInv == TypeInv /\ BringUp /\ Printing /\ OnTheLine /\ Unfinished

-----------------------------------------------------------------------------
(* Sequences of bytes: a byte moved from the front of one to the end of    *)
(* another.                                                                *)
LEMMA SendOne ==
  ASSUME NEW s \in Seq(0 .. 255), NEW t \in Seq(0 .. 255), t # << >>
  PROVE  Append(s, Head(t)) \o Tail(t) = s \o t
<1> DEFINE l == Append(s, Head(t)) \o Tail(t)
           r == s \o t
<1>1. Head(t) \in 0 .. 255 /\ Tail(t) \in Seq(0 .. 255) /\ Len(Tail(t)) = Len(t) - 1
      /\ \A n \in 1 .. Len(Tail(t)) : Tail(t)[n] = t[n + 1]
  BY HeadTailProperties
<1>2. Append(s, Head(t)) \in Seq(0 .. 255) /\ Len(Append(s, Head(t))) = Len(s) + 1
      /\ \A n \in 1 .. Len(s) : Append(s, Head(t))[n] = s[n]
      /\ Append(s, Head(t))[Len(s) + 1] = Head(t)
  BY <1>1, AppendProperties
<1>3. l \in Seq(0 .. 255) /\ Len(l) = Len(s) + 1 + Len(Tail(t))
      /\ \A n \in 1 .. Len(s) + 1 + Len(Tail(t)) :
           l[n] = IF n <= Len(s) + 1 THEN Append(s, Head(t))[n] ELSE Tail(t)[n - (Len(s) + 1)]
  BY <1>1, <1>2, ConcatProperties
<1>4. r \in Seq(0 .. 255) /\ Len(r) = Len(s) + Len(t)
      /\ \A n \in 1 .. Len(s) + Len(t) : r[n] = IF n <= Len(s) THEN s[n] ELSE t[n - Len(s)]
  BY ConcatProperties
<1>5. Len(s) \in Nat /\ Len(t) \in Nat /\ Len(t) > 0 /\ Head(t) = t[1]
  BY EmptySeq, LenProperties
<1>6. ASSUME NEW n \in 1 .. Len(l) PROVE l[n] = r[n]
  <2>1. CASE n <= Len(s)
    BY <2>1, <1>1, <1>2, <1>3, <1>4, <1>5
  <2>2. CASE n = Len(s) + 1
    BY <2>2, <1>1, <1>2, <1>3, <1>4, <1>5
  <2>3. CASE n > Len(s) + 1
    <3>1. l[n] = Tail(t)[n - (Len(s) + 1)] /\ n - (Len(s) + 1) \in 1 .. Len(Tail(t))
      BY <2>3, <1>1, <1>3, <1>5
    <3>2. r[n] = t[n - Len(s)]
      BY <2>3, <1>1, <1>3, <1>4, <1>5
    <3>3. Tail(t)[n - (Len(s) + 1)] = t[n - (Len(s) + 1) + 1]
      BY <3>1, <1>1
    <3>4. n - (Len(s) + 1) + 1 = n - Len(s)
      BY <1>5
    <3>5. QED
      BY <3>1, <3>2, <3>3, <3>4
  <2>4. QED
    BY <2>1, <2>2, <2>3, <1>3, <1>5
<1>7. Len(l) = Len(r)
  BY <1>1, <1>3, <1>4, <1>5
<1>8. QED
  BY <1>3, <1>4, <1>6, <1>7, SeqEqual

LEMMA TextIsText == Text \in Seq(0 .. 255) /\ Len(Text) \in Nat
  BY SerialConstants, ConcatProperties, LenProperties DEF Text

(* A write to the chip, port by port.                                      *)
LEMMA OutbEffect ==
  ASSUME NEW port \in Nat, NEW val \in Nat, Outb(port, val), dlab \in BOOLEAN, loop \in BOOLEAN
  PROVE  /\ dlab' \in BOOLEAN /\ loop' \in BOOLEAN
         /\ port = 3 => (dlab' <=> val >= 128)
         /\ port # 3 => (dlab' <=> dlab)
         /\ port = 4 => (loop' <=> (val \div 16) % 2 = 1)
         /\ port # 4 => (loop' <=> loop)
         /\ port # 2 /\ ~ Data(port) => tx' = tx /\ rx' = rx
         /\ port = 2 /\ (val \div 4) % 2 = 1 => tx' = << >>
         /\ port = 2 /\ (val \div 2) % 2 = 1 => rx' = << >>
         /\ Data(port) /\ port # 2 =>
              /\ tx' = IF Working /\ ~ (loop /\ device = "good") THEN Append(tx, val) ELSE tx
              /\ rx' = IF loop /\ device = "good" THEN Append(rx, val) ELSE rx
         /\ device' = device /\ wire' = wire
<1>1. device' = device /\ wire' = wire
  BY DEF Outb
<1>2. /\ port = 3 => dlab' = (val >= 128)
      /\ port # 3 => dlab' = dlab
  BY Zenon DEF Outb
<1>3. dlab' \in BOOLEAN /\ (port = 3 => (dlab' <=> val >= 128)) /\ (port # 3 => (dlab' <=> dlab))
  <2>1. CASE port = 3
    <3>1. dlab' = (val >= 128)
      BY <2>1, <1>2
    <3>2. dlab' \in BOOLEAN
      BY <3>1
    <3>3. dlab' <=> val >= 128
      BY <3>1
    <3>4. QED
      BY <2>1, <3>2, <3>3, Zenon
  <2>2. CASE port # 3
    BY <2>2, <1>2
  <2>3. QED
    BY <2>1, <2>2
<1>4. /\ port = 4 => loop' = ((val \div 16) % 2 = 1)
      /\ port # 4 => loop' = loop
  BY Zenon DEF Outb
<1>5. /\ loop' \in BOOLEAN /\ (port = 4 => (loop' <=> (val \div 16) % 2 = 1))
      /\ port # 4 => (loop' <=> loop)
  <2>1. CASE port = 4
    BY <2>1, <1>4
  <2>2. CASE port # 4
    BY <2>2, <1>4
  <2>3. QED
    BY <2>1, <2>2
<1>6. /\ port # 2 /\ ~ Data(port) => tx' = tx /\ rx' = rx
      /\ port = 2 /\ (val \div 4) % 2 = 1 => tx' = << >>
      /\ port = 2 /\ (val \div 2) % 2 = 1 => rx' = << >>
  BY Zenon DEF Outb
<1>7. Data(port) /\ port # 2 =>
        /\ tx' = IF Working /\ ~ (loop /\ device = "good") THEN Append(tx, val) ELSE tx
        /\ rx' = IF loop /\ device = "good" THEN Append(rx, val) ELSE rx
  BY Zenon DEF Outb
<1>8. QED
  BY <1>1, <1>3, <1>5, <1>6, <1>7

(* The processor's writes of init_serial: what they do to the chip.        *)
LEMMA InitEffect ==
  ASSUME IInv, init_write
  PROVE  /\ dlab' \in BOOLEAN /\ loop' \in BOOLEAN /\ (dlab' <=> step' \in 3 .. 5) /\ (loop' <=> step \in {8, 9})
         /\ tx' = IF step = 9 /\ device = "slow" THEN << 174 >> ELSE << >>
         /\ rx' = IF step = 6 THEN << >>
                  ELSE IF step = 9 /\ device = "good" THEN Append(rx, 174) ELSE rx
<1>1. /\ step \in 1 .. 9 /\ step' = step + 1 /\ Outb(InitWrites[step][1], InitWrites[step][2])
      /\ dlab \in BOOLEAN /\ loop \in BOOLEAN /\ (dlab <=> step \in 3 .. 5) /\ (loop <=> step = 9)
      /\ tx = << >> /\ rx \in Seq(0 .. 255)
  BY DEF IInv, BringUp, TypeInv, init_write
<1>2. Append(<< >>, 174) = << 174 >>
  OBVIOUS
<1>3. CASE step = 1
  <2>1. Outb(1, 0)
    BY <1>1, <1>3 DEF InitWrites
  <2>2. QED
    BY <1>1, <1>2, <1>3, <2>1, OutbEffect DEF Data, Working
<1>4. CASE step = 2
  <2>1. Outb(3, 128)
    BY <1>1, <1>4 DEF InitWrites
  <2>2. QED
    BY <1>1, <1>2, <1>4, <2>1, OutbEffect DEF Data, Working
<1>5. CASE step = 3
  <2>1. Outb(0, 3)
    BY <1>1, <1>5 DEF InitWrites
  <2>2. QED
    BY <1>1, <1>2, <1>5, <2>1, OutbEffect DEF Data, Working
<1>6. CASE step = 4
  <2>1. Outb(1, 0)
    BY <1>1, <1>6 DEF InitWrites
  <2>2. QED
    BY <1>1, <1>2, <1>6, <2>1, OutbEffect DEF Data, Working
<1>7. CASE step = 5
  <2>1. Outb(3, 3)
    BY <1>1, <1>7 DEF InitWrites
  <2>2. QED
    BY <1>1, <1>2, <1>7, <2>1, OutbEffect DEF Data, Working
<1>8. CASE step = 6
  <2>1. Outb(2, 199)
    BY <1>1, <1>8 DEF InitWrites
  <2>2. QED
    BY <1>1, <1>2, <1>8, <2>1, OutbEffect DEF Data, Working
<1>9. CASE step = 7
  <2>1. Outb(4, 11)
    BY <1>1, <1>9 DEF InitWrites
  <2>2. QED
    BY <1>1, <1>2, <1>9, <2>1, OutbEffect DEF Data, Working
<1>10. CASE step = 8
  <2>1. Outb(4, 30)
    BY <1>1, <1>10 DEF InitWrites
  <2>2. QED
    BY <1>1, <1>2, <1>10, <2>1, OutbEffect DEF Data, Working
<1>11. CASE step = 9
  <2>1. Outb(0, 174)
    BY <1>1, <1>11 DEF InitWrites
  <2>2. QED
    BY <1>1, <1>2, <1>11, <2>1, OutbEffect DEF Data, Working
<1>12. QED
  BY <1>1, <1>3, <1>4, <1>5, <1>6, <1>7, <1>8, <1>9, <1>10, <1>11

LEMMA InitStep ==
  ASSUME IInv, init_write
  PROVE  IInv'
<1>1. /\ step \in 1 .. 9 /\ step' = step + 1 /\ pc' = IF step < 9 THEN "init" ELSE "test"
      /\ result' = -1 /\ ~ handler' /\ handler' = handler
      /\ text' = << >> /\ sent' = << >> /\ wire' = << >> /\ device' = device
      /\ handler \in BOOLEAN /\ Len(<< 174 >>) = 1 /\ Len(<< >>) = 0
  BY DEF IInv, BringUp, TypeInv, init_write, InitWrites, Outb
<1>2. rx \in Seq(0 .. 255) /\ (rx # << >> => Head(rx) \in Typed)
  BY DEF IInv, BringUp, TypeInv, init_write
<1>3. TypeInv'
  <2>1. tx' \in Seq(0 .. 255) /\ rx' \in Seq(0 .. 255)
    <3>1. << >> \in Seq(0 .. 255) /\ << 174 >> \in Seq(0 .. 255)
      OBVIOUS
    <3>2. Append(rx, 174) \in Seq(0 .. 255)
      BY <1>2, AppendProperties
    <3>3. QED
      BY <1>2, <3>1, <3>2, InitEffect, ZenonT(60)
  <2>2. dlab' \in BOOLEAN /\ loop' \in BOOLEAN
    BY InitEffect
  <2>3. QED
    BY <1>1, <2>1, <2>2 DEF TypeInv
<1>4. BringUp'
  BY <1>1, <1>2, InitEffect DEF BringUp
<1>5. Printing'
  <2>1. tx' = << >> \/ (tx' = << 174 >> /\ Working')
    BY <1>1, InitEffect DEF Working
  <2>2. Len(tx') <= 1
    <3>1. CASE tx' = << >>
      BY <3>1
    <3>2. CASE tx' = << 174 >>
      BY <3>2
    <3>3. QED
      BY <2>1, <3>1, <3>2
  <2>3. QED
    BY <1>1, <2>1, <2>2 DEF Printing
<1>6. QED
  BY <1>1, <1>3, <1>4, <1>5 DEF IInv, OnTheLine, Unfinished

(* The test byte is read back: what came back decides.                     *)
LEMMA TestStep ==
  ASSUME IInv, init_test
  PROVE  IInv'
<1>1. /\ pc = "test" /\ ~ dlab /\ loop /\ result = -1 /\ ~ handler
      /\ text = << >> /\ sent = << >> /\ wire = << >> /\ rx \in Seq(0 .. 255)
      /\ tx # << >> => tx = << 174 >> /\ (rx # << >> => Head(rx) \in Typed)
      /\ tx # << >> => Working
  BY DEF IInv, TypeInv, BringUp, Printing, init_test
<1>2. /\ UNCHANGED <<device, dlab, loop, tx, wire, step, handler, sent>>
      /\ rx' \in Seq(0 .. 255)
  BY <1>1, HeadTailProperties DEF init_test
<1>3. Progress \in Seq(0 .. 255)
  BY SerialConstants
<1>4. Len(<< 174 >>) = 1 /\ Len(<< >>) = 0
  OBVIOUS
<1>5. CASE Received # 174
  <2>1. result' = 1 /\ pc' = "poll" /\ text' = Progress
    BY <1>5 DEF init_test
  <2>2. QED
    BY <1>1, <1>2, <1>3, <1>4, <2>1
       DEF IInv, TypeInv, BringUp, Printing, OnTheLine, Unfinished, Working
<1>6. CASE Received = 174
  <2>1. result' = -1 /\ pc' = "enable" /\ text' = << >>
    BY <1>1, <1>6 DEF init_test
  <2>2. Working /\ rx # << >> /\ Head(rx) = 174
    BY <1>6 DEF Received
  <2>3. QED
    BY <1>1, <1>2, <1>4, <2>1, <2>2
       DEF IInv, TypeInv, BringUp, Printing, OnTheLine, Unfinished, Working
<1>7. QED
  BY <1>5, <1>6

(* Out of loopback: the line starts with the test byte if it was still on  *)
(* its way.                                                                *)
LEMMA EnableStep ==
  ASSUME IInv, init_enable
  PROVE  IInv'
<1>1. /\ ~ dlab /\ loop /\ result = -1 /\ ~ handler /\ Working /\ dlab \in BOOLEAN /\ loop \in BOOLEAN
      /\ Len(<< 174 >>) = 1 /\ Len(<< >>) = 0 /\ text = << >> /\ sent = << >> /\ wire = << >>
      /\ tx # << >> => tx = << 174 >> /\ 174 \in Typed
  BY DEF IInv, TypeInv, BringUp, init_enable
<1>2. /\ ~ dlab' /\ dlab' \in BOOLEAN /\ ~ loop' /\ loop' \in BOOLEAN
      /\ tx' = tx /\ rx' = rx /\ device' = device /\ wire' = wire
  <2>1. Outb(4, 15) /\ (15 \div 16) % 2 = 0
    BY DEF init_enable, NormalMode
  <2>2. QED
    BY <1>1, <2>1, OutbEffect DEF Data
<1>2a. result' = 0 /\ text' = Text /\ pc' = "poll" /\ UNCHANGED <<step, handler, sent>>
  BY DEF init_enable, Text
<1>3. TypeInv'
  BY <1>1, <1>2, <1>2a, TextIsText DEF IInv, TypeInv
<1>4. BringUp'
  BY <1>1, <1>2, <1>2a DEF BringUp
<1>5. Printing'
  <2>1. Working' /\ (tx' = << >> \/ tx' = << 174 >>)
    BY <1>1, <1>2 DEF Working
  <2>2. Len(tx') <= 1
    <3>1. CASE tx' = << >>
      BY <3>1
    <3>2. CASE tx' = << 174 >>
      BY <3>2
    <3>3. QED
      BY <2>1, <3>1, <3>2
  <2>3. QED
    BY <1>2, <1>2a, <2>1, <2>2 DEF Printing
<1>6. OnTheLine'
  <2>1. << >> \o tx = tx \o << >>
    BY <1>1
  <2>2. tx \in Strays
    BY <1>1 DEF Strays
  <2>3. QED
    BY <1>1, <1>2, <1>2a, <2>1, <2>2 DEF OnTheLine
<1>7. Unfinished'
  <2>1. << >> \o Text = Text
    BY TextIsText, ConcatEmptySeq
  <2>2. QED
    BY <1>1, <1>2, <1>2a, <2>1 DEF Unfinished
<1>8. QED
  BY <1>3, <1>4, <1>5, <1>6, <1>7 DEF IInv

(* srput: the poll finds the transmitter empty; the byte goes after those  *)
(* already sent.                                                           *)
LEMMA PollStep ==
  ASSUME IInv, srput_poll
  PROVE  IInv'
<1>1. /\ pc = "poll" /\ pc' = "send" /\ text # << >>
      /\ UNCHANGED <<device, dlab, loop, tx, rx, wire, step, result, text, handler, sent>>
  BY DEF srput_poll, device_vars
<1>2. tx = << >>
  <2>1. Working => tx = << >>
    BY DEF srput_poll, is_transmit_empty, TransmitEmpty
  <2>2. ~ Working => tx = << >>
    BY DEF IInv, Printing
  <2>3. QED
    BY <2>1, <2>2
<1>3. TypeInv' /\ BringUp'
  BY <1>1 DEF IInv, TypeInv, BringUp, Working
<1>4. Printing'
  BY <1>1, <1>2 DEF IInv, Printing, Working
<1>5. OnTheLine' /\ Unfinished'
  BY <1>1 DEF IInv, OnTheLine, Unfinished
<1>6. QED
  BY <1>3, <1>4, <1>5 DEF IInv

LEMMA SendStep ==
  ASSUME IInv, srput_send
  PROVE  IInv'
<1> DEFINE h == Head(text)
<1>1. /\ pc = "send" /\ pc' = "poll" /\ text' = Tail(text) /\ Outb(0, h)
      /\ sent' = (IF loop \/ ~ Working THEN sent ELSE Append(sent, h))
      /\ UNCHANGED <<step, result, handler>>
  BY DEF srput_send
<1>2. /\ text \in Seq(0 .. 255) /\ text # << >> /\ sent \in Seq(0 .. 255) /\ wire \in Seq(0 .. 255)
      /\ rx \in Seq(0 .. 255) /\ tx = << >> /\ dlab \in BOOLEAN /\ loop \in BOOLEAN /\ ~ dlab
      /\ result \in {0, 1} /\ (result = 0 => ~ loop /\ Working) /\ (result = 1 => loop)
  BY <1>1 DEF IInv, TypeInv, BringUp, Printing
<1>3. h \in 0 .. 255 /\ Tail(text) \in Seq(0 .. 255)
  BY <1>2, HeadTailProperties
<1> HIDE DEF h
<1>4. /\ dlab' \in BOOLEAN /\ ~ dlab' /\ loop' \in BOOLEAN /\ (loop' <=> loop)
      /\ tx' = IF Working /\ ~ (loop /\ device = "good") THEN Append(tx, h) ELSE tx
      /\ rx' = IF loop /\ device = "good" THEN Append(rx, h) ELSE rx
      /\ device' = device /\ wire' = wire
  <2>1. Data(0) /\ 0 \in Nat /\ h \in Nat
    BY <1>2, <1>3 DEF Data
  <2>2. QED
    BY <1>1, <1>2, <2>1, OutbEffect
<1>5. << h >> \in Seq(0 .. 255) /\ Append(rx, h) \in Seq(0 .. 255) /\ Append(sent, h) \in Seq(0 .. 255)
      /\ Append(tx, h) = << h >> /\ << >> \in Seq(0 .. 255) /\ Len(<< h >>) = 1 /\ Len(<< >>) = 0
  BY <1>2, <1>3, AppendProperties
<1>6. (tx' = << >> \/ tx' = << h >>) /\ (~ Working => tx' = << >>)
  BY <1>2, <1>4, <1>5
<1>7. TypeInv'
  <2>1. /\ tx' \in Seq(0 .. 255) /\ rx' \in Seq(0 .. 255) /\ wire' \in Seq(0 .. 255)
        /\ text' \in Seq(0 .. 255) /\ sent' \in Seq(0 .. 255)
    BY <1>1, <1>2, <1>3, <1>4, <1>5, <1>6, Zenon
  <2>2. QED
    BY <1>1, <1>4, <2>1 DEF IInv, TypeInv
<1>8. BringUp'
  BY <1>1, <1>4 DEF BringUp
<1>9. Printing'
  <2>1. Len(tx') <= 1
    <3>1. CASE tx' = << >>
      BY <3>1
    <3>2. CASE tx' = << h >>
      BY <1>5, <3>2
    <3>3. QED
      BY <1>6, <3>1, <3>2
  <2>2. ~ Working' => tx' = << >>
    BY <1>4, <1>6 DEF Working
  <2>3. result = 1 => wire' = << >> /\ sent' = << >> /\ loop'
    BY <1>1, <1>2, <1>4 DEF IInv, Printing
  <2>4. result = 0 => ~ loop' /\ Working'
    BY <1>2, <1>4 DEF Working
  <2>5. QED
    BY <1>1, <1>2, <2>1, <2>2, <2>3, <2>4 DEF Printing
<1>10. CASE result = 0
  <2>1. tx' = << h >> /\ sent' = Append(sent, h)
    BY <1>1, <1>2, <1>4, <1>5, <1>10
  <2>2. OnTheLine'
    <3>1. PICK stray \in Strays : wire \o tx = stray \o sent
      BY <1>10 DEF IInv, OnTheLine
    <3>2. stray \in Seq(0 .. 255)
      <4>1. << >> \in Seq(0 .. 255) /\ << 174 >> \in Seq(0 .. 255)
        OBVIOUS
      <4>2. QED
        BY <3>1, <4>1 DEF Strays
    <3>3. wire = stray \o sent
      BY <1>2, <3>1, ConcatEmptySeq
    <3>4. Append(sent, h) = sent \o << h >>
      BY <1>2, <1>3, AppendIsConcat
    <3>5. (stray \o sent) \o << h >> = stray \o (sent \o << h >>)
      <4>1. \A s, t, u \in Seq(0 .. 255) : (s \o t) \o u = s \o (t \o u)
        BY SMTT(30), ConcatAssociative
      <4>2. stray \in Seq(0 .. 255) /\ sent \in Seq(0 .. 255) /\ << h >> \in Seq(0 .. 255)
        BY <1>2, <1>5, <3>2
      <4>3. QED
        BY <4>1, <4>2, ZenonT(60)
    <3>6. wire' \o tx' = stray \o sent'
      BY <1>4, <2>1, <3>3, <3>4, <3>5
    <3>7. QED
      BY <3>6 DEF OnTheLine, Strays
  <2>3. sent' \o text' = sent \o text
    BY <1>1, <1>2, <2>1, SendOne DEF h
  <2>4. Unfinished'
    BY <1>1, <2>3 DEF IInv, Unfinished
  <2>5. QED
    BY <1>7, <1>8, <1>9, <2>2, <2>4 DEF IInv
<1>11. CASE result = 1
  BY <1>1, <1>7, <1>8, <1>9, <1>11 DEF IInv, OnTheLine, Unfinished
<1>12. QED
  BY <1>2, <1>10, <1>11

(* The device works on: a byte leaves on the line, or comes round in       *)
(* loopback; somebody types.                                               *)
LEMMA ShiftStep ==
  ASSUME IInv, Shift
  PROVE  IInv'
<1> DEFINE h == Head(tx)
<1>1. /\ tx # << >> /\ tx' = Tail(tx)
      /\ loop => rx' = Append(rx, h) /\ wire' = wire
      /\ ~ loop => rx' = rx /\ wire' = Append(wire, h)
      /\ UNCHANGED <<device, dlab, loop, pc, step, result, text, handler, sent>>
  BY DEF Shift
<1>2. /\ tx \in Seq(0 .. 255) /\ rx \in Seq(0 .. 255) /\ wire \in Seq(0 .. 255) /\ loop \in BOOLEAN
      /\ Len(tx) <= 1 /\ pc \in {"test", "enable", "poll"} /\ (pc # "poll" => loop)
      /\ result = 0 => ~ loop
      /\ result = 1 => loop
      /\ pc = "poll" => result \in {0, 1}
  BY <1>1 DEF IInv, TypeInv, BringUp, Printing
<1>3. /\ h \in 0 .. 255 /\ Tail(tx) \in Seq(0 .. 255) /\ Len(Tail(tx)) = Len(tx) - 1
      /\ Append(rx, h) \in Seq(0 .. 255) /\ Append(wire, h) \in Seq(0 .. 255)
  BY <1>1, <1>2, HeadTailProperties, AppendProperties
<1>4. tx' = << >> /\ Len(tx') = 0
  <2>1. Len(tx) \in Nat /\ Len(Tail(tx)) \in Nat
    BY <1>2, <1>3, LenProperties
  <2>2. Len(Tail(tx)) = 0
    BY <1>2, <1>3, <2>1
  <2>3. QED
    BY <1>1, <1>3, <2>2, EmptySeq
<1>5. TypeInv'
  <2>1. rx' \in Seq(0 .. 255) /\ wire' \in Seq(0 .. 255) /\ tx' \in Seq(0 .. 255)
    BY <1>1, <1>2, <1>3
  <2>2. QED
    BY <1>1, <2>1 DEF IInv, TypeInv
<1>6. BringUp'
  BY <1>1, <1>2, <1>4 DEF IInv, BringUp, Working
<1>7. Printing'
  BY <1>1, <1>2, <1>4 DEF IInv, Printing, BringUp, Working
<1>8. OnTheLine'
  <2>1. ~ loop => wire' \o tx' = wire \o tx
    BY <1>1, <1>2, SendOne
  <2>2. QED
    BY <1>1, <1>2, <2>1 DEF IInv, OnTheLine, Strays
<1>9. Unfinished'
  BY <1>1 DEF IInv, Unfinished
<1>10. QED
  BY <1>5, <1>6, <1>7, <1>8, <1>9 DEF IInv

LEMMA TypeStep ==
  ASSUME IInv, Type
  PROVE  IInv'
<1>1. PICK byte \in Typed : rx' = << byte >>
  BY DEF Type
<1>2. ~ loop /\ UNCHANGED <<device, dlab, loop, tx, wire, pc, step, result, text, handler, sent>>
  BY DEF Type
<1>3. rx' \in Seq(0 .. 255) /\ Head(rx') = byte
  BY <1>1, SerialConstants
<1>4. TypeInv'
  BY <1>2, <1>3 DEF IInv, TypeInv
<1>5. BringUp'
  BY <1>1, <1>2, <1>3 DEF IInv, BringUp, Working
<1>6. Printing' /\ OnTheLine' /\ Unfinished'
  BY <1>2 DEF IInv, Printing, OnTheLine, Unfinished, Working, Strays
<1>7. QED
  BY <1>4, <1>5, <1>6 DEF IInv

(* An exception: what has been sent is a prefix of the text, and the       *)
(* report comes after it.                                                  *)
LEMMA ExceptionStep ==
  ASSUME IInv, isr_exception_handler
  PROVE  IInv'
<1>1. /\ pc \in {"poll", "send"} /\ pc' = "poll" /\ ~ handler /\ handler' = TRUE /\ text' = Report
      /\ UNCHANGED <<device, dlab, loop, tx, rx, wire, step, result, sent>>
  BY DEF isr_exception_handler, device_vars
<1>2. Report \in Seq(0 .. 255)
  BY SerialConstants
<1>3. TypeInv'
  BY <1>1, <1>2 DEF IInv, TypeInv
<1>4. BringUp' /\ Printing' /\ OnTheLine'
  BY <1>1 DEF IInv, BringUp, Printing, OnTheLine, Working, Strays
<1>5. ASSUME result = 0 PROVE \E n \in 0 .. Len(Text) : sent \o Report = SubSeq(Text, 1, n) \o Report
  <2>1. sent \in Seq(0 .. 255) /\ text \in Seq(0 .. 255) /\ sent \o text = Text
    BY <1>1, <1>5 DEF IInv, TypeInv, Unfinished
  <2>2. SubSeq(Text, 1, Len(sent)) = sent
    BY <2>1, SubSeqOfConcat1, LenProperties, SubSeqFull
  <2>3. Len(sent) \in 0 .. Len(Text)
    BY <2>1, ConcatProperties, LenProperties
  <2>4. QED
    BY <2>2, <2>3
<1>6. Unfinished'
  BY <1>1, <1>5 DEF Unfinished
<1>7. QED
  BY <1>3, <1>4, <1>6 DEF IInv

-----------------------------------------------------------------------------
LEMMA Started == Init => IInv
<1>1. << >> \in Seq(0 .. 255) /\ Len(<< >>) = 0
  OBVIOUS
<1>2. Init => TypeInv
  <2>1. Init => dlab \in BOOLEAN /\ loop \in BOOLEAN /\ handler \in BOOLEAN
    BY DEF Init
  <2>2. Init => tx \in Seq(0 .. 255) /\ rx \in Seq(0 .. 255) /\ wire \in Seq(0 .. 255)
                /\ text \in Seq(0 .. 255) /\ sent \in Seq(0 .. 255)
    BY <1>1 DEF Init
  <2>3. Init => pc = "init" /\ step = 1 /\ result = -1
    BY DEF Init
  <2>4. QED
    BY <2>1, <2>2, <2>3 DEF TypeInv
<1>3. Init => BringUp
  BY DEF Init, BringUp
<1>4. Init => Printing /\ OnTheLine /\ Unfinished
  BY <1>1 DEF Init, Printing, OnTheLine, Unfinished
<1>5. QED
  BY <1>2, <1>3, <1>4 DEF IInv

LEMMA Kept == IInv /\ [Next]_vars => IInv'
<1>1. CASE Next
  BY <1>1, InitStep, TestStep, EnableStep, PollStep, SendStep, ShiftStep, TypeStep, ExceptionStep
     DEF Next, Program
<1>2. ASSUME IInv, UNCHANGED vars PROVE IInv'
  <2>1. UNCHANGED <<device, dlab, loop, tx, rx, wire, pc, step, result, text, handler, sent>>
    BY <1>2 DEF vars, device_vars
  <2>2. TypeInv' /\ BringUp'
    BY <1>2, <2>1 DEF IInv, TypeInv, BringUp, Working
  <2>3. Printing' /\ OnTheLine' /\ Unfinished'
    BY <1>2, <2>1 DEF IInv, Printing, OnTheLine, Unfinished, Working
  <2>4. QED
    BY <2>2, <2>3 DEF IInv
<1>3. QED
  BY <1>1, <1>2

LEMMA Enough == IInv => LineCarriesText
<1>1. IInv => (result # 0 => wire = << >>)
  BY DEF IInv, TypeInv, BringUp, Printing
<1>2. QED
  BY <1>1 DEF IInv, Printing, OnTheLine, Unfinished, LineCarriesText, Up, Text

(* The line carries what was put, in order, nothing lost or twice, for     *)
(* every set of chips, every text and whatever is typed, with an exception *)
(* anywhere after bring-up (init_serial, srput and isr_exception_handler). *)
THEOREM LineCorrect == Spec => []LineCarriesText
<1>1. Init => IInv
  BY Started
<1>2. IInv /\ [Next]_vars => IInv'
  BY Kept
<1>3. IInv => LineCarriesText
  BY Enough
<1>4. QED
  BY <1>1, <1>2, <1>3, PTL DEF Spec
=============================================================================
