-------------------------- MODULE InterruptsProof ---------------------------
(***************************************************************************)
(* The exception path for every set of exceptions and any depth of         *)
(* nesting: no reset once the table is loaded, and every frame as          *)
(* ExceptionFrame lays it out.                                             *)
(***************************************************************************)
EXTENDS Interrupts, SequenceTheorems, TLAPS

Places == {"kmain", "shutdown", "stub", "exception", "code", "error", "rip", "spin"}
Words  == Seq(Int)
Gated  == (0 .. 14) \cup (16 .. 21)
Labels == {"exception_code", "error_code", "rip"}
Taken  == [vector : Gated, error : Nat, rip : Int, cs : Int, rflags : Int, rsp : Nat]

TypeInv ==
  /\ stage \in {"init_gdt", "init_idt", "lidt", "sti", "running"}
  /\ gdt \in {"boot", "kernel"} /\ cs \in Int /\ rflags \in Int
  /\ idt \in [Vectors -> {0, 8}] /\ next_gate \in Nat \ {0} /\ idtr \in BOOLEAN
  /\ stack \in Words /\ pc \in Places /\ eframe \in Nat
  /\ console \in Seq(Labels \X Int)
  /\ taken \in Seq(Taken)
  /\ pc \notin {"kmain", "shutdown"} => taken # << >>

(* Bring-up: the gates written so far, and what is in place once the table *)
(* is loaded.                                                              *)
BringUp ==
  /\ stage # "init_gdt" => gdt = "kernel"
  /\ \A n \in 1 .. Len(Gates) : n < next_gate => idt[Gates[n]] = 8
  /\ \A v \in Vectors : idt[v] = 8 => v \in Gated
  /\ idtr => stage \in {"lidt", "sti", "running"} /\ next_gate > Len(Gates)
  /\ idtr => pc # "shutdown"

(* The top of the stack while an exception is on its way to the handler.   *)
Context(x) == << 16, x.rsp, x.rflags, x.cs, x.rip >>
Errors(x)  == IF x.vector \in PushesErrorCode THEN << x.error >> ELSE << >>

OnTheWay ==
  LET x == Last(taken) IN
  /\ pc = "stub" =>
       /\ x.vector \notin PushesErrorCode => x.error = 0
       /\ \E base \in Words : Len(base) % 2 = 0 /\ stack = (base \o Context(x)) \o Errors(x)
  /\ pc = "exception" =>
       /\ Len(stack) >= 7
       /\ ~ DoubleFault =>
            \E base \in Words : Len(base) % 2 = 0 /\ stack = base \o << 16, x.rsp, x.rflags, x.cs, x.rip, x.error, x.vector >>

(* The handler's frame, and what it has printed of it.                     *)
Lines(n) ==
  /\ Len(console) >= n
  /\ \A k \in 1 .. n : console[Len(console) - n + k] = Says(Last(taken))[k]

InFrame ==
  InHandler =>
    /\ ContextSaved
    /\ eframe = Len(stack) /\ eframe >= 22
    /\ ~ DoubleFault =>
         /\ Field("exception_code") = Last(taken).vector
         /\ Field("error_code") = Last(taken).error
         /\ Field("rip") = Last(taken).rip
         /\ pc = "error" => Lines(1)
         /\ pc = "rip" => Lines(2)
         /\ pc = "spin" => Lines(3)

IInv == TypeInv /\ BringUp /\ OnTheWay /\ InFrame

-----------------------------------------------------------------------------
(* The tables of the code: the gates, the kernel's code segment, and where *)
(* the words of the frame are.                                             *)
LEMMA Joined ==
  ASSUME NEW S, NEW a \in Seq(S), NEW b \in Seq(S)
  PROVE  /\ a \o b \in Seq(S) /\ Len(a \o b) = Len(a) + Len(b) /\ Len(a) \in Nat /\ Len(b) \in Nat
         /\ \A n \in 1 .. Len(a) : (a \o b)[n] = a[n]
         /\ \A n \in 1 .. Len(b) : (a \o b)[Len(a) + n] = b[n]
<1>1. /\ a \o b \in Seq(S) /\ Len(a \o b) = Len(a) + Len(b) /\ Len(a) \in Nat /\ Len(b) \in Nat
      /\ \A n \in 1 .. Len(a) + Len(b) : (a \o b)[n] = IF n <= Len(a) THEN a[n] ELSE b[n - Len(a)]
  BY ConcatProperties, LenProperties
<1>2. ASSUME NEW n \in 1 .. Len(a) PROVE (a \o b)[n] = a[n]
  BY <1>1
<1>3. ASSUME NEW n \in 1 .. Len(b) PROVE (a \o b)[Len(a) + n] = b[n]
  <2>1. Len(a) + n \in 1 .. Len(a) + Len(b) /\ ~ (Len(a) + n <= Len(a)) /\ Len(a) + n - Len(a) = n
    BY <1>1
  <2>2. QED
    BY <1>1, <2>1
<1>4. QED
  BY <1>1, <1>2, <1>3

LEMMA GatesAre ==
  /\ Len(Gates) = 21
  /\ \A n \in 1 .. 21 : Gates[n] \in Gated
  /\ Gates[14] = 13
<1> DEFINE a == [n \in 1 .. 15 |-> n - 1]
           b == [n \in 1 .. 6 |-> n + 15]
<1>1. a \in Seq(Int) /\ Len(a) = 15 /\ \A n \in 1 .. 15 : a[n] = n - 1
  OBVIOUS
<1>2. b \in Seq(Int) /\ Len(b) = 6 /\ \A n \in 1 .. 6 : b[n] = n + 15
  OBVIOUS
<1>3. Gates = a \o b
  BY DEF Gates
<1> HIDE DEF a, b
<1>4. /\ Len(Gates) = Len(a) + Len(b)
      /\ \A n \in 1 .. Len(a) : Gates[n] = a[n]
      /\ \A n \in 1 .. Len(b) : Gates[Len(a) + n] = b[n]
  <2>1. a \in Seq(Int) /\ b \in Seq(Int)
    BY <1>1, <1>2
  <2>2. /\ Len(a \o b) = Len(a) + Len(b)
        /\ \A n \in 1 .. Len(a) : (a \o b)[n] = a[n]
        /\ \A n \in 1 .. Len(b) : (a \o b)[Len(a) + n] = b[n]
    BY <2>1, Joined
  <2>3. QED
    BY <1>3, <2>2
<1>5. Len(Gates) = 21
  BY <1>1, <1>2, <1>4
<1>6. \A n \in 1 .. 15 : Gates[n] = n - 1
  BY <1>1, <1>4
<1>7. \A n \in 1 .. 6 : Gates[15 + n] = n + 15
  BY <1>1, <1>2, <1>4
<1>8. ASSUME NEW n \in 1 .. 21 PROVE Gates[n] \in Gated
  <2>1. CASE n <= 15
    BY <1>6, <2>1 DEF Gated
  <2>2. CASE n > 15
    <3>1. n - 15 \in 1 .. 6 /\ 15 + (n - 15) = n
      BY <2>2
    <3>2. QED
      BY <1>7, <3>1 DEF Gated
  <2>3. QED
    BY <2>1, <2>2
<1>9. QED
  BY <1>5, <1>6, <1>8

LEMMA KernelCode == gdt = "kernel" => Code64(Descriptor(8))
<1>1. KernelGdt[2] = Segment(152, 32) /\ 8 \div 8 + 1 = 2
  BY DEF KernelGdt
<1>2. gdt = "kernel" => Descriptor(8) = Segment(152, 32)
  BY <1>1 DEF Descriptor
<1>3. Code64(Segment(152, 32))
  BY DEF Code64, Segment, Bit
<1>4. QED
  BY <1>2, <1>3

(* Where ExceptionFrame has a field, counted from the top of the frame.     *)
Place(name) == CHOOSE n \in 1 .. Len(ExceptionFrame) : ExceptionFrame[n] = name

LEMMA FieldIs == ASSUME NEW name PROVE Field(name) = stack[eframe + 1 - Place(name)]
  BY DEF Field, Place

LEMMA PlacesAre ==
  /\ Place("r15") = 1
  /\ Place("r14") = 2
  /\ Place("r13") = 3
  /\ Place("r12") = 4
  /\ Place("r11") = 5
  /\ Place("r10") = 6
  /\ Place("r9") = 7
  /\ Place("r8") = 8
  /\ Place("rbp") = 9
  /\ Place("rdi") = 10
  /\ Place("rsi") = 11
  /\ Place("rdx") = 12
  /\ Place("rcx") = 13
  /\ Place("rbx") = 14
  /\ Place("rax") = 15
  /\ Place("exception_code") = 16
  /\ Place("error_code") = 17
  /\ Place("rip") = 18
  /\ Place("cs") = 19
  /\ Place("rflags") = 20
  /\ Place("rsp") = 21
  /\ Place("ss") = 22
<1>1. Len(ExceptionFrame) = 22
  BY DEF ExceptionFrame
<1>2. Place("r15") = 1
  BY <1>1 DEF ExceptionFrame, Place
<1>3. Place("r14") = 2
  BY <1>1 DEF ExceptionFrame, Place
<1>4. Place("r13") = 3
  BY <1>1 DEF ExceptionFrame, Place
<1>5. Place("r12") = 4
  BY <1>1 DEF ExceptionFrame, Place
<1>6. Place("r11") = 5
  BY <1>1 DEF ExceptionFrame, Place
<1>7. Place("r10") = 6
  BY <1>1 DEF ExceptionFrame, Place
<1>8. Place("r9") = 7
  BY <1>1 DEF ExceptionFrame, Place
<1>9. Place("r8") = 8
  BY <1>1 DEF ExceptionFrame, Place
<1>10. Place("rbp") = 9
  BY <1>1 DEF ExceptionFrame, Place
<1>11. Place("rdi") = 10
  BY <1>1 DEF ExceptionFrame, Place
<1>12. Place("rsi") = 11
  BY <1>1 DEF ExceptionFrame, Place
<1>13. Place("rdx") = 12
  BY <1>1 DEF ExceptionFrame, Place
<1>14. Place("rcx") = 13
  BY <1>1 DEF ExceptionFrame, Place
<1>15. Place("rbx") = 14
  BY <1>1 DEF ExceptionFrame, Place
<1>16. Place("rax") = 15
  BY <1>1 DEF ExceptionFrame, Place
<1>17. Place("exception_code") = 16
  BY <1>1 DEF ExceptionFrame, Place
<1>18. Place("error_code") = 17
  BY <1>1 DEF ExceptionFrame, Place
<1>19. Place("rip") = 18
  BY <1>1 DEF ExceptionFrame, Place
<1>20. Place("cs") = 19
  BY <1>1 DEF ExceptionFrame, Place
<1>21. Place("rflags") = 20
  BY <1>1 DEF ExceptionFrame, Place
<1>22. Place("rsp") = 21
  BY <1>1 DEF ExceptionFrame, Place
<1>23. Place("ss") = 22
  BY <1>1 DEF ExceptionFrame, Place
<1>24. QED
  BY <1>2, <1>3, <1>4, <1>5, <1>6, <1>7, <1>8, <1>9, <1>10, <1>11, <1>12, <1>13, <1>14, <1>15, <1>16, <1>17, <1>18, <1>19, <1>20, <1>21, <1>22, <1>23

(* The registers are pushed in the order of Registers and read back from   *)
(* the top.                                                                *)
LEMMA RegisterPlaces ==
  ASSUME NEW n \in 1 .. 15
  PROVE  PushOrder[n] = Registers[n] /\ Place(Registers[n]) = 16 - n
<1>1. n \in {1, 2, 3, 4, 5, 6, 7, 8, 9, 10, 11, 12, 13, 14, 15}
  OBVIOUS
<1>2. CASE n = 1
  BY <1>2, PlacesAre DEF PushOrder, Registers
<1>3. CASE n = 2
  BY <1>3, PlacesAre DEF PushOrder, Registers
<1>4. CASE n = 3
  BY <1>4, PlacesAre DEF PushOrder, Registers
<1>5. CASE n = 4
  BY <1>5, PlacesAre DEF PushOrder, Registers
<1>6. CASE n = 5
  BY <1>6, PlacesAre DEF PushOrder, Registers
<1>7. CASE n = 6
  BY <1>7, PlacesAre DEF PushOrder, Registers
<1>8. CASE n = 7
  BY <1>8, PlacesAre DEF PushOrder, Registers
<1>9. CASE n = 8
  BY <1>9, PlacesAre DEF PushOrder, Registers
<1>10. CASE n = 9
  BY <1>10, PlacesAre DEF PushOrder, Registers
<1>11. CASE n = 10
  BY <1>11, PlacesAre DEF PushOrder, Registers
<1>12. CASE n = 11
  BY <1>12, PlacesAre DEF PushOrder, Registers
<1>13. CASE n = 12
  BY <1>13, PlacesAre DEF PushOrder, Registers
<1>14. CASE n = 13
  BY <1>14, PlacesAre DEF PushOrder, Registers
<1>15. CASE n = 14
  BY <1>15, PlacesAre DEF PushOrder, Registers
<1>16. CASE n = 15
  BY <1>16, PlacesAre DEF PushOrder, Registers
<1>17. QED
  BY <1>1, <1>2, <1>3, <1>4, <1>5, <1>6, <1>7, <1>8, <1>9, <1>10, <1>11, <1>12, <1>13, <1>14, <1>15, <1>16

LEMMA RegTyped == ASSUME NEW depth \in Nat, NEW n \in 1 .. 15 PROVE Reg(depth, Registers[n]) \in Int
<1> DEFINE c == CHOOSE k \in 1 .. Len(Registers) : Registers[k] = Registers[n]
<1>1. Len(Registers) = 15
  BY DEF Registers
<1>2. c \in 1 .. 15
  BY <1>1
<1>3. Reg(depth, Registers[n]) = 100 + 20 * depth + c
  BY DEF Reg
<1> HIDE DEF c
<1>4. QED
  BY <1>2, <1>3

LEMMA PairJoined ==
  ASSUME NEW S, NEW f \in S, NEW g \in S
  PROVE  << f >> \o << g >> = << f, g >> /\ << >> \o << f, g >> = << f, g >>
<1>1. << f >> \in Seq(S) /\ << f, g >> \in Seq(S)
  OBVIOUS
<1>2. Append(<< f >>, g) = << f, g >>
  <2>1. << f >> \in Seq(S) /\ Len(<< f >>) = 1 /\ << f >>[1] = f
    OBVIOUS
  <2>2. << f, g >> \in Seq(S) /\ Len(<< f, g >>) = 2 /\ << f, g >>[1] = f /\ << f, g >>[2] = g
    OBVIOUS
  <2> DEFINE one == << f >>
             two == << f, g >>
             put == Append(one, g)
  <2> HIDE DEF one, two
  <2>3. /\ put \in Seq(S) /\ Len(put) = Len(one) + 1
        /\ \A n \in 1 .. Len(one) : put[n] = one[n]
        /\ put[Len(one) + 1] = g
    <3>1. one \in Seq(S)
      BY <2>1 DEF one
    <3>2. QED
      BY <3>1, AppendProperties
  <2>4. Len(one) = 1 /\ one[1] = f /\ two \in Seq(S) /\ Len(two) = 2 /\ two[1] = f /\ two[2] = g
    BY <2>1, <2>2 DEF one, two
  <2> HIDE DEF put
  <2>5. put \in Seq(S) /\ Len(put) = 2 /\ put[1] = f /\ put[2] = g
    BY <2>3, <2>4
  <2>6. \A n \in 1 .. 2 : put[n] = two[n]
    BY <2>4, <2>5
  <2>7. put = two
    BY <2>4, <2>5, <2>6, SeqEqual
  <2>8. QED
    BY <2>7 DEF put, one, two
<1>3. Append(<< f >>, g) = << f >> \o << g >>
  BY <1>1, AppendIsConcat
<1>4. QED
  BY <1>1, <1>2, <1>3, ConcatEmptySeq
LEMMA FrameJoined ==
  ASSUME NEW S, NEW w \in Seq(S), Len(w) = 7
  PROVE  /\ << w[1], w[2], w[3], w[4], w[5] >> \in Seq(S) /\ Len(<< w[1], w[2], w[3], w[4], w[5] >>) = 5
         /\ << w[1], w[2], w[3], w[4], w[5] >> \o << w[6], w[7] >> = w
<1> DEFINE l == << w[1], w[2], w[3], w[4], w[5] >>
           m == << w[6], w[7] >>
<1>0. w[1] \in S /\ w[2] \in S /\ w[3] \in S /\ w[4] \in S /\ w[5] \in S /\ w[6] \in S /\ w[7] \in S
  <2>1. \A n \in 1 .. 7 : w[n] \in S
    BY ElementOfSeq
  <2>2. QED
    BY <2>1
<1>1. l \in Seq(S) /\ Len(l) = 5 /\ \A n \in 1 .. 5 : l[n] = w[n]
  BY <1>0
<1>2. m \in Seq(S) /\ Len(m) = 2 /\ m[1] = w[6] /\ m[2] = w[7]
  BY <1>0
<1> HIDE DEF l, m
<1>4. /\ l \o m \in Seq(S) /\ Len(l \o m) = 7
      /\ \A n \in 1 .. 5 : (l \o m)[n] = l[n]
      /\ \A n \in 1 .. 2 : (l \o m)[5 + n] = m[n]
  <2>1. l \in Seq(S) /\ m \in Seq(S)
    BY <1>1, <1>2
  <2>2. /\ l \o m \in Seq(S) /\ Len(l \o m) = Len(l) + Len(m)
        /\ \A n \in 1 .. Len(l) : (l \o m)[n] = l[n]
        /\ \A n \in 1 .. Len(m) : (l \o m)[Len(l) + n] = m[n]
    BY <2>1, Joined
  <2>3. Len(l) = 5 /\ Len(m) = 2
    BY <1>1, <1>2
  <2>4. QED
    BY <2>2, <2>3
<1>5. (l \o m)[6] = w[6] /\ (l \o m)[7] = w[7]
  <2>1. (l \o m)[5 + 1] = m[1] /\ (l \o m)[5 + 2] = m[2] /\ 5 + 1 = 6 /\ 5 + 2 = 7
    BY SMTT(30), <1>4
  <2>2. QED
    BY <1>2, <2>1
<1>6. ASSUME NEW n \in 1 .. 7 PROVE (l \o m)[n] = w[n]
  <2>1. n = 1 \/ n = 2 \/ n = 3 \/ n = 4 \/ n = 5 \/ n = 6 \/ n = 7
    OBVIOUS
  <2>2. QED
    BY SMTT(30), <1>1, <1>4, <1>5, <2>1
<1>7. l \o m = w
  BY <1>4, <1>6, SeqEqual
<1>8. QED
  BY <1>1, <1>7 DEF l, m

LEMMA LastIs ==
  ASSUME NEW S, NEW s \in Seq(S), s # << >>
  PROVE  Last(s) = s[Len(s)] /\ Last(s) \in S /\ Len(s) \in Nat \ {0}
<1>1. Len(s) \in Nat \ {0} /\ Len(s) \in 1 .. Len(s)
  BY EmptySeq
<1>2. s[Len(s)] \in S
  BY <1>1, ElementOfSeq
<1>3. QED
  BY <1>1, <1>2 DEF Last

LEMMA RipTyped == ASSUME TypeInv, NEW depth \in Nat PROVE Rip(depth) \in Int
<1> DEFINE c == CHOOSE n \in 1 .. 5 : Stages[n] = stage
<1>1. \E n \in 1 .. 5 : Stages[n] = stage
  BY DEF TypeInv, Stages
<1>2. c \in 1 .. 5
  BY <1>1
<1>3. Rip(depth) = 1000 + 10 * depth + c
  BY DEF Rip
<1> HIDE DEF c
<1>4. QED
  BY <1>2, <1>3

-----------------------------------------------------------------------------
LEMMA Begun == Init => IInv
<1> SUFFICES ASSUME Init PROVE IInv
  OBVIOUS
<1>1. stack \in Words /\ console \in Seq(Labels \X Int) /\ taken \in Seq(Taken)
  BY EmptySeq DEF Init, Words
<1>2. TypeInv
  <2>1. stage = "init_gdt" /\ gdt = "boot" /\ cs = 40 /\ next_gate = 1 /\ pc = "kmain" /\ eframe = 0
        /\ rflags \in Int
    BY DEF Init, NoInterrupts
  <2>2. idtr \in BOOLEAN /\ idt \in [Vectors -> {0, 8}]
    BY DEF Init
  <2>3. QED
    BY <1>1, <2>1, <2>2 DEF TypeInv, Places
<1>3. BringUp
  BY GatesAre DEF Init, BringUp, Gated
<1>4. OnTheWay /\ InFrame
  BY DEF Init, OnTheWay, InFrame, InHandler
<1>5. QED
  BY <1>2, <1>3, <1>4 DEF IInv

(* kmain runs only while no exception is being handled.                    *)
LEMMA KmainStep ==
  ASSUME IInv, kmain
  PROVE  IInv'
<1>1. pc = "kmain" /\ pc' = "kmain" /\ UNCHANGED <<stack, eframe, console, taken>>
  BY DEF kmain, init_gdt, create_descriptor, load_idt, enable_interrupts, rest_of_kmain
<1>2. OnTheWay' /\ InFrame'
  BY <1>1 DEF OnTheWay, InFrame, InHandler
<1>3. CASE init_gdt
  <2>1. TypeInv'
    BY <1>1, <1>3 DEF IInv, TypeInv, init_gdt
  <2>2. BringUp'
    BY <1>1, <1>3 DEF IInv, BringUp, init_gdt
  <2>3. QED
    BY <1>2, <2>1, <2>2 DEF IInv
<1>4. CASE create_descriptor
  <2>1. /\ next_gate \in 1 .. 21 /\ next_gate' = next_gate + 1
        /\ idt' = [idt EXCEPT ![Gates[next_gate]] = 8] /\ stage = "init_idt"
        /\ UNCHANGED <<stage, gdt, cs, rflags, idtr>>
    BY <1>4, GatesAre DEF create_descriptor, IInv, TypeInv
  <2>2. Gates[next_gate] \in Gated
    BY <2>1, GatesAre
  <2>3. \A v \in Vectors : idt'[v] = IF v = Gates[next_gate] THEN 8 ELSE idt[v]
    BY <2>1 DEF IInv, TypeInv
  <2>4. TypeInv'
    <3>1. idt' \in [Vectors -> {0, 8}]
      BY <2>1 DEF IInv, TypeInv
    <3>2. next_gate' \in Nat \ {0}
      BY <2>1
    <3>3. QED
      BY <1>1, <2>1, <3>1, <3>2 DEF IInv, TypeInv
  <2>5. ASSUME NEW n \in 1 .. Len(Gates), n < next_gate' PROVE idt'[Gates[n]] = 8
    <3>1. Gates[n] \in Vectors
      BY GatesAre, InterruptConstants DEF Gated
    <3>2. CASE n = next_gate
      BY <2>3, <3>1, <3>2
    <3>3. CASE n < next_gate
      BY <2>3, <3>1, <3>3 DEF IInv, BringUp
    <3>4. QED
      BY <2>1, <2>5, <3>2, <3>3
  <2>6. ASSUME NEW v \in Vectors, idt'[v] = 8 PROVE v \in Gated
    BY <2>2, <2>3, <2>6 DEF IInv, BringUp
  <2>7. ~ idtr
    BY <2>1 DEF IInv, BringUp
  <2>8. BringUp'
    BY <2>1, <2>5, <2>6, <2>7 DEF IInv, BringUp
  <2>9. QED
    BY <1>2, <2>4, <2>8 DEF IInv
<1>5. CASE load_idt
  <2>1. TypeInv'
    BY <1>1, <1>5 DEF IInv, TypeInv, load_idt
  <2>2. BringUp'
    BY <1>1, <1>5 DEF IInv, BringUp, load_idt
  <2>3. QED
    BY <1>2, <2>1, <2>2 DEF IInv
<1>6. CASE rest_of_kmain
  <2>1. TypeInv'
    BY <1>1, <1>6 DEF IInv, TypeInv, rest_of_kmain
  <2>2. BringUp'
    BY <1>1, <1>6 DEF IInv, BringUp, rest_of_kmain
  <2>3. QED
    BY <1>2, <2>1, <2>2 DEF IInv
<1>7. CASE enable_interrupts
  <2>1. TypeInv'
    BY <1>1, <1>7 DEF IInv, TypeInv, enable_interrupts, IF_set
  <2>2. BringUp'
    BY <1>1, <1>7 DEF IInv, BringUp, enable_interrupts
  <2>3. QED
    BY <1>2, <2>1, <2>2 DEF IInv
<1>8. QED
  BY <1>3, <1>4, <1>5, <1>6, <1>7 DEF kmain

(* An exception arrives: with the table loaded it can be delivered, and    *)
(* the processor's frame goes onto an aligned stack.                       *)
LEMMA AlwaysDeliverable ==
  ASSUME IInv, idtr, NEW v \in Vectors, NEW e
  PROVE  Deliverable(Delivered(v, e))
<1>1. gdt = "kernel" /\ idt[13] = 8
  BY GatesAre DEF IInv, TypeInv, BringUp
<1>2. idt[v] \in {0, 8}
  BY DEF IInv, TypeInv
<1>3. idt[Delivered(v, e).vector] = 8
  BY <1>1, <1>2 DEF Delivered
<1>4. QED
  BY <1>1, <1>3, KernelCode DEF Deliverable

LEMMA ArriveStep ==
  ASSUME IInv, NEW v \in Vectors, NEW e \in Nat, v \notin PushesErrorCode => e = 0, Arrive(v, e)
  PROVE  IInv'
<1> DEFINE d == Delivered(v, e)
           x == [vector |-> d.vector, error |-> d.error,
                 rip |-> Rip(Len(taken)), cs |-> cs, rflags |-> rflags, rsp |-> Len(stack)]
<1>1. /\ pc # "shutdown" /\ UNCHANGED <<stage, gdt, idt, next_gate, idtr, eframe, console>>
      /\ Deliverable(d) => /\ stack' = CpuFrame(d.vector, d.error) /\ taken' = Append(taken, x)
                           /\ pc' = "stub" /\ cs' = 8 /\ rflags' = NoInterrupts
      /\ ~ Deliverable(d) => pc' = "shutdown" /\ UNCHANGED <<stack, taken, cs, rflags>>
  BY DEF Arrive
<1>a. 13 \in Vectors /\ v \in Nat
  BY InterruptConstants
<1>2. /\ d.vector \in Vectors /\ d.error \in Nat
      /\ d.vector \notin PushesErrorCode => d.error = 0
      /\ idt[v] # 0 => d.vector = v
      /\ idt[v] = 0 => d.vector = 13
  BY <1>a DEF Delivered, PushesErrorCode
<1>3. stack \in Words /\ Len(stack) \in Nat /\ taken \in Seq(Taken) /\ Len(taken) \in Nat /\ cs \in Int
      /\ rflags \in Int /\ idt[v] \in {0, 8}
  BY LenProperties DEF IInv, TypeInv, Words
<1>4. d.vector \in Gated
  <2>1. 13 \in Gated
    BY DEF Gated
  <2>2. idt[v] = 8 => v \in Gated
    BY DEF IInv, BringUp
  <2>3. QED
    BY <1>2, <1>3, <2>1, <2>2
<1>5. x \in Taken
  BY <1>2, <1>3, <1>4, RipTyped DEF IInv, Taken
<1> HIDE DEF d
<1>6. CASE Deliverable(d)
  <2> DEFINE base == Aligned(stack)
  <2>1. base \in Words /\ Len(base) % 2 = 0
    <3>1. CASE Len(stack) % 2 = 0
      BY <1>3, <3>1 DEF Aligned
    <3>2. CASE Len(stack) % 2 # 0
      <4>1. base = Append(stack, 0)
        BY <3>2 DEF Aligned
      <4>2. base \in Words /\ Len(base) = Len(stack) + 1
        BY <1>3, <4>1, AppendProperties DEF Words
      <4>3. QED
        BY <1>3, <3>2, <4>2
    <3>3. QED
      BY <3>1, <3>2
  <2>2. Context(x) \in Words /\ Errors(x) \in Words
    BY <1>2, <1>3, <1>5 DEF Context, Errors, Words, Taken
  <2>3. stack' = (base \o Context(x)) \o Errors(x)
    BY <1>1, <1>6 DEF CpuFrame, Context, Errors
  <2>4. stack' \in Words
    BY <2>1, <2>2, <2>3, ConcatProperties DEF Words
  <2> HIDE DEF base, x
  <2>5. taken' \in Seq(Taken) /\ taken' # << >> /\ Last(taken') = x
    <3>1. /\ taken' = Append(taken, x) /\ Append(taken, x) \in Seq(Taken) /\ Append(taken, x) # << >>
          /\ Len(Append(taken, x)) = Len(taken) + 1 /\ Append(taken, x)[Len(taken) + 1] = x
      BY <1>1, <1>3, <1>5, <1>6, AppendProperties
    <3>2. QED
      BY <3>1 DEF Last
  <2>6. TypeInv'
    BY <1>1, <1>6, <2>4, <2>5 DEF IInv, TypeInv, Places, NoInterrupts
  <2>7. BringUp'
    BY <1>1, <1>6 DEF IInv, BringUp
  <2>8. OnTheWay'
    <3>1. pc' = "stub"
      BY <1>1, <1>6
    <3>2. x.vector \notin PushesErrorCode => x.error = 0
      BY <1>2 DEF x
    <3>3. QED
      BY <2>1, <2>3, <2>5, <3>1, <3>2 DEF OnTheWay
  <2>9. InFrame'
    BY <1>1, <1>6 DEF InFrame, InHandler
  <2>10. QED
    BY <2>6, <2>7, <2>8, <2>9 DEF IInv
<1>7. CASE ~ Deliverable(d)
  <2>1. ~ idtr
    BY <1>7, AlwaysDeliverable DEF d
  <2>2. pc' = "shutdown" /\ UNCHANGED <<stage, gdt, cs, rflags, idt, next_gate, idtr, stack, eframe, console, taken>>
    BY <1>1, <1>7
  <2>3. TypeInv' /\ BringUp'
    BY <2>1, <2>2 DEF IInv, TypeInv, BringUp, Places
  <2>4. OnTheWay' /\ InFrame'
    BY <2>2 DEF OnTheWay, InFrame, InHandler
  <2>5. QED
    BY <2>3, <2>4 DEF IInv
<1>8. QED
  BY <1>6, <1>7

(* The stub completes the frame: seven words for every vector but the      *)
(* double fault, whose stub pushes a zero on top of the error code.        *)
LEMMA StubStep ==
  ASSUME IInv, isr_stub
  PROVE  IInv'
<1> DEFINE x == Last(taken)
           extra == IF x.vector \in PushesZero THEN << 0, x.vector >> ELSE << x.vector >>
<1>1. /\ pc = "stub" /\ pc' = "exception" /\ stack' = stack \o extra
      /\ UNCHANGED <<stage, gdt, cs, rflags, idt, next_gate, idtr, eframe, console, taken>>
  BY DEF isr_stub
<1>2. /\ x \in Taken /\ x.vector \in Gated /\ x.vector \in Int /\ x.error \in Int /\ x.rip \in Int
      /\ x.cs \in Int /\ x.rflags \in Int /\ x.rsp \in Int
      /\ x.vector \notin PushesErrorCode => x.error = 0
  <2>1. x \in Taken
    BY <1>1, LastIs DEF IInv, TypeInv
  <2>2. x.vector \notin PushesErrorCode => x.error = 0
    BY <1>1 DEF IInv, OnTheWay
  <2>3. QED
    BY <2>1, <2>2 DEF Taken, Gated
<1>3. PICK base \in Words : Len(base) % 2 = 0 /\ stack = (base \o Context(x)) \o Errors(x)
  BY <1>1 DEF IInv, OnTheWay
<1> HIDE DEF x
<1> DEFINE c == Context(x)
           r == Errors(x)
           t == << 16, x.rsp, x.rflags, x.cs, x.rip, x.error, x.vector >>
<1>a. c \in Words /\ Len(c) = 5 /\ t \in Words /\ Len(t) = 7 /\ c \o << x.error, x.vector >> = t
  <2>1. x.rsp \in Int /\ x.rflags \in Int /\ x.cs \in Int /\ x.rip \in Int /\ x.error \in Int /\ x.vector \in Int
    BY <1>2
  <2>2. t \in Seq(Int) /\ Len(t) = 7
    BY <2>1
  <2>3. c = << t[1], t[2], t[3], t[4], t[5] >> /\ << x.error, x.vector >> = << t[6], t[7] >>
    BY DEF Context
  <2> HIDE DEF t, c
  <2>4. /\ << t[1], t[2], t[3], t[4], t[5] >> \in Seq(Int) /\ Len(<< t[1], t[2], t[3], t[4], t[5] >>) = 5
        /\ << t[1], t[2], t[3], t[4], t[5] >> \o << t[6], t[7] >> = t
    BY <2>2, FrameJoined
  <2>5. QED
    BY <2>2, <2>3, <2>4 DEF Words
<1>4. c \in Words /\ r \in Words /\ extra \in Words /\ Len(c) = 5
  <2>1. c \in Words /\ Len(c) = 5
    BY <1>a
  <2>2. << >> \in Words /\ << x.error >> \in Words /\ << x.vector >> \in Words /\ << 0, x.vector >> \in Words
    BY <1>2 DEF Words
  <2>3. QED
    BY <2>1, <2>2 DEF Errors
<1>5. t \in Words /\ Len(t) = 7
  BY <1>a
<1>6. x.vector # 8 => c \o (r \o extra) = t
  <2>1. CASE x.vector \in PushesErrorCode /\ x.vector # 8
    <3>1. r = << x.error >> /\ extra = << x.vector >>
      BY <2>1 DEF Errors, PushesErrorCode, PushesZero
    <3>2. r \o extra = << x.error, x.vector >>
      BY <1>2, <3>1, PairJoined
    <3>3. QED
      BY <1>a, <3>2
  <2>2. CASE x.vector \notin PushesErrorCode
    <3>1. x.vector \in PushesZero /\ x.error = 0
      BY <1>2, <2>2 DEF Gated, PushesErrorCode, PushesZero
    <3>2. r = << >> /\ extra = << x.error, x.vector >>
      BY <2>2, <3>1 DEF Errors
    <3>3. r \o extra = << x.error, x.vector >>
      BY <1>2, <3>2, PairJoined
    <3>4. QED
      BY <1>a, <3>3
  <2>3. QED
    BY <2>1, <2>2
<1>7. Len(r \o extra) >= 2
  <2>1. CASE x.vector \in PushesZero
    BY <2>1 DEF Errors
  <2>2. CASE x.vector \notin PushesZero
    <3>1. r = << x.error >> /\ extra = << x.vector >>
      BY <1>2, <2>2 DEF Errors, Gated, PushesErrorCode, PushesZero
    <3>2. QED
      BY <3>1
  <2>3. QED
    BY <2>1, <2>2
<1> HIDE DEF c, r, extra, t
<1>8. stack' = base \o (c \o (r \o extra))
  <2>1. base \o c \in Words /\ r \o extra \in Words
    BY <1>3, <1>4, ConcatProperties DEF Words
  <2>2. ((base \o c) \o r) \o extra = (base \o c) \o (r \o extra)
    <3>1. \A u, v, w \in Words : (u \o v) \o w = u \o (v \o w)
      BY SMTT(30), ConcatAssociative DEF Words
    <3>2. base \o c \in Words /\ r \in Words /\ extra \in Words
      BY <1>4, <2>1
    <3>3. QED
      BY <3>1, <3>2, ZenonT(60)
  <2>3. (base \o c) \o (r \o extra) = base \o (c \o (r \o extra))
    <3>1. \A u, v, w \in Words : (u \o v) \o w = u \o (v \o w)
      BY SMTT(30), ConcatAssociative DEF Words
    <3>2. base \in Words /\ c \in Words /\ r \o extra \in Words
      BY <1>3, <1>4, <2>1
    <3>3. QED
      BY <3>1, <3>2, ZenonT(60)
  <2>4. stack' = ((base \o c) \o r) \o extra
    BY <1>1, <1>3 DEF c, r
  <2>5. QED
    BY <2>2, <2>3, <2>4
<1>9. stack' \in Words /\ Len(stack') >= 7
  <2>1. r \o extra \in Words /\ Len(r \o extra) \in Nat
    BY <1>4, ConcatProperties, LenProperties DEF Words
  <2>2. c \o (r \o extra) \in Words /\ Len(c \o (r \o extra)) = Len(c) + Len(r \o extra)
    BY <1>4, <2>1, ConcatProperties DEF Words
  <2>3. /\ base \o (c \o (r \o extra)) \in Words /\ Len(base) \in Nat
        /\ Len(base \o (c \o (r \o extra))) = Len(base) + Len(c \o (r \o extra))
    BY <1>3, <2>2, ConcatProperties, LenProperties DEF Words
  <2>4. QED
    BY <1>4, <1>7, <1>8, <2>1, <2>2, <2>3
<1>10. TypeInv' /\ BringUp'
  BY <1>1, <1>9 DEF IInv, TypeInv, BringUp, Places
<1>11. OnTheWay'
  <2>1. x.vector # 8 => stack' = base \o t
    BY <1>6, <1>8
  <2>2. QED
    BY <1>1, <1>3, <1>9, <2>1 DEF OnTheWay, DoubleFault, x, t
<1>12. InFrame'
  BY <1>1 DEF InFrame, InHandler
<1>13. QED
  BY <1>10, <1>11, <1>12 DEF IInv

(* The fifteen registers complete the frame, on top of what the stub left. *)
LEMMA ExceptionStep ==
  ASSUME IInv, isr_exception
  PROVE  IInv'
<1> DEFINE x == Last(taken)
           depth == Len(taken) - 1
           regs == [n \in 1 .. 15 |-> Reg(depth, PushOrder[n])]
           L == Len(stack)
<1>1. /\ pc = "exception" /\ pc' = "code" /\ stack' = stack \o regs /\ eframe' = Len(stack')
      /\ UNCHANGED <<stage, gdt, cs, rflags, idt, next_gate, idtr, console, taken>>
  BY DEF isr_exception
<1>2. /\ x \in Taken /\ x.vector \in Int /\ x.error \in Int /\ x.rip \in Int /\ x.cs \in Int /\ x.rflags \in Int /\ x.rsp \in Int
      /\ depth \in Nat
  <2>1. x \in Taken /\ Len(taken) \in Nat \ {0}
    BY <1>1, LastIs DEF IInv, TypeInv
  <2>2. depth \in Nat
    BY <2>1
  <2>3. QED
    BY SMTT(30), <2>1, <2>2 DEF Taken, Gated
<1>3. stack \in Words /\ L \in Nat /\ L >= 7
  BY <1>1, LenProperties DEF IInv, TypeInv, OnTheWay, Words
<1> HIDE DEF depth, x
<1>4. \A n \in 1 .. 15 : regs[n] = Reg(depth, Registers[n]) /\ regs[n] \in Int
  BY <1>2, RegisterPlaces, RegTyped
<1>5. regs \in Words /\ Len(regs) = 15
  <2>1. \A n \in 1 .. 15 : Reg(depth, PushOrder[n]) \in Int
    BY <1>4
  <2>2. QED
    BY <2>1 DEF Words
<1> HIDE DEF regs, L
<1>6. /\ stack' \in Words /\ Len(stack') = L + 15
      /\ \A n \in 1 .. L : stack'[n] = stack[n]
      /\ \A n \in 1 .. 15 : stack'[L + n] = regs[n]
  <2>1. stack \in Seq(Int) /\ regs \in Seq(Int)
    BY <1>3, <1>5 DEF Words
  <2>2. /\ stack \o regs \in Seq(Int) /\ Len(stack \o regs) = L + Len(regs)
        /\ \A n \in 1 .. L : (stack \o regs)[n] = stack[n]
        /\ \A n \in 1 .. Len(regs) : (stack \o regs)[L + n] = regs[n]
    BY <2>1, Joined DEF L
  <2>3. QED
    BY <1>1, <1>5, <2>2 DEF Words
<1>7. eframe' = L + 15 /\ \A name : Field(name)' = stack'[eframe' + 1 - Place(name)]
  BY <1>1, <1>3, <1>6 DEF Field, Place
<1>8. TypeInv' /\ BringUp'
  <2>1. eframe' \in Nat
    BY <1>3, <1>7
  <2>2. QED
    BY <1>1, <1>6, <2>1 DEF IInv, TypeInv, BringUp, Places
<1>9. OnTheWay'
  BY <1>1 DEF OnTheWay
<1>10. ASSUME NEW n \in 1 .. 15 PROVE Field(Registers[n])' = Reg(depth, Registers[n])
  <2>1. eframe' + 1 - Place(Registers[n]) = L + n
    BY <1>3, <1>7, RegisterPlaces
  <2>2. Field(Registers[n])' = stack'[L + n]
    BY <1>7, <2>1
  <2>3. QED
    BY <1>4, <1>6, <2>2
<1>11. ASSUME x.vector # 8
       PROVE  /\ eframe' % 2 = 0
              /\ Field("exception_code")' = x.vector /\ Field("error_code")' = x.error /\ Field("rip")' = x.rip
              /\ Field("cs")' = x.cs /\ Field("rflags")' = x.rflags /\ Field("rsp")' = x.rsp /\ Field("ss")' = 16
  <2> DEFINE t == << 16, x.rsp, x.rflags, x.cs, x.rip, x.error, x.vector >>
  <2>1. PICK base \in Words : Len(base) % 2 = 0 /\ stack = base \o t
    BY <1>1, <1>11 DEF IInv, OnTheWay, DoubleFault, x
  <2>2. /\ t \in Seq(Int) /\ Len(t) = 7 /\ t[1] = 16 /\ t[2] = x.rsp /\ t[3] = x.rflags /\ t[4] = x.cs
        /\ t[5] = x.rip /\ t[6] = x.error /\ t[7] = x.vector
    BY <1>2
  <2> HIDE DEF t
  <2>3. /\ L = Len(base) + 7 /\ Len(base) \in Nat
        /\ \A n \in 1 .. 7 : stack[Len(base) + n] = t[n]
    <3>1. base \in Seq(Int) /\ t \in Seq(Int)
      BY <2>1, <2>2 DEF Words
    <3>2. /\ Len(base \o t) = Len(base) + Len(t) /\ Len(base) \in Nat
          /\ \A n \in 1 .. Len(t) : (base \o t)[Len(base) + n] = t[n]
      BY <3>1, Joined
    <3>3. QED
      BY <2>1, <2>2, <3>2 DEF L
  <2>4. eframe' % 2 = 0
    BY <1>7, <2>1, <2>3
  <2>5. ASSUME NEW p \in 16 .. 22 PROVE stack'[eframe' + 1 - p] = t[23 - p]
    <3>1. \A e, l, b \in Nat : e = l + 15 /\ l = b + 7 =>
            e + 1 - p \in 1 .. l /\ e + 1 - p = b + (23 - p) /\ 23 - p \in 1 .. 7
      OBVIOUS
    <3>2. eframe' + 1 - p \in 1 .. L /\ eframe' + 1 - p = Len(base) + (23 - p) /\ 23 - p \in 1 .. 7
      <4>1. eframe' \in Nat /\ L \in Nat /\ Len(base) \in Nat /\ eframe' = L + 15 /\ L = Len(base) + 7
        BY <1>3, <1>7, <2>3
      <4>2. QED
        BY <3>1, <4>1
    <3>3. QED
      BY <1>6, <2>3, <3>2
  <2>6. ASSUME NEW name, NEW p \in 16 .. 22, Place(name) = p PROVE Field(name)' = t[23 - p]
    BY <1>7, <2>5, <2>6
  <2>7. Field("exception_code")' = t[7] /\ Field("error_code")' = t[6] /\ Field("rip")' = t[5]
    BY <2>6, PlacesAre
  <2>8. Field("cs")' = t[4] /\ Field("rflags")' = t[3] /\ Field("rsp")' = t[2] /\ Field("ss")' = t[1]
    BY <2>6, PlacesAre
  <2>9. QED
    BY <2>2, <2>4, <2>7, <2>8
<1>12. InFrame'
  <2>1. eframe' = Len(stack') /\ eframe' >= 22
    BY <1>1, <1>3, <1>7
  <2>2. Last(taken)' = x /\ (Len(taken) - 1)' = depth
    BY <1>1 DEF x, depth
  <2>3. ContextSaved'
    BY <1>10, <1>11, <2>2 DEF ContextSaved, DoubleFault
  <2>4. pc' = "code"
    BY <1>1
  <2>5. QED
    BY <1>11, <2>1, <2>2, <2>3, <2>4 DEF InFrame, DoubleFault
<1>13. QED
  BY <1>8, <1>9, <1>12 DEF IInv

(* Each line of the handler is read from the frame as it still stands.     *)
LEMMA ReportStep ==
  ASSUME IInv, NEW name \in Labels, NEW next \in Places, InHandler, Report(name, next),
         NEW k \in 0 .. 2, ~ DoubleFault => Lines(k) /\ << name, Field(name) >> = Says(Last(taken))[k + 1],
         next \in {"error", "rip", "spin"},
         next = "error" => k = 0, next = "rip" => k = 1, next = "spin" => k = 2
  PROVE  IInv'
<1> DEFINE line == << name, Field(name) >>
           L == Len(console)
<1>1. /\ console' = Append(console, line) /\ pc' = next
      /\ UNCHANGED <<stage, gdt, cs, rflags, idt, next_gate, idtr, stack, eframe, taken>>
  BY DEF Report
<1>2. Field(name) \in Int
  <2>1. Place(name) \in 16 .. 18 /\ Field(name) = stack[eframe + 1 - Place(name)]
    BY PlacesAre, FieldIs DEF Labels
  <2>2. eframe + 1 - Place(name) \in 1 .. Len(stack)
    <3>1. eframe \in Nat /\ eframe >= 22 /\ eframe = Len(stack)
      BY DEF IInv, InFrame, TypeInv
    <3> DEFINE p == Place(name)
    <3>2. p \in 16 .. 18
      BY <2>1
    <3> HIDE DEF p
    <3>3. eframe + 1 - p \in 1 .. Len(stack)
      BY <3>1, <3>2
    <3>4. QED
      BY <3>3 DEF p
  <2>3. stack \in Seq(Int)
    BY DEF IInv, TypeInv, Words
  <2>4. QED
    BY <2>1, <2>2, <2>3, ElementOfSeq
<1>3. line \in Labels \X Int /\ console \in Seq(Labels \X Int)
  BY <1>2 DEF IInv, TypeInv
<1> HIDE DEF line
<1>4. /\ console' \in Seq(Labels \X Int) /\ L \in Nat /\ Len(console') = L + 1
      /\ \A n \in 1 .. L : console'[n] = console[n]
      /\ console'[L + 1] = line
  BY <1>1, <1>3, AppendProperties, LenProperties
<1> HIDE DEF L
<1>5. TypeInv'
  <2>1. taken # << >>
    BY DEF IInv, TypeInv, InHandler
  <2>2. QED
    BY <1>1, <1>4, <2>1 DEF IInv, TypeInv
<1>6. BringUp'
  BY <1>1 DEF IInv, BringUp
<1>7. OnTheWay'
  BY <1>1 DEF OnTheWay
<1>8. \A n : Field(n)' = Field(n)
  BY <1>1 DEF Field
<1>9. Last(taken)' = Last(taken) /\ Len(taken)' = Len(taken) /\ (DoubleFault' <=> DoubleFault)
  BY <1>1 DEF DoubleFault
<1>10. ContextSaved'
  <2>1. \A n \in 1 .. 15 : Reg(Len(taken) - 1, Registers[n])' = Reg(Len(taken) - 1, Registers[n])
    BY <1>9 DEF Reg
  <2>2. QED
    BY <1>1, <1>8, <1>9, <2>1 DEF IInv, InFrame, ContextSaved
<1>11. ASSUME ~ DoubleFault PROVE Lines(k + 1)'
  <2>1. /\ L >= k /\ \A j \in 1 .. k : console[L - k + j] = Says(Last(taken))[j]
        /\ line = Says(Last(taken))[k + 1]
    BY <1>11 DEF Lines, line, L
  <2>2. Len(console') >= k + 1
    BY <1>4, <2>1
  <2>3. ASSUME NEW j \in 1 .. k + 1 PROVE console'[L + 1 - (k + 1) + j] = Says(Last(taken))[j]
    <3>1. CASE j = k + 1
      <4>1. L + 1 - (k + 1) + j = L + 1
        BY <1>4, <3>1
      <4>2. QED
        BY <1>4, <2>1, <3>1, <4>1
    <3>2. CASE j \in 1 .. k
      <4>1. L + 1 - (k + 1) + j = L - k + j /\ L - k + j \in 1 .. L
        BY <1>4, <2>1, <3>2
      <4>2. QED
        BY <1>4, <2>1, <3>2, <4>1
    <3>3. QED
      BY <2>3, <3>1, <3>2
  <2>4. Says(Last(taken))' = Says(Last(taken))
    BY <1>9 DEF Says
  <2>5. QED
    <3>1. \A j \in 1 .. k + 1 : console'[Len(console') - (k + 1) + j] = Says(Last(taken))'[j]
      BY <1>4, <2>3, <2>4
    <3>2. QED
      BY <2>2, <3>1 DEF Lines
<1>12. InFrame'
  <2>1. eframe' = Len(stack') /\ eframe' >= 22
    BY <1>1 DEF IInv, InFrame
  <2>2. ASSUME ~ DoubleFault'
        PROVE  /\ Field("exception_code")' = Last(taken)'.vector
               /\ Field("error_code")' = Last(taken)'.error
               /\ Field("rip")' = Last(taken)'.rip
    BY <1>8, <1>9, <2>2 DEF IInv, InFrame
  <2>3. ASSUME ~ DoubleFault'
        PROVE  /\ pc' = "error" => Lines(1)'
               /\ pc' = "rip" => Lines(2)'
               /\ pc' = "spin" => Lines(3)'
    <3>1. Lines(k + 1)' /\ pc' = next
      BY <1>1, <1>9, <1>11, <2>3
    <3>2. CASE k = 0
      BY <3>1, <3>2
    <3>3. CASE k = 1
      BY <3>1, <3>3
    <3>4. CASE k = 2
      BY <3>1, <3>4
    <3>5. QED
      BY <3>2, <3>3, <3>4
  <2>4. QED
    BY <1>10, <2>1, <2>2, <2>3 DEF InFrame
<1>13. QED
  BY <1>5, <1>6, <1>7, <1>12 DEF IInv

LEMMA HandlerStep ==
  ASSUME IInv, isr_exception_handler
  PROVE  IInv'
<1> DEFINE x == Last(taken)
<1>1. /\ Says(x)[1] = << "exception_code", x.vector >>
      /\ Says(x)[2] = << "error_code", x.error >>
      /\ Says(x)[3] = << "rip", x.rip >>
  BY DEF Says
<1>2. CASE pc = "code" /\ Report("exception_code", "error")
  <2>1. InHandler /\ "error" \in Places
    BY <1>2 DEF InHandler, Places
  <2>2. ~ DoubleFault => << "exception_code", Field("exception_code") >> = Says(x)[0 + 1]
    BY <1>1, <2>1 DEF IInv, InFrame
  <2>3. Lines(0)
    BY LenProperties DEF Lines, IInv, TypeInv
  <2>4. /\ "exception_code" \in Labels /\ 0 \in 0 .. 2 /\ "error" \in {"error", "rip", "spin"}
        /\ "error" = "error" => 0 = 0
        /\ "error" = "rip" => 0 = 1
        /\ "error" = "spin" => 0 = 2
    BY DEF Labels
  <2>5. QED
    BY <1>2, <2>1, <2>2, <2>3, <2>4, ReportStep, Zenon
<1>3. CASE pc = "error" /\ Report("error_code", "rip")
  <2>1. InHandler /\ "rip" \in Places
    BY <1>3 DEF InHandler, Places
  <2>2. ~ DoubleFault => << "error_code", Field("error_code") >> = Says(x)[1 + 1]
    BY <1>1, <2>1 DEF IInv, InFrame
  <2>3. ~ DoubleFault => Lines(1)
    BY <1>3, <2>1 DEF IInv, InFrame
  <2>4. /\ "error_code" \in Labels /\ 1 \in 0 .. 2 /\ "rip" \in {"error", "rip", "spin"}
        /\ "rip" = "error" => 1 = 0
        /\ "rip" = "rip" => 1 = 1
        /\ "rip" = "spin" => 1 = 2
    BY DEF Labels
  <2>5. QED
    BY <1>3, <2>1, <2>2, <2>3, <2>4, ReportStep, Zenon
<1>4. CASE pc = "rip" /\ Report("rip", "spin")
  <2>1. InHandler /\ "spin" \in Places
    BY <1>4 DEF InHandler, Places
  <2>2. ~ DoubleFault => << "rip", Field("rip") >> = Says(x)[2 + 1]
    BY <1>1, <2>1 DEF IInv, InFrame
  <2>3. ~ DoubleFault => Lines(2)
    BY <1>4, <2>1 DEF IInv, InFrame
  <2>4. /\ "rip" \in Labels /\ 2 \in 0 .. 2 /\ "spin" \in {"error", "rip", "spin"}
        /\ "spin" = "error" => 2 = 0
        /\ "spin" = "rip" => 2 = 1
        /\ "spin" = "spin" => 2 = 2
    BY DEF Labels
  <2>5. QED
    BY <1>4, <2>1, <2>2, <2>3, <2>4, ReportStep, Zenon
<1>5. QED
  BY <1>2, <1>3, <1>4 DEF isr_exception_handler

(* The words of the stack keep their meaning while kmain goes on: what an  *)
(* exception interrupted is in the history, not read again.                *)
LEMMA Inductive == IInv /\ [Next]_vars => IInv'
<1> SUFFICES ASSUME IInv, [Next]_vars PROVE IInv'
  OBVIOUS
<1>1. ASSUME NEW a \in Arrivals \cup Nested, Arrive(a.vector, a.error) PROVE IInv'
  <2>1. a.vector \in 0 .. 31 /\ 0 .. 31 \subseteq Vectors /\ a.error \in Nat /\ (a.vector \notin PushesErrorCode => a.error = 0)
    BY InterruptConstants
  <2>2. QED
    BY <1>1, <2>1, ArriveStep
<1>2. CASE UNCHANGED vars
  <2>1. UNCHANGED <<stage, gdt, cs, rflags, idt, next_gate, idtr, stack, pc, eframe, console, taken>>
    BY <1>2 DEF vars
  <2>2. TypeInv' /\ BringUp'
    BY <2>1 DEF IInv, TypeInv, BringUp
  <2>3. OnTheWay'
    BY <2>1 DEF IInv, OnTheWay, DoubleFault
  <2>4. \A n : Field(n)' = Field(n)
    BY <2>1 DEF Field
  <2>5. ContextSaved'
    <3>1. \A n : Reg(Len(taken) - 1, n)' = Reg(Len(taken) - 1, n)
      BY <2>1 DEF Reg
    <3>2. QED
      BY <2>1, <2>4, <3>1 DEF IInv, InFrame, ContextSaved, InHandler, DoubleFault
  <2>6. InFrame'
    BY <2>1, <2>4, <2>5 DEF IInv, InFrame, InHandler, DoubleFault, Lines
  <2>7. QED
    BY <2>2, <2>3, <2>6 DEF IInv
<1>3. ASSUME NEW v \in Devices, Interrupt(v) PROVE IInv'
  <2>1. v \in Vectors /\ v \notin PushesErrorCode /\ 0 \in Nat
    BY InterruptConstants DEF PushesErrorCode
  <2>2. Arrive(v, 0)
    BY <1>3 DEF Interrupt
  <2>3. QED
    BY <2>1, <2>2, ArriveStep
<1>4. QED
  BY <1>1, <1>2, <1>3, KmainStep, StubStep, ExceptionStep, HandlerStep DEF Next, Handling

LEMMA Always == Spec => []IInv
<1>1. QED
  BY Begun, Inductive, PTL DEF Spec

-----------------------------------------------------------------------------
(* From lidt on no exception resets the machine (init_idt's gates, the     *)
(* kernel's code segment): there is a gate for it or for #GP, and the      *)
(* selector of every gate is valid by then.                                *)
THEOREM NeverResets == Spec => []NoResetOnceLoaded
<1>1. IInv => NoResetOnceLoaded
  BY DEF IInv, BringUp, NoResetOnceLoaded
<1>2. QED
  BY <1>1, Always, PTL

(* Processor, stub, pushaq and ExceptionFrame agree about every word, for  *)
(* every vector that has a gate, any error codes and any depth of nesting: *)
(* what isr_exception_handler prints is the exception that arrived, and    *)
(* the whole interrupted context can be read from its frame.               *)
THEOREM FramesAreTrue == Spec => []FrameTrue
<1>1. ASSUME IInv, pc = "spin", ~ DoubleFault
      PROVE  SubSeq(console, Len(console) - 2, Len(console)) = Says(Last(taken))
  <2> DEFINE L == Len(console)
             x == Last(taken)
             last == SubSeq(console, L - 2, L)
  <2>1. L >= 3 /\ \A k \in 1 .. 3 : console[L - 3 + k] = Says(x)[k]
    BY <1>1 DEF IInv, InFrame, InHandler, Lines
  <2>2. console \in Seq(Labels \X Int) /\ L \in Nat
    BY <1>1, LenProperties DEF IInv, TypeInv
  <2>3. x \in Taken
    BY <1>1, LastIs DEF IInv, TypeInv
  <2>4. Says(x) \in Seq(Labels \X Int) /\ Len(Says(x)) = 3
    <3>1. x.vector \in Int /\ x.error \in Int /\ x.rip \in Int
      BY <2>3 DEF Taken, Gated
    <3>2. /\ << "exception_code", x.vector >> \in Labels \X Int
          /\ << "error_code", x.error >> \in Labels \X Int
          /\ << "rip", x.rip >> \in Labels \X Int
      BY <3>1 DEF Labels
    <3>3. QED
      BY <3>2 DEF Says
  <2> HIDE DEF x
  <2>5. /\ last \in Seq(Labels \X Int) /\ Len(last) = 3
        /\ \A k \in 1 .. 3 : last[k] = console[L - 3 + k]
    <3>1. L - 2 \in 1 .. L + 1 /\ L \in 0 .. L
      BY <2>1, <2>2
    <3>2. /\ last \in Seq(Labels \X Int) /\ Len(last) = L - (L - 2) + 1
          /\ \A k \in 1 .. L - (L - 2) + 1 : last[k] = console[L - 2 + k - 1]
      BY SMTT(30), <2>1, <2>2, <3>1, SubSeqProperties
    <3>3. L - (L - 2) + 1 = 3 /\ \A k \in 1 .. 3 : L - 2 + k - 1 = L - 3 + k
      BY <2>2
    <3>4. QED
      BY <3>2, <3>3
  <2> HIDE DEF last, L
  <2>6. \A k \in 1 .. 3 : last[k] = Says(x)[k]
    BY <2>1, <2>5
  <2>7. last = Says(x)
    BY <2>4, <2>5, <2>6, SeqEqual
  <2>8. QED
    BY <2>7 DEF last, L, x
<1>2. IInv => FrameTrue
  BY <1>1 DEF IInv, InFrame, FrameTrue, ReportTrue, ContextSaved
<1>3. QED
  BY <1>2, Always, PTL
=============================================================================
