----------------------------- MODULE Interrupts -----------------------------
(***************************************************************************)
(* Segment and interrupt tables and the exception path: gdt.c, gdt.asm,    *)
(* idt.c, isr.asm, isr_handlers.c, in the order kmain brings them up.      *)
(*                                                                         *)
(* The processor side is external: at any moment, between any two steps of *)
(* the kernel, of a stub or of the handler itself, an exception may arrive *)
(* and have the processor push its frame on the one kernel stack.  A word  *)
(* of the stack is a number; the last element of stack is its top.         *)
(***************************************************************************)
EXTENDS Integers, Sequences, SequencesExt

CONSTANTS
  Vectors,        \* numbers a gate can have, 0 to 255 in the code
  Devices,        \* vectors on which a device may interrupt kmain
  Arrivals,       \* [vector, error]: exceptions that may interrupt kmain
  Nested,         \* those that may interrupt an exception's own handling
  MaxDepth        \* bound: exceptions taken in one run

(* Exceptions that push an error code: #DF #TS #NP #SS #GP #PF #AC #CP.    *)
PushesErrorCode == {8, 10, 11, 12, 13, 14, 17, 21}

ASSUME InterruptConstants ==
  /\ 0 .. 31 \subseteq Vectors /\ Vectors \subseteq Nat
  /\ Devices \subseteq Vectors \ (0 .. 31)
  /\ \A a \in Arrivals \cup Nested :
       /\ a.vector \in 0 .. 31 /\ a.error \in Nat
       /\ a.vector \notin PushesErrorCode => a.error = 0
  /\ MaxDepth \in Nat

VARIABLES
  stage,          \* how far kmain is
  gdt, cs,        \* whose segment table is loaded; the code selector in use
  rflags,         \* the flags register
  idt,            \* gates written: vector -> selector, 0 where there is none
  next_gate,      \* init_idt: the create_descriptor call it is at
  idtr,           \* lidt has loaded the table
  stack,          \* the kernel stack
  pc,             \* "kmain", or where the current exception's handling is
  eframe,         \* isr_exception_handler's argument: the stack top it was given
  console,        \* what the handler has printed: <<what, value>>
  taken           \* history: the exceptions taken, with what each interrupted

vars == <<stage, gdt, cs, rflags, idt, next_gate, idtr, stack, pc, eframe, console, taken>>

(* Where execution is, and what is in the registers, told apart by how     *)
(* many exceptions deep it is.                                             *)
Stages == <<"init_gdt", "init_idt", "lidt", "sti", "running">>
Rip(depth)     == 1000 + 10 * depth + (CHOOSE n \in 1 .. 5 : Stages[n] = stage)
Registers ==
  << "rax", "rbx", "rcx", "rdx", "rsi", "rdi", "rbp",
     "r8", "r9", "r10", "r11", "r12", "r13", "r14", "r15" >>
Reg(depth, name) ==
  100 + 20 * depth + (CHOOSE n \in 1 .. Len(Registers) : Registers[n] = name)

-----------------------------------------------------------------------------
(* The processor (external).                                               *)

Aligned(s) == IF Len(s) % 2 = 0 THEN s ELSE Append(s, 0)

(* Delivery through a gate: the stack is aligned to 16 bytes, then ss,     *)
(* rsp, rflags, cs, rip and, for some vectors, an error code go onto it.   *)
CpuFrame(v, error) ==
  Aligned(stack) \o << 16, Len(stack), rflags, cs, Rip(Len(taken)) >>
                 \o (IF v \in PushesErrorCode THEN << error >> ELSE << >>)

(* Without a gate for the vector the processor raises #GP instead, with an *)
(* error code that names the missing gate and tells by its lowest bit      *)
(* whether a device asked for it.                                          *)
Delivered(v, error) ==
  IF idt[v] # 0 THEN [vector |-> v, error |-> error]
                ELSE [vector |-> 13, error |-> 8 * v + (IF v \in Devices THEN 3 ELSE 2)]

(* The selector of a gate must name a 64-bit code segment of the table     *)
(* loaded: present, for programs at level 0, of type code, flag L set and  *)
(* D not.  Selector 0x08 does in the kernel's table and does not in the    *)
(* boot loader's, where it is 16-bit code.                                 *)
Bit(byte, value) == (byte \div value) % 2 = 1

Code64(d) ==
  /\ Bit(d.access_byte, 128) /\ Bit(d.access_byte, 16) /\ Bit(d.access_byte, 8)
  /\ ~ Bit(d.access_byte, 64) /\ ~ Bit(d.access_byte, 32)
  /\ Bit(d.limit_and_flags, 32) /\ ~ Bit(d.limit_and_flags, 64)

Segment(access_byte, limit_and_flags) ==
  [access_byte |-> access_byte, limit_and_flags |-> limit_and_flags]

BootGdt(selector) ==
  IF selector \in {8, 40} THEN Segment(154, IF selector = 40 THEN 32 ELSE 0) ELSE Segment(0, 0)

(* gdt.c: null, kernel code and data, user code and data, eight bytes each *)
(* from selector 0 on.                                                     *)
KernelGdt ==
  << Segment(0, 0), Segment(152, 32), Segment(146, 32), Segment(248, 32), Segment(242, 32) >>

Descriptor(selector) ==
  IF gdt = "boot" THEN BootGdt(selector)
  ELSE IF selector \in 0 .. 39 THEN KernelGdt[selector \div 8 + 1] ELSE Segment(0, 0)

Deliverable(d) == idtr /\ Code64(Descriptor(idt[d.vector]))

(* The flags that never change are set; sti sets IF, and delivery through  *)
(* an interrupt gate, which all gates here are, clears it.                 *)
NoInterrupts == 2
IF_set       == 512 + 2

Arrive(v, error) ==
  LET d == Delivered(v, error) IN
  /\ pc # "shutdown"
  /\ Len(taken) < MaxDepth
  /\ IF Deliverable(d)
     THEN /\ stack' = CpuFrame(d.vector, d.error)
          /\ taken' = Append(taken, [vector |-> d.vector, error |-> d.error,
                                     rip |-> Rip(Len(taken)), cs |-> cs,
                                     rflags |-> rflags, rsp |-> Len(stack)])
          /\ pc' = "stub"
          /\ cs' = 8
          /\ rflags' = NoInterrupts
     ELSE /\ pc' = "shutdown"
          /\ UNCHANGED <<stack, taken, cs, rflags>>
  /\ UNCHANGED <<stage, gdt, idt, next_gate, idtr, eframe, console>>

Interrupt(v) == pc = "kmain" /\ rflags = IF_set /\ Arrive(v, 0)

-----------------------------------------------------------------------------
(* kmain: init_gdt, then init_idt.                                         *)

Init ==
  /\ stage = "init_gdt"
  /\ gdt = "boot" /\ cs = 40
  /\ rflags = NoInterrupts
  /\ idt = [v \in Vectors |-> 0]
  /\ next_gate = 1
  /\ idtr = FALSE
  /\ stack = << >>
  /\ pc = "kmain"
  /\ eframe = 0
  /\ console = << >>
  /\ taken = << >>

(* lgdt, then a far return into the new code segment.                      *)
init_gdt ==
  /\ pc = "kmain"
  /\ stage = "init_gdt"
  /\ gdt' = "kernel"
  /\ cs' = 8
  /\ stage' = "init_idt"
  /\ UNCHANGED <<rflags, idt, next_gate, idtr, stack, pc, eframe, console, taken>>

(* Mutant: no gate for #GP. *)
Gates_without_13 == [n \in 1 .. 13 |-> n - 1] \o << 14 >> \o [n \in 1 .. 6 |-> n + 15]

(* The vectors init_idt writes gates for, in its order; 0x0F is skipped.   *)
Gates == [n \in 1 .. 15 |-> n - 1] \o [n \in 1 .. 6 |-> n + 15]

create_descriptor ==
  /\ pc = "kmain"
  /\ stage = "init_idt"
  /\ next_gate <= Len(Gates)
  /\ idt' = [idt EXCEPT ![Gates[next_gate]] = 8]
  /\ next_gate' = next_gate + 1
  /\ UNCHANGED <<stage, gdt, cs, rflags, idtr, stack, pc, eframe, console, taken>>

load_idt ==
  /\ pc = "kmain"
  /\ stage = "init_idt"
  /\ next_gate > Len(Gates)
  /\ idtr' = TRUE
  /\ stage' = "lidt"
  /\ UNCHANGED <<gdt, cs, rflags, idt, next_gate, stack, pc, eframe, console, taken>>

enable_interrupts ==
  /\ pc = "kmain"
  /\ stage = "lidt"
  /\ rflags' = IF_set
  /\ stage' = "sti"
  /\ UNCHANGED <<gdt, cs, idt, next_gate, idtr, stack, pc, eframe, console, taken>>

rest_of_kmain ==
  /\ pc = "kmain"
  /\ stage = "sti"
  /\ stage' = "running"
  /\ UNCHANGED <<gdt, cs, rflags, idt, next_gate, idtr, stack, pc, eframe, console, taken>>

kmain == init_gdt \/ create_descriptor \/ load_idt \/ enable_interrupts \/ rest_of_kmain

-----------------------------------------------------------------------------
(* Mutant: the stubs of #MF and #MC push nothing for the error code. *)
PushesZero_but_two == {0, 1, 2, 3, 4, 5, 6, 7, 8, 9, 19, 20}

(* isr.asm: the stub of each vector pushes a zero in place of the error    *)
(* code, or nothing, and the number of its vector.                         *)
PushesZero == {0, 1, 2, 3, 4, 5, 6, 7, 8, 9, 16, 18, 19, 20}

isr_stub ==
  /\ pc = "stub"
  /\ LET v == Last(taken).vector IN
     stack' = stack \o (IF v \in PushesZero THEN << 0, v >> ELSE << v >>)
  /\ pc' = "exception"
  /\ UNCHANGED <<stage, gdt, cs, rflags, idt, next_gate, idtr, eframe, console, taken>>

(* pushaq, and the order in which ExceptionFrame reads it back.            *)
PushOrder == << "rax", "rbx", "rcx", "rdx", "rsi", "rdi", "rbp",
                "r8", "r9", "r10", "r11", "r12", "r13", "r14", "r15" >>

ExceptionFrame ==
  << "r15", "r14", "r13", "r12", "r11", "r10", "r9", "r8",
     "rbp", "rdi", "rsi", "rdx", "rcx", "rbx", "rax",
     "exception_code", "error_code", "rip", "cs", "rflags", "rsp", "ss" >>

(* The stub has touched no register: they are the interrupted code's.      *)
isr_exception ==
  /\ pc = "exception"
  /\ stack' = stack \o [n \in 1 .. 15 |-> Reg(Len(taken) - 1, PushOrder[n])]
  /\ eframe' = Len(stack')
  /\ pc' = "code"
  /\ UNCHANGED <<stage, gdt, cs, rflags, idt, next_gate, idtr, console, taken>>

(* The word eframe->name.                                                  *)
Field(name) ==
  stack[eframe + 1 - (CHOOSE n \in 1 .. Len(ExceptionFrame) : ExceptionFrame[n] = name)]

Report(name, next) ==
  /\ console' = Append(console, <<name, Field(name)>>)
  /\ pc' = next
  /\ UNCHANGED <<stage, gdt, cs, rflags, idt, next_gate, idtr, stack, eframe, taken>>

(* Mutant: the third line left out. *)
isr_exception_handler_short ==
  \/ pc = "code" /\ Report("exception_code", "error")
  \/ pc = "error" /\ Report("error_code", "rip")

(* isr_exception_handler: three lines, then for (;;).  The popaq and iretq *)
(* behind the call are never reached.                                      *)
isr_exception_handler ==
  \/ pc = "code"  /\ Report("exception_code", "error")
  \/ pc = "error" /\ Report("error_code", "rip")
  \/ pc = "rip"   /\ Report("rip", "spin")

Handling == isr_stub \/ isr_exception \/ isr_exception_handler

Next ==
  \/ kmain
  \/ Handling
  \/ \E v \in Devices : Interrupt(v)
  \/ pc = "kmain" /\ \E a \in Arrivals : Arrive(a.vector, a.error)
  \/ pc # "kmain" /\ \E a \in Nested : Arrive(a.vector, a.error)

(* The processor executes instructions; nothing makes it raise exceptions, *)
(* and no device has to interrupt.                                         *)
Spec == Init /\ [][Next]_vars /\ WF_vars(kmain) /\ WF_vars(Handling)

-----------------------------------------------------------------------------
InHandler == pc \in {"code", "error", "rip", "spin"}
DoubleFault == Last(taken).vector = 8

(* Processor, stub and handler agree on the frame: what the handler prints *)
(* is the exception's vector, its error code, or 0 if it has none, and the *)
(* address it interrupted, for every vector but the double fault, however  *)
(* exceptions nest; a device's interrupt is reported as the #GP it becomes *)
(* for want of a gate.                                                     *)
Says(x) == << <<"exception_code", x.vector>>, <<"error_code", x.error>>, <<"rip", x.rip>> >>

ReportTrue ==
  pc = "spin" /\ ~ DoubleFault =>
    SubSeq(console, Len(console) - 2, Len(console)) = Says(Last(taken))

(* All of the interrupted context is in the frame where ExceptionFrame     *)
(* says it is: every register pushaq saved, whichever vector, and what the *)
(* processor pushed.  The handler, a C function, is called with the stack  *)
(* aligned to 16 bytes as its ABI asks, also on top of another exception.  *)
ContextSaved ==
  InHandler =>
    /\ \A n \in 1 .. 15 : Field(Registers[n]) = Reg(Len(taken) - 1, Registers[n])
    /\ ~ DoubleFault =>
         /\ eframe % 2 = 0
         /\ Field("cs") = Last(taken).cs
         /\ Field("rflags") = Last(taken).rflags
         /\ Field("rsp") = Last(taken).rsp
         /\ Field("ss") = 16

(* The frame is true, in what is printed of it and in what is not.         *)
FrameTrue == ReportTrue /\ ContextSaved

(* From lidt on no exception and no device resets the machine: each vector *)
(* has a gate or turns into one that has, and the selector in the gates is *)
(* already valid.                                                          *)
NoResetOnceLoaded == idtr => pc # "shutdown"

(* An exception once taken is reported in full, or another one on top.     *)
Reported == pc = "stub" ~> pc = "spin"

(* The handler prints "RIP: %x" of the frame it is handed                  *)
(* (isr_handlers.c:7): the address of the interrupted instruction.         *)
RipPrintedIsRip == pc = "spin" => Last(console) = <<"rip", Last(taken).rip>>
=============================================================================
