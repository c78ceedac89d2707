----------------------------- MODULE LibcString -----------------------------
(***************************************************************************)
(* The memory and string functions, kernel/src/libc/string.c, byte by      *)
(* byte.  One call runs on a memory of Size bytes; the areas it names may  *)
(* overlap as far as the function allows.                                  *)
(***************************************************************************)
EXTENDS Integers

CONSTANTS
  Size,           \* bytes of memory
  Memories,       \* the contents it may start with
  Calls           \* [fn, dest, src, c, n]: the calls; src is memcmp's second area

Address == 0 .. Size - 1
Byte == 0 .. 255

(* C calls no function on an area outside memory, and memcpy and strcpy    *)
(* only on areas that do not overlap (restrict).                           *)
InMemory(p, n) == p \in Nat /\ n \in Nat /\ p + n <= Size
Apart(p, q, n) == p + n <= q \/ q + n <= p

ASSUME CallsAreLegal ==
  /\ Size \in Nat
  /\ Memories \subseteq [Address -> Byte]
  /\ \A k \in Calls :
       /\ k.fn \in {"memcpy", "memmove", "memset", "memcmp", "strcpy"}
       /\ InMemory(k.dest, k.n) /\ InMemory(k.src, k.n) /\ k.c \in Int
       /\ k.fn \in {"memcpy", "strcpy"} => Apart(k.dest, k.src, k.n)

VARIABLES
  mem,
  call,           \* the call in progress
  i,              \* its loop counter
  libc_result,         \* memcmp's answer
  libc_pc,             \* "loop" or "done"
  before          \* history: memory when the call was made

libc_vars == <<mem, call, i, libc_result, libc_pc, before>>

-----------------------------------------------------------------------------
Down == call.fn = "memmove" /\ call.src < call.dest

(* strcpy has no length: a call's n is the room its two areas have, and it *)
(* is made only on a string that ends within them.                         *)
LibcInit ==
  /\ mem \in Memories
  /\ call \in Calls
  /\ call.fn = "strcpy" => \E k \in 0 .. call.n - 1 : mem[call.src + k] = 0
  /\ i = IF Down THEN call.n ELSE 0
  /\ libc_result = 0
  /\ libc_pc = "loop"
  /\ before = mem

(* Mutant: a loop that forgets the first byte.                             *)
MoreDown_but_first == i > 1

(* The condition of the loop that counts down; memcmp's answer.            *)
MoreDown    == i > 0
Order(a, b) == IF a < b THEN -1 ELSE 1

Put(p, byte) == mem' = [mem EXCEPT ![p] = byte]

Finish(answer) ==
  /\ libc_pc' = "done"
  /\ libc_result' = answer
  /\ UNCHANGED <<mem, call, i, before>>

(* memcpy, and memmove when src > dest.                                    *)
CopyingUp == call.fn = "memcpy" \/ (call.fn = "memmove" /\ call.src > call.dest)

copy_up ==
  /\ libc_pc = "loop" /\ CopyingUp
  /\ \/ /\ i < call.n
        /\ Put(call.dest + i, mem[call.src + i])
        /\ i' = i + 1
        /\ UNCHANGED <<call, libc_result, libc_pc, before>>
     \/ i >= call.n /\ Finish(0)

(* memmove when src < dest.                                                *)
copy_down ==
  /\ libc_pc = "loop" /\ Down
  /\ \/ /\ MoreDown
        /\ Put(call.dest + i - 1, mem[call.src + i - 1])
        /\ i' = i - 1
        /\ UNCHANGED <<call, libc_result, libc_pc, before>>
     \/ ~ MoreDown /\ Finish(0)

(* memmove of an area onto itself.                                         *)
copy_nothing ==
  /\ libc_pc = "loop" /\ call.fn = "memmove" /\ call.src = call.dest
  /\ Finish(0)

memset ==
  /\ libc_pc = "loop" /\ call.fn = "memset"
  /\ \/ /\ i < call.n
        /\ Put(call.dest + i, call.c % 256)
        /\ i' = i + 1
        /\ UNCHANGED <<call, libc_result, libc_pc, before>>
     \/ i >= call.n /\ Finish(0)

memcmp ==
  /\ libc_pc = "loop" /\ call.fn = "memcmp"
  /\ LET a == mem[call.dest + i]  b == mem[call.src + i] IN
     \/ /\ i < call.n /\ a = b
        /\ i' = i + 1
        /\ UNCHANGED <<mem, call, libc_result, libc_pc, before>>
     \/ i < call.n /\ a # b /\ Finish(Order(a, b))
     \/ i >= call.n /\ Finish(0)

(* strcpy stops at the terminator without copying it.                      *)
strcpy ==
  /\ libc_pc = "loop" /\ call.fn = "strcpy"
  /\ \/ /\ mem[call.src + i] # 0
        /\ Put(call.dest + i, mem[call.src + i])
        /\ i' = i + 1
        /\ UNCHANGED <<call, libc_result, libc_pc, before>>
     \/ mem[call.src + i] = 0 /\ Finish(0)

LibcNext == copy_up \/ copy_down \/ copy_nothing \/ memset \/ memcmp \/ strcpy

LibcSpec == LibcInit /\ [][LibcNext]_libc_vars /\ WF_libc_vars(LibcNext)

-----------------------------------------------------------------------------
Dest == call.dest .. call.dest + call.n - 1

(* memcpy and memmove leave in dest what src held before the call, also    *)
(* when the two overlap on either side, memset the low byte of c, and none *)
(* touches anything else: no byte of src is overwritten before it has been *)
(* copied.                                                                 *)
Wanted(a) == IF call.fn = "memset" THEN call.c % 256 ELSE before[call.src + (a - call.dest)]

AreaWritten ==
  libc_pc = "done" /\ call.fn \in {"memcpy", "memmove", "memset"} =>
    \A a \in Address : mem[a] = IF a \in Dest THEN Wanted(a) ELSE before[a]

(* memcmp tells, by the first byte that differs, how the areas compare.    *)
CompareCorrect ==
  libc_pc = "done" /\ call.fn = "memcmp" =>
    LET differ == {k \in 0 .. call.n - 1 : before[call.dest + k] # before[call.src + k]}
        first  == CHOOSE k \in differ : \A l \in differ : k <= l
    IN /\ mem = before
       /\ libc_result = IF differ = {} THEN 0
                   ELSE IF before[call.dest + first] < before[call.src + first] THEN -1 ELSE 1

(* strcpy copies the string and nothing else: its terminator is not put    *)
(* behind the copy, which ends only if the destination held a zero there.  *)
StringCopied ==
  libc_pc = "done" /\ call.fn = "strcpy" =>
    LET len == CHOOSE k \in 0 .. call.n - 1 :
                 /\ before[call.src + k] = 0
                 /\ \A l \in 0 .. k - 1 : before[call.src + l] # 0
    IN \A a \in Address :
         mem[a] = IF a \in call.dest .. call.dest + len - 1
                  THEN before[call.src + (a - call.dest)] ELSE before[a]

(* Every call does what its function promises, whatever areas it is given. *)
CallCorrect == AreaWritten /\ CompareCorrect /\ StringCopied
=============================================================================
