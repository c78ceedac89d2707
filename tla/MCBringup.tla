----------------------------- MODULE MCBringup ------------------------------
(* A heap of 160 bytes, up to seven map entries of every type and up to    *)
(* three framebuffers: arrays that fit with room, to the byte, and not.    *)
(* An int holds 16 numbers: 9 and 13 are negative as one, and 18 reads 2.  *)
(* Every kind of chip, short messages of bytes that can be told apart.     *)
EXTENDS Bringup

Entry(k) == [base |-> 1000 * k, length |-> 1000, type |-> << 3, 6, 9, 2, 5, 18, 1, 4, 7, 0, 13, 8 >>[k]]

MCAnswers ==
  {[present |-> p, hhdm |-> 77, kernel_address |-> 88,
    memmap |-> [k \in 1 .. m |-> Entry(k + s)], framebuffers |-> [k \in 1 .. f |-> 500 + k]] :
     p \in {Requests} \cup {Requests \ {r} : r \in Requests},
     m \in 0 .. 7, f \in 0 .. 3, s \in {0, 5}}

MCDevices == {"good", "slow", "broken", "dead", "absent"}
MCGoodDevice == {"good"}
MCGreeting == <<83, 13>>
MCProgress == <<71, 73, 80>>
MCReport == <<69, 82>>
=============================================================================
