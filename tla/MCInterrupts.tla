---------------------------- MODULE MCInterrupts ----------------------------
(* Every vector interrupts kmain, and two devices once it lets them; a     *)
(* page fault, an NMI, a vector without a gate or a double fault may then  *)
(* hit the stub or the handler.                                            *)
EXTENDS Interrupts

(* Error codes: zero for #DF and #AC, zero or not for the other vectors    *)
(* that have one.                                                          *)
ErrorsOf(v) ==
  IF v \in {10, 11, 12, 13, 14, 21} THEN {0, 5} ELSE {0}

MCArrivals == UNION {{[vector |-> v, error |-> e] : e \in ErrorsOf(v)} : v \in 0 .. 31}
MCVectors == 0 .. 33
MCDevices == {32, 33}
MCNested == {a \in MCArrivals : a.vector \in {2, 8, 14, 15}}
=============================================================================
