------------------------------ MODULE Bringup -------------------------------
(***************************************************************************)
(* From the boot loader to the first message: the boot stub, then kmain,   *)
(* whose first call is init_serial (kernel/src/main.c).  A stub that       *)
(* crashes never enters kmain, and the console stays as the firmware left  *)
(* it.  What is typed before kmain is what is typed before init_serial's   *)
(* first outb.                                                             *)
(***************************************************************************)
EXTENDS Bootstub, Serial

bringup_vars == <<stub_vars, vars>>

BringupInit == StubInit /\ Init

kstart == StubNext /\ UNCHANGED vars

InKmain(step_) == stub_pc = "kmain" /\ step_ /\ UNCHANGED stub_vars
kmain == InKmain(Next)

(* The processor executes, a working chip shifts.                          *)
BringupSpec ==
  /\ BringupInit /\ [][kstart \/ kmain]_bringup_vars
  /\ WF_bringup_vars(kstart)
  /\ WF_bringup_vars(InKmain(Program)) /\ WF_bringup_vars(InKmain(Shift))

-----------------------------------------------------------------------------
(* If the stub gets as far as kmain, everything printed arrives: the       *)
(* console needs nothing of the stub but that.                             *)
KmainDelivers == <>(stub_pc = "kmain") => AllDelivered
=============================================================================
