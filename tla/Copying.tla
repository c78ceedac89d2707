------------------------------ MODULE Copying -------------------------------
(* nob_copy_directory_recursively beside other machines: an instance of    *)
(* NobFiles whose variables have names of their own.                       *)
CONSTANTS CopyTrees, CopyTargets, BufSize, MaxCopyFaults
VARIABLES src, dst, before, stack, temp, copying, copy_pc, ok, copy_faults

F == INSTANCE NobFiles WITH Trees <- CopyTrees, Targets <- CopyTargets, MaxFaults <- MaxCopyFaults,
                            pc <- copy_pc, faults <- copy_faults

(* A copy that answers true is one where nothing but files and directories *)
(* is in its way; what it has no business with is changed only through a   *)
(* link of the target; and no call leaves the temporary storage otherwise  *)
(* than it found it (nob.h, from nob_copy_directory_recursively).          *)
CopyFaithful == F!CopyFaithful
=============================================================================
