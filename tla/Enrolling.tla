----------------------------- MODULE Enrolling ------------------------------
(* `limine enroll-config` beside other machines: an instance of LimineTool *)
(* whose variables have names of their own.                                *)
CONSTANTS Signature, SumLength, Sum, Enrollments
VARIABLES step, executable, argv, index, reset, bootloader, checked_count, ret, unwritten, first

E == INSTANCE LimineTool WITH i <- index, file <- executable

(* A checksum goes behind a whole signature and nowhere else (limine.c,    *)
(* enroll_config).                                                         *)
Enrolled == E!Enrolled
=============================================================================
