------------------------------ MODULE MCKernel -------------------------------
(***************************************************************************)
(* Instances of Kernel for TLC.  The .cfg files give the other constants   *)
(* their values; an empty set of inputs leaves a system call out.          *)
(***************************************************************************)
EXTENDS KernelProperties

AnyChild == {NOPID}
AnyNegative == {-2, NOPID}
ChildOrAny == {NOPID, 1, 2, 3}

(* No action compares messages with anything but Uninit. *)
MessageSymmetry == Permutations(Messages)
=============================================================================
