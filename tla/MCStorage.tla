------------------------------ MODULE MCStorage ------------------------------
(***************************************************************************)
(* The floppy driver and the file system for TLC.  The file system is      *)
(* written on module BlockDevice, which the driver implements (property    *)
(* IsBlockDevice), so they share no state here: part is the one in use.    *)
(***************************************************************************)
EXTENDS MCFloppy, Fat16

VARIABLE part                 \* "floppy", "writes" or "fat"
all_vars == <<floppy_vars, fat_vars, part>>

(* In part "writes", where calls are followed to their end, the calls are  *)
(* writes over two cylinders, which read and write each of them.           *)
LongWrite(p) == job'[p].op = "none" \/ <<job'[p].op, job'[p].addr, job'[p].value>> = <<"write", 1, 1>>

Init ==
  /\ FloppyInit /\ FatInit
  /\ \/ part \in {"floppy", "writes"} /\ \A e \in Slots : ~root[e].system
     \/ part = "fat" /\ disk = [c \in 0 .. CYLINDERS - 1 |-> [o \in Offsets |-> 0]]

OfFloppy(where, A) == part = where /\ A /\ UNCHANGED <<fat_vars, part>>

FloppyStep == OfFloppy("floppy", FloppyNext)
ControllerStep == OfFloppy("writes", mode = "run" /\ ControllerEnds)
WriteStep(p) == OfFloppy("writes", Step(p) /\ LongWrite(p))
WriteGoesOn(p) == OfFloppy("writes", Continue(p))
FatStep == part = "fat" /\ FatNext /\ UNCHANGED <<floppy_vars, part>>

Next == FloppyStep \/ ControllerStep \/ (\E p \in Procs : WriteStep(p)) \/ FatStep

(* The fairness of Floppy: the controller ends what it executes, and what  *)
(* a process began goes on.                                                *)
Spec ==
  /\ Init /\ [][Next]_all_vars
  /\ WF_all_vars(ControllerStep) /\ \A p \in Procs : WF_all_vars(WriteGoesOn(p))

(* Every driver call ends, through seek's and do_track's retries: it       *)
(* returns or it panics.                                                   *)
WritesEnd == part = "writes" => CallsEnd
=============================================================================
