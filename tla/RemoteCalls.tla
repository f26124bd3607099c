------------------------------ MODULE RemoteCalls ------------------------------
(***************************************************************************)
(* What a debugger relies on: its commands are carried out in the order    *)
(* given, none is skipped, and the answer it gets to a command is that     *)
(* command's answer, after the command was carried out.  A command may be  *)
(* carried out again while it is unanswered (its acknowledgement may have  *)
(* been lost).                                                             *)
(***************************************************************************)
EXTENDS Naturals

CONSTANT NCommands

VARIABLES answered,           \* commands gdb has the answer of
          done                \* commands carried out at least once
vars == <<answered, done>>

Init == answered = 0 /\ done = 0

Execute == done = answered /\ done < NCommands /\ done' = done + 1 /\ UNCHANGED answered

Answer == answered < done /\ answered' = answered + 1 /\ UNCHANGED done

Spec == Init /\ [][Execute \/ Answer]_vars
=============================================================================
