---------------------------- MODULE ProcessLists -----------------------------
(***************************************************************************)
(* The linked lists of processes of kernel/scheduler.c and kernel/queues.c *)
(* as sequences of pids: where an ordered insertion walks to, and what it  *)
(* means for a list to hold a set of processes.                            *)
(***************************************************************************)
EXTENDS Integers, SequencesExt

(* Fault: in front of the processes of the same priority. *)
PrioSlot_FrontOfEquals(list, prio, ps) ==
  Min({i \in 1 .. Len(list) : prio[ps] >= prio[list[i]]} \cup {Len(list) + 1})

(* Behind every process of the same priority, before the first lower one. *)
PrioSlot(list, prio, ps) ==
  Min({i \in 1 .. Len(list) : prio[ps] > prio[list[i]]} \cup {Len(list) + 1})

(* Before the first process that wakes at the same time or later. *)
ClockSlot(list, clocks, clock) ==
  Min({i \in 1 .. Len(list) : clock <= clocks[list[i]]} \cup {Len(list) + 1})

(* The list holds the processes of S, once each. *)
IsListOf(list, S) == IsInjective(list) /\ Range(list) = S

=============================================================================
