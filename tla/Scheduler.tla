------------------------------ MODULE Scheduler ------------------------------
(***************************************************************************)
(* The process table and the scheduling primitives of kernel/scheduler.c.  *)
(*                                                                         *)
(* The kernel runs with interrupts masked, so a system call or an          *)
(* interrupt handler is one atomic step, from its entry to its return or   *)
(* to the context switch that suspends it.  Every C function is therefore  *)
(* an operator from the state of the kernel to the state it leaves: the    *)
(* record s has one field per C global (and per field of struct process_t, *)
(* as a function of the pid).  Module Kernel makes these fields VARIABLES. *)
(*                                                                         *)
(* The lists the C code threads through the union state_attr are           *)
(* sequences of pids; Kernel!ListsMatchStates is what makes that reading   *)
(* of a shared union sound.                                                *)
(***************************************************************************)
EXTENDS ProcessLists

CONSTANTS
  NBPROC,        \* size of the process table (30)
  NBQUEUE,       \* size of the queue table (300)
  MAXPRIO,       \* largest priority chprio accepts (256)
  MAXCOUNT,      \* largest queue capacity pcreate accepts (10000)
  ClockSpan,     \* number of values of the unsigned long pit_count (2^32)
  SchedPeriod,   \* timer interrupts per scheduler tick: CLOCKFREQ / SCHEDFREQ
  Messages       \* the values processes exchange through queues

ASSUME SizesAssumption ==
  /\ NBPROC \in Nat /\ NBPROC >= 2
  /\ NBQUEUE \in Nat /\ NBQUEUE >= 1
  /\ MAXPRIO \in Nat /\ MAXPRIO >= 1
  /\ MAXCOUNT \in Nat /\ MAXCOUNT >= 1
  /\ ClockSpan \in Nat /\ ClockSpan >= 1
  /\ SchedPeriod \in Nat /\ SchedPeriod >= 1

NOPID == -1
IDLE == 0                      \* pid of the halt process
Pids == 0 .. NBPROC - 1
Fids == 0 .. NBQUEUE - 1

(* enum process_state_t.  ALIVE_PID compares states with PS_RUNNABLE. *)
PS_DEAD == -2
PS_ZOMBIE == -1
PS_RUNNABLE == 0
PS_RUNNING == 1
PS_ASLEEP == 2
PS_WAIT_CHILD == 3
PS_WAIT_QUEUE_EMPTY == 4
PS_WAIT_QUEUE_FULL == 5
WaitStates == {PS_WAIT_QUEUE_EMPTY, PS_WAIT_QUEUE_FULL}

-----------------------------------------------------------------------------
(* A failed assert, or a read through a NULL pointer, stops the kernel. *)

panic(s) == [s EXCEPT !.mode = "panic"]

assert(s, cond) == IF cond THEN s ELSE panic(s)

-----------------------------------------------------------------------------
(* Moving a process between lists. *)

remove_runnable(s, ps) ==
  IF s.state[ps] = PS_RUNNABLE
  THEN [s EXCEPT !.runnable = RemoveFirst(@, ps)]
  ELSE s

push_runnable(s, ps) ==
  [assert(s, s.state[ps] # PS_RUNNABLE) EXCEPT
     !.state[ps] = PS_RUNNABLE,
     !.attr[ps] = 0,
     !.runnable = InsertAt(@, PrioSlot(@, s.prio, ps), ps)]

(* Fault: the pid is not put back on the stack. *)
push_dead_Unstacked(s, ps) ==
  [assert(s, s.state[ps] # PS_DEAD) EXCEPT !.state[ps] = PS_DEAD, !.attr[ps] = 0]

push_dead(s, ps) ==
  [assert(s, s.state[ps] # PS_DEAD) EXCEPT
     !.state[ps] = PS_DEAD,
     !.attr[ps] = 0,
     !.dead = <<ps>> \o @]

ALIVE_PID(s, pid) == pid \in Pids /\ s.state[pid] >= PS_RUNNABLE
IS_VALID_PID(s, pid) == pid \in Pids /\ s.state[pid] # PS_DEAD

-----------------------------------------------------------------------------
(* tick_scheduler and fix_scheduler. *)

(* Fault: a sleeper due exactly now is left asleep. *)
IsDue_Late(s) ==
  s.asleep # <<>> /\ s.pit_count > s.attr[Head(s.asleep)]

IsDue(s) ==
  s.asleep # <<>> /\ s.pit_count >= s.attr[Head(s.asleep)]

(* One turn of the loop that wakes sleepers. *)
WakeFirst(s) ==
  LET awake == Head(s.asleep) IN
  push_runnable([assert(s, s.state[awake] = PS_ASLEEP) EXCEPT !.asleep = Tail(@)],
                awake)

(* The loop: after at most Len(s.asleep) turns no sleeper at the head is due. *)
WakeTurns(s) ==
  LET turn[i \in 0 .. Len(s.asleep)] ==
        IF i = 0 THEN s
        ELSE LET t == turn[i - 1] IN IF IsDue(t) THEN WakeFirst(t) ELSE t
  IN turn

WakeDue(s) == WakeTurns(s)[Len(s.asleep)]

(* The context switch.  A NULL runnable head is dereferenced. *)
Elect(s) ==
  LET prev == s.active_process
      next == Head(s.runnable)
      popped == [s EXCEPT !.active_process = next, !.runnable = Tail(@)]
      queued == IF s.state[prev] = PS_RUNNING THEN push_runnable(popped, prev)
                ELSE popped
  IN IF s.runnable = <<>> THEN panic(s)
     ELSE [queued EXCEPT !.state[next] = PS_RUNNING]

(* Fault: the quantum never ends in favour of an equal priority. *)
MustElect_Strict(s) ==
  \/ s.state[s.active_process] # PS_RUNNING
  \/ s.runnable # <<>> /\ s.prio[Head(s.runnable)] > s.prio[s.active_process]

MustElect(s) ==
  \/ s.state[s.active_process] # PS_RUNNING
  \/ s.runnable # <<>> /\ s.prio[Head(s.runnable)] >= s.prio[s.active_process]

tick_scheduler(s) ==
  LET awake == WakeDue(s) IN IF MustElect(awake) THEN Elect(awake) ELSE awake

Preempted(s) ==
  \/ s.state[s.active_process] # PS_RUNNING
  \/ s.runnable # <<>> /\ s.prio[s.active_process] < s.prio[Head(s.runnable)]

fix_scheduler(s) == IF Preempted(s) THEN tick_scheduler(s) ELSE s

=============================================================================
