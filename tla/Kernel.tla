------------------------------- MODULE Kernel --------------------------------
(***************************************************************************)
(* The kernel of CalmOS as user programs and the timer drive it: the       *)
(* process system calls of kernel/scheduler.c, the queue system calls of   *)
(* kernel/queues.c and the timer interrupt of kernel/interrupt.c.          *)
(*                                                                         *)
(* Interrupts are masked in kernel mode (interrupt gates, and cli around   *)
(* the halt of the idle process), so each system call is one step.  A call *)
(* that suspends its caller has a second part, after the context switch    *)
(* that brings the caller back: call[p] says which one is pending, and the *)
(* pending part of the active process is the only step possible.           *)
(*                                                                         *)
(* A call refused by an early return changes nothing: it is a stuttering   *)
(* step, so the guards below are the negations of those returns.           *)
(***************************************************************************)
EXTENDS Queues

CONSTANTS
  Prios,             \* priorities programs pass to start
  NewPrios,          \* priorities programs pass to chprio
  WaitPids,          \* pids programs pass to waitpid
  SleepClocks,       \* clocks programs pass to wait_clock
  RetVals,           \* exit codes
  Counts,            \* capacities programs pass to pcreate
  UserFids,          \* queue ids programs pass to the queue calls
  BUFFER_SIZE,       \* capacity of the queue of the keyboard (2000)
  StackAllocMayFail, \* whether user_stack_alloc may return NULL
  MemAllocMayFail    \* whether mem_alloc may return NULL

ASSUME InputsAssumption ==
  /\ Prios \subseteq Int /\ NewPrios \subseteq Int
  /\ WaitPids \subseteq Int /\ RetVals \subseteq Int
  /\ SleepClocks \subseteq 0 .. ClockSpan - 1
  /\ Counts \subseteq Int /\ UserFids \subseteq Int
  /\ BUFFER_SIZE \in 1 .. MAXCOUNT
  /\ StackAllocMayFail \in BOOLEAN /\ MemAllocMayFail \in BOOLEAN

VARIABLES
  state, prio, parent,  \* struct process_t, by pid
  attr,                 \* scalar in state_attr: wake-up clock, retval or fid
  call,                 \* system call p is suspended in, "user" if none
  local, message,       \* locals of that call: child_pid or retval, message
  active_process,
  runnable, dead, asleep,  \* the lists of scheduler.c
  queues, waiting,         \* queues.c
  pit_count,
  mode                  \* "run", or "panic" after a failed assert

vars == <<state, prio, parent, attr, call, local, message, active_process,
          runnable, dead, asleep, queues, waiting, pit_count, mode>>

K == [state |-> state, prio |-> prio, parent |-> parent, attr |-> attr,
      call |-> call, local |-> local, message |-> message,
      active_process |-> active_process, runnable |-> runnable, dead |-> dead,
      asleep |-> asleep, queues |-> queues, waiting |-> waiting,
      pit_count |-> pit_count, mode |-> mode]

(* The quantifier has TLC evaluate s once. *)
Becomes(s) ==
  \E t \in {s} :
    /\ state' = t.state /\ prio' = t.prio /\ parent' = t.parent
    /\ attr' = t.attr /\ call' = t.call
    /\ local' = t.local /\ message' = t.message
    /\ active_process' = t.active_process
    /\ runnable' = t.runnable /\ dead' = t.dead /\ asleep' = t.asleep
    /\ queues' = t.queues /\ waiting' = t.waiting
    /\ pit_count' = t.pit_count /\ mode' = t.mode

-----------------------------------------------------------------------------
(* Priorities and creation. *)

(* Fault: a runnable process keeps its place in the list. *)
chprio_InPlace(s, pid, newprio) ==
  fix_scheduler([s EXCEPT !.prio[pid] = newprio])

chprio(s, pid, newprio) ==
  LET changed == [s EXCEPT !.prio[pid] = newprio] IN
  fix_scheduler(
    IF s.state[pid] = PS_RUNNABLE
    THEN push_runnable([remove_runnable(changed, pid) EXCEPT
                          !.state[pid] = PS_ZOMBIE], pid)
    ELSE IF s.state[pid] \in WaitStates THEN queue_reorder(changed, pid)
    ELSE changed)

(* allocated: whether user_stack_alloc found room.  If not the function    *)
(* returns with the pid already off the dead stack.                        *)
start_user_background(s, newprio, allocated) ==
  LET ps == Head(s.dead)
      filled == [assert(s, s.state[ps] = PS_DEAD) EXCEPT
                   !.dead = Tail(@), !.prio[ps] = newprio,
                   !.parent[ps] = s.active_process]
  IN IF allocated THEN push_runnable(filled, ps) ELSE filled

(* Fault: the new process is not compared with the active one. *)
start_user_NoFix(s, newprio, allocated) ==
  start_user_background(s, newprio, allocated)

start_user(s, newprio, allocated) ==
  fix_scheduler(start_user_background(s, newprio, allocated))

-----------------------------------------------------------------------------
(* Termination. *)

(* Fault: only zombies are unbound. *)
Unbind_ZombiesOnly(s, pid, child) ==
  IF s.parent[child] = pid /\ s.state[child] = PS_ZOMBIE
  THEN push_dead(s, child) ELSE s

(* Fault: zombies are orphaned like the others. *)
Unbind_OrphanAll(s, pid, child) ==
  IF s.parent[child] # pid THEN s ELSE [s EXCEPT !.parent[child] = NOPID]

(* Children of a process that ends: zombies are freed, others orphaned. *)
Unbind(s, pid, child) ==
  IF s.parent[child] # pid THEN s
  ELSE IF s.state[child] = PS_ZOMBIE THEN push_dead(s, child)
  ELSE [s EXCEPT !.parent[child] = NOPID]

UnbindTurns(s, pid) ==
  LET turn[i \in 0 .. NBPROC] ==
        IF i = 0 THEN s ELSE Unbind(turn[i - 1], pid, i - 1)
  IN turn

(* The call a process was suspended in disappears with its stack. *)
Forget(s, pid) ==
  [s EXCEPT !.call[pid] = "user", !.local[pid] = 0, !.message[pid] = Uninit]

(* Fault: a killed sleeper stays on the asleep list. *)
Detach_Asleep(s, pid) ==
  IF s.state[pid] \in WaitStates THEN queue_remove(s, pid)
  ELSE remove_runnable(s, pid)

(* Out of the list its state puts it in. *)
Detach(s, pid) ==
  IF s.state[pid] = PS_ASLEEP
  THEN [assert(s, s.asleep # <<>>) EXCEPT !.asleep = RemoveFirst(@, pid)]
  ELSE IF s.state[pid] \in WaitStates THEN queue_remove(s, pid)
  ELSE remove_runnable(s, pid)

(* Fault: the parent runs without the pid of the child. *)
TriggerParent_NoPid(s, pid) ==
  LET father == s.parent[pid] IN
  IF s.state[father] = PS_WAIT_CHILD /\ s.local[father] \in {NOPID, pid}
  THEN push_runnable(s, father) ELSE s

(* Fault: a parent waiting for any child is not triggered. *)
TriggerParent_NamedOnly(s, pid) ==
  LET father == s.parent[pid] IN
  IF s.state[father] = PS_WAIT_CHILD /\ s.local[father] = pid
  THEN push_runnable(s, father) ELSE s

(* Fault: the child is freed as soon as its parent is triggered. *)
TriggerParent_Free(s, pid) ==
  LET father == s.parent[pid] IN
  IF s.state[father] = PS_WAIT_CHILD /\ s.local[father] \in {NOPID, pid}
  THEN push_dead(push_runnable([s EXCEPT !.local[father] = pid], father), pid)
  ELSE s

(* A parent waiting for this child, or for any, gets its pid and runs. *)
TriggerParent(s, pid) ==
  LET father == s.parent[pid] IN
  IF s.state[father] = PS_WAIT_CHILD /\ s.local[father] \in {NOPID, pid}
  THEN push_runnable([s EXCEPT !.local[father] = pid], father)
  ELSE s

stop(s, pid, retval) ==
  LET detached == Detach(UnbindTurns(Forget(s, pid), pid)[NBPROC], pid)
      zombie == [detached EXCEPT !.state[pid] = PS_ZOMBIE, !.attr[pid] = retval]
  IN fix_scheduler(IF detached.parent[pid] = NOPID
                   THEN push_dead(detached, pid)
                   ELSE TriggerParent(zombie, pid))

-----------------------------------------------------------------------------
(* Blocking calls of scheduler.c. *)

wait_clock(s, clock) ==
  LET ps == s.active_process
      blocked == [remove_runnable(s, ps) EXCEPT
                    !.state[ps] = PS_ASLEEP, !.attr[ps] = clock]
  IN tick_scheduler(
       [blocked EXCEPT !.asleep = InsertAt(@, ClockSlot(@, s.attr, clock), ps)])

Children(s, pid) == {c \in Pids : s.parent[c] = pid /\ s.state[c] > PS_DEAD}
Zombies(s, pid) == {c \in Children(s, pid) : s.state[c] = PS_ZOMBIE}

(* Whether waitpid(pid) of process me finds something to wait for. *)
CanWait(s, me, pid) ==
  IF pid >= 0 THEN IS_VALID_PID(s, pid) /\ s.parent[pid] = me
  ELSE Children(s, me) # {}

(* The zombies waitpid(pid) may reap at once. *)
Reapable(s, me, pid) ==
  IF pid >= 0 THEN Zombies(s, me) \cap {pid} ELSE Zombies(s, me)

waitpid(s, pid) ==
  LET me == s.active_process
      ready == Reapable(s, me, pid)
  IN IF ready # {} THEN push_dead(s, Min(ready))
     ELSE tick_scheduler(
            [remove_runnable(s, me) EXCEPT
               !.state[me] = PS_WAIT_CHILD, !.attr[me] = 0,
               !.call[me] = "waitpid", !.local[me] = pid])

(* The rest of waitpid, once a child has written its pid in child_pid. *)
waitpid_resume(s) ==
  LET me == s.active_process
      child == s.local[me]
  IN IF IS_VALID_PID(s, child) /\ s.state[child] = PS_ZOMBIE
     THEN push_dead(Forget(s, me), child)
     ELSE panic(s)

-----------------------------------------------------------------------------
(* Interrupts and boot. *)

(* Fault: a count wider than unsigned long. *)
tic_PIT_NoWrap(s) ==
  LET ticked == [s EXCEPT !.pit_count = @ + 1]
  IN IF ticked.pit_count % SchedPeriod = 0 THEN tick_scheduler(ticked) ELSE ticked

tic_PIT(s) ==
  LET count == (s.pit_count + 1) % ClockSpan
      ticked == [s EXCEPT !.pit_count = count]
  IN IF count % SchedPeriod = 0 THEN tick_scheduler(ticked) ELSE ticked

setup_scheduler ==
  [state |-> [p \in Pids |-> IF p = IDLE THEN PS_RUNNING ELSE PS_DEAD],
   prio |-> [p \in Pids |-> 0],
   parent |-> [p \in Pids |-> IF p = IDLE THEN NOPID ELSE 0],
   attr |-> [p \in Pids |-> 0],
   call |-> [p \in Pids |-> "user"],
   local |-> [p \in Pids |-> 0],
   message |-> [p \in Pids |-> Uninit],
   active_process |-> IDLE,
   runnable |-> <<>>,
   dead |-> [i \in 1 .. NBPROC - 1 |-> i],
   asleep |-> <<>>,
   queues |-> [f \in Fids |-> FreeQueue],
   waiting |-> [w \in Fids \X WaitStates |-> <<>>],
   pit_count |-> 0,
   mode |-> "run"]

(* kernel_start: setup_interrupt_handlers creates the queue of the         *)
(* keyboard, then come the first user process and the idle loop.  The      *)
(* heap and the stacks are still whole.                                    *)
Boot ==
  start_user_background(pcreate(setup_scheduler, BUFFER_SIZE, TRUE), 1, TRUE)

Init ==
  /\ state = Boot.state /\ prio = Boot.prio /\ parent = Boot.parent
  /\ attr = Boot.attr /\ call = Boot.call
  /\ local = Boot.local /\ message = Boot.message
  /\ active_process = Boot.active_process
  /\ runnable = Boot.runnable /\ dead = Boot.dead /\ asleep = Boot.asleep
  /\ queues = Boot.queues /\ waiting = Boot.waiting
  /\ pit_count = Boot.pit_count /\ mode = Boot.mode

-----------------------------------------------------------------------------
(* Steps. *)

Interruptible == mode = "run" /\ call[active_process] = "user"
UserMode == Interruptible /\ active_process # IDLE

Chprio(pid, newprio) ==
  /\ UserMode
  /\ ALIVE_PID(K, pid)
  /\ newprio > 0 /\ newprio <= MAXPRIO
  /\ prio[pid] # newprio
  /\ Becomes(chprio(K, pid, newprio))

Start(newprio, allocated) ==
  /\ UserMode
  /\ dead # <<>>
  /\ allocated \/ StackAllocMayFail
  /\ Becomes(start_user(K, newprio, allocated))

Exit(retval) ==
  /\ UserMode
  /\ Becomes(stop(K, active_process, retval))

(* Fault: the check lets pid 0 through. *)
Kill_Idle(pid) ==
  /\ UserMode
  /\ pid >= 0 /\ ALIVE_PID(K, pid)
  /\ Becomes(stop(K, pid, 0))

Kill(pid) ==
  /\ UserMode
  /\ pid > 0 /\ ALIVE_PID(K, pid)
  /\ Becomes(stop(K, pid, 0))

WaitClock(clock) ==
  /\ UserMode
  /\ Becomes(wait_clock(K, clock))

Waitpid(pid) ==
  /\ UserMode
  /\ CanWait(K, active_process, pid)
  /\ Becomes(waitpid(K, pid))

WaitpidResume ==
  /\ mode = "run" /\ call[active_process] = "waitpid"
  /\ Becomes(waitpid_resume(K))

Pcreate(count, allocated) ==
  /\ UserMode
  /\ count > 0 /\ count <= MAXCOUNT
  /\ FreeFids(K) # {}
  /\ allocated \/ MemAllocMayFail
  /\ Becomes(pcreate(K, count, allocated))

Pdelete(fid) ==
  /\ UserMode /\ VALID_FID(K, fid)
  /\ Becomes(pdelete(K, fid))

Preset(fid) ==
  /\ UserMode /\ VALID_FID(K, fid)
  /\ Becomes(preset(K, fid))

Psend(fid, m) ==
  /\ UserMode /\ VALID_FID(K, fid)
  /\ Becomes(psend(K, fid, m))

Preceive(fid) ==
  /\ UserMode /\ VALID_FID(K, fid)
  /\ Becomes(preceive(K, fid))

(* A suspended psend or preceive returns its retval. *)
QueueCallResume ==
  /\ mode = "run" /\ call[active_process] \in {"psend", "preceive"}
  /\ Becomes(Forget(K, active_process))

TicPIT ==
  /\ Interruptible
  /\ Becomes(tic_PIT(K))

ProcessCall ==
  \/ \E pid \in Pids, newprio \in NewPrios : Chprio(pid, newprio)
  \/ \E newprio \in Prios, allocated \in BOOLEAN : Start(newprio, allocated)
  \/ \E retval \in RetVals : Exit(retval)
  \/ \E pid \in Pids : Kill(pid)
  \/ \E clock \in SleepClocks : WaitClock(clock)
  \/ \E pid \in WaitPids : Waitpid(pid)

QueueCall ==
  \/ \E count \in Counts, allocated \in BOOLEAN : Pcreate(count, allocated)
  \/ \E fid \in UserFids : Pdelete(fid)
  \/ \E fid \in UserFids : Preset(fid)
  \/ \E fid \in UserFids, m \in Messages : Psend(fid, m)
  \/ \E fid \in UserFids : Preceive(fid)

Next ==
  \/ ProcessCall
  \/ QueueCall
  \/ WaitpidResume
  \/ QueueCallResume
  \/ TicPIT

Spec == Init /\ [][Next]_vars

=============================================================================
